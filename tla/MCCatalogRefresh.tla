-------------------------- MODULE MCCatalogRefresh --------------------------
(* Small instances of CatalogRefresh for TLC: a content source, two that   *)
(* share a provider, and a catalog entry.                                  *)
EXTENDS CatalogRefresh

MCSources == {"content", "first", "second", "entry"}
MCLane == [s \in MCSources |-> CASE s = "content" -> "content"
                                 [] s = "entry" -> "catalog"
                                 [] OTHER -> "capability"]
MCProvider == [s \in MCSources |-> IF s \in {"first", "second"} THEN "shared" ELSE s]

(* The last catalog has nothing but archived sources.                      *)
MCCatalogs == {{"content", "entry"}, {"first", "second"}, {}}

(* A worker knows the frozen definitions, one that was changed, or others. *)
MCDrifts == {[s \in MCSources |-> "same"],
             [s \in MCSources |-> IF s = "second" THEN "changed" ELSE "unknown"]}
=============================================================================
