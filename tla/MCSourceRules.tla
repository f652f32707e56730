--------------------------- MODULE MCSourceRules ---------------------------
(* The definitions SourceRules is checked on: as the schema of a source    *)
(* allows them, of one method and of two.                                  *)
EXTENDS SourceRules

Method(kind, host, approval, auth, secret) ==
  [kind |-> kind, host |-> host, approval |-> approval, auth |-> auth, secret |-> secret]
MCMethods ==
  {Method("rss", "site", FALSE, k, FALSE) : k \in {{}, {"key"}, {"key", "id"}}}
  \cup {Method("rss", "site", TRUE, {}, FALSE), Method("rss", "site", FALSE, {}, TRUE)}
  \cup {Method("html", "site", TRUE, {}, FALSE), Method("rss", "keyed", FALSE, {}, FALSE)}
  \cup {Method("timeline", h, FALSE, {}, FALSE) : h \in {"site", "keyed"}}
  \cup {Method("api", h, FALSE, k, FALSE) : h \in {"site", "audited", "keyed"}, k \in {{}, {"key"}}}
MCMethodLists ==
  {<<m>> : m \in MCMethods} \cup {<<m, n>> : m \in MCMethods, n \in MCMethods}
MCStates ==
  [availability : {"ready", "requires_credentials", "requires_approval", "manual_only"},
   coverage : {"direct", "indirect", "catalog_only"}, state : {<<"active", FALSE, TRUE>>}]
  \cup [availability : {"ready", "requires_credentials"}, coverage : {"direct"},
        state : {<<"paused", FALSE, TRUE>>, <<"active", TRUE, TRUE>>, <<"active", FALSE, FALSE>>}]
MCDefinitions ==
  {[availability |-> s.availability, coverage |-> s.coverage, methods |-> l,
    status |-> s.state[1], blocked |-> s.state[2], enabled |-> s.state[3]] :
     s \in MCStates, l \in MCMethodLists}
MCCredentials == {"key", "id"}
=============================================================================
