------------------------- MODULE MCSourceIngestion -------------------------
(* A small instance of SourceIngestion for TLC: three calls for one source.*)
(* Two sources share nothing that a property looks at: the rows of another *)
(* one are only read for the duplicate candidates.                         *)
EXTENDS SourceIngestion

CONSTANTS sa, e1, e2, u1, u2

I(e, u, c) == [ext |-> e, url |-> u, content |-> c]

(* Items that change, move to another URL, trade places, come back under   *)
(* another external id, and come twice in one response.                    *)
MCResponses ==
  { <<I(e1, u1, 1), I(e2, u2, 1)>>, <<I(e1, u2, 1), I(e2, u1, 1)>>,
    <<I(e2, u1, 2)>>, <<I(e1, u2, 2)>>, <<I(e1, u1, 2), I(e1, u2, 1)>> }
MCFetchers == 1 .. 3
MCSourceOf == [f \in MCFetchers |-> sa]

(* The calls are alike: they are numbered as they start.                   *)
MCInTurn == \A f, g \in Fetchers : f < g /\ stage[g] # "idle" => stage[f] # "idle"
=============================================================================
