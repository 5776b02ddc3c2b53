--------------------------- MODULE MCCallRouting ---------------------------
(* Small instances of CallRouting: one call, two replicas, a workspace with *)
(* a connection to each; another workspace may share a replica with it.     *)
EXTENDS CallRouting, TLC

CONSTANTS g1, g2, k1, k2, c1, c2, c3, r1

OneKey == [c \in Conns |-> k1]
TwoHomes == (c1 :> g1) @@ (c2 :> g2)
CallsK1 == [r \in Calls |-> k1]
ThreeKeys == (c1 :> k1) @@ (c2 :> k1) @@ (c3 :> k2)
ThreeHomes == (c1 :> g1) @@ (c2 :> g2) @@ (c3 :> g1)
FromG2 == [r \in Calls |-> g2]

\* Bound: the other workspace is connected before the call starts, and keeps its
\* connection unless its replica dies.
OtherStays ==
    /\ pc[c3] \in {"idle", "installed", "serving", "gone"} /\ ~claiming[c3]
    /\ pc[c3] = "serving" => sock[c3] /\ peer[c3] /\ owner[k2] = g1
    /\ cpc[r1] # "idle" \/ pc[c1] # "idle" \/ pc[c2] # "idle" => pc[c3] \in {"serving", "gone"}

OtherWorkspaceSpec == Init /\ [][Next /\ OtherStays']_vars /\ Fairness
=============================================================================
