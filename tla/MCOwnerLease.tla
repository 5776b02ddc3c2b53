---------------------------- MODULE MCOwnerLease ----------------------------
(* Two replicas, one workspace; the device reconnects to the same replica,  *)
(* or to the other one.                                                     *)
EXTENDS OwnerLease, FiniteSets, TLC

CONSTANTS g1, g2, k1, c1, c2, c3

OneKey == [c \in Conns |-> k1]
TwoAndOne == (c1 :> g1) @@ (c2 :> g1) @@ (c3 :> g2)

\* Bound: the device connects twice.  No fairness asks it to connect.
TwoConnections == Cardinality({c \in Conns : pc[c] # "idle"}) <= 2

TwoConnectionsSpec ==
    LeaseInit /\ [][LeaseNext /\ TwoConnections']_leaseVars /\ LeaseFairness
=============================================================================
