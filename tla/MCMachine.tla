------------------------------ MODULE MCMachine ------------------------------
(***************************************************************************)
(* Tools of overlapping workers on one machine: three requests, of which   *)
(* two reach the runtime, share a journal (ToolExecution); and two engines *)
(* find two tasks a place to work in two repositories (TaskLease).  The    *)
(* two share no state, and a behaviour exercises one of them: "tool", or   *)
(* of TaskLease "tree", where the first task is in safe mode, and "live",  *)
(* where both are in live mode and nobody sets the limit.  A behaviour of  *)
(* "tree" ends when calls of two engines overlap, since NoWorkLost says    *)
(* nothing from then on.                                                   *)
(***************************************************************************)
EXTENDS MCToolExecution, TaskLease

CONSTANTS e1, e2, t1, t2, o1, o2, p1, p2

Asks(t, o, r, p) == [task |-> t, owner |-> o, repo |-> r, prov |-> p]
TwoTasks ==
    {Asks(t1, o1, r, p) : r \in Repos, p \in {"worktree", "checkout"}}
        \cup {Asks(t2, o2, p1, p) : p \in {"worktree", "checkout"}}

Anyone == Permutations(Workers) \cup Permutations(Engines)

VARIABLE part

\* The calls of Ensure and of ReconcileLimit under way.
Calls == {eng[e].q : e \in {f \in Engines : eng[f] # Idle}}

Safe ==
    /\ ~raced
    /\ bundle[t1] # Nothing => bundle[t1].prov = "worktree"
    /\ \A q \in Calls \ {Nothing} : q.task = t1 => q.prov = "worktree"
    /\ \A u \in using : u.task = t1 => u.prov = "worktree"
Live == \A q \in Calls : q # Nothing /\ q.prov = "checkout"

MachineInit ==
    /\ part \in {"tool", "tree", "live"}
    /\ Init
    /\ TaskLeaseInit
    /\ part = "tool" => order = <<>>
    /\ part = "tree" => Safe
    /\ part = "live" => \A t \in Trees : FALSE

MachineNext ==
    \/ part = "tool" /\ Next /\ TwoRequests' /\ UNCHANGED <<workVars, part>>
    \/ part = "tree" /\ TaskLeaseNext /\ Safe' /\ UNCHANGED <<vars, part>>
    \/ part = "live" /\ TaskLeaseNext /\ Live' /\ UNCHANGED <<vars, part>>

MachineSpec == MachineInit /\ [][MachineNext]_<<vars, workVars, part>>
=============================================================================
