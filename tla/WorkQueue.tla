----------------------------- MODULE WorkQueue -----------------------------
(***************************************************************************)
(* What the durable outbox promises: a queue whose items are taken under   *)
(* claims that lapse.  An item is taken again only when nobody counts on   *)
(* the claim it is under, is put back at most Limit - 1 times, and once    *)
(* settled stays so until it is forgotten.  Outbox implements it.          *)
(***************************************************************************)
EXTENDS Naturals

CONSTANTS Items, Workers, Limit

VARIABLE job    \* of each item: its stage, the claims it has had, the worker
                \* it is claimed by, and the workers that count on the claim

Absent == [stage |-> "absent", claims |-> 0, by |-> {}, sure |-> {}]
Idle(stage, n) == [stage |-> stage, claims |-> n, by |-> {}, sure |-> {}]
Claimed(w, n) == [stage |-> "processing", claims |-> n, by |-> {w}, sure |-> {w}]

QueueInit == job = [i \in Items |-> Absent]

Becomes(i, new) == job' = [job EXCEPT ![i] = new]
Busy(i) == job[i].stage = "processing"

Add(i) == job[i] = Absent /\ Becomes(i, Idle("pending", 0))

Free(i) == job[i].stage = "pending" \/ (Busy(i) /\ job[i].sure = {})
OneMore(n) == IF n < Limit THEN n + 1 ELSE Limit

Take(w, S) ==
    /\ \A i \in S : Free(i)
    /\ job' = [i \in Items |-> IF i \in S THEN Claimed(w, OneMore(job[i].claims)) ELSE job[i]]

Lapse(S) ==
    /\ \A i \in S : Busy(i)
    /\ job' = [i \in Items |-> IF i \in S THEN [job[i] EXCEPT !.sure = {}] ELSE job[i]]

Finish(i) == Busy(i) /\ Becomes(i, Idle("processed", job[i].claims))
PutBack(i) == Busy(i) /\ job[i].claims < Limit /\ Becomes(i, Idle("pending", job[i].claims))
Bury(i) == Busy(i) /\ job[i].claims >= Limit /\ Becomes(i, Idle("dead", job[i].claims))
Forget(i) == job[i].stage \in {"processed", "dead"} /\ Becomes(i, Absent)

QueueNext ==
    \/ \E i \in Items : Add(i) \/ Finish(i) \/ PutBack(i) \/ Bury(i) \/ Forget(i)
    \/ \E S \in SUBSET Items : Lapse(S) \/ \E w \in Workers : Take(w, S)

QueueSpec == QueueInit /\ [][QueueNext]_job
=============================================================================
