------------------------------- MODULE Outbox -------------------------------
(***************************************************************************)
(* The durable outbox of the cloud store (internal/cloud/outbox.go): rows  *)
(* of codelocal_durable_outbox are claimed in batches under a lease, run   *)
(* one after the other, and marked processed, put back with a delay, or    *)
(* declared dead.  Every replica runs one worker over the same table.      *)
(*                                                                         *)
(* Time passes in ticks, and every deadline is a countdown, so that no     *)
(* bound on time is needed.  One statement of SQL is one step.             *)
(***************************************************************************)
EXTENDS Naturals, FiniteSets

CONSTANTS
    Items,          \* rows, by deduplication key
    Workers,        \* replicas, by outboxWorkerID
    BatchSize,      \* rows of one claim
    Lease,          \* ticks a claim is good for
    ProcMax,        \* ticks an item may take: its context's timeout
    MaxAttempts,    \* attempts after which a failure is final
    Base, Maximum,  \* ticks: the first and the longest delay of a retry
    MaxFaults,      \* bound: failed SQL writes and crashes
    MaxPurges,      \* bound: deleted rows
    None

ASSUME OutboxAssumption ==
    /\ IsFiniteSet(Items)
    /\ {BatchSize, Lease, ProcMax, MaxAttempts, Base} \subseteq Nat \ {0}
    /\ Maximum \in Nat /\ Base <= Maximum
    /\ {MaxFaults, MaxPurges} \subseteq Nat
    /\ None \notin Items \cup Workers

VARIABLES
    status,     \* the row's status; "absent" before the row is inserted
    attempts,   \* its attempts, counted up to MaxAttempts
    avail,      \* ticks until available_at
    lease,      \* ticks until lease_until
    owner,      \* its worker_id
    batch,      \* the items a worker claimed and has not begun
    cur,        \* the item it is processing
    left,       \* ticks until that item's context ends
    tries,      \* attempts of the claimed items, as RETURNING gave them
    hold,       \* ticks a worker may still count on its claim of an item
    faults, purges

rowVars == <<status, attempts, avail, lease, owner>>
workerVars == <<batch, cur, left, tries, hold>>
vars == <<rowVars, workerVars, faults, purges>>

OutboxTypeOK ==
    /\ status \in [Items -> {"absent", "pending", "processing", "processed", "dead"}]
    /\ attempts \in [Items -> 0..MaxAttempts]
    /\ avail \in [Items -> 0..Maximum]
    /\ lease \in [Items -> 0..Lease]
    /\ owner \in [Items -> Workers \cup {None}]
    /\ batch \in [Workers -> SUBSET Items]
    /\ cur \in [Workers -> Items \cup {None}]
    /\ left \in [Workers -> 0..ProcMax]
    /\ tries \in [Workers -> [Items -> 0..MaxAttempts]]
    /\ hold \in [Workers -> [Items -> 0..Lease]]
    /\ faults \in 0..MaxFaults
    /\ purges \in 0..MaxPurges

Init ==
    /\ status = [i \in Items |-> "absent"]
    /\ attempts = [i \in Items |-> 0]
    /\ avail = [i \in Items |-> 0]
    /\ lease = [i \in Items |-> 0]
    /\ owner = [i \in Items |-> None]
    /\ batch = [w \in Workers |-> {}]
    /\ cur = [w \in Workers |-> None]
    /\ left = [w \in Workers |-> 0]
    /\ tries = [w \in Workers |-> [i \in Items |-> 0]]
    /\ hold = [w \in Workers |-> [i \in Items |-> 0]]
    /\ faults = 0
    /\ purges = 0

Least(a, b) == IF a <= b THEN a ELSE b
Less(n) == IF n = 0 THEN 0 ELSE n - 1

-----------------------------------------------------------------------------
\* Mutant of Enqueue: the conflict clause overwrites a settled row.
EnqueueAgain(i) ==
    /\ status[i] \in {"absent", "processed", "dead"}
    /\ status' = [status EXCEPT ![i] = "pending"]
    /\ UNCHANGED <<attempts, avail, lease, owner, workerVars, faults, purges>>

\* EnqueueExperience and EnqueueExplicitMemoryPromotion: an item whose key is
\* in the table is left as it is.
Enqueue(i) ==
    /\ status[i] = "absent"
    /\ status' = [status EXCEPT ![i] = "pending"]
    /\ UNCHANGED <<attempts, avail, lease, owner, workerVars, faults, purges>>

\* Mutant of Claimable: an expired lease does not free the row.
ClaimablePending == {i \in Items : status[i] = "pending" /\ avail[i] = 0}

\* The candidates of claimDurableOutboxSQL.
Claimable ==
    {i \in Items : /\ status[i] \in {"pending", "processing"}
                   /\ avail[i] = 0
                   /\ status[i] = "pending" \/ lease[i] = 0}

\* claimDurableOutbox of an idle worker: one lease for the whole batch.  Rows
\* locked by another statement are skipped, and the order of those returned is
\* not specified.
Claim(w) ==
    /\ batch[w] = {} /\ cur[w] = None
    /\ \E S \in SUBSET Claimable :
          LET next == [i \in Items |-> IF i \in S THEN Least(attempts[i] + 1, MaxAttempts)
                                       ELSE attempts[i]] IN
          /\ S # {}
          /\ Cardinality(S) <= BatchSize
          /\ status' = [i \in Items |-> IF i \in S THEN "processing" ELSE status[i]]
          /\ attempts' = next
          /\ lease' = [i \in Items |-> IF i \in S THEN Lease ELSE lease[i]]
          /\ owner' = [i \in Items |-> IF i \in S THEN w ELSE owner[i]]
          /\ batch' = [batch EXCEPT ![w] = S]
          /\ tries' = [tries EXCEPT ![w] = next]
          /\ hold' = [hold EXCEPT ![w] = [i \in Items |-> IF i \in S THEN Lease ELSE 0]]
    /\ UNCHANGED <<avail, cur, left, faults, purges>>

\* The next item of the batch, under a context of its own.
Begin(w, i) ==
    /\ cur[w] = None
    /\ i \in batch[w]
    /\ cur' = [cur EXCEPT ![w] = i]
    /\ batch' = [batch EXCEPT ![w] = @ \ {i}]
    /\ left' = [left EXCEPT ![w] = ProcMax]
    /\ UNCHANGED <<rowVars, tries, hold, faults, purges>>

\* The worker is done with its item, whatever became of the row.
Leave(w) ==
    /\ cur' = [cur EXCEPT ![w] = None]
    /\ left' = [left EXCEPT ![w] = 0]
    /\ hold' = [hold EXCEPT ![w][cur[w]] = 0]
    /\ UNCHANGED <<batch, tries>>

\* The condition of both updates.
Mine(w, i) == status[i] = "processing" /\ owner[i] = w

\* processDurableOutboxItem succeeds and markDurableOutboxProcessed runs; the
\* row of a claim that was lost is left alone.
Succeed(w) ==
    LET i == cur[w] IN
    /\ i # None
    /\ status' = IF Mine(w, i) THEN [status EXCEPT ![i] = "processed"] ELSE status
    /\ owner' = IF Mine(w, i) THEN [owner EXCEPT ![i] = None] ELSE owner
    /\ lease' = IF Mine(w, i) THEN [lease EXCEPT ![i] = 0] ELSE lease
    /\ Leave(w)
    /\ UNCHANGED <<attempts, avail, faults, purges>>

\* durableOutboxBackoff: doubled from the base for every attempt after the
\* first, and never above the maximum.
Doubled[n \in 1..MaxAttempts] ==
    IF n = 1 THEN Base
    ELSE LET d == Doubled[n - 1] IN
         IF d >= Maximum THEN d ELSE IF 2 * d > Maximum THEN Maximum ELSE 2 * d

\* Mutant of Backoff: one doubling too many.
BackoffOneMore(n) == Doubled[IF n < 1 THEN 1 ELSE Least(n + 1, MaxAttempts)]

Backoff(n) == Doubled[IF n < 1 THEN 1 ELSE n]

\* Mutant of Fail: the update does not ask whose claim the row has.
FailUnfenced(w) ==
    LET i == cur[w]  n == tries[w][i] IN
    /\ i # None
    /\ status' = [status EXCEPT ![i] = IF n >= MaxAttempts THEN "dead" ELSE "pending"]
    /\ avail' = IF n >= MaxAttempts THEN avail ELSE [avail EXCEPT ![i] = Backoff(n)]
    /\ owner' = [owner EXCEPT ![i] = None]
    /\ lease' = [lease EXCEPT ![i] = 0]
    /\ Leave(w)
    /\ UNCHANGED <<attempts, faults, purges>>

\* processDurableOutboxItem fails or its context ends, and
\* retryDurableOutbox runs.
Fail(w) ==
    LET i == cur[w]  n == tries[w][i]  dead == n >= MaxAttempts IN
    /\ i # None
    /\ \/ /\ Mine(w, i)
          /\ status' = [status EXCEPT ![i] = IF dead THEN "dead" ELSE "pending"]
          /\ avail' = IF dead THEN avail ELSE [avail EXCEPT ![i] = Backoff(n)]
          /\ owner' = [owner EXCEPT ![i] = None]
          /\ lease' = [lease EXCEPT ![i] = 0]
       \/ /\ ~Mine(w, i)
          /\ UNCHANGED <<status, avail, owner, lease>>
    /\ Leave(w)
    /\ UNCHANGED <<attempts, faults, purges>>

\* The update after the item fails on the database: "lease will replay item".
WriteFails(w) ==
    /\ cur[w] # None
    /\ faults < MaxFaults
    /\ faults' = faults + 1
    /\ Leave(w)
    /\ UNCHANGED <<rowVars, purges>>

\* A replica dies, or shuts down and cancels what it was doing; it comes back
\* with nothing in hand.
Crash(w) ==
    /\ batch[w] # {} \/ cur[w] # None
    /\ faults < MaxFaults
    /\ faults' = faults + 1
    /\ batch' = [batch EXCEPT ![w] = {}]
    /\ cur' = [cur EXCEPT ![w] = None]
    /\ left' = [left EXCEPT ![w] = 0]
    /\ hold' = [hold EXCEPT ![w] = [i \in Items |-> 0]]
    /\ UNCHANGED <<rowVars, tries, purges>>

\* The retention pass deletes a settled row days after it was settled: no
\* worker still has it in hand.  Its key may be enqueued again.
Purge(i) ==
    /\ status[i] \in {"processed", "dead"}
    /\ \A w \in Workers : cur[w] # i /\ i \notin batch[w]
    /\ purges < MaxPurges
    /\ purges' = purges + 1
    /\ status' = [status EXCEPT ![i] = "absent"]
    /\ attempts' = [attempts EXCEPT ![i] = 0]
    /\ avail' = [avail EXCEPT ![i] = 0]
    /\ UNCHANGED <<lease, owner, workerVars, faults>>

\* A worker goes from item to item at once, and from an item when its context
\* ends.
Tick ==
    /\ \A w \in Workers : IF cur[w] = None THEN batch[w] = {} ELSE left[w] > 0
    /\ avail' = [i \in Items |-> Less(avail[i])]
    /\ lease' = [i \in Items |-> Less(lease[i])]
    /\ left' = [w \in Workers |-> Less(left[w])]
    /\ hold' = [w \in Workers |-> [i \in Items |-> Less(hold[w][i])]]
    /\ UNCHANGED <<status, attempts, owner, batch, cur, tries, faults, purges>>

Step(w) ==
    \/ Claim(w) \/ Succeed(w) \/ Fail(w)
    \/ \E i \in Items : Begin(w, i)

Next ==
    \/ \E i \in Items : Enqueue(i) \/ Purge(i)
    \/ \E w \in Workers : Step(w) \/ WriteFails(w) \/ Crash(w)
    \/ Tick

Spec == Init /\ [][Next]_vars

\* The ticker makes an idle worker claim, a claimed item is run, its context
\* ends it, and time passes.
FairSpec ==
    /\ Spec
    /\ WF_vars(Tick)
    /\ \A w \in Workers : WF_vars(Step(w))

-----------------------------------------------------------------------------
(* Properties.                                                              *)

\* No two replicas count on a claim of the same item at the same time: a
\* replica that lost its lease cannot, by finishing late, hand the row to a
\* third while the second is at work.
LeaseExclusive ==
    \A i \in Items, v, w \in Workers : hold[v][i] > 0 /\ hold[w][i] > 0 => v = w

\* "The worker gives each item up to 10s to process. Keep the lease safely
\* above that bound": no item is processed by two replicas at once.
Exclusive ==
    \A v, w \in Workers : cur[v] # None /\ cur[v] = cur[w] => v = w

\* A row that was settled stays as it was until it is deleted: late workers,
\* replays and repeated enqueues do not bring it back.
Final ==
    [][\A i \in Items : status[i] \in {"processed", "dead"}
                         => status'[i] \in {status[i], "absent"}]_vars

\* An item as WorkQueue sees it.
JobOf(i) ==
    [stage |-> status[i],
     claims |-> attempts[i],
     by |-> IF status[i] = "processing" THEN {owner[i]} ELSE {},
     sure |-> {w \in Workers : hold[w][i] > 0}]

Queue == INSTANCE WorkQueue WITH job <- [i \in Items |-> JobOf(i)], Limit <- MaxAttempts

\* The outbox implements a queue of lapsing claims: whatever order claims, slow
\* batches, late updates, replays, crashes, repeated enqueues and purges come
\* in, a row is claimed again only when no replica counts on its claim, is put
\* back or declared dead by the number of claims it has had and never under
\* another replica that counts on it, and does not change once it is settled.
LapsingClaims == Queue!QueueSpec

\* Every item in the table is settled in the end: claims lost to crashes and
\* failed updates are replayed, and failures are finite.
Settles == \A i \in Items : status[i] = "pending" ~> status[i] \in {"processed", "dead"}

\* The powers of two.
TwoTo[n \in 0..MaxAttempts] == IF n = 0 THEN 1 ELSE 2 * TwoTo[n - 1]

\* A row goes back to "pending" with the base delay doubled for every claim
\* the row has had after its first, cut off at the maximum: the attempts the
\* worker took with its claim are those of the row, whoever else had it.
RetryDelay ==
    [][\A i \in Items : status[i] = "processing" /\ status'[i] = "pending"
          => avail'[i] = Least(Base * TwoTo[attempts[i] - 1], Maximum)]_vars
=============================================================================
