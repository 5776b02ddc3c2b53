---------------------------- MODULE OutboxProofs ----------------------------
(***************************************************************************)
(* What the lease and the fenced updates of the outbox guarantee, for any  *)
(* rows, replicas, batch sizes and lease lengths.                          *)
(***************************************************************************)
EXTENDS Outbox, WellFoundedInduction, TLAPS

Statuses == {"absent", "pending", "processing", "processed", "dead"}

\* The parts of the type invariant the argument uses.
RowType ==
    /\ status \in [Items -> Statuses]
    /\ lease \in [Items -> 0..Lease]
    /\ owner \in [Items -> Workers \cup {None}]
    /\ cur \in [Workers -> Items \cup {None}]
    /\ hold \in [Workers -> [Items -> 0..Lease]]

\* While a replica counts on its claim the row says so, and for as long: this
\* is what makes LeaseExclusive inductive.
Backed ==
    \A w \in Workers, i \in Items :
        hold[w][i] > 0 => status[i] = "processing" /\ owner[i] = w /\ lease[i] = hold[w][i]

ClaimInv == RowType /\ Backed

LEMMA LessType == \A n \in 0..Lease : Less(n) \in 0..Lease
BY OutboxAssumption DEF Less

\* A candidate of a claim is a row nobody counts on.
LEMMA ClaimableIsFree ==
    ASSUME ClaimInv, NEW i \in Claimable, NEW w \in Workers
    PROVE  i \in Items /\ hold[w][i] = 0
<1>1. i \in Items /\ (status[i] = "pending" \/ lease[i] = 0)
  BY DEF Claimable
<1>2. hold[w][i] \in 0..Lease
  BY <1>1 DEF ClaimInv, RowType
<1>3. hold[w][i] > 0 => FALSE
  BY <1>1 DEF ClaimInv, Backed
<1> QED
  BY <1>1, <1>2, <1>3, OutboxAssumption

LEMMA ClaimInvInit == Init => ClaimInv
BY OutboxAssumption DEF Init, ClaimInv, RowType, Backed, Statuses

LEMMA ClaimKeeps ==
    ASSUME ClaimInv, NEW w \in Workers, Claim(w)
    PROVE  ClaimInv'
<1>1. PICK S \in SUBSET Claimable :
        /\ status' = [i \in Items |-> IF i \in S THEN "processing" ELSE status[i]]
        /\ lease' = [i \in Items |-> IF i \in S THEN Lease ELSE lease[i]]
        /\ owner' = [i \in Items |-> IF i \in S THEN w ELSE owner[i]]
        /\ hold' = [hold EXCEPT ![w] = [i \in Items |-> IF i \in S THEN Lease ELSE 0]]
        /\ cur' = cur
  BY DEF Claim
<1>2. RowType'
  BY <1>1, OutboxAssumption DEF ClaimInv, RowType, Statuses
<1>3. ASSUME NEW v \in Workers, NEW i \in Items, hold'[v][i] > 0
      PROVE  status'[i] = "processing" /\ owner'[i] = v /\ lease'[i] = hold'[v][i]
  <2>1. CASE i \in S
    <3>1. hold[v][i] = 0
      BY <2>1, ClaimableIsFree
    <3>2. v = w
      BY <1>1, <1>3, <3>1, OutboxAssumption DEF ClaimInv, RowType
    <3> QED
      BY <1>1, <2>1, <3>2 DEF ClaimInv, RowType
  <2>2. CASE i \notin S
    <3>1. v # w
      BY <1>1, <1>3, <2>2, OutboxAssumption DEF ClaimInv, RowType
    <3>2. hold'[v][i] = hold[v][i]
      BY <1>1, <3>1 DEF ClaimInv, RowType
    <3> QED
      BY <1>1, <1>3, <2>2, <3>2 DEF ClaimInv, Backed, RowType
  <2> QED BY <2>1, <2>2
<1> QED
  BY <1>2, <1>3 DEF ClaimInv, Backed

\* A worker that is done with its item gives up its claim; the row changed only
\* if the claim was its own, and then nobody else counted on it.
LEMMA LeaveKeeps ==
    ASSUME ClaimInv, NEW w \in Workers, cur[w] # None, Leave(w), RowType',
           \A i \in Items : i # cur[w] \/ ~Mine(w, i) =>
               status'[i] = status[i] /\ owner'[i] = owner[i] /\ lease'[i] = lease[i]
    PROVE  ClaimInv'
<1>1. ASSUME NEW v \in Workers, NEW i \in Items, hold'[v][i] > 0
      PROVE  status'[i] = "processing" /\ owner'[i] = v /\ lease'[i] = hold'[v][i]
  <2>1. cur[w] \in Items
    BY DEF ClaimInv, RowType
  <2>2. ~(v = w /\ i = cur[w])
    BY <1>1, <2>1, OutboxAssumption DEF Leave, ClaimInv, RowType
  <2>3. hold'[v][i] = hold[v][i]
    BY <2>1, <2>2 DEF Leave, ClaimInv, RowType
  <2>4. status[i] = "processing" /\ owner[i] = v /\ lease[i] = hold[v][i]
    BY <1>1, <2>3 DEF ClaimInv, Backed
  <2>5. i # cur[w] \/ ~Mine(w, i)
    BY <2>2, <2>4 DEF Mine
  <2> QED BY <2>3, <2>4, <2>5
<1> QED
  BY <1>1 DEF ClaimInv, Backed

LEMMA TickKeeps ==
    ASSUME ClaimInv, Tick
    PROVE  ClaimInv'
<1>1. RowType'
  BY LessType DEF Tick, ClaimInv, RowType
<1>2. ASSUME NEW v \in Workers, NEW i \in Items, hold'[v][i] > 0
      PROVE  status'[i] = "processing" /\ owner'[i] = v /\ lease'[i] = hold'[v][i]
  <2>1. hold'[v][i] = Less(hold[v][i]) /\ lease'[i] = Less(lease[i])
    BY DEF Tick, ClaimInv, RowType
  <2>2. hold[v][i] > 0
    BY <1>2, <2>1, OutboxAssumption DEF Less, ClaimInv, RowType
  <2> QED
    BY <2>1, <2>2 DEF ClaimInv, Backed, Tick
<1> QED
  BY <1>1, <1>2 DEF ClaimInv, Backed

LEMMA ClaimInvStep == ClaimInv /\ [Next]_vars => ClaimInv'
<1> SUFFICES ASSUME ClaimInv, [Next]_vars PROVE ClaimInv'
  OBVIOUS
<1>1. ASSUME NEW i \in Items, Enqueue(i) PROVE ClaimInv'
  BY <1>1, OutboxAssumption DEF Enqueue, workerVars, ClaimInv, RowType, Backed, Statuses
<1>2. ASSUME NEW i \in Items, Purge(i) PROVE ClaimInv'
  BY <1>2, OutboxAssumption DEF Purge, workerVars, ClaimInv, RowType, Backed, Statuses
<1>3. ASSUME NEW w \in Workers, Claim(w) PROVE ClaimInv'
  BY <1>3, ClaimKeeps
<1>4. ASSUME NEW w \in Workers, NEW i \in Items, Begin(w, i) PROVE ClaimInv'
  BY <1>4 DEF Begin, rowVars, ClaimInv, RowType, Backed
<1>5. ASSUME NEW w \in Workers, Succeed(w) PROVE ClaimInv'
  <2>1. RowType'
    BY <1>5, OutboxAssumption DEF Succeed, Leave, ClaimInv, RowType, Statuses
  <2>2. \A i \in Items : i # cur[w] \/ ~Mine(w, i) =>
           status'[i] = status[i] /\ owner'[i] = owner[i] /\ lease'[i] = lease[i]
    BY <1>5 DEF Succeed, ClaimInv, RowType
  <2> QED BY <1>5, <2>1, <2>2, LeaveKeeps DEF Succeed
<1>6. ASSUME NEW w \in Workers, Fail(w) PROVE ClaimInv'
  <2>3. cur[w] \in Items
    BY <1>6 DEF Fail, ClaimInv, RowType
  <2>4. status' \in [Items -> Statuses]
    BY <1>6, <2>3 DEF Fail, ClaimInv, RowType, Statuses
  <2>5. lease' \in [Items -> 0..Lease] /\ owner' \in [Items -> Workers \cup {None}]
    BY <1>6, <2>3, OutboxAssumption DEF Fail, ClaimInv, RowType
  <2>6. Leave(w)
    BY <1>6 DEF Fail
  <2>7. cur' \in [Workers -> Items \cup {None}] /\ hold' \in [Workers -> [Items -> 0..Lease]]
    BY <2>3, <2>6, OutboxAssumption DEF Leave, ClaimInv, RowType
  <2>1. RowType'
    BY <2>4, <2>5, <2>7 DEF RowType
  <2>2. \A i \in Items : i # cur[w] \/ ~Mine(w, i) =>
           status'[i] = status[i] /\ owner'[i] = owner[i] /\ lease'[i] = lease[i]
    BY <1>6 DEF Fail, ClaimInv, RowType
  <2> QED BY <1>6, <2>1, <2>2, LeaveKeeps DEF Fail
<1>7. ASSUME NEW w \in Workers, WriteFails(w) PROVE ClaimInv'
  <2>1. RowType'
    BY <1>7, OutboxAssumption DEF WriteFails, Leave, rowVars, ClaimInv, RowType
  <2> QED BY <1>7, <2>1, LeaveKeeps DEF WriteFails, rowVars
<1>8. ASSUME NEW w \in Workers, Crash(w) PROVE ClaimInv'
  BY <1>8, OutboxAssumption DEF Crash, rowVars, ClaimInv, RowType, Backed
<1>9. CASE Tick
  BY <1>9, TickKeeps
<1>10. CASE UNCHANGED vars
  BY <1>10 DEF vars, rowVars, workerVars, ClaimInv, RowType, Backed
<1> QED
  BY <1>1, <1>2, <1>3, <1>4, <1>5, <1>6, <1>7, <1>8, <1>9, <1>10 DEF Next, Step

\* No two replicas count on a claim of one row at a time: the lease of
\* claimDurableOutbox and the worker_id fence of the two updates see to it
\* whatever crashes, slow batches and failed writes do.
THEOREM LeaseExclusiveHolds == Spec => []LeaseExclusive
<1>1. ClaimInv => LeaseExclusive
  BY DEF ClaimInv, Backed, LeaseExclusive
<1> QED
  BY <1>1, ClaimInvInit, ClaimInvStep, PTL DEF Spec

\* A settled row stays as it was until it is deleted: the conflict clause of
\* the inserts, the candidates of a claim and the fence of the updates.
THEOREM FinalHolds == Spec => Final
<1> DEFINE Settled == {"processed", "dead"}
           Stays(i) == status[i] \in Settled => status'[i] \in {status[i], "absent"}
<1>1. ASSUME ClaimInv, [Next]_vars, NEW i \in Items PROVE Stays(i)
  <2>1. ASSUME NEW j \in Items, Enqueue(j) \/ Purge(j) PROVE Stays(i)
    BY <1>1, <2>1 DEF Enqueue, Purge, ClaimInv, RowType
  <2>2. ASSUME NEW w \in Workers, Claim(w) PROVE Stays(i)
    BY <1>1, <2>2 DEF Claim, Claimable
  <2>3. ASSUME NEW w \in Workers, Succeed(w) \/ Fail(w) PROVE Stays(i)
    BY <1>1, <2>3 DEF Succeed, Fail, Mine, ClaimInv, RowType
  <2>4. ASSUME NEW w \in Workers,
               WriteFails(w) \/ Crash(w) \/ \E j \in Items : Begin(w, j)
        PROVE  Stays(i)
    BY <2>4 DEF WriteFails, Crash, Begin, rowVars
  <2>5. CASE Tick \/ UNCHANGED vars
    BY <2>5 DEF Tick, vars, rowVars
  <2> QED
    BY <1>1, <2>1, <2>2, <2>3, <2>4, <2>5 DEF Next, Step
<1>2. ClaimInv /\ [Next]_vars => [\A i \in Items : Stays(i)]_vars
  BY <1>1
<1> QED
  BY <1>2, ClaimInvInit, ClaimInvStep, PTL DEF Spec, Final

-----------------------------------------------------------------------------
(* The delay of a retry.                                                    *)

\* Every set of natural numbers that is not empty has a least element.
LEMMA LeastElement ==
    ASSUME NEW T \in SUBSET Nat, T # {}
    PROVE  \E x \in T : \A y \in T : x <= y
<1>1. \E x \in T : \A y \in T : ~(<<y, x>> \in OpToRel(<, Nat))
  BY NatLessThanWellFounded, WFMin, Zenon
<1>2. \A x, y \in T : y < x => <<y, x>> \in OpToRel(<, Nat)
  BY Zenon DEF OpToRel
<1>3. \E x \in T : \A y \in T : ~(y < x)
  BY <1>1, <1>2, Zenon
<1> QED BY <1>3

\* There are powers of two: a least number without one would have one, twice
\* that of the number before it.
LEMMA PowersExist ==
    \E f \in [0..MaxAttempts -> Nat \ {0}] :
        f[0] = 1 /\ \A k \in 1..MaxAttempts : f[k] = 2 * f[k - 1]
<1> DEFINE Has(m) == \E f \in [0..m -> Nat \ {0}] : f[0] = 1 /\ \A k \in 1..m : f[k] = 2 * f[k - 1]
           T == {m \in 0..MaxAttempts : ~Has(m)}
<1>1. MaxAttempts \in Nat
  BY OutboxAssumption
<1>2. T = {}
  <2>1. SUFFICES ASSUME T # {} PROVE FALSE
    OBVIOUS
  <2>2. PICK x \in T : \A y \in T : x <= y
    <3>1. T \in SUBSET Nat
      BY <1>1
    <3> HIDE DEF T
    <3> QED BY <2>1, <3>1, LeastElement, Zenon
  <2>3. x \in Nat /\ ~Has(x)
    BY <1>1
  <2>4. CASE x = 0
    <3> DEFINE f == [k \in 0..0 |-> 1]
    <3>1. f \in [0..0 -> Nat \ {0}] /\ f[0] = 1 /\ \A k \in 1..0 : f[k] = 2 * f[k - 1]
      OBVIOUS
    <3>2. Has(0)
      BY <3>1
    <3> QED BY <2>3, <2>4, <3>2
  <2>5. CASE x # 0
    <3>1. x - 1 \in 0..MaxAttempts /\ x - 1 \notin T
      <4>1. x \in 0..MaxAttempts
        OBVIOUS
      <4> HIDE DEF T
      <4> QED BY <1>1, <2>2, <2>5, <4>1
    <3>2. Has(x - 1)
      <4> HIDE DEF Has
      <4> QED BY <3>1, Zenon
    <3>3. PICK f \in [0..(x - 1) -> Nat \ {0}] : f[0] = 1 /\ \A k \in 1..(x - 1) : f[k] = 2 * f[k - 1]
      BY <3>2
    <3> DEFINE g == [k \in 0..x |-> IF k = x THEN 2 * f[x - 1] ELSE f[k]]
    <3>4. f[x - 1] \in Nat \ {0}
      BY <2>3, <2>5
    <3>5. g \in [0..x -> Nat \ {0}]
      BY <2>3, <3>4
    <3>6. g[0] = 1
      BY <2>3, <2>5, <3>3
    <3>7. ASSUME NEW k \in 1..x PROVE g[k] = 2 * g[k - 1]
      <4>1. k \in 0..x /\ k - 1 \in 0..x /\ k - 1 # x
        BY <2>3
      <4>2. g[k - 1] = f[k - 1]
        BY <4>1
      <4>3. CASE k = x
        <5>1. g[k] = 2 * f[x - 1]
          BY <4>1, <4>3
        <5> QED BY <4>2, <4>3, <5>1
      <4>4. CASE k # x
        <5>1. k \in 1..(x - 1) /\ g[k] = f[k]
          BY <2>3, <4>1, <4>4
        <5> QED BY <3>3, <4>2, <5>1
      <4> QED BY <4>3, <4>4
    <3> HIDE DEF g
    <3>8. Has(x)
      BY <3>5, <3>6, <3>7
    <3> QED BY <2>3, <3>8
  <2> QED BY <2>4, <2>5
<1>3. Has(MaxAttempts)
  <2>1. MaxAttempts \in 0..MaxAttempts
    BY <1>1
  <2> HIDE DEF Has
  <2> QED BY <1>2, <2>1, Zenon
<1> QED BY <1>3

LEMMA TwoToFacts ==
    /\ TwoTo \in [0..MaxAttempts -> Nat \ {0}]
    /\ TwoTo[0] = 1 /\ \A k \in 1..MaxAttempts : TwoTo[k] = 2 * TwoTo[k - 1]
<1>0. MaxAttempts \in Nat
  BY OutboxAssumption
<1>1. PICK f \in [0..MaxAttempts -> Nat \ {0}] : f[0] = 1 /\ \A k \in 1..MaxAttempts : f[k] = 2 * f[k - 1]
  BY PowersExist
<1>2. f = [n \in 0..MaxAttempts |-> IF n = 0 THEN 1 ELSE 2 * f[n - 1]]
  <2>1. \A n \in 0..MaxAttempts : f[n] = IF n = 0 THEN 1 ELSE 2 * f[n - 1]
    BY <1>0, <1>1
  <2>2. f = [n \in 0..MaxAttempts |-> f[n]]
    BY <1>1, Zenon
  <2> QED BY <2>1, <2>2, Zenon
<1>3. TwoTo = [n \in 0..MaxAttempts |-> IF n = 0 THEN 1 ELSE 2 * TwoTo[n - 1]]
  BY <1>2, Zenon DEF TwoTo
<1> DEFINE T == {n \in 0..MaxAttempts : TwoTo[n] # f[n]}
<1>4. T = {}
  <2>1. SUFFICES ASSUME T # {} PROVE FALSE
    OBVIOUS
  <2>2. PICK x \in T : \A y \in T : x <= y
    <3>1. T \in SUBSET Nat
      BY <1>0
    <3> HIDE DEF T
    <3> QED BY <2>1, <3>1, LeastElement, Zenon
  <2>3. x \in 0..MaxAttempts /\ TwoTo[x] # f[x] /\ TwoTo[x] = IF x = 0 THEN 1 ELSE 2 * TwoTo[x - 1]
    BY <1>3
  <2>4. x # 0
    BY <1>1, <2>3
  <2>5. x - 1 \in 0..MaxAttempts /\ x - 1 \notin T /\ x \in 1..MaxAttempts
    BY <1>0, <2>2, <2>3, <2>4
  <2> QED BY <1>1, <2>3, <2>4, <2>5
<1>5. TwoTo = f
  <2>1. \A n \in 0..MaxAttempts : TwoTo[n] = f[n]
    BY <1>4
  <2> HIDE DEF T
  <2>2. TwoTo = [n \in 0..MaxAttempts |-> TwoTo[n]] /\ f = [n \in 0..MaxAttempts |-> f[n]]
    BY <1>1, <1>3
  <2> QED BY <2>1, <2>2
<1> QED BY <1>1, <1>5

\* durableOutboxBackoff in closed form.
LEMMA BackoffFacts ==
    ASSUME NEW n \in 1..MaxAttempts
    PROVE  Backoff(n) = Least(Base * TwoTo[n - 1], Maximum) /\ Backoff(n) \in 0..Maximum
<1>0. MaxAttempts \in Nat \ {0} /\ Base \in Nat \ {0} /\ Maximum \in Nat /\ Base <= Maximum
  BY OutboxAssumption
<1> DEFINE c == [k \in 1..MaxAttempts |-> Least(Base * TwoTo[k - 1], Maximum)]
           Twice(d) == IF d >= Maximum THEN d ELSE IF 2 * d > Maximum THEN Maximum ELSE 2 * d
<1>1. \A k \in 1..MaxAttempts : c[k] = Least(Base * TwoTo[k - 1], Maximum)
  OBVIOUS
<1>2. c[1] = Base
  <2>1. TwoTo[0] = 1 /\ 1 \in 1..MaxAttempts
    BY <1>0, TwoToFacts
  <2> QED BY <1>0, <1>1, <2>1 DEF Least
<1>3. ASSUME NEW k \in 1..MaxAttempts, k # 1 PROVE c[k] = Twice(c[k - 1])
  <2>1. k - 1 \in 1..MaxAttempts
    BY <1>0, <1>3
  <2>2. PICK t \in Nat \ {0} : t = TwoTo[(k - 1) - 1]
    BY <1>0, <2>1, TwoToFacts
  <2>3. TwoTo[k - 1] = 2 * t
    BY <1>0, <2>1, <2>2, TwoToFacts
  <2>4. PICK b \in Nat : b = Base * t
    BY <1>0, <2>2
  <2>5. Base * (2 * t) = 2 * b
    BY <1>0, <2>2, <2>4
  <2>6. c[k] = Least(2 * b, Maximum) /\ c[k - 1] = Least(b, Maximum)
    BY <1>1, <2>1, <2>2, <2>3, <2>4, <2>5
  <2> HIDE DEF c
  <2> QED BY <1>0, <2>4, <2>6 DEF Least
<1>4. c = [k \in 1..MaxAttempts |->
             IF k = 1 THEN Base
             ELSE LET d == c[k - 1] IN
                  IF d >= Maximum THEN d ELSE IF 2 * d > Maximum THEN Maximum ELSE 2 * d]
  <2>1. c = [k \in 1..MaxAttempts |-> c[k]]
    OBVIOUS
  <2> HIDE DEF c
  <2> QED BY <1>2, <1>3, <2>1
<1> HIDE DEF c
<1>5. Doubled = [k \in 1..MaxAttempts |->
             IF k = 1 THEN Base
             ELSE LET d == Doubled[k - 1] IN
                  IF d >= Maximum THEN d ELSE IF 2 * d > Maximum THEN Maximum ELSE 2 * d]
  BY <1>4, Zenon DEF Doubled
<1>6. \A k \in 1..MaxAttempts : Doubled[k] = IF k = 1 THEN Base ELSE Twice(Doubled[k - 1])
  BY <1>5
<1> DEFINE T == {k \in 1..MaxAttempts : Doubled[k] # c[k]}
<1>7. T = {}
  <2>1. SUFFICES ASSUME T # {} PROVE FALSE
    OBVIOUS
  <2>2. PICK x \in T : \A y \in T : x <= y
    <3>1. T \in SUBSET Nat
      BY <1>0
    <3> HIDE DEF T
    <3> QED BY <2>1, <3>1, LeastElement, Zenon
  <2>3. x \in 1..MaxAttempts /\ Doubled[x] # c[x]
    OBVIOUS
  <2>4. x # 1
    BY <1>2, <1>6, <2>3
  <2>5. x - 1 \in 1..MaxAttempts /\ x - 1 \notin T
    BY <1>0, <2>2, <2>3, <2>4
  <2>6. Doubled[x - 1] = c[x - 1]
    BY <2>5
  <2> QED BY <1>3, <1>6, <2>3, <2>4, <2>6
<1>8. Doubled[n] = c[n] /\ Backoff(n) = Doubled[n]
  BY <1>0, <1>7 DEF Backoff
<1>9. Base * TwoTo[n - 1] \in Nat
  BY <1>0, TwoToFacts
<1> QED BY <1>0, <1>1, <1>8, <1>9 DEF Least

\* A row in progress has been claimed at least once, and the replica whose
\* claim it is has the row's own count: whoever had the row before it.
Counts ==
    \A i \in Items : status[i] = "processing" =>
        /\ owner[i] \in Workers
        /\ attempts[i] \in 1..MaxAttempts
        /\ tries[owner[i]][i] = attempts[i]

CountInv == OutboxTypeOK /\ Counts

LEMMA LessFacts == \A m \in Nat : \A n \in 0..m : Less(n) \in 0..m
BY DEF Less

LEMMA CountInvInit == Init => CountInv
BY OutboxAssumption DEF Init, CountInv, OutboxTypeOK, Counts

\* A claim counts every row it takes, and takes the counts of all rows along.
LEMMA ClaimCounts ==
    ASSUME CountInv, NEW w \in Workers, Claim(w)
    PROVE  CountInv'
<1> DEFINE next(S) == [i \in Items |-> IF i \in S THEN Least(attempts[i] + 1, MaxAttempts)
                                       ELSE attempts[i]]
<1>1. PICK S \in SUBSET Claimable :
        /\ status' = [i \in Items |-> IF i \in S THEN "processing" ELSE status[i]]
        /\ attempts' = next(S)
        /\ lease' = [i \in Items |-> IF i \in S THEN Lease ELSE lease[i]]
        /\ owner' = [i \in Items |-> IF i \in S THEN w ELSE owner[i]]
        /\ batch' = [batch EXCEPT ![w] = S]
        /\ tries' = [tries EXCEPT ![w] = next(S)]
        /\ hold' = [hold EXCEPT ![w] = [i \in Items |-> IF i \in S THEN Lease ELSE 0]]
        /\ UNCHANGED <<avail, cur, left, faults, purges>>
  BY DEF Claim
<1>2. \A i \in Items : Least(attempts[i] + 1, MaxAttempts) \in 1..MaxAttempts
  BY OutboxAssumption DEF CountInv, OutboxTypeOK, Least
<1>3. next(S) \in [Items -> 0..MaxAttempts]
  BY <1>2, OutboxAssumption DEF CountInv, OutboxTypeOK
<1>4. \A i \in Items : next(S)[i] = IF i \in S THEN Least(attempts[i] + 1, MaxAttempts) ELSE attempts[i]
  OBVIOUS
<1> HIDE DEF next
<1>5. S \subseteq Items
  BY <1>1 DEF Claimable
<1>6. OutboxTypeOK'
  <2>1. status' \in [Items -> {"absent", "pending", "processing", "processed", "dead"}]
    BY <1>1 DEF CountInv, OutboxTypeOK
  <2>2. lease' \in [Items -> 0..Lease] /\ owner' \in [Items -> Workers \cup {None}]
    BY <1>1, OutboxAssumption DEF CountInv, OutboxTypeOK
  <2>3. hold' \in [Workers -> [Items -> 0..Lease]]
    <3>1. [i \in Items |-> IF i \in S THEN Lease ELSE 0] \in [Items -> 0..Lease]
      BY OutboxAssumption
    <3> QED BY <1>1, <3>1 DEF CountInv, OutboxTypeOK
  <2>4. batch' \in [Workers -> SUBSET Items] /\ tries' \in [Workers -> [Items -> 0..MaxAttempts]]
    BY <1>1, <1>3, <1>5 DEF CountInv, OutboxTypeOK
  <2> QED BY <1>1, <1>3, <2>1, <2>2, <2>3, <2>4 DEF CountInv, OutboxTypeOK
<1>7. ASSUME NEW i \in Items, status'[i] = "processing"
      PROVE  owner'[i] \in Workers /\ attempts'[i] \in 1..MaxAttempts /\ tries'[owner'[i]][i] = attempts'[i]
  <2>1. \A v \in Workers : tries'[v] = IF v = w THEN next(S) ELSE tries[v]
    BY <1>1 DEF CountInv, OutboxTypeOK
  <2>2. CASE i \in S
    BY <1>1, <1>2, <1>4, <2>1, <2>2
  <2>3. CASE i \notin S
    <3>1. status[i] = "processing" /\ owner'[i] = owner[i] /\ attempts'[i] = attempts[i]
      BY <1>1, <1>4, <1>7, <2>3
    <3>2. owner[i] \in Workers /\ attempts[i] \in 1..MaxAttempts /\ tries[owner[i]][i] = attempts[i]
      BY <3>1 DEF CountInv, Counts
    <3> QED BY <1>1, <2>1, <3>1, <3>2
  <2> QED BY <2>2, <2>3
<1> QED BY <1>6, <1>7 DEF CountInv, Counts

LEMMA LeaveType ==
    ASSUME CountInv, NEW w \in Workers, cur[w] # None, Leave(w)
    PROVE  /\ batch' = batch /\ tries' = tries
           /\ cur' \in [Workers -> Items \cup {None}]
           /\ left' \in [Workers -> 0..ProcMax]
           /\ hold' \in [Workers -> [Items -> 0..Lease]]
<1>1. 0 \in 0..ProcMax /\ 0 \in 0..Lease
  BY OutboxAssumption
<1>2. cur[w] \in Items
  BY DEF CountInv, OutboxTypeOK
<1> QED BY <1>1, <1>2 DEF Leave, CountInv, OutboxTypeOK

\* A failed item is put back with the delay of the attempt it was.
LEMMA FailFacts ==
    ASSUME CountInv, NEW w \in Workers, Fail(w)
    PROVE  /\ CountInv'
           /\ \A i \in Items : status[i] = "processing" /\ status'[i] = "pending"
                 => avail'[i] = Least(Base * TwoTo[attempts[i] - 1], Maximum)
<1> DEFINE i == cur[w]
           n == tries[w][i]
<1>1. i \in Items /\ cur[w] # None /\ Leave(w) /\ UNCHANGED <<attempts, faults, purges>>
  BY DEF Fail, CountInv, OutboxTypeOK
<1>2. CASE Mine(w, i)
  <2>1. n = attempts[i] /\ n \in 1..MaxAttempts /\ owner[i] = w
    BY <1>1, <1>2 DEF Mine, CountInv, Counts
  <2>2. Backoff(n) = Least(Base * TwoTo[n - 1], Maximum) /\ Backoff(n) \in 0..Maximum
    BY <2>1, BackoffFacts
  <2>3. /\ status' = [status EXCEPT ![i] = IF n >= MaxAttempts THEN "dead" ELSE "pending"]
        /\ avail' = IF n >= MaxAttempts THEN avail ELSE [avail EXCEPT ![i] = Backoff(n)]
        /\ owner' = [owner EXCEPT ![i] = None]
        /\ lease' = [lease EXCEPT ![i] = 0]
    BY <1>2 DEF Fail
  <2> HIDE DEF i, n
  <2>4. /\ avail' \in [Items -> 0..Maximum]
        /\ lease' \in [Items -> 0..Lease]
        /\ owner' \in [Items -> Workers \cup {None}]
    BY <1>1, <2>2, <2>3, OutboxAssumption DEF CountInv, OutboxTypeOK
  <2>5. status' \in [Items -> {"absent", "pending", "processing", "processed", "dead"}]
    BY <1>1, <2>3 DEF CountInv, OutboxTypeOK
  <2>6. OutboxTypeOK'
    BY <1>1, <2>4, <2>5, LeaveType DEF CountInv, OutboxTypeOK
  <2>7. \A j \in Items : status'[j] = "processing" => j # i /\ status[j] = "processing" /\ owner'[j] = owner[j]
    BY <1>1, <2>3 DEF CountInv, OutboxTypeOK
  <2>8. Counts'
    BY <1>1, <2>7, LeaveType DEF CountInv, Counts
  <2>9. ASSUME NEW j \in Items, status[j] = "processing", status'[j] = "pending"
        PROVE  avail'[j] = Least(Base * TwoTo[attempts[j] - 1], Maximum)
    <3>1. j = i
      BY <2>3, <2>9 DEF CountInv, OutboxTypeOK
    <3>2. ~(n >= MaxAttempts)
      BY <1>1, <2>3, <2>9, <3>1 DEF CountInv, OutboxTypeOK
    <3>3. avail'[j] = Backoff(n)
      BY <1>1, <2>3, <3>1, <3>2 DEF CountInv, OutboxTypeOK
    <3> QED BY <2>1, <2>2, <3>1, <3>3
  <2> QED BY <2>6, <2>8, <2>9 DEF CountInv
<1>3. CASE ~Mine(w, i)
  <2>1. UNCHANGED <<status, avail, owner, lease>>
    BY <1>3 DEF Fail
  <2>2. OutboxTypeOK'
    BY <1>1, <2>1, LeaveType DEF CountInv, OutboxTypeOK
  <2>3. Counts'
    BY <1>1, <2>1, LeaveType DEF CountInv, Counts
  <2> QED BY <2>1, <2>2, <2>3 DEF CountInv
<1> QED BY <1>2, <1>3

LEMMA SucceedCounts ==
    ASSUME CountInv, NEW w \in Workers, Succeed(w)
    PROVE  CountInv' /\ \A i \in Items : status'[i] = "pending" => status[i] = "pending"
<1> DEFINE i == cur[w]
<1>1. i \in Items /\ cur[w] # None /\ Leave(w) /\ UNCHANGED <<attempts, avail, faults, purges>>
  BY DEF Succeed, CountInv, OutboxTypeOK
<1>2. CASE Mine(w, i)
  <2>1. /\ status' = [status EXCEPT ![i] = "processed"]
        /\ owner' = [owner EXCEPT ![i] = None]
        /\ lease' = [lease EXCEPT ![i] = 0]
    BY <1>2 DEF Succeed
  <2> HIDE DEF i
  <2>2. /\ lease' \in [Items -> 0..Lease]
        /\ owner' \in [Items -> Workers \cup {None}]
    BY <1>1, <2>1, OutboxAssumption DEF CountInv, OutboxTypeOK
  <2>3. status' \in [Items -> {"absent", "pending", "processing", "processed", "dead"}]
    BY <1>1, <2>1 DEF CountInv, OutboxTypeOK
  <2>4. OutboxTypeOK'
    BY <1>1, <2>2, <2>3, LeaveType DEF CountInv, OutboxTypeOK
  <2>5. \A j \in Items : /\ status'[j] = "processing" => j # i /\ status[j] = "processing" /\ owner'[j] = owner[j]
                         /\ status'[j] = "pending" => status[j] = "pending"
    BY <1>1, <2>1 DEF CountInv, OutboxTypeOK
  <2>6. Counts'
    BY <1>1, <2>5, LeaveType DEF CountInv, Counts
  <2> QED BY <2>4, <2>5, <2>6 DEF CountInv
<1>3. CASE ~Mine(w, i)
  <2>1. UNCHANGED <<status, owner, lease>>
    BY <1>3 DEF Succeed
  <2>2. OutboxTypeOK'
    BY <1>1, <2>1, LeaveType DEF CountInv, OutboxTypeOK
  <2>3. Counts'
    BY <1>1, <2>1, LeaveType DEF CountInv, Counts
  <2> QED BY <2>1, <2>2, <2>3 DEF CountInv
<1> QED BY <1>2, <1>3

\* The delay of the step, with the invariant it rests on: only a failure puts
\* a row back.
LEMMA DelayStep ==
    ASSUME CountInv, [Next]_vars
    PROVE  /\ CountInv'
           /\ \A i \in Items : status[i] = "processing" /\ status'[i] = "pending"
                 => avail'[i] = Least(Base * TwoTo[attempts[i] - 1], Maximum)
<1> DEFINE Kept == \A i \in Items : status'[i] = "pending" => status[i] # "processing"
<1>1. CASE \E i \in Items : Enqueue(i)
  <2>1. PICK i \in Items : Enqueue(i)
    BY <1>1
  <2>2. OutboxTypeOK'
    BY <2>1 DEF Enqueue, workerVars, CountInv, OutboxTypeOK
  <2>3. Counts' /\ Kept
    BY <2>1 DEF Enqueue, workerVars, CountInv, OutboxTypeOK, Counts
  <2> QED BY <2>2, <2>3 DEF CountInv
<1>2. CASE \E i \in Items : Purge(i)
  <2>1. PICK i \in Items : Purge(i)
    BY <1>2
  <2>2. OutboxTypeOK'
    BY <2>1, OutboxAssumption DEF Purge, workerVars, CountInv, OutboxTypeOK
  <2>3. Counts' /\ Kept
    BY <2>1 DEF Purge, workerVars, CountInv, OutboxTypeOK, Counts
  <2> QED BY <2>2, <2>3 DEF CountInv
<1>3. CASE \E w \in Workers : Claim(w)
  <2>1. PICK w \in Workers : Claim(w)
    BY <1>3
  <2>2. Kept
    BY <2>1 DEF Claim, CountInv, OutboxTypeOK
  <2> QED BY <2>1, <2>2, ClaimCounts
<1>4. CASE \E w \in Workers : Succeed(w)
  BY <1>4, SucceedCounts
<1>5. CASE \E w \in Workers : Fail(w)
  BY <1>5, FailFacts
<1>6. CASE \E w \in Workers, i \in Items : Begin(w, i)
  <2>1. PICK w \in Workers, i \in Items : Begin(w, i)
    BY <1>6
  <2>2. OutboxTypeOK'
    BY <2>1, OutboxAssumption DEF Begin, rowVars, CountInv, OutboxTypeOK
  <2>3. Counts' /\ Kept
    BY <2>1 DEF Begin, rowVars, CountInv, Counts
  <2> QED BY <2>2, <2>3 DEF CountInv
<1>7. CASE \E w \in Workers : WriteFails(w)
  <2>1. PICK w \in Workers : WriteFails(w)
    BY <1>7
  <2>2. cur[w] # None /\ Leave(w) /\ UNCHANGED <<rowVars, purges>> /\ faults' \in 0..MaxFaults
    BY <2>1, OutboxAssumption DEF WriteFails, CountInv, OutboxTypeOK
  <2>3. OutboxTypeOK'
    BY <2>2, LeaveType DEF rowVars, CountInv, OutboxTypeOK
  <2>4. Counts' /\ Kept
    BY <2>2, LeaveType DEF rowVars, CountInv, Counts
  <2> QED BY <2>3, <2>4 DEF CountInv
<1>8. CASE \E w \in Workers : Crash(w)
  <2>1. PICK w \in Workers : Crash(w)
    BY <1>8
  <2>2. faults' \in 0..MaxFaults /\ 0 \in 0..ProcMax /\ [i \in Items |-> 0] \in [Items -> 0..Lease]
    BY <2>1, OutboxAssumption DEF Crash, CountInv, OutboxTypeOK
  <2>3. OutboxTypeOK'
    BY <2>1, <2>2 DEF Crash, rowVars, CountInv, OutboxTypeOK
  <2>4. Counts' /\ Kept
    BY <2>1 DEF Crash, rowVars, CountInv, Counts
  <2> QED BY <2>3, <2>4 DEF CountInv
<1>9. CASE Tick
  <2>1. /\ \A i \in Items : Less(avail[i]) \in 0..Maximum /\ Less(lease[i]) \in 0..Lease
        /\ \A w \in Workers : Less(left[w]) \in 0..ProcMax
        /\ \A w \in Workers, i \in Items : Less(hold[w][i]) \in 0..Lease
    BY OutboxAssumption, LessFacts DEF CountInv, OutboxTypeOK
  <2>2. avail' \in [Items -> 0..Maximum] /\ lease' \in [Items -> 0..Lease] /\ left' \in [Workers -> 0..ProcMax]
    BY <1>9, <2>1 DEF Tick
  <2>3. hold' \in [Workers -> [Items -> 0..Lease]]
    BY <1>9, <2>1 DEF Tick
  <2>4. OutboxTypeOK'
    BY <1>9, <2>2, <2>3 DEF Tick, CountInv, OutboxTypeOK
  <2>5. Counts' /\ Kept
    BY <1>9 DEF Tick, CountInv, Counts
  <2> QED BY <2>4, <2>5 DEF CountInv
<1>10. CASE UNCHANGED vars
  <2>1. UNCHANGED <<rowVars, workerVars>> /\ UNCHANGED <<faults, purges>>
    BY <1>10 DEF vars
  <2>2. CountInv'
    BY <2>1 DEF rowVars, workerVars, CountInv, OutboxTypeOK, Counts
  <2> QED BY <2>1, <2>2 DEF rowVars
<1> QED
  BY <1>1, <1>2, <1>3, <1>4, <1>5, <1>6, <1>7, <1>8, <1>9, <1>10 DEF Next, Step

\* Every row and every replica is always in one of the states the table and
\* the worker have, whatever is claimed, lost, replayed or purged; and the
\* count a replica took with its claim is that of the row as long as the claim
\* stands (the worker_id in the WHERE clause of both updates).
THEOREM OutboxInvariant == Spec => []CountInv
<1>1. CountInv /\ [Next]_vars => CountInv'
  BY DelayStep
<1> QED
  BY <1>1, CountInvInit, PTL DEF Spec

\* retryDurableOutbox puts a row back with Base * 2^(attempts - 1) ticks of
\* delay, at most Maximum, for any base, maximum and number of attempts: the
\* loop of durableOutboxBackoff computes that value, and the attempts it is
\* given are the row's own, although the worker took them with its claim.
THEOREM RetryDelayHolds == Spec => RetryDelay
<1>1. CountInv /\ [Next]_vars
        => [\A i \in Items : status[i] = "processing" /\ status'[i] = "pending"
              => avail'[i] = Least(Base * TwoTo[attempts[i] - 1], Maximum)]_vars
  BY DelayStep
<1> QED
  BY <1>1, OutboxInvariant, PTL DEF Spec, RetryDelay

-----------------------------------------------------------------------------
(* The refinement: every step is a step of WorkQueue, or changes no item.   *)

\* A row that is not in the table has no attempts to go on from.
Fresh == \A i \in Items : status[i] = "absent" => attempts[i] = 0

\* A replica counts only on claims of items it has in hand, so that a new claim
\* lets go of none.
InHand == \A w \in Workers, i \in Items : hold[w][i] > 0 => i = cur[w] \/ i \in batch[w]

QueueInv == ClaimInv /\ CountInv /\ Fresh /\ InHand

LEMMA LeaveInHand ==
    ASSUME CountInv, InHand, NEW w \in Workers, cur[w] # None, Leave(w)
    PROVE  InHand'
<1>1. cur[w] \in Items
  BY DEF CountInv, OutboxTypeOK
<1>2. ASSUME NEW v \in Workers, NEW i \in Items, hold'[v][i] > 0
      PROVE  i = cur'[v] \/ i \in batch'[v]
  <2>1. ~(v = w /\ i = cur[w])
    BY <1>1, <1>2, OutboxAssumption DEF Leave, CountInv, OutboxTypeOK
  <2>2. hold'[v][i] = hold[v][i] /\ batch' = batch
    BY <1>1, <2>1 DEF Leave, CountInv, OutboxTypeOK
  <2>3. i = cur[v] \/ i \in batch[v]
    BY <1>2, <2>2 DEF InHand
  <2>4. v # w => cur'[v] = cur[v]
    BY DEF Leave, CountInv, OutboxTypeOK
  <2> QED BY <2>1, <2>2, <2>3, <2>4
<1> QED BY <1>2 DEF InHand

LEMMA FreshStep ==
    ASSUME CountInv, Fresh, [Next]_vars
    PROVE  Fresh'
<1>1. ASSUME NEW i \in Items, Enqueue(i) \/ Purge(i) PROVE Fresh'
  BY <1>1 DEF Enqueue, Purge, Fresh, CountInv, OutboxTypeOK
<1>2. ASSUME NEW w \in Workers, Claim(w) PROVE Fresh'
  <2>1. PICK S \in SUBSET Claimable :
          /\ status' = [i \in Items |-> IF i \in S THEN "processing" ELSE status[i]]
          /\ attempts' = [i \in Items |-> IF i \in S THEN Least(attempts[i] + 1, MaxAttempts)
                                          ELSE attempts[i]]
    BY <1>2 DEF Claim
  <2> QED BY <2>1 DEF Fresh
<1>3. ASSUME NEW w \in Workers, Succeed(w) \/ Fail(w) PROVE Fresh'
  <2>1. cur[w] \in Items
    BY <1>3 DEF Succeed, Fail, CountInv, OutboxTypeOK
  <2>2. attempts' = attempts /\ \A i \in Items : status'[i] = "absent" => status[i] = "absent"
    BY <1>3, <2>1 DEF Succeed, Fail, CountInv, OutboxTypeOK
  <2> QED BY <2>2 DEF Fresh
<1>4. ASSUME NEW w \in Workers, WriteFails(w) \/ Crash(w) \/ \E i \in Items : Begin(w, i)
      PROVE  Fresh'
  BY <1>4 DEF WriteFails, Crash, Begin, rowVars, Fresh
<1>5. CASE Tick \/ UNCHANGED vars
  BY <1>5 DEF Tick, vars, rowVars, Fresh
<1> QED BY <1>1, <1>2, <1>3, <1>4, <1>5 DEF Next, Step

LEMMA InHandStep ==
    ASSUME CountInv, InHand, [Next]_vars
    PROVE  InHand'
<1>1. ASSUME NEW i \in Items, Enqueue(i) \/ Purge(i) PROVE InHand'
  BY <1>1 DEF Enqueue, Purge, workerVars, InHand
<1>2. ASSUME NEW w \in Workers, Claim(w) PROVE InHand'
  <2>1. PICK S \in SUBSET Claimable :
          /\ batch' = [batch EXCEPT ![w] = S]
          /\ hold' = [hold EXCEPT ![w] = [i \in Items |-> IF i \in S THEN Lease ELSE 0]]
          /\ cur' = cur
    BY <1>2 DEF Claim
  <2>2. ASSUME NEW v \in Workers, NEW i \in Items, hold'[v][i] > 0
        PROVE  i = cur'[v] \/ i \in batch'[v]
    <3>1. CASE v = w
      BY <2>1, <2>2, <3>1 DEF CountInv, OutboxTypeOK
    <3>2. CASE v # w
      BY <2>1, <2>2, <3>2 DEF InHand, CountInv, OutboxTypeOK
    <3> QED BY <3>1, <3>2
  <2> QED BY <2>2 DEF InHand
<1>3. ASSUME NEW w \in Workers, Succeed(w) \/ Fail(w) \/ WriteFails(w) PROVE InHand'
  BY <1>3, LeaveInHand DEF Succeed, Fail, WriteFails
<1>4. ASSUME NEW w \in Workers, NEW i \in Items, Begin(w, i) PROVE InHand'
  <2>1. cur' = [cur EXCEPT ![w] = i] /\ batch' = [batch EXCEPT ![w] = @ \ {i}] /\ hold' = hold
    BY <1>4 DEF Begin
  <2>2. cur[w] = None /\ i \in batch[w]
    BY <1>4 DEF Begin
  <2>3. ASSUME NEW v \in Workers, NEW j \in Items, hold[v][j] > 0
        PROVE  j = cur'[v] \/ j \in batch'[v]
    <3>1. j = cur[v] \/ j \in batch[v]
      BY <2>3 DEF InHand
    <3>2. CASE v = w
      <4>1. cur'[w] = i /\ batch'[w] = batch[w] \ {i}
        BY <2>1 DEF CountInv, OutboxTypeOK
      <4> QED BY <2>2, <3>1, <3>2, <4>1, OutboxAssumption
    <3>3. CASE v # w
      BY <2>1, <3>1, <3>3 DEF CountInv, OutboxTypeOK
    <3> QED BY <3>2, <3>3
  <2> QED BY <2>1, <2>3 DEF InHand
<1>5. ASSUME NEW w \in Workers, Crash(w) PROVE InHand'
  BY <1>5 DEF Crash, InHand, CountInv, OutboxTypeOK
<1>6. CASE Tick
  <2>1. \A w \in Workers, i \in Items : hold[w][i] \in 0..Lease /\ hold'[w][i] = Less(hold[w][i])
    BY <1>6 DEF Tick, CountInv, OutboxTypeOK
  <2>2. \A w \in Workers, i \in Items : hold'[w][i] > 0 => hold[w][i] > 0
    BY <2>1, OutboxAssumption DEF Less
  <2> QED BY <1>6, <2>2 DEF Tick, InHand
<1>7. CASE UNCHANGED vars
  BY <1>7 DEF vars, workerVars, InHand
<1> QED BY <1>1, <1>2, <1>3, <1>4, <1>5, <1>6, <1>7 DEF Next, Step

LEMMA QueueInvHolds == Spec => []QueueInv
<1>1. Init => QueueInv
  <2>1. Init => Fresh /\ InHand
    BY DEF Init, Fresh, InHand
  <2> QED BY <2>1, ClaimInvInit, CountInvInit DEF QueueInv
<1>2. QueueInv /\ [Next]_vars => QueueInv'
  BY ClaimInvStep, DelayStep, FreshStep, InHandStep DEF QueueInv
<1> QED
  BY <1>1, <1>2, PTL DEF Spec

Jobs == [i \in Items |-> JobOf(i)]
Sure(i) == {w \in Workers : hold[w][i] > 0}

LEMMA NobodySure ==
    ASSUME ClaimInv, NEW i \in Items, status[i] # "processing"
    PROVE  Sure(i) = {}
BY DEF ClaimInv, Backed, Sure

\* An item whose row and claim a step leaves alone.
LEMMA SameJob ==
    ASSUME NEW i \in Items, status'[i] = status[i], attempts'[i] = attempts[i], owner'[i] = owner[i],
           \A v \in Workers : hold'[v][i] = hold[v][i]
    PROVE  JobOf(i)' = JobOf(i)
BY DEF JobOf

LEMMA OneBecomes ==
    ASSUME NEW i \in Items, NEW new, JobOf(i)' = new,
           \A j \in Items : j # i => JobOf(j)' = JobOf(j)
    PROVE  Queue!Becomes(i, new)
<1>1. Jobs' = [Jobs EXCEPT ![i] = new]
  BY DEF Jobs
<1> QED BY <1>1 DEF Queue!Becomes, Jobs

\* The rows stay as they are and no replica counts on more than it did.
LEMMA RefineLapse ==
    ASSUME QueueInv, UNCHANGED <<status, attempts, owner>>,
           \A v \in Workers, i \in Items :
               hold'[v][i] \in Nat /\ (hold'[v][i] > 0 => hold[v][i] > 0)
    PROVE  Queue!QueueNext
<1> DEFINE S == {i \in Items : Sure(i)' # Sure(i)}
<1>1. ASSUME NEW i \in S PROVE status[i] = "processing" /\ Sure(i)' = {}
  <2>1. PICK w \in Workers : hold[w][i] > 0 /\ ~(hold'[w][i] > 0)
    BY DEF Sure
  <2>2. status[i] = "processing" /\ \A v \in Workers : hold[v][i] > 0 => v = w
    BY <2>1 DEF QueueInv, ClaimInv, Backed
  <2> QED BY <2>1, <2>2 DEF Sure
<1>2. ASSUME NEW i \in Items PROVE JobOf(i)' = IF i \in S THEN [JobOf(i) EXCEPT !.sure = {}] ELSE JobOf(i)
  <2>1. CASE i \in S
    <3>1. Sure(i)' = {}
      BY <1>1, <2>1
    <3> QED BY <2>1, <3>1 DEF JobOf, Sure
  <2>2. CASE i \notin S
    BY <2>2 DEF JobOf, Sure
  <2> QED BY <2>1, <2>2
<1>3. \A i \in S : Jobs[i].stage = "processing"
  BY <1>1 DEF Jobs, JobOf
<1>4. Jobs' = [i \in Items |-> IF i \in S THEN [Jobs[i] EXCEPT !.sure = {}] ELSE Jobs[i]]
  BY <1>2 DEF Jobs
<1>5. Queue!Lapse(S)
  BY <1>3, <1>4 DEF Queue!Lapse, Queue!Busy, Jobs
<1> QED BY <1>5 DEF Queue!QueueNext

LEMMA RefineEnqueue ==
    ASSUME QueueInv, NEW i \in Items, Enqueue(i)
    PROVE  Queue!QueueNext
<1>1. JobOf(i) = [stage |-> "absent", claims |-> 0, by |-> {}, sure |-> {}]
  BY NobodySure DEF Enqueue, QueueInv, Fresh, JobOf, Sure
<1>2. JobOf(i)' = [stage |-> "pending", claims |-> 0, by |-> {}, sure |-> {}]
  <2>1. status'[i] = "pending" /\ attempts'[i] = 0 /\ hold' = hold
    BY DEF Enqueue, workerVars, QueueInv, Fresh, CountInv, OutboxTypeOK
  <2>2. Sure(i) = {}
    BY NobodySure DEF Enqueue, QueueInv
  <2> QED BY <2>1, <2>2 DEF JobOf, Sure
<1>3. \A j \in Items : j # i => JobOf(j)' = JobOf(j)
  BY SameJob DEF Enqueue, workerVars, QueueInv, CountInv, OutboxTypeOK
<1>4. Queue!Becomes(i, [stage |-> "pending", claims |-> 0, by |-> {}, sure |-> {}])
  BY <1>2, <1>3, OneBecomes
<1>5. Queue!Add(i)
  BY <1>1, <1>4 DEF Queue!Add, Queue!Absent, Queue!Idle
<1> QED BY <1>5 DEF Queue!QueueNext

LEMMA RefinePurge ==
    ASSUME QueueInv, NEW i \in Items, Purge(i)
    PROVE  Queue!QueueNext
<1>1. JobOf(i).stage \in {"processed", "dead"}
  BY DEF Purge, JobOf
<1>2. JobOf(i)' = [stage |-> "absent", claims |-> 0, by |-> {}, sure |-> {}]
  <2>1. status'[i] = "absent" /\ attempts'[i] = 0 /\ hold' = hold
    BY DEF Purge, workerVars, QueueInv, CountInv, OutboxTypeOK
  <2>2. Sure(i) = {}
    BY NobodySure DEF Purge, QueueInv
  <2> QED BY <2>1, <2>2 DEF JobOf, Sure
<1>3. \A j \in Items : j # i => JobOf(j)' = JobOf(j)
  BY SameJob DEF Purge, workerVars, QueueInv, CountInv, OutboxTypeOK
<1>4. Queue!Becomes(i, [stage |-> "absent", claims |-> 0, by |-> {}, sure |-> {}])
  BY <1>2, <1>3, OneBecomes
<1>5. Queue!Forget(i)
  BY <1>1, <1>4 DEF Queue!Forget, Queue!Absent
<1> QED BY <1>5 DEF Queue!QueueNext

LEMMA RefineClaim ==
    ASSUME QueueInv, NEW w \in Workers, Claim(w)
    PROVE  Queue!QueueNext
<1>1. PICK S \in SUBSET Claimable :
        /\ status' = [i \in Items |-> IF i \in S THEN "processing" ELSE status[i]]
        /\ attempts' = [i \in Items |-> IF i \in S THEN Least(attempts[i] + 1, MaxAttempts)
                                        ELSE attempts[i]]
        /\ owner' = [i \in Items |-> IF i \in S THEN w ELSE owner[i]]
        /\ hold' = [hold EXCEPT ![w] = [i \in Items |-> IF i \in S THEN Lease ELSE 0]]
  BY DEF Claim
<1>2. S \subseteq Items /\ \A i \in S, v \in Workers : hold[v][i] = 0
  BY <1>1, ClaimableIsFree DEF QueueInv
<1>3. \A v \in Workers, i \in Items :
        hold'[v][i] = IF v = w THEN IF i \in S THEN Lease ELSE 0 ELSE hold[v][i]
  BY <1>1 DEF QueueInv, CountInv, OutboxTypeOK
<1>4. ASSUME NEW i \in Items PROVE hold[w][i] = 0
  <2>1. hold[w][i] \in 0..Lease
    BY DEF QueueInv, CountInv, OutboxTypeOK
  <2>2. ~(hold[w][i] > 0)
    BY OutboxAssumption DEF QueueInv, InHand, Claim
  <2> QED BY <2>1, <2>2, OutboxAssumption
<1>5. \A i \in S : Jobs[i].stage = "pending" \/ (Jobs[i].stage = "processing" /\ Jobs[i].sure = {})
  <2>1. \A i \in S : status[i] \in {"pending", "processing"}
    BY <1>1 DEF Claimable
  <2>2. \A i \in S : JobOf(i).stage = status[i] /\ JobOf(i).sure = {}
    BY <1>2 DEF JobOf
  <2> QED BY <1>2, <2>1, <2>2 DEF Jobs
<1>6. ASSUME NEW i \in S
      PROVE  JobOf(i)' = [stage |-> "processing",
                          claims |-> IF attempts[i] < MaxAttempts THEN attempts[i] + 1 ELSE MaxAttempts,
                          by |-> {w}, sure |-> {w}]
  <2>0. i \in Items
    BY <1>2
  <2>1. Sure(i)' = {w}
    BY <1>2, <1>3, <2>0, OutboxAssumption DEF Sure
  <2>2. attempts[i] \in 0..MaxAttempts /\ MaxAttempts \in Nat
    BY <2>0, OutboxAssumption DEF QueueInv, CountInv, OutboxTypeOK
  <2>3. attempts'[i] = IF attempts[i] < MaxAttempts THEN attempts[i] + 1 ELSE MaxAttempts
    BY <1>1, <2>0, <2>2 DEF Least
  <2>4. status'[i] = "processing" /\ owner'[i] = w
    BY <1>1, <2>0
  <2> QED BY <2>1, <2>3, <2>4 DEF JobOf, Sure
<1>7. ASSUME NEW i \in Items, i \notin S PROVE JobOf(i)' = JobOf(i)
  <2>1. \A v \in Workers : hold'[v][i] = hold[v][i]
    BY <1>3, <1>4, <1>7
  <2> QED BY <1>1, <1>7, <2>1, SameJob
<1>8. \A i \in Items : Jobs[i] = JobOf(i) /\ JobOf(i).claims = attempts[i]
  BY DEF Jobs, JobOf
<1>9. Jobs' = [i \in Items |->
                 IF i \in S
                 THEN [stage |-> "processing",
                       claims |-> IF Jobs[i].claims < MaxAttempts THEN Jobs[i].claims + 1 ELSE MaxAttempts,
                       by |-> {w}, sure |-> {w}]
                 ELSE Jobs[i]]
  <2>1. \A i \in Items : JobOf(i)' = IF i \in S
                 THEN [stage |-> "processing",
                       claims |-> IF Jobs[i].claims < MaxAttempts THEN Jobs[i].claims + 1 ELSE MaxAttempts,
                       by |-> {w}, sure |-> {w}]
                 ELSE Jobs[i]
    BY <1>6, <1>7, <1>8
  <2> QED BY <2>1 DEF Jobs
<1>10. Queue!Take(w, S)
  BY <1>5, <1>9 DEF Queue!Take, Queue!Free, Queue!Busy, Queue!Claimed, Queue!OneMore, Jobs
<1> QED BY <1>2, <1>10 DEF Queue!QueueNext

\* The fenced updates: the row of the worker's own claim leaves "processing",
\* and nobody counts on it any more.
LEMMA SettleFacts ==
    ASSUME QueueInv, ClaimInv', NEW w \in Workers, cur[w] \in Items, Mine(w, cur[w]), Leave(w),
           NEW to \in {"processed", "pending", "dead"},
           status' = [status EXCEPT ![cur[w]] = to],
           owner' = [owner EXCEPT ![cur[w]] = None], attempts' = attempts
    PROVE  /\ Queue!Busy(cur[w])
           /\ Jobs[cur[w]].claims = attempts[cur[w]]
           /\ Queue!Becomes(cur[w], Queue!Idle(to, Jobs[cur[w]].claims))
<1>1. PICK i \in Items : i = cur[w]
  OBVIOUS
<1>2. status'[i] = to /\ to # "processing"
  BY <1>1 DEF QueueInv, CountInv, OutboxTypeOK
<1>3. Sure(i)' = {}
  BY <1>2 DEF ClaimInv, Backed, Sure
<1>4. JobOf(i)' = [stage |-> to, claims |-> attempts[i], by |-> {}, sure |-> {}]
  BY <1>2, <1>3 DEF JobOf, Sure
<1>5. ASSUME NEW j \in Items, j # i PROVE JobOf(j)' = JobOf(j)
  <2>1. \A v \in Workers : hold'[v][j] = hold[v][j]
    BY <1>1, <1>5 DEF Leave, QueueInv, CountInv, OutboxTypeOK
  <2> QED BY <1>1, <1>5, <2>1, SameJob DEF QueueInv, CountInv, OutboxTypeOK
<1>6. Queue!Becomes(i, [stage |-> to, claims |-> attempts[i], by |-> {}, sure |-> {}])
  BY <1>4, <1>5, OneBecomes
<1>7. Queue!Busy(i)
  BY <1>1 DEF Queue!Busy, JobOf, Mine
<1>8. Jobs[i].claims = attempts[i]
  BY DEF Jobs, JobOf
<1> QED BY <1>1, <1>6, <1>7, <1>8 DEF Queue!Idle

\* An update that finds the row under another claim: nobody counted on the
\* worker's own.
LEMMA RefineLate ==
    ASSUME QueueInv, CountInv', NEW w \in Workers, cur[w] # None, Leave(w),
           UNCHANGED <<status, attempts, owner>>
    PROVE  Queue!QueueNext
<1>1. cur[w] \in Items
  BY DEF QueueInv, CountInv, OutboxTypeOK
<1>2. \A v \in Workers, i \in Items : hold'[v][i] \in Nat
  BY OutboxAssumption DEF CountInv, OutboxTypeOK
<1>3. \A v \in Workers, i \in Items : hold'[v][i] = IF v = w /\ i = cur[w] THEN 0 ELSE hold[v][i]
  BY <1>1 DEF Leave, QueueInv, CountInv, OutboxTypeOK
<1> QED BY <1>2, <1>3, RefineLapse

LEMMA RefineSucceed ==
    ASSUME QueueInv, QueueInv', NEW w \in Workers, Succeed(w)
    PROVE  Queue!QueueNext
<1>1. cur[w] \in Items /\ cur[w] # None /\ Leave(w) /\ attempts' = attempts
  BY DEF Succeed, QueueInv, CountInv, OutboxTypeOK
<1>2. CASE Mine(w, cur[w])
  <2>1. Queue!Busy(cur[w]) /\ Queue!Becomes(cur[w], Queue!Idle("processed", Jobs[cur[w]].claims))
    BY <1>1, <1>2, SettleFacts DEF Succeed, QueueInv
  <2>2. Queue!Finish(cur[w])
    BY <2>1 DEF Queue!Finish, Jobs
  <2> QED BY <1>1, <2>2 DEF Queue!QueueNext
<1>3. CASE ~Mine(w, cur[w])
  BY <1>1, <1>3, RefineLate DEF Succeed, QueueInv
<1> QED BY <1>2, <1>3

\* The attempts that decide between another try and a dead row are those of
\* the row, although the worker took them with its claim.
LEMMA RefineFail ==
    ASSUME QueueInv, QueueInv', NEW w \in Workers, Fail(w)
    PROVE  Queue!QueueNext
<1> DEFINE i == cur[w]
           n == tries[w][i]
<1>1. i \in Items /\ cur[w] # None /\ Leave(w) /\ attempts' = attempts
  BY DEF Fail, QueueInv, CountInv, OutboxTypeOK
<1>2. CASE Mine(w, i)
  <2>1. n = attempts[i] /\ attempts[i] \in 1..MaxAttempts /\ MaxAttempts \in Nat
    BY <1>1, <1>2, OutboxAssumption DEF Mine, QueueInv, CountInv, Counts
  <2>2. /\ status' = [status EXCEPT ![i] = IF n >= MaxAttempts THEN "dead" ELSE "pending"]
        /\ owner' = [owner EXCEPT ![i] = None]
    BY <1>2 DEF Fail
  <2>3. CASE n >= MaxAttempts
    <3>1. Queue!Busy(i) /\ Jobs[i].claims = attempts[i] /\ Queue!Becomes(i, Queue!Idle("dead", Jobs[i].claims))
      BY <1>1, <1>2, <2>2, <2>3, SettleFacts DEF QueueInv
    <3>2. Queue!Bury(i)
      BY <1>1, <2>1, <2>3, <3>1 DEF Queue!Bury, Jobs
    <3> QED BY <1>1, <3>2 DEF Queue!QueueNext
  <2>4. CASE ~(n >= MaxAttempts)
    <3>1. Queue!Busy(i) /\ Jobs[i].claims = attempts[i] /\ Queue!Becomes(i, Queue!Idle("pending", Jobs[i].claims))
      BY <1>1, <1>2, <2>2, <2>4, SettleFacts DEF QueueInv
    <3>2. Queue!PutBack(i)
      BY <1>1, <2>1, <2>4, <3>1 DEF Queue!PutBack, Jobs
    <3> QED BY <1>1, <3>2 DEF Queue!QueueNext
  <2> QED BY <2>3, <2>4
<1>3. CASE ~Mine(w, i)
  BY <1>1, <1>3, RefineLate DEF Fail, QueueInv
<1> QED BY <1>2, <1>3

LEMMA QueueStep == QueueInv /\ QueueInv' /\ [Next]_vars => [Queue!QueueNext]_Jobs
<1> SUFFICES ASSUME QueueInv, QueueInv', [Next]_vars PROVE [Queue!QueueNext]_Jobs
  OBVIOUS
<1>0. \A v \in Workers, i \in Items : hold'[v][i] \in Nat
  BY OutboxAssumption DEF QueueInv, CountInv, OutboxTypeOK
<1>1. ASSUME NEW i \in Items, Enqueue(i) \/ Purge(i) PROVE Queue!QueueNext
  BY <1>1, RefineEnqueue, RefinePurge
<1>2. ASSUME NEW w \in Workers, Claim(w) \/ Succeed(w) \/ Fail(w) PROVE Queue!QueueNext
  BY <1>2, RefineClaim, RefineSucceed, RefineFail
<1>3. ASSUME NEW w \in Workers, WriteFails(w) PROVE Queue!QueueNext
  BY <1>3, RefineLate DEF WriteFails, rowVars, QueueInv
<1>4. ASSUME NEW w \in Workers, NEW i \in Items, Begin(w, i) PROVE Queue!QueueNext
  BY <1>0, <1>4, RefineLapse DEF Begin, rowVars
<1>5. ASSUME NEW w \in Workers, Crash(w) PROVE Queue!QueueNext
  <2>1. \A v \in Workers, i \in Items : hold'[v][i] > 0 => hold[v][i] > 0
    BY <1>5 DEF Crash, QueueInv, CountInv, OutboxTypeOK
  <2> QED BY <1>0, <1>5, <2>1, RefineLapse DEF Crash, rowVars
<1>6. CASE Tick
  <2>1. \A v \in Workers, i \in Items : hold[v][i] \in 0..Lease /\ hold'[v][i] = Less(hold[v][i])
    BY <1>6 DEF Tick, QueueInv, CountInv, OutboxTypeOK
  <2>2. \A v \in Workers, i \in Items : hold'[v][i] > 0 => hold[v][i] > 0
    BY <2>1, OutboxAssumption DEF Less
  <2> QED BY <1>0, <1>6, <2>2, RefineLapse DEF Tick
<1>7. CASE UNCHANGED vars
  BY <1>7 DEF vars, rowVars, workerVars, Jobs, JobOf
<1> QED BY <1>1, <1>2, <1>3, <1>4, <1>5, <1>6, <1>7 DEF Next, Step

\* The outbox implements WorkQueue (claimDurableOutbox, the two fenced updates,
\* the conflict clause of the inserts and the retention pass), for any rows,
\* replicas, batch sizes, leases, delays and numbers of attempts: a row is
\* claimed again only when no replica counts on its claim, and is put back,
\* buried or finished once for every claim, by the claims it has had.
THEOREM OutboxImplementsQueue == Spec => LapsingClaims
<1>1. Init => Queue!QueueInit
  <2>1. ASSUME Init, NEW i \in Items
        PROVE  JobOf(i) = [stage |-> "absent", claims |-> 0, by |-> {}, sure |-> {}]
    <3>1. status[i] = "absent" /\ attempts[i] = 0 /\ \A w \in Workers : ~(hold[w][i] > 0)
      BY <2>1 DEF Init
    <3> QED BY <3>1 DEF JobOf
  <2> QED BY <2>1 DEF Queue!QueueInit, Queue!Absent
<1>2. [Queue!QueueNext]_Jobs => [Queue!QueueNext]_([i \in Items |-> JobOf(i)])
  BY DEF Jobs
<1> QED BY <1>1, <1>2, QueueStep, QueueInvHolds, PTL DEF Spec, LapsingClaims, Queue!QueueSpec
=============================================================================
