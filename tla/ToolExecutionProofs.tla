------------------------ MODULE ToolExecutionProofs ------------------------
(***************************************************************************)
(* For every number of requests, workers, stops, crashes and journal       *)
(* errors: the state of ToolExecution is well typed; one worker carries    *)
(* out a journaled request at most once while the journal has room, and so *)
(* do all workers together unless one was stopped; and an answer "ok"      *)
(* means that the tool ran.  SameWorkerOnce is not inductive: it rests on  *)
(* sideMu being held from the journal's Get to the answer, on what the     *)
(* journal's memory holds at each point between them, and on a worker's    *)
(* handlers dying with it.  OnceWithoutStop rests in addition on one       *)
(* worker living at a time and on what the file says of each run.          *)
(*                                                                         *)
(* The second half is about the place a tool works in, TaskLease, for any  *)
(* engines, tasks, repositories and limits.  Leases go by ending only, so  *)
(* that whoever asked for a checkout has its lease or had it end; and from *)
(* the look at a bundle to its removal, nobody has a live lease of it and, *)
(* once it is archived, nothing in its worktrees is due, since what is     *)
(* listed of bundles stays so but for leases that run out.                 *)
(***************************************************************************)
EXTENDS ToolExecution, TaskLease, FiniteSetTheorems, TLAPS

\* A handler past "idle" has a worker, and a living handler has a living one.
Hosted ==
    \A d \in Deliveries :
        /\ pc[d] # "idle" => host[d] \in Workers
        /\ pc[d] \notin {"idle", "done", "dead"} => wst[host[d]] \notin {"new", "dead"}
        /\ pc[d] = "dead" => wst[host[d]] = "dead"

Inside == {"locked", "checked", "running", "answer"} \cup Outcomes

\* sideMu is held from the lock to the answer.
Holds == \A d \in Deliveries : pc[d] \in Inside => sideMu[host[d]] = d

\* Only Handle's calls reach the journal.
Journaled ==
    \A d \in Deliveries :
        pc[d] \in {"locked", "checked"} \cup Outcomes => Request(d) \notin Automation

EntryOf(d) == mem[host[d]][Request(d)].st

\* What the worker's journal knows of a request while its handler is inside.
Known ==
    \A d \in Deliveries : Request(d) \notin Automation =>
        /\ pc[d] = "checked" =>
              loaded[host[d]] /\ EntryOf(d) \in {"none", "failed"}
        /\ pc[d] \in {"running"} \cup Outcomes =>
              loaded[host[d]] /\ EntryOf(d) = "started"

\* A request that was carried out is recorded as completed once its handler
\* has answered.
RanRecorded ==
    \A d \in Deliveries : Request(d) \notin Automation /\ d \in ran =>
        \/ pc[d] \in {"ok", "dead"}
        \/ /\ pc[d] \in {"answer", "sent", "done"}
           /\ loaded[host[d]]
           /\ EntryOf(d) = "completed"

\* No worker has carried out a journaled request in two deliveries.
OnlyOne ==
    \A d, e \in ran : Request(d) = Request(e) /\ Request(d) \notin Automation
                         /\ host[d] = host[e] => d = e

TypeInv == ToolTypeOK /\ Hosted

Room == Cardinality(Requests) <= MaxEntries

OnceInv == TypeInv /\ Holds /\ Journaled /\ Known /\ RanRecorded

-----------------------------------------------------------------------------
\* What a delivery is.
LEMMA DeliveryShape ==
    ASSUME NEW d \in Deliveries
    PROVE  /\ Request(d) \in Requests
           /\ d # None
           /\ d = <<Request(d), d[2]>>
  BY ToolAssumption DEF Deliveries, Request

\* flushLocked writes well-typed entries whatever it trims.
LEMMA FlushTyped ==
    ASSUME ToolTypeOK, NEW w \in Workers, NEW m \in [Requests -> Entries],
           NEW ok \in BOOLEAN, Flush(w, m, ok)
    PROVE  /\ mem' \in [Workers -> [Requests -> Entries]]
           /\ disk' \in [Requests -> Entries]
           /\ errors' \in 0..MaxErrors
  <1>1. NoEntry \in Entries
    BY DEF NoEntry, Entries
  <1>2. PICK K \in Kept(m) :
           LET t == [r \in Requests |-> IF r \in K THEN m[r] ELSE NoEntry] IN
           /\ mem' = [mem EXCEPT ![w] = t]
           /\ \/ /\ ok
                 /\ disk' = t
                 /\ UNCHANGED errors
              \/ /\ ~ok
                 /\ errors < MaxErrors
                 /\ disk' \in {disk, t}
                 /\ errors' = errors + 1
    BY DEF Flush
  <1> DEFINE t == [r \in Requests |-> IF r \in K THEN m[r] ELSE NoEntry]
  <1>3. t \in [Requests -> Entries]
    BY <1>1
  <1>4. mem' = [mem EXCEPT ![w] = t] /\ disk' \in {disk, t}
    BY <1>2
  <1>5. errors' = errors \/ (errors < MaxErrors /\ errors' = errors + 1)
    BY <1>2
  <1> HIDE DEF t
  <1>6. mem' \in [Workers -> [Requests -> Entries]] /\ disk' \in [Requests -> Entries]
    BY <1>3, <1>4 DEF ToolTypeOK
  <1>7. errors' \in 0..MaxErrors
    BY <1>5, ToolAssumption DEF ToolTypeOK
  <1> QED BY <1>6, <1>7

\* While there is room flushLocked trims nothing.
LEMMA FlushKeeps ==
    ASSUME Room, NEW w \in Workers, NEW m \in [Requests -> Entries],
           NEW ok \in BOOLEAN, Flush(w, m, ok)
    PROVE  mem' = [mem EXCEPT ![w] = m]
  <1> DEFINE dom == {r \in Requests : m[r] # NoEntry}
  <1>1. IsFiniteSet(dom) /\ Cardinality(dom) <= Cardinality(Requests)
    BY FS_Subset, ToolAssumption
  <1>2. Cardinality(dom) \in Nat /\ Cardinality(Requests) \in Nat
    BY <1>1, FS_CardinalityType, ToolAssumption
  <1>3. Cardinality(dom) <= MaxEntries
    BY <1>1, <1>2, ToolAssumption DEF Room
  <1>4. Kept(m) = {dom}
    BY <1>3 DEF Kept
  <1>5. [r \in Requests |-> IF r \in dom THEN m[r] ELSE NoEntry] = m
    OBVIOUS
  <1> QED BY <1>4, <1>5 DEF Flush

\* Complete, Fail and Abandon leave an entry.
LEMMA RecordedTyped ==
    ASSUME NEW e \in Entries, NEW out \in Outcomes
    PROVE  Recorded(e, out) \in Entries
  <1>1. CASE out = "ok"
    BY <1>1 DEF Recorded, Entries
  <1>2. CASE out = "err"
    BY <1>2 DEF Recorded, Entries
  <1>3. CASE out = "deferred"
    BY <1>3 DEF Recorded, Entries, NoEntry
  <1> QED BY <1>1, <1>2, <1>3 DEF Outcomes

-----------------------------------------------------------------------------
LEMMA TypeInit == Init => TypeInv
  BY ToolAssumption DEF Init, TypeInv, ToolTypeOK, Hosted, PC, Outcomes, Entries, NoEntry

\* Every step keeps the types, and handlers with the workers that run them.
LEMMA TypeStep == TypeInv /\ [Next]_vars => TypeInv'
  <1> SUFFICES ASSUME TypeInv, [Next]_vars PROVE TypeInv'
    OBVIOUS
  <1> USE ToolAssumption, DeliveryShape DEF TypeInv
  <1>1. ASSUME NEW w \in Workers, Activate(w) PROVE TypeInv'
    BY <1>1 DEF Activate, ToolTypeOK, Hosted, workerVars, callVars, journalVars
  <1>2. ASSUME NEW w \in Workers, StopWorker(w) PROVE TypeInv'
    BY <1>2 DEF StopWorker, ToolTypeOK, Hosted, workerVars, callVars, journalVars
  <1>3. ASSUME NEW w \in Workers, StopUnmap(w) PROVE TypeInv'
    BY <1>3 DEF StopUnmap, ToolTypeOK, Hosted, workerVars, callVars, journalVars
  <1>4. CASE Crash
    BY <1>4 DEF Crash, ToolTypeOK, Hosted, workerVars, callVars, journalVars, PC
  <1>5. ASSUME NEW w \in Workers, NEW r \in Requests, ToolCancel(w, r) PROVE TypeInv'
    BY <1>5 DEF ToolCancel, ToolTypeOK, Hosted, workerVars, callVars, journalVars
  <1>6. ASSUME NEW d \in Deliveries, Deliver(d) PROVE TypeInv'
    BY <1>6 DEF Deliver, ToolTypeOK, Hosted, workerVars, callVars, journalVars, PC
  <1>7. ASSUME NEW d \in Deliveries, Handler(d) PROVE TypeInv'
    <2>1. CASE Register(d)
      BY <2>1 DEF Register, Worker, ToolTypeOK, Hosted, workerVars, callVars, journalVars, PC
    <2>2. CASE Lock(d)
      BY <2>2 DEF Lock, Worker, ToolTypeOK, Hosted, workerVars, callVars, journalVars, PC
    <2>3. CASE JournalGet(d)
      BY <2>3, ZenonT(60) DEF JournalGet, Loaded, Reply, Worker, ToolTypeOK, Hosted, workerVars, callVars,
                  journalVars, PC, Outcomes
    <2>4. CASE JournalGetFail(d)
      BY <2>4 DEF JournalGetFail, Reply, Worker, ToolTypeOK, Hosted, workerVars, callVars,
                  journalVars, PC, Outcomes
    <2>5. CASE JournalStart(d)
      <3>1. pc[d] = "checked" /\ host[d] \in Workers /\ Request(d) \in Requests
        BY <2>5 DEF JournalStart, Hosted
      <3>2. /\ mem' \in [Workers -> [Requests -> Entries]]
            /\ disk' \in [Requests -> Entries]
            /\ errors' \in 0..MaxErrors
            /\ clock' \in Nat
        <4>1. CASE mem[host[d]][Request(d)].st \notin {"none", "failed"}
          BY <2>5, <4>1 DEF JournalStart, Worker, ToolTypeOK
        <4>2. CASE mem[host[d]][Request(d)].st \in {"none", "failed"}
          <5> DEFINE m == [mem[host[d]] EXCEPT
                             ![Request(d)] = [st |-> "started", at |-> clock + 1]]
          <5>1. m \in [Requests -> Entries]
            BY <3>1 DEF ToolTypeOK, Entries
          <5>2. PICK ok \in BOOLEAN : Flush(host[d], m, ok) /\ clock' = clock + 1
            BY <2>5, <4>2 DEF JournalStart, Worker
          <5> HIDE DEF m
          <5>3. clock' \in Nat
            BY <5>2 DEF ToolTypeOK
          <5> QED BY <3>1, <5>1, <5>2, <5>3, FlushTyped
        <4> QED BY <4>1, <4>2
      <3>3. \/ pc' = [pc EXCEPT ![d] = "running"] /\ reply' = reply
            \/ pc' = [pc EXCEPT ![d] = "answer"] /\ reply' = [reply EXCEPT ![d] = "err"]
        BY <2>5 DEF JournalStart, Reply
      <3>4. UNCHANGED <<workerVars, callVars, loaded, ran, sideMu>>
        BY <2>5 DEF JournalStart
      <3> QED BY <3>1, <3>2, <3>3, <3>4, ZenonT(60)
            DEF ToolTypeOK, Hosted, workerVars, callVars, PC, Outcomes
    <2>6. ASSUME NEW out \in Outcomes, HandleReturn(d, out) PROVE TypeInv'
      <3>1. \/ pc' = [pc EXCEPT ![d] = "answer"] /\ reply' = [reply EXCEPT ![d] = out]
            \/ pc' = [pc EXCEPT ![d] = out] /\ reply' = reply
        BY <2>6 DEF HandleReturn, Reply
      <3>2. /\ UNCHANGED <<wst, current, stops, host, calls, cancelled>>
            /\ UNCHANGED <<loaded, mem, disk, clock, errors, sideMu>>
            /\ pc[d] = "running"
            /\ ran' \subseteq ran \cup {d}
        BY <2>6 DEF HandleReturn, workerVars, callVars, journalVars
      <3>3. /\ pc' \in [Deliveries -> PC]
            /\ reply' \in [Deliveries -> Outcomes \cup {"none"}]
            /\ pc'[d] \notin {"idle", "done", "dead"}
            /\ \A e \in Deliveries \ {d} : pc'[e] = pc[e]
        <4>1. /\ pc \in [Deliveries -> PC]
              /\ reply \in [Deliveries -> Outcomes \cup {"none"}]
          BY DEF ToolTypeOK
        <4>2. out \in PC /\ out \notin {"idle", "done", "dead"} /\ "answer" \in PC
          BY DEF PC, Outcomes
        <4> QED BY <3>1, <4>1, <4>2
      <3>4. ToolTypeOK'
        BY <3>2, <3>3 DEF ToolTypeOK
      <3>5. Hosted'
        BY <3>2, <3>3 DEF Hosted
      <3> QED BY <3>4, <3>5
    <2>7. CASE JournalRecord(d)
      <3>1. pc[d] \in Outcomes /\ pc[d] # "idle" /\ host[d] \in Workers /\ Request(d) \in Requests
        BY <2>7 DEF JournalRecord, Hosted, Outcomes
      <3>2. /\ mem' \in [Workers -> [Requests -> Entries]]
            /\ disk' \in [Requests -> Entries]
            /\ errors' \in 0..MaxErrors
        <4>1. CASE mem[host[d]][Request(d)] = NoEntry
          BY <2>7, <4>1 DEF JournalRecord, Worker, ToolTypeOK
        <4>2. CASE mem[host[d]][Request(d)] # NoEntry
          <5> DEFINE m == [mem[host[d]] EXCEPT ![Request(d)] = Recorded(@, pc[d])]
          <5>1. m \in [Requests -> Entries]
            BY <3>1, RecordedTyped DEF ToolTypeOK
          <5>2. PICK ok \in BOOLEAN : Flush(host[d], m, ok)
            BY <2>7, <4>2 DEF JournalRecord, Worker
          <5> HIDE DEF m
          <5> QED BY <3>1, <5>1, <5>2, FlushTyped
        <4> QED BY <4>1, <4>2
      <3>3. /\ pc' = [pc EXCEPT ![d] = "answer"]
            /\ \E out \in Outcomes : reply' = [reply EXCEPT ![d] = out]
        BY <2>7, <3>1 DEF JournalRecord, Reply, Outcomes
      <3>4. UNCHANGED <<workerVars, callVars, loaded, clock, ran, sideMu>>
        BY <2>7 DEF JournalRecord
      <3> QED BY <3>1, <3>2, <3>3, <3>4
            DEF ToolTypeOK, Hosted, workerVars, callVars, PC, Outcomes
    <2>8. CASE Answer(d)
      BY <2>8 DEF Answer, Worker, ToolTypeOK, Hosted, workerVars, callVars, journalVars, PC
    <2>9. CASE Forget(d)
      BY <2>9 DEF Forget, Worker, ToolTypeOK, Hosted, workerVars, callVars, journalVars, PC
    <2> QED BY <1>7, <2>1, <2>2, <2>3, <2>4, <2>5, <2>6, <2>7, <2>8, <2>9 DEF Handler
  <1>8. CASE UNCHANGED vars
    BY <1>8 DEF vars, ToolTypeOK, Hosted, workerVars, callVars, journalVars
  <1> QED BY <1>1, <1>2, <1>3, <1>4, <1>5, <1>6, <1>7, <1>8 DEF Next

\* The state of the runtime's workers, handlers and journals is well typed,
\* for every number of requests and workers and any bounds on stops and errors.
THEOREM ToolTypeCorrect == Spec => []ToolTypeOK
  <1>1. TypeInv => ToolTypeOK
    BY DEF TypeInv
  <1> QED BY <1>1, TypeInit, TypeStep, PTL DEF Spec
-----------------------------------------------------------------------------
LEMMA OnceInit == Init => OnceInv
  <1> SUFFICES ASSUME Init PROVE OnceInv
    OBVIOUS
  <1>1. \A d \in Deliveries : pc[d] = "idle" /\ d \notin ran
    BY DEF Init
  <1>2. Holds /\ Journaled /\ Known /\ RanRecorded
    BY <1>1 DEF Holds, Journaled, Known, RanRecorded, Inside, Outcomes
  <1> QED BY <1>2, TypeInit DEF OnceInv

\* A handler that is inside is alone inside its worker.
LEMMA AloneInside ==
    ASSUME TypeInv, Holds, NEW d \in Deliveries, NEW e \in Deliveries,
           pc[d] \in Inside, pc[e] \in Inside, host[d] = host[e]
    PROVE  d = e
  BY DEF Holds

\* Only handlers that are about to consult the journal enter it.
LEMMA JournaledStep == TypeInv /\ Journaled /\ [Next]_vars => Journaled'
  <1> SUFFICES ASSUME TypeInv, Journaled, [Next]_vars, NEW e \in Deliveries,
                      pc'[e] \in {"locked", "checked"} \cup Outcomes
               PROVE  Request(e) \notin Automation
    BY DEF Journaled
  <1> USE DEF TypeInv, ToolTypeOK, Journaled, Outcomes
  <1>1. ASSUME NEW w \in Workers, Activate(w) \/ StopWorker(w) \/ StopUnmap(w)
        PROVE  Request(e) \notin Automation
    BY <1>1 DEF Activate, StopWorker, StopUnmap
  <1>2. CASE Crash
    BY <1>2 DEF Crash
  <1>3. ASSUME NEW w \in Workers, NEW r \in Requests, ToolCancel(w, r)
        PROVE  Request(e) \notin Automation
    BY <1>3 DEF ToolCancel
  <1>4. ASSUME NEW d \in Deliveries, Deliver(d) \/ Handler(d)
        PROVE  Request(e) \notin Automation
    BY <1>4 DEF Deliver, Handler, Register, Lock, JournalGet, JournalGetFail, JournalStart,
                HandleReturn, JournalRecord, Answer, Forget, Reply
  <1>5. CASE UNCHANGED vars
    BY <1>5 DEF vars
  <1> QED BY <1>1, <1>2, <1>3, <1>4, <1>5 DEF Next

\* A handler inside its worker may change the entry of its own request unless
\* that entry is completed.
LEMMA StepInside ==
    ASSUME OnceInv, NEW d \in Deliveries, NEW w \in Workers, NEW r \in Requests,
           w = host[d], r = Request(d), pc[d] \in Inside, r \notin Automation,
           loaded[w], mem[w][r].st # "completed", NEW x,
           mem' = [mem EXCEPT ![w] = [mem[w] EXCEPT ![r] = x]],
           UNCHANGED <<host, loaded, ran, sideMu>>,
           NEW q \in {"running", "answer"}, pc' = [pc EXCEPT ![d] = q],
           q = "running" => x.st = "started" /\ d \notin ran,
           q = "answer" /\ d \in ran => x.st = "completed"
    PROVE  Holds' /\ Known' /\ RanRecorded'
  <1> USE DEF OnceInv, TypeInv
  <1>1. Holds'
    BY DEF Holds, ToolTypeOK, Inside
  <1>2. EntryOf(d)' = x.st
    BY DEF EntryOf, ToolTypeOK
  <1>3. ASSUME NEW e \in Deliveries, e # d, Request(e) \notin Automation,
               pc[e] \in Inside
        PROVE  EntryOf(e)' = EntryOf(e)
    <2>1. host[e] # w
      BY <1>3, AloneInside
    <2> QED BY <2>1, <1>3 DEF EntryOf, ToolTypeOK, Hosted, Inside, Outcomes
  <1>4. ASSUME NEW e \in Deliveries, e # d, host[e] \in Workers, EntryOf(e) = "completed"
        PROVE  EntryOf(e)' = "completed"
    <2>1. Request(e) \in Requests
      BY DeliveryShape
    <2>2. host[e] # w \/ Request(e) # r
      BY <1>4 DEF EntryOf
    <2> QED BY <2>1, <2>2, <1>4 DEF EntryOf, ToolTypeOK
  <1>5. Known'
    <2> SUFFICES ASSUME NEW e \in Deliveries, Request(e) \notin Automation
                 PROVE  /\ pc'[e] = "checked" =>
                              loaded[host[e]] /\ EntryOf(e)' \in {"none", "failed"}
                        /\ pc'[e] \in {"running"} \cup Outcomes =>
                              loaded[host[e]] /\ EntryOf(e)' = "started"
      BY DEF Known, EntryOf
    <2>1. CASE e = d
      BY <2>1, <1>2 DEF ToolTypeOK, Outcomes
    <2>2. CASE e # d
      BY <2>2, <1>3 DEF Known, ToolTypeOK, Inside, Outcomes
    <2> QED BY <2>1, <2>2
  <1>6. RanRecorded'
    <2> SUFFICES ASSUME NEW e \in Deliveries, Request(e) \notin Automation, e \in ran
                 PROVE  \/ pc'[e] \in {"ok", "dead"}
                        \/ /\ pc'[e] \in {"answer", "sent", "done"}
                           /\ loaded[host[e]]
                           /\ EntryOf(e)' = "completed"
      BY DEF RanRecorded, EntryOf
    <2>1. CASE e = d
      BY <2>1, <1>2 DEF ToolTypeOK
    <2>2. CASE e # d
      BY <2>2, <1>4 DEF RanRecorded, ToolTypeOK, Hosted
    <2> QED BY <2>1, <2>2
  <1> QED BY <1>1, <1>5, <1>6

\* While there is room, every step keeps what OnceInv says of handlers and
\* journal entries.
LEMMA OnceStep == Room /\ OnceInv /\ [Next]_vars => OnceInv'
  <1> SUFFICES ASSUME Room, OnceInv, [Next]_vars PROVE Holds' /\ Known' /\ RanRecorded'
    BY TypeStep, JournaledStep DEF OnceInv
  <1> USE DeliveryShape DEF OnceInv, TypeInv
  <1>1. ASSUME NEW w \in Workers, Activate(w) \/ StopWorker(w) \/ StopUnmap(w)
        PROVE  Holds' /\ Known' /\ RanRecorded'
    BY <1>1 DEF Activate, StopWorker, StopUnmap, Holds, Known, RanRecorded, EntryOf,
                callVars, journalVars
  <1>2. CASE Crash
    BY <1>2 DEF Crash, Holds, Known, RanRecorded, EntryOf, Inside, Outcomes, callVars, journalVars,
                ToolTypeOK, PC
  <1>3. ASSUME NEW w \in Workers, NEW r \in Requests, ToolCancel(w, r)
        PROVE  Holds' /\ Known' /\ RanRecorded'
    BY <1>3 DEF ToolCancel, Holds, Known, RanRecorded, EntryOf, journalVars
  <1>4. ASSUME NEW d \in Deliveries, Deliver(d)
        PROVE  Holds' /\ Known' /\ RanRecorded'
    BY <1>4 DEF Deliver, Holds, Known, RanRecorded, EntryOf, Inside, Outcomes, journalVars, ToolTypeOK
  <1>5. ASSUME NEW d \in Deliveries, Handler(d)
        PROVE  Holds' /\ Known' /\ RanRecorded'
    <2>1. CASE Register(d)
      BY <2>1 DEF Register, Holds, Known, RanRecorded, EntryOf, Inside, Outcomes, journalVars, ToolTypeOK
    <2>2. CASE Lock(d)
      <3>1. /\ pc[d] = "received" /\ host[d] \in Workers /\ sideMu[host[d]] = None
            /\ sideMu' = [sideMu EXCEPT ![host[d]] = d]
            /\ pc' = [pc EXCEPT ![d] = IF Request(d) \in Automation THEN "running" ELSE "locked"]
            /\ UNCHANGED <<host, loaded, mem, ran>>
        BY <2>2 DEF Lock, Worker, Hosted, callVars, journalVars
      <3>2. \A e \in Deliveries : pc[e] \in Inside => host[e] # host[d] /\ host[e] \in Workers
        BY <3>1 DEF Holds, Hosted, Inside, Outcomes
      <3>3. Holds'
        BY <3>1, <3>2 DEF Holds, ToolTypeOK
      <3>4. Known'
        BY <3>1 DEF Known, EntryOf, ToolTypeOK, Outcomes
      <3>5. RanRecorded'
        BY <3>1 DEF RanRecorded, EntryOf, ToolTypeOK
      <3> QED BY <3>3, <3>4, <3>5
    <2>3. CASE JournalGet(d)
      <3> DEFINE w == host[d]  r == Request(d)
      <3>1. /\ pc[d] = "locked" /\ w \in Workers
            /\ loaded' = [loaded EXCEPT ![w] = TRUE]
            /\ mem' = [mem EXCEPT ![w] = Loaded(w)]
            /\ UNCHANGED <<host, ran, sideMu>>
        BY <2>3 DEF JournalGet, Worker, Hosted, callVars
      <3>2. \/ pc' = [pc EXCEPT ![d] = "answer"]
            \/ pc' = [pc EXCEPT ![d] = "checked"] /\ Loaded(w)[r].st \in {"none", "failed"}
        BY <2>3 DEF JournalGet, Reply, Worker
      <3>3. Holds'
        BY <3>1, <3>2 DEF Holds, ToolTypeOK, Inside
      <3>4. \A e \in Deliveries : host[e] \in Workers /\ loaded[host[e]] =>
               loaded'[host[e]] /\ EntryOf(e)' = EntryOf(e)
        BY <3>1 DEF EntryOf, Loaded, ToolTypeOK
      <3>5. Known'
        <4> SUFFICES ASSUME NEW e \in Deliveries, Request(e) \notin Automation
                     PROVE  /\ pc'[e] = "checked" =>
                                  loaded'[host[e]] /\ EntryOf(e)' \in {"none", "failed"}
                            /\ pc'[e] \in {"running"} \cup Outcomes =>
                                  loaded'[host[e]] /\ EntryOf(e)' = "started"
          BY <3>1 DEF Known, EntryOf
        <4>1. CASE e = d
          BY <4>1, <3>1, <3>2 DEF EntryOf, ToolTypeOK, Outcomes
        <4>2. CASE e # d
          BY <4>2, <3>1, <3>2, <3>4 DEF Known, ToolTypeOK, Hosted, Outcomes
        <4> QED BY <4>1, <4>2
      <3>6. RanRecorded'
        <4> SUFFICES ASSUME NEW e \in Deliveries, Request(e) \notin Automation, e \in ran
                     PROVE  \/ pc'[e] \in {"ok", "dead"}
                            \/ /\ pc'[e] \in {"answer", "sent", "done"}
                               /\ loaded'[host[e]]
                               /\ EntryOf(e)' = "completed"
          BY <3>1 DEF RanRecorded, EntryOf
        <4>1. e # d /\ pc'[e] = pc[e]
          BY <3>1, <3>2 DEF RanRecorded, ToolTypeOK
        <4> QED BY <4>1, <3>4 DEF RanRecorded, Hosted
      <3> QED BY <3>3, <3>5, <3>6
    <2>4. CASE JournalGetFail(d)
      BY <2>4 DEF JournalGetFail, Reply, Worker, Holds, Known, RanRecorded, EntryOf,
                  Inside, Outcomes, Hosted, callVars, ToolTypeOK
    <2>5. CASE JournalStart(d)
      <3> DEFINE w == host[d]  r == Request(d)
                 x == [st |-> "started", at |-> clock + 1]
      <3>1. /\ pc[d] = "checked" /\ w \in Workers /\ r \in Requests
            /\ r \notin Automation
            /\ UNCHANGED <<host, loaded, ran, sideMu>>
        BY <2>5 DEF JournalStart, Hosted, Journaled, callVars
      <3>2. loaded[w] /\ mem[w][r].st \in {"none", "failed"}
        BY <3>1 DEF Known, EntryOf
      <3>3. PICK ok \in BOOLEAN :
               /\ Flush(w, [mem[w] EXCEPT ![r] = x], ok)
               /\ pc' \in {[pc EXCEPT ![d] = "running"], [pc EXCEPT ![d] = "answer"]}
        BY <2>5, <3>2 DEF JournalStart, Reply, Worker
      <3>4. [mem[w] EXCEPT ![r] = x] \in [Requests -> Entries]
        BY <3>1 DEF ToolTypeOK, Entries
      <3>5. mem' = [mem EXCEPT ![w] = [mem[w] EXCEPT ![r] = x]]
        BY <3>1, <3>3, <3>4, FlushKeeps
      <3>6. x.st = "started" /\ d \notin ran /\ pc[d] \in Inside
        BY <3>1 DEF RanRecorded, Inside
      <3>7. PICK q \in {"running", "answer"} : pc' = [pc EXCEPT ![d] = q]
        BY <3>3
      <3> HIDE DEF x
      <3> QED BY <3>1, <3>2, <3>5, <3>6, <3>7, StepInside
    <2>6. ASSUME NEW out \in Outcomes, HandleReturn(d, out)
          PROVE  Holds' /\ Known' /\ RanRecorded'
      BY <2>6 DEF HandleReturn, Reply, Holds, Known, RanRecorded, EntryOf,
                  Inside, Outcomes, Hosted, callVars, journalVars, ToolTypeOK
    <2>7. CASE JournalRecord(d)
      <3> DEFINE w == host[d]  r == Request(d)  x == Recorded(mem[w][r], pc[d])
      <3>1. /\ pc[d] \in Outcomes /\ w \in Workers /\ r \in Requests
            /\ r \notin Automation
            /\ pc' = [pc EXCEPT ![d] = "answer"]
            /\ UNCHANGED <<host, loaded, ran, sideMu>>
        BY <2>7 DEF JournalRecord, Hosted, Journaled, callVars, Reply, Outcomes
      <3>2. loaded[w] /\ mem[w][r].st = "started" /\ mem[w][r] \in Entries
        BY <3>1 DEF Known, EntryOf, ToolTypeOK
      <3>3. mem[w][r] # NoEntry
        BY <3>2 DEF NoEntry
      <3>4. PICK ok \in BOOLEAN : Flush(w, [mem[w] EXCEPT ![r] = x], ok)
        BY <2>7, <3>3 DEF JournalRecord, Worker
      <3>5. [mem[w] EXCEPT ![r] = x] \in [Requests -> Entries]
        BY <3>1, <3>2, RecordedTyped DEF ToolTypeOK
      <3>6. mem' = [mem EXCEPT ![w] = [mem[w] EXCEPT ![r] = x]]
        <4> HIDE DEF x
        <4> QED BY <3>1, <3>4, <3>5, FlushKeeps
      <3>7. d \in ran => x.st = "completed"
        BY <3>1, <3>2 DEF RanRecorded, Recorded, Outcomes, Entries
      <3>8. pc[d] \in Inside /\ "answer" \in {"running", "answer"} /\ "answer" # "running"
        BY <3>1 DEF Inside
      <3> HIDE DEF x
      <3> QED BY <3>1, <3>2, <3>6, <3>7, <3>8, StepInside
    <2>8. CASE Answer(d)
      BY <2>8 DEF Answer, Worker, Holds, Known, RanRecorded, EntryOf, Inside, Outcomes, Hosted,
                  callVars, journalVars, ToolTypeOK
    <2>9. CASE Forget(d)
      BY <2>9 DEF Forget, Holds, Known, RanRecorded, EntryOf, Inside, Outcomes, journalVars, ToolTypeOK
    <2> QED BY <1>5, <2>1, <2>2, <2>3, <2>4, <2>5, <2>6, <2>7, <2>8, <2>9 DEF Handler
  <1>6. CASE UNCHANGED vars
    BY <1>6 DEF vars, Holds, Known, RanRecorded, EntryOf, callVars, journalVars
  <1> QED BY <1>1, <1>2, <1>3, <1>4, <1>5, <1>6 DEF Next

\* The delivery whose tool returns is the first of its request to be carried
\* out by its worker: an earlier one would be inside too, or recorded as
\* completed, or dead together with the worker.
LEMMA OnlyOneStep == OnceInv /\ OnlyOne /\ [Next]_vars => OnlyOne'
  <1> SUFFICES ASSUME OnceInv, OnlyOne, [Next]_vars PROVE OnlyOne'
    OBVIOUS
  <1> USE DEF OnceInv, TypeInv
  <1>1. ASSUME NEW d \in Deliveries, NEW out \in Outcomes, HandleReturn(d, out) PROVE OnlyOne'
    <2>1. ran' \subseteq ran \cup {d} /\ host' = host /\ pc[d] = "running"
      BY <1>1 DEF HandleReturn, callVars
    <2>2. ASSUME NEW e \in ran, Request(e) = Request(d), Request(d) \notin Automation,
                 host[e] = host[d]
          PROVE  e = d
      <3>1. e \in Deliveries
        BY DEF ToolTypeOK
      <3>2. EntryOf(e) = "started" /\ wst[host[d]] # "dead" /\ pc[d] \in Inside
        BY <2>1, <2>2, <3>1 DEF Known, EntryOf, Hosted, Inside
      <3>3. pc[e] = "ok"
        BY <2>2, <3>1, <3>2 DEF RanRecorded, Hosted
      <3> QED BY <2>2, <3>1, <3>2, <3>3, AloneInside DEF Inside, Outcomes
    <2> QED BY <2>1, <2>2 DEF OnlyOne
  <1>2. ASSUME NEW d \in Deliveries, Deliver(d) PROVE OnlyOne'
    <2>1. d \in ran => Request(d) \in Automation
      BY <1>2 DEF Deliver, RanRecorded
    <2> QED BY <1>2, <2>1 DEF Deliver, OnlyOne, ToolTypeOK
  <1>3. CASE UNCHANGED <<ran, host>>
    BY <1>3 DEF OnlyOne
  <1>4. ASSUME NEW d \in Deliveries, Handler(d),
               \A out \in Outcomes : ~HandleReturn(d, out)
        PROVE  UNCHANGED <<ran, host>>
    BY <1>4 DEF Handler, Register, Lock, JournalGet, JournalGetFail, JournalStart, JournalRecord,
                Answer, Forget, callVars
  <1>5. \/ \E d \in Deliveries : Deliver(d) \/ \E out \in Outcomes : HandleReturn(d, out)
        \/ UNCHANGED <<ran, host>>
    BY <1>4 DEF Next, vars, Activate, StopWorker, StopUnmap, Crash, ToolCancel, callVars
  <1> QED BY <1>1, <1>2, <1>3, <1>5

\* While the journal has room, one worker carries out a journaled request at
\* most once, whatever stops, crashes, cancellations and journal errors the
\* runtime goes through, for every number of requests and workers.
THEOREM SameWorkerOnceHolds == Spec => []SameWorkerOnce
  <1>1. CASE Room
    <2>1. Init => OnceInv /\ OnlyOne
      BY OnceInit DEF Init, OnlyOne
    <2>2. OnceInv /\ OnlyOne /\ [Next]_vars => (OnceInv /\ OnlyOne)'
      BY <1>1, OnceStep, OnlyOneStep
    <2>3. OnlyOne => SameWorkerOnce
      <3> SUFFICES ASSUME OnlyOne, NEW r \in Retryable \ Automation,
                          host[<<r, 1>>] = host[<<r, 2>>],
                          {<<r, 1>>, <<r, 2>>} \subseteq ran
                   PROVE  FALSE
        BY DEF SameWorkerOnce
      <3>1. Request(<<r, 1>>) = r /\ Request(<<r, 2>>) = r
        BY DEF Request
      <3> QED BY <3>1 DEF OnlyOne
    <2> QED BY <2>1, <2>2, <2>3, PTL DEF Spec
  <1>2. CASE ~Room
    <2>1. SameWorkerOnce
      BY <1>2 DEF SameWorkerOnce, Room
    <2> QED BY <2>1, PTL
  <1> QED BY <1>1, <1>2

-----------------------------------------------------------------------------
(* Answers that claim a success.                                            *)

\* handle has returned a result only for a delivery that was carried out.
OkRan == \A d \in Deliveries : pc[d] = "ok" => d \in ran

OkInv == OkRan /\ OkMeansRan

-----------------------------------------------------------------------------
(* At most once over the process's whole life, when no worker is stopped.   *)

\* A process that has stopped no worker has one living worker at most, and a
\* worker that has not been started has read no journal.
OneLive ==
    /\ \A w \in Workers : wst[w] = "new" => ~loaded[w]
    /\ stops = 0 => \A w \in Workers :
          wst[w] \in {"new", "dead"} \/ (wst[w] = "live" /\ w = current)

\* While a journaled tool runs its file entry says so; once it has been carried
\* out neither the file nor the living journal forgets it, and no other
\* delivery of the request is, or was, carried out.
Durable ==
    stops = 0 =>
        /\ \A d \in Deliveries :
              Request(d) \notin Automation /\ pc[d] \in {"running"} \cup Outcomes =>
                  disk[Request(d)].st = "started"
        /\ \A d \in ran : Request(d) \notin Automation =>
              /\ disk[Request(d)].st \in {"started", "completed"}
              /\ \A w \in Workers : wst[w] = "live" /\ loaded[w] =>
                    mem[w][Request(d)].st \in {"started", "completed"}
              /\ \A e \in Deliveries : e # d /\ Request(e) = Request(d) =>
                    e \notin ran /\ pc[e] \notin {"running"} \cup Outcomes

\* What flushLocked leaves in memory and in the file: entries it was given, or
\* none, or the file as it was.
LEMMA FlushFrom ==
    ASSUME NEW w \in Workers, ToolTypeOK, NEW m, NEW ok \in BOOLEAN, Flush(w, m, ok)
    PROVE  /\ \A v \in Workers, r \in Requests :
                 mem'[v][r] = IF v = w THEN mem'[w][r] ELSE mem[v][r]
           /\ \A r \in Requests : mem'[w][r] \in {m[r], NoEntry}
           /\ \A r \in Requests : disk'[r] \in {disk[r], m[r], NoEntry}
  <1>1. PICK K \in Kept(m) :
           LET t == [r \in Requests |-> IF r \in K THEN m[r] ELSE NoEntry] IN
           /\ mem' = [mem EXCEPT ![w] = t]
           /\ disk' \in {disk, t}
    BY DEF Flush
  <1> QED BY <1>1 DEF ToolTypeOK

\* While there is room the file has the journal's entries, or is as it was
\* when the write failed.
LEMMA FlushDisk ==
    ASSUME Room, NEW w \in Workers, NEW m \in [Requests -> Entries],
           NEW ok \in BOOLEAN, Flush(w, m, ok)
    PROVE  disk' \in {disk, m} /\ (ok => disk' = m)
  <1> DEFINE dom == {r \in Requests : m[r] # NoEntry}
  <1>1. IsFiniteSet(dom) /\ Cardinality(dom) <= Cardinality(Requests)
    BY FS_Subset, ToolAssumption
  <1>2. Cardinality(dom) \in Nat /\ Cardinality(Requests) \in Nat
    BY <1>1, FS_CardinalityType, ToolAssumption
  <1>3. Cardinality(dom) <= MaxEntries
    BY <1>1, <1>2, ToolAssumption DEF Room
  <1>4. Kept(m) = {dom}
    BY <1>3 DEF Kept
  <1>5. [r \in Requests |-> IF r \in dom THEN m[r] ELSE NoEntry] = m
    OBVIOUS
  <1> QED BY <1>4, <1>5 DEF Flush

\* A success enters the journal and the answers only after the tool's own.
LEMMA OkStep == TypeInv /\ OkInv /\ [Next]_vars => OkInv'
  <1> SUFFICES ASSUME TypeInv, OkInv, [Next]_vars PROVE OkInv'
    OBVIOUS
  <1> USE DeliveryShape DEF OkInv, TypeInv
  <1>1. ran \subseteq ran'
    BY DEF Next, Activate, StopWorker, StopUnmap, Crash, ToolCancel, Deliver, Handler, Register,
           Lock, JournalGet, JournalGetFail, JournalStart, HandleReturn, JournalRecord,
           Answer, Forget, vars
  <1>2. ASSUME UNCHANGED <<mem, disk, reply>>,
               \A d \in Deliveries : pc'[d] = "ok" => pc[d] = "ok"
        PROVE  OkInv'
    BY <1>1, <1>2 DEF OkRan, OkMeansRan
  <1>3. ASSUME NEW w \in Workers, Activate(w) \/ StopWorker(w) \/ StopUnmap(w) PROVE OkInv'
    BY <1>2, <1>3 DEF Activate, StopWorker, StopUnmap, journalVars
  <1>4. CASE Crash
    BY <1>2, <1>4 DEF Crash, journalVars, ToolTypeOK
  <1>5. ASSUME NEW w \in Workers, NEW r \in Requests, ToolCancel(w, r) PROVE OkInv'
    BY <1>2, <1>5 DEF ToolCancel, journalVars
  <1>6. ASSUME NEW d \in Deliveries, Deliver(d) \/ Register(d) \/ Lock(d) \/ Answer(d) \/ Forget(d)
        PROVE  OkInv'
    BY <1>2, <1>6 DEF Deliver, Register, Lock, Answer, Forget, journalVars, ToolTypeOK
  <1>7. ASSUME NEW d \in Deliveries, JournalGet(d) PROVE OkInv'
    <2> DEFINE w == host[d]
    <2>1. pc[d] = "locked" /\ w \in Workers /\ Request(d) \in Requests
      BY <1>7 DEF JournalGet, Hosted
    <2>2. /\ mem' = [mem EXCEPT ![w] = Loaded(w)]
          /\ UNCHANGED <<disk, ran>>
          /\ \/ pc' = [pc EXCEPT ![d] = "answer"] /\ reply' = [reply EXCEPT ![d] = "err"]
             \/ /\ Loaded(w)[Request(d)].st = "completed"
                /\ pc' = [pc EXCEPT ![d] = "answer"] /\ reply' = [reply EXCEPT ![d] = "ok"]
             \/ pc' = [pc EXCEPT ![d] = "checked"] /\ UNCHANGED reply
      BY <1>7 DEF JournalGet, Reply, Worker
    <2>3. \A v \in Workers, r \in Requests : mem'[v][r] \in {mem[v][r], disk[r]}
      BY <2>1, <2>2 DEF Loaded, ToolTypeOK
    <2>4. Loaded(w)[Request(d)] \in {mem[w][Request(d)], disk[Request(d)]}
      BY DEF Loaded
    <2>5. OkRan'
      BY <2>2 DEF OkRan, ToolTypeOK
    <2>6. OkMeansRan'
      <3> SUFFICES ASSUME NEW r \in Requests,
                          \A e \in Deliveries : Request(e) = r => e \notin ran
                   PROVE  /\ disk'[r].st # "completed"
                          /\ \A v \in Workers : mem'[v][r].st # "completed"
                          /\ \A e \in Deliveries : Request(e) = r => reply'[e] # "ok"
        BY <2>2 DEF OkMeansRan
      <3>1. /\ disk[r].st # "completed"
            /\ \A v \in Workers : mem[v][r].st # "completed"
            /\ \A e \in Deliveries : Request(e) = r => reply[e] # "ok"
        BY DEF OkMeansRan
      <3>2. \A v \in Workers : mem'[v][r].st # "completed"
        BY <2>3, <3>1
      <3>3. \A e \in Deliveries : Request(e) = r => reply'[e] # "ok"
        BY <2>1, <2>2, <2>4, <3>1 DEF ToolTypeOK
      <3> QED BY <2>2, <3>1, <3>2, <3>3
    <2> QED BY <2>5, <2>6
  <1>8. ASSUME NEW d \in Deliveries, JournalGetFail(d) PROVE OkInv'
    BY <1>8 DEF JournalGetFail, Reply, OkRan, OkMeansRan, ToolTypeOK
  <1>9. ASSUME NEW d \in Deliveries, NEW w \in Workers, NEW m, NEW ok \in BOOLEAN,
               Flush(w, m, ok), UNCHANGED ran,
               \A r \in Requests : m[r].st = "completed" =>
                   mem[w][r].st = "completed" \/ (r = Request(d) /\ d \in ran),
               \A e \in Deliveries : pc'[e] = "ok" => pc[e] = "ok",
               \A e \in Deliveries : reply'[e] = "ok" => reply[e] = "ok" \/ (e = d /\ d \in ran)
        PROVE  OkInv'
    <2>1. /\ \A v \in Workers, r \in Requests :
                mem'[v][r] = IF v = w THEN mem'[w][r] ELSE mem[v][r]
          /\ \A r \in Requests : mem'[w][r] \in {m[r], NoEntry}
          /\ \A r \in Requests : disk'[r] \in {disk[r], m[r], NoEntry}
      BY <1>9, FlushFrom
    <2>2. NoEntry.st # "completed"
      BY DEF NoEntry
    <2>3. OkRan'
      BY <1>9 DEF OkRan
    <2>4. OkMeansRan'
      <3> SUFFICES ASSUME NEW r \in Requests,
                          \A e \in Deliveries : Request(e) = r => e \notin ran
                   PROVE  /\ disk'[r].st # "completed"
                          /\ \A v \in Workers : mem'[v][r].st # "completed"
                          /\ \A e \in Deliveries : Request(e) = r => reply'[e] # "ok"
        BY <1>9 DEF OkMeansRan
      <3>1. /\ disk[r].st # "completed"
            /\ \A v \in Workers : mem[v][r].st # "completed"
            /\ \A e \in Deliveries : Request(e) = r => reply[e] # "ok"
        BY DEF OkMeansRan
      <3>2. m[r].st # "completed"
        BY <1>9, <3>1
      <3> QED BY <1>9, <2>1, <2>2, <3>1, <3>2
    <2> QED BY <2>3, <2>4
  <1>10. ASSUME NEW d \in Deliveries, JournalStart(d) PROVE OkInv'
    <2> DEFINE w == host[d]  r == Request(d)
               m == [mem[w] EXCEPT ![r] = [st |-> "started", at |-> clock + 1]]
    <2>1. w \in Workers /\ r \in Requests /\ pc[d] = "checked" /\ UNCHANGED ran
      BY <1>10 DEF JournalStart, Hosted
    <2>2. CASE mem[w][r].st \notin {"none", "failed"}
      BY <1>2, <1>10, <2>2 DEF JournalStart, Worker, ToolTypeOK
    <2>3. CASE mem[w][r].st \in {"none", "failed"}
      <3>1. PICK ok \in BOOLEAN :
               /\ Flush(w, m, ok)
               /\ \/ pc' = [pc EXCEPT ![d] = "running"] /\ UNCHANGED reply
                  \/ pc' = [pc EXCEPT ![d] = "answer"] /\ reply' = [reply EXCEPT ![d] = "err"]
        BY <1>10, <2>3 DEF JournalStart, Reply, Worker
      <3>2. \A q \in Requests : m[q].st = "completed" => mem[w][q].st = "completed"
        BY <2>1 DEF ToolTypeOK
      <3>3. \A e \in Deliveries : /\ pc'[e] = "ok" => pc[e] = "ok"
                                  /\ reply'[e] = "ok" => reply[e] = "ok"
        BY <3>1 DEF ToolTypeOK
      <3> HIDE DEF m
      <3> QED BY <1>9, <2>1, <3>1, <3>2, <3>3
    <2> QED BY <2>2, <2>3
  <1>11. ASSUME NEW d \in Deliveries, NEW out \in Outcomes, HandleReturn(d, out) PROVE OkInv'
    <2>1. /\ UNCHANGED <<mem, disk>>
          /\ out = "ok" => d \in ran'
          /\ \/ pc' = [pc EXCEPT ![d] = "answer"] /\ reply' = [reply EXCEPT ![d] = out]
             \/ pc' = [pc EXCEPT ![d] = out] /\ reply' = reply
      BY <1>11 DEF HandleReturn, Reply, journalVars
    <2>2. \A e \in Deliveries : /\ pc'[e] = "ok" => pc[e] = "ok" \/ e \in ran'
                                /\ reply'[e] = "ok" => reply[e] = "ok" \/ e \in ran'
      BY <2>1 DEF ToolTypeOK
    <2>3. OkRan'
      BY <1>1, <2>2 DEF OkRan
    <2>4. OkMeansRan'
      BY <1>1, <2>1, <2>2 DEF OkMeansRan
    <2> QED BY <2>3, <2>4
  <1>12. ASSUME NEW d \in Deliveries, JournalRecord(d) PROVE OkInv'
    <2> DEFINE w == host[d]  r == Request(d)
               m == [mem[w] EXCEPT ![r] = Recorded(@, pc[d])]
    <2>1. w \in Workers /\ r \in Requests /\ pc[d] \in Outcomes /\ UNCHANGED ran
      BY <1>12 DEF JournalRecord, Hosted, Outcomes
    <2>2. pc[d] = "ok" => d \in ran
      BY DEF OkRan
    <2>3. /\ pc' = [pc EXCEPT ![d] = "answer"]
          /\ \E out \in {pc[d], "err"} : reply' = [reply EXCEPT ![d] = out]
      BY <1>12 DEF JournalRecord, Reply
    <2>4. \A e \in Deliveries :
             /\ pc'[e] = "ok" => pc[e] = "ok"
             /\ reply'[e] = "ok" => reply[e] = "ok" \/ (e = d /\ d \in ran)
      BY <2>2, <2>3 DEF ToolTypeOK
    <2>5. CASE mem[w][r] = NoEntry
      <3>1. UNCHANGED <<mem, disk>>
        BY <1>12, <2>5 DEF JournalRecord, Worker
      <3> QED BY <2>1, <2>4, <3>1 DEF OkRan, OkMeansRan
    <2>6. CASE mem[w][r] # NoEntry
      <3>1. PICK ok \in BOOLEAN : Flush(w, m, ok)
        BY <1>12, <2>6 DEF JournalRecord, Worker
      <3>2. \A q \in Requests : m[q].st = "completed" =>
               mem[w][q].st = "completed" \/ (q = r /\ d \in ran)
        <4>1. mem[w] \in [Requests -> Entries]
          BY <2>1 DEF ToolTypeOK
        <4>2. Recorded(mem[w][r], pc[d]).st = "completed" => pc[d] = "ok"
          BY <2>1, <4>1 DEF Recorded, Outcomes, Entries, NoEntry
        <4> QED BY <2>1, <2>2, <4>1, <4>2
      <3> HIDE DEF m
      <3> QED BY <1>9, <2>1, <2>4, <3>1, <3>2
    <2> QED BY <2>5, <2>6
  <1>13. CASE UNCHANGED vars
    BY <1>2, <1>13 DEF vars, journalVars
  <1> QED BY <1>3, <1>4, <1>5, <1>6, <1>7, <1>8, <1>10, <1>11, <1>12, <1>13 DEF Next, Handler

\* No answer and no journal entry claims a success that did not happen,
\* whatever is trimmed, replayed, retried or cut by a crash.
THEOREM OkMeansRanHolds == Spec => []OkMeansRan
  <1>1. Init => OkInv
    BY DEF Init, OkInv, OkRan, OkMeansRan, NoEntry
  <1>2. OkInv => OkMeansRan
    BY DEF OkInv
  <1> QED BY <1>1, <1>2, TypeInit, TypeStep, OkStep, PTL DEF Spec

\* One living worker at a time, as long as none is stopped.
LEMMA OneLiveStep == TypeInv /\ OneLive /\ [Next]_vars => OneLive'
  <1> SUFFICES ASSUME TypeInv, OneLive, [Next]_vars PROVE OneLive'
    OBVIOUS
  <1> USE ToolAssumption DEF TypeInv
  <1>1. ASSUME UNCHANGED <<workerVars, loaded>> PROVE OneLive'
    BY <1>1 DEF OneLive, workerVars
  <1>2. ASSUME NEW w \in Workers, Activate(w) PROVE OneLive'
    BY <1>2 DEF Activate, OneLive, journalVars, ToolTypeOK
  <1>3. ASSUME NEW w \in Workers, StopWorker(w) PROVE OneLive'
    BY <1>3 DEF StopWorker, OneLive, journalVars, ToolTypeOK
  <1>4. ASSUME NEW w \in Workers, StopUnmap(w) PROVE OneLive'
    BY <1>4 DEF StopUnmap, OneLive, journalVars, ToolTypeOK
  <1>5. CASE Crash
    BY <1>5 DEF Crash, OneLive, journalVars, ToolTypeOK
  <1>6. ASSUME NEW d \in Deliveries, JournalGet(d) PROVE OneLive'
    <2>1. wst[host[d]] # "new" /\ loaded' = [loaded EXCEPT ![host[d]] = TRUE]
          /\ UNCHANGED workerVars
      BY <1>6 DEF JournalGet, Worker, Hosted
    <2> QED BY <2>1 DEF OneLive, workerVars, ToolTypeOK
  <1>7. ASSUME NEW d \in Deliveries, Deliver(d) \/ Handler(d), ~JournalGet(d) PROVE OneLive'
    <2>1. UNCHANGED <<workerVars, loaded>>
      BY <1>7 DEF Deliver, Handler, Register, Lock, JournalGetFail, JournalStart, HandleReturn,
                  JournalRecord, Answer, Forget, journalVars
    <2> QED BY <1>1, <2>1
  <1>8. ASSUME NEW w \in Workers, NEW r \in Requests, ToolCancel(w, r) PROVE OneLive'
    BY <1>1, <1>8 DEF ToolCancel, journalVars
  <1>9. CASE UNCHANGED vars
    BY <1>1, <1>9 DEF vars, journalVars
  <1> QED BY <1>2, <1>3, <1>4, <1>5, <1>6, <1>7, <1>8, <1>9 DEF Next

\* When no worker was stopped, the handlers inside are one at most.
LEMMA AloneInProcess ==
    ASSUME TypeInv, Holds, OneLive, stops = 0, NEW d \in Deliveries, NEW e \in Deliveries,
           pc[d] \in Inside, pc[e] \in Inside
    PROVE  d = e /\ host[d] \in Workers /\ host[d] = current /\ wst[host[d]] = "live"
  <1>1. /\ host[d] \in Workers /\ host[e] \in Workers
        /\ wst[host[d]] \notin {"new", "dead"} /\ wst[host[e]] \notin {"new", "dead"}
    BY DEF TypeInv, Hosted, Inside, Outcomes
  <1>2. host[d] = current /\ host[e] = current /\ wst[host[d]] = "live"
    BY <1>1 DEF OneLive
  <1> QED BY <1>1, <1>2, AloneInside

\* A handler inside writes the entry of its own request, x, to memory and, as
\* far as the write succeeds, to the file.
LEMMA DurableWrite ==
    ASSUME OnceInv, OneLive, Durable, stops = 0, NEW d \in Deliveries, NEW x, NEW ok \in BOOLEAN,
           NEW q \in {"running", "answer"},
           pc[d] \in Inside, Request(d) \notin Automation,
           mem' = [mem EXCEPT ![host[d]] = [mem[host[d]] EXCEPT ![Request(d)] = x]],
           loaded[host[d]],
           \/ disk' = disk /\ ~ok
           \/ disk' = [mem[host[d]] EXCEPT ![Request(d)] = x],
           UNCHANGED <<wst, loaded, ran>>,
           pc' = [pc EXCEPT ![d] = q],
           q = "running" => ok /\ x.st = "started",
           \A e \in ran : Request(e) = Request(d) => x.st \in {"started", "completed"} /\ e = d
    PROVE  Durable'
  <1> DEFINE w == host[d]  r == Request(d)
  <1> USE DEF OnceInv, TypeInv
  <1>1. w \in Workers /\ w = current /\ wst[w] = "live" /\ r \in Requests
    BY AloneInProcess, DeliveryShape
  <1>2. \A e \in Deliveries \ {d} : pc[e] \notin Inside /\ pc'[e] = pc[e]
    BY AloneInProcess DEF ToolTypeOK
  <1>3. \A v \in Workers : wst[v] = "live" => v = w
    BY <1>1 DEF OneLive
  <1>4. /\ mem'[w][r] = x
        /\ \A s \in Requests \ {r} : mem'[w][s] = mem[w][s]
        /\ \A s \in Requests \ {r} : disk'[s] \in {disk[s], mem[w][s]}
        /\ disk'[r] \in {disk[r], x}
        /\ ok => disk'[r] = x
    BY <1>1 DEF ToolTypeOK
  <1>5. ASSUME NEW e \in Deliveries, Request(e) \notin Automation,
               pc'[e] \in {"running"} \cup Outcomes
        PROVE  disk'[Request(e)].st = "started"
    <2>1. e = d
      BY <1>2, <1>5 DEF Inside, Outcomes
    <2>2. q = "running"
      BY <1>5, <2>1 DEF ToolTypeOK, Outcomes
    <2> QED BY <1>4, <2>1, <2>2
  <1>6. ASSUME NEW e \in ran, Request(e) \notin Automation
        PROVE  /\ disk'[Request(e)].st \in {"started", "completed"}
               /\ \A v \in Workers : wst[v] = "live" /\ loaded[v] =>
                     mem'[v][Request(e)].st \in {"started", "completed"}
               /\ \A f \in Deliveries : f # e /\ Request(f) = Request(e) =>
                     f \notin ran /\ pc'[f] \notin {"running"} \cup Outcomes
    <2>1. e \in Deliveries /\ Request(e) \in Requests
      BY DeliveryShape DEF ToolTypeOK
    <2>2. /\ disk[Request(e)].st \in {"started", "completed"}
          /\ mem[w][Request(e)].st \in {"started", "completed"}
          /\ \A f \in Deliveries : f # e /\ Request(f) = Request(e) =>
                f \notin ran /\ pc[f] \notin {"running"} \cup Outcomes
      BY <1>1, <1>6 DEF Durable
    <2>3. \A f \in Deliveries : f # e /\ Request(f) = Request(e) =>
                f \notin ran /\ pc'[f] \notin {"running"} \cup Outcomes
      BY <1>2, <2>2
    <2>4. CASE Request(e) = r
      BY <1>3, <1>4, <2>2, <2>3, <2>4
    <2>5. CASE Request(e) # r
      BY <1>3, <1>4, <2>1, <2>2, <2>3, <2>5
    <2> QED BY <2>4, <2>5
  <1> QED BY <1>5, <1>6 DEF Durable

\* While there is room and no worker is stopped, no step forgets a request that
\* runs or was carried out.
LEMMA DurableStep ==
    Room /\ OnceInv /\ OneLive /\ Durable /\ [Next]_vars => Durable'
  <1> SUFFICES ASSUME Room, OnceInv, OneLive, Durable, [Next]_vars, stops' = 0 PROVE Durable'
    BY DEF Durable
  <1> USE DeliveryShape DEF OnceInv, TypeInv
  <1>1. stops = 0
    <2>1. \/ UNCHANGED stops
          \/ stops' = stops + 1
      BY DEF Next, Activate, StopWorker, StopUnmap, Crash, ToolCancel, Deliver, Handler, Register,
             Lock, JournalGet, JournalGetFail, JournalStart, HandleReturn, JournalRecord,
             Answer, Forget, vars, workerVars
    <2> QED BY <2>1, ToolAssumption DEF ToolTypeOK
  <1>2. ASSUME UNCHANGED <<mem, disk, loaded, ran>>,
               \A w \in Workers : wst'[w] = "live" => wst[w] = "live",
               \A d \in Deliveries : pc'[d] \in {"running"} \cup Outcomes =>
                   pc[d] \in {"running"} \cup Outcomes \/ Request(d) \in Automation
        PROVE  Durable'
    <2>1. ran \subseteq Deliveries
      BY DEF ToolTypeOK
    <2> QED BY <1>1, <1>2, <2>1 DEF Durable
  <1>3. ASSUME NEW w \in Workers, Activate(w) PROVE Durable'
    BY <1>1, <1>3 DEF Activate, OneLive, Durable, journalVars, ToolTypeOK
  <1>4. ASSUME NEW w \in Workers, StopWorker(w) \/ StopUnmap(w) PROVE Durable'
    BY <1>1, <1>2, <1>4 DEF StopWorker, StopUnmap, journalVars, ToolTypeOK
  <1>5. CASE Crash
    BY <1>2, <1>5 DEF Crash, journalVars, ToolTypeOK, Outcomes
  <1>6. ASSUME NEW w \in Workers, NEW r \in Requests, ToolCancel(w, r) PROVE Durable'
    BY <1>2, <1>6 DEF ToolCancel, journalVars, workerVars
  <1>7. ASSUME NEW d \in Deliveries,
               Deliver(d) \/ Register(d) \/ Lock(d) \/ JournalGetFail(d) \/ Answer(d) \/ Forget(d)
        PROVE  Durable'
    BY <1>2, <1>7 DEF Deliver, Register, Lock, JournalGetFail, Answer, Forget, Reply, journalVars,
                      workerVars, ToolTypeOK, Outcomes
  <1>8. ASSUME NEW d \in Deliveries, JournalGet(d) PROVE Durable'
    <2> DEFINE w == host[d]
    <2>1. /\ w \in Workers
          /\ loaded' = [loaded EXCEPT ![w] = TRUE]
          /\ mem' = [mem EXCEPT ![w] = Loaded(w)]
          /\ UNCHANGED <<wst, disk, ran>>
          /\ \/ pc' = [pc EXCEPT ![d] = "answer"]
             \/ pc' = [pc EXCEPT ![d] = "checked"]
      BY <1>8 DEF JournalGet, Reply, Worker, Hosted, workerVars
    <2>2. \A v \in Workers, r \in Requests :
             \/ mem'[v][r] = disk[r]
             \/ mem'[v][r] = mem[v][r] /\ loaded'[v] = loaded[v]
      BY <2>1 DEF Loaded, ToolTypeOK
    <2>3. \A e \in Deliveries : pc'[e] \in {"running"} \cup Outcomes =>
             pc[e] \in {"running"} \cup Outcomes
      BY <2>1 DEF ToolTypeOK, Outcomes
    <2>4. ran \subseteq Deliveries
      BY DEF ToolTypeOK
    <2>5. ASSUME NEW e \in ran, Request(e) \notin Automation, NEW v \in Workers,
                 wst[v] = "live", loaded'[v]
          PROVE  mem'[v][Request(e)].st \in {"started", "completed"}
      <3>1. Request(e) \in Requests
        BY <2>4
      <3> QED BY <1>1, <2>2, <2>5, <3>1 DEF Durable
    <2> HIDE DEF w
    <2> QED BY <1>1, <2>1, <2>3, <2>4, <2>5 DEF Durable
  <1>9. ASSUME NEW d \in Deliveries, JournalStart(d) PROVE Durable'
    <2> DEFINE w == host[d]  r == Request(d)
               x == [st |-> "started", at |-> clock + 1]
               m == [mem[w] EXCEPT ![r] = x]
    <2>1. /\ pc[d] = "checked" /\ w \in Workers /\ r \in Requests
          /\ r \notin Automation
          /\ UNCHANGED <<wst, loaded, ran>>
      BY <1>9 DEF JournalStart, Hosted, Journaled, callVars, workerVars
    <2>2. loaded[w] /\ mem[w][r].st \in {"none", "failed"} /\ pc[d] \in Inside
      BY <2>1 DEF Known, EntryOf, Inside
    <2>3. PICK ok \in BOOLEAN :
             /\ Flush(w, m, ok)
             /\ \/ ok /\ pc' = [pc EXCEPT ![d] = "running"]
                \/ ~ok /\ pc' = [pc EXCEPT ![d] = "answer"]
      BY <1>9, <2>2 DEF JournalStart, Reply, Worker
    <2>4. m \in [Requests -> Entries]
      BY <2>1 DEF ToolTypeOK, Entries
    <2>5. mem' = [mem EXCEPT ![w] = m] /\ disk' \in {disk, m} /\ (ok => disk' = m)
      <3> HIDE DEF m
      <3> QED BY <2>1, <2>3, <2>4, FlushKeeps, FlushDisk
    <2>6. \A e \in ran : Request(e) # r
      <3>1. wst[w] = "live"
        BY <1>1, <2>2, AloneInProcess
      <3> QED BY <1>1, <2>1, <2>2, <3>1 DEF Durable
    <2>7. x.st = "started"
      OBVIOUS
    <2>8. PICK q \in {"running", "answer"} : pc' = [pc EXCEPT ![d] = q] /\ (q = "running" => ok)
      BY <2>3
    <2> HIDE DEF x
    <2> QED BY <1>1, <2>1, <2>2, <2>5, <2>6, <2>7, <2>8, DurableWrite
  <1>10. ASSUME NEW d \in Deliveries, NEW out \in Outcomes, HandleReturn(d, out) PROVE Durable'
    <2>1. /\ pc[d] = "running" /\ ran' \subseteq ran \cup {d}
          /\ UNCHANGED <<wst, mem, disk, loaded>>
          /\ \A e \in Deliveries \ {d} : pc'[e] = pc[e]
          /\ pc' \in {[pc EXCEPT ![d] = "answer"], [pc EXCEPT ![d] = out]}
      BY <1>10 DEF HandleReturn, Reply, workerVars, journalVars, ToolTypeOK
    <2>2. pc[d] \in Inside
      BY <2>1 DEF Inside
    <2>3. /\ \A e \in Deliveries \ {d} : pc[e] \notin Inside
          /\ host[d] \in Workers
          /\ \A v \in Workers : wst[v] = "live" => v = host[d]
      BY <1>1, <2>2, AloneInProcess DEF OneLive
    <2>4. ran \subseteq Deliveries
      BY DEF ToolTypeOK
    <2>5. Request(d) \notin Automation => mem[host[d]][Request(d)].st = "started"
      BY <2>1 DEF Known, EntryOf
    <2>6. \A e \in Deliveries :
             Request(e) \notin Automation /\ pc'[e] \in {"running"} \cup Outcomes =>
                 disk[Request(e)].st = "started"
      BY <1>1, <2>1 DEF Durable
    <2>7. \A e \in ran : Request(e) = Request(d) /\ Request(d) \notin Automation => e = d
      BY <1>1, <2>1 DEF Durable
    <2>8. \A e \in ran : Request(e) \notin Automation =>
              /\ disk[Request(e)].st \in {"started", "completed"}
              /\ \A v \in Workers : wst[v] = "live" /\ loaded[v] =>
                    mem[v][Request(e)].st \in {"started", "completed"}
              /\ \A f \in Deliveries : f # e /\ Request(f) = Request(e) =>
                    f \notin ran' /\ pc'[f] \notin {"running"} \cup Outcomes
      <3> SUFFICES ASSUME NEW e \in ran, Request(e) \notin Automation, NEW f \in Deliveries,
                          f # e, Request(f) = Request(e)
                   PROVE  f \notin ran' /\ pc'[f] \notin {"running"} \cup Outcomes
        BY <1>1 DEF Durable
      <3>1. f \notin ran /\ pc[f] \notin {"running"} \cup Outcomes
        BY <1>1 DEF Durable
      <3>2. f # d
        BY <2>1, <3>1
      <3> QED BY <2>1, <3>1, <3>2
    <2>9. Request(d) \notin Automation =>
              /\ disk[Request(d)].st = "started"
              /\ \A v \in Workers : wst[v] = "live" =>
                    mem[v][Request(d)].st = "started"
              /\ \A f \in Deliveries : f # d /\ Request(f) = Request(d) =>
                    f \notin ran' /\ pc'[f] \notin {"running"} \cup Outcomes
      <3>1. Request(d) \notin Automation => disk[Request(d)].st = "started"
        BY <1>1, <2>1 DEF Durable
      <3>2. \A f \in Deliveries : f # d => pc'[f] \notin {"running"} \cup Outcomes
        BY <2>1, <2>3 DEF Inside
      <3> QED BY <2>1, <2>3, <2>5, <2>7, <3>1, <3>2
    <2> QED BY <2>1, <2>6, <2>8, <2>9 DEF Durable
  <1>11. ASSUME NEW d \in Deliveries, JournalRecord(d) PROVE Durable'
    <2> DEFINE w == host[d]  r == Request(d)  x == Recorded(mem[w][r], pc[d])
               m == [mem[w] EXCEPT ![r] = x]
    <2>1. /\ pc[d] \in Outcomes /\ w \in Workers /\ r \in Requests
          /\ r \notin Automation
          /\ pc' = [pc EXCEPT ![d] = "answer"]
          /\ UNCHANGED <<wst, loaded, ran>>
      BY <1>11 DEF JournalRecord, Hosted, Journaled, callVars, workerVars, Reply, Outcomes
    <2>2. loaded[w] /\ mem[w][r].st = "started" /\ mem[w][r] \in Entries /\ pc[d] \in Inside
      BY <2>1 DEF Known, EntryOf, ToolTypeOK, Inside
    <2>3. mem[w][r] # NoEntry
      BY <2>2 DEF NoEntry
    <2>4. PICK ok \in BOOLEAN : Flush(w, m, ok)
      BY <1>11, <2>3 DEF JournalRecord, Worker
    <2>5. m \in [Requests -> Entries]
      BY <2>1, <2>2, RecordedTyped DEF ToolTypeOK
    <2>6. mem' = [mem EXCEPT ![w] = m] /\ disk' \in {disk, m} /\ (ok => disk' = m)
      <3> HIDE DEF m
      <3> QED BY <2>1, <2>4, <2>5, FlushKeeps, FlushDisk
    <2>7. \A e \in ran : Request(e) = r => x.st \in {"started", "completed"} /\ e = d
      <3> SUFFICES ASSUME NEW e \in ran, Request(e) = r
                   PROVE  x.st \in {"started", "completed"} /\ e = d
        OBVIOUS
      <3>1. e = d
        BY <1>1, <2>1 DEF Durable
      <3>2. pc[d] = "ok"
        BY <2>1, <3>1 DEF RanRecorded, Outcomes
      <3> QED BY <2>2, <3>1, <3>2 DEF Recorded, Entries
    <2>8. "answer" \in {"running", "answer"} /\ "answer" # "running"
      OBVIOUS
    <2> HIDE DEF x
    <2> QED BY <1>1, <2>1, <2>2, <2>6, <2>7, <2>8, DurableWrite
  <1>12. CASE UNCHANGED vars
    BY <1>2, <1>12 DEF vars, workerVars, journalVars
  <1> QED BY <1>3, <1>4, <1>5, <1>6, <1>7, <1>8, <1>9, <1>10, <1>11, <1>12 DEF Next, Handler

\* A process that stops none of its workers carries out a journaled request at
\* most once, across crashes and restarts, failed journal writes and replays.
THEOREM OnceWithoutStopHolds == Spec => []OnceWithoutStop
  <1>1. CASE Room
    <2>1. Init => OnceInv /\ OneLive /\ Durable
      <3> SUFFICES ASSUME Init PROVE OneLive /\ Durable
        BY OnceInit
      <3>1. /\ \A w \in Workers : wst[w] = "new" /\ ~loaded[w]
            /\ \A d \in Deliveries : pc[d] = "idle"
            /\ ran = {}
        BY DEF Init
      <3> QED BY <3>1 DEF OneLive, Durable, Outcomes
    <2>2. OnceInv /\ OneLive /\ Durable /\ [Next]_vars => (OnceInv /\ OneLive /\ Durable)'
      BY <1>1, OnceStep, OneLiveStep, DurableStep DEF OnceInv
    <2>3. OnceInv /\ Durable => OnceWithoutStop
      <3> SUFFICES ASSUME ToolTypeOK, Durable, stops = 0, NEW r \in Retryable \ Automation,
                          {<<r, 1>>, <<r, 2>>} \subseteq ran
                   PROVE  FALSE
        BY DEF OnceWithoutStop, OnceInv, TypeInv
      <3>1. Request(<<r, 1>>) = r /\ Request(<<r, 2>>) = r /\ <<r, 1>> # <<r, 2>>
        BY DEF Request
      <3>2. <<r, 1>> \in ran /\ <<r, 2>> \in Deliveries /\ <<r, 2>> \in ran
        BY DEF ToolTypeOK
      <3> QED BY <3>1, <3>2 DEF Durable
    <2> QED BY <2>1, <2>2, <2>3, PTL DEF Spec
  <1>2. CASE ~Room
    <2>1. OnceWithoutStop
      BY <1>2 DEF OnceWithoutStop, Room
    <2> QED BY <2>1, PTL
  <1> QED BY <1>1, <1>2

-----------------------------------------------------------------------------
(* Where a task works.                                                      *)

Provs == {"worktree", "checkout"}
Bundles == [kind : {"bundle"}, prov : Provs, repos : SUBSET Repos,
            owner : Owners \cup {"none"}, live : BOOLEAN]
AnyBundle == {Nothing} \cup Bundles
Held == [kind : {"held"}, task : Tasks, owner : Owners]
WorkTrees == [on : BOOLEAN, work : BOOLEAN, due : BOOLEAN]
Uses == [engine : Engines, task : Tasks, owner : Owners, repo : Repos, prov : Provs,
         asked : BOOLEAN, by : {"tool", "process", "late", "orphan"}]

\* What an engine may be at: a call of Ensure, or the limit for it.
Steps == {"claim", "expand", "prepare", "put", "claimNew"}
Ensuring == [pc : Steps, q : Asked, old : AnyBundle, prov : Provs]
Listing == [pc : {"list"}, q : Asked \cup {Nothing}, old : AnyBundle, prov : {"worktree"}]
Evicts(k) ==
    /\ k.pc \in {"evict", "archive", "remove"}
    /\ k = [pc |-> k.pc, q |-> k.q, old |-> k.old, prov |-> k.prov,
            left |-> k.left, listed |-> k.listed, current |-> k.current]
    /\ k.q \in Asked \cup {Nothing} /\ k.old \in AnyBundle /\ k.prov = "worktree"
    /\ k.listed \in [Tasks -> AnyBundle]
EngineOK(k) ==
    /\ k = Idle \/ k \in Ensuring \/ k \in Listing \/ Evicts(k)
    /\ k # Idle /\ k.q = Nothing => k.old = Nothing
    /\ k.pc \in {"claim", "expand"} => k.old # Nothing
    /\ k.pc = "claimNew" => k.old = Nothing

TaskTypes ==
    /\ bundle \in [Tasks -> AnyBundle]
    /\ checkout \in [Repos -> {Nothing} \cup Held]
    /\ tree \in [Tasks \X Repos -> WorkTrees]
    /\ eng = [e \in Engines |-> eng[e]]
    /\ \A e \in Engines : EngineOK(eng[e])
    /\ using \subseteq Uses
    /\ raced \in BOOLEAN

\* A tool that asked for a checkout has its lease, and so have the processes it
\* left and a call that will let one work there, unless the lease has ended.
Has(r, m) == checkout[r] = m \/ <<r, m>> \in ended
Leased(k) ==
    /\ k.pc = "claim" /\ k.prov = "checkout" => \A r \in k.old.repos : Has(r, Mine(k.q))
    /\ k.pc \in {"prepare", "put", "claimNew"} /\ k.prov = "checkout" => Has(k.q.repo, Mine(k.q))
CheckoutInv ==
    /\ \A u \in using : u.asked /\ u.prov = "checkout" => Has(u.repo, Mine(u))
    /\ \A e \in Engines : Leased(eng[e])

\* One engine is at work unless calls have overlapped.
Alone == ~raced => \A e, f \in Engines : eng[e] # Idle /\ eng[f] # Idle => e = f

\* The engine at k removes the worktree that u works in.
Removes(k, u) ==
    /\ k.pc \in {"archive", "remove"}
    /\ Head(k.left) = u.task
    /\ u.prov = "worktree"
    /\ u.repo \in k.listed[u.task].repos

\* A process that an engine knows of is not in a worktree that it removes.
Seen == \A u \in using : u.by = "process" => ~Removes(eng[u.engine], u)

\* A bundle, b by now, was listed as a: leases have ended since, and it may
\* have been removed.
AsListed(a, b) == b = a \/ b = Nothing \/ (a # Nothing /\ b = [a EXCEPT !.live = FALSE])

\* The limit may remove a bundle that nobody has a live lease of.
Loose(b) == b = Nothing \/ b.owner = "none" \/ ~b.live

\* What is about to be removed has no live lease, and nothing in it is due.
Limited(k) ==
    /\ k.pc \in {"evict", "archive", "remove"} => \A t \in Tasks : AsListed(k.listed[t], bundle[t])
    /\ k.pc \in {"archive", "remove"} =>
          \A t \in Tasks : t = Head(k.left) => Loose(bundle[t])
    /\ k.pc = "remove" =>
          \A t \in Tasks, r \in Repos :
              t = Head(k.left) /\ r \in k.listed[t].repos /\ tree[<<t, r>>].on => ~tree[<<t, r>>].due

WorkInv ==
    /\ Alone
    /\ Seen
    /\ ~raced => \A e \in Engines : Limited(eng[e])
    /\ NoWorkLost

TaskInv == TaskTypes /\ CheckoutInv /\ WorkInv

LEMMA AskedFields ==
    ASSUME NEW q \in Asked
    PROVE  q.task \in Tasks /\ q.owner \in Owners /\ q.repo \in Repos /\ q.prov \in Provs /\ q.owner # "none"
  BY TaskLeaseAssumption DEF Provs

LEMMA AskedIsSomething == ASSUME NEW q \in Asked PROVE q # Nothing
<1>1. DOMAIN q = {"task", "owner", "repo", "prov"}
  BY TaskLeaseAssumption
<1>2. DOMAIN Nothing = {"kind"}
  BY DEF Nothing
<1>3. "task" \in DOMAIN q /\ "task" \notin DOMAIN Nothing
  BY <1>1, <1>2
<1> QED BY <1>3

LEMMA BundleFields ==
    ASSUME NEW b \in AnyBundle, b # Nothing
    PROVE  /\ b \in Bundles /\ b.prov \in Provs /\ b.repos \subseteq Repos
           /\ b.owner \in Owners \cup {"none"} /\ b.live \in BOOLEAN
  BY DEF AnyBundle, Bundles

LEMMA BundleIsSomething ==
    ASSUME NEW b \in Bundles PROVE b # Nothing /\ b \in AnyBundle
  BY DEF Bundles, Nothing, AnyBundle

\* What the store may write over a bundle.
LEMMA BundlesMade ==
    ASSUME NEW q \in Asked, NEW b \in Bundles
    PROVE  /\ BundleOf(q) \in Bundles
           /\ Claimed(b, q) \in Bundles
           /\ [b EXCEPT !.owner = "none", !.live = FALSE] \in Bundles
           /\ \A l \in BOOLEAN : [b EXCEPT !.repos = @ \cup {q.repo}, !.live = l] \in Bundles
<1>1. PICK o, r, p : o = q.owner /\ r = q.repo /\ p = q.prov
  OBVIOUS
<1>2. o \in Owners /\ r \in Repos /\ p \in Provs
  BY <1>1, AskedFields
<1>3. [kind |-> "bundle", prov |-> p, repos |-> {r}, owner |-> "none", live |-> FALSE] \in Bundles
  BY <1>2 DEF Bundles
<1>4. LET c == [b EXCEPT !.owner = o, !.live = TRUE] IN c \in Bundles /\ c.repos = b.repos
  BY <1>2 DEF Bundles
<1>5. LET c == [b EXCEPT !.owner = "none", !.live = FALSE] IN c \in Bundles /\ c.repos = b.repos
  BY DEF Bundles
<1>6. ASSUME NEW l \in BOOLEAN
      PROVE  LET c == [b EXCEPT !.repos = @ \cup {r}, !.live = l] IN c \in Bundles /\ c.owner = b.owner
  BY <1>2 DEF Bundles
<1> QED BY <1>1, <1>3, <1>4, <1>5, <1>6 DEF BundleOf, Claimed

LEMMA LeaseRunsOut ==
    ASSUME NEW b \in Bundles
    PROVE  LET c == [b EXCEPT !.live = FALSE] IN
           c \in Bundles /\ c.live = FALSE /\ c.owner = b.owner /\ [c EXCEPT !.live = FALSE] = c
<1>1. PICK c : c = [b EXCEPT !.live = FALSE]
  OBVIOUS
<1>2. c \in Bundles /\ c.live = FALSE /\ c.owner = b.owner /\ c.repos = b.repos
  BY <1>1 DEF Bundles
<1>3. [c EXCEPT !.live = FALSE] = c
  BY <1>2 DEF Bundles
<1> QED BY <1>1, <1>2, <1>3

LEMMA EngineFields ==
    ASSUME NEW k, EngineOK(k)
    PROVE  /\ k.pc = "idle" <=> k = Idle
           /\ k.pc \in Steps =>
                 k \in Ensuring /\ k.q \in Asked /\ k.old \in AnyBundle /\ k.prov \in Provs
           /\ k.pc = "list" =>
                 k \in Listing /\ k.q \in Asked \cup {Nothing} /\ k.old \in AnyBundle /\ k.prov = "worktree"
           /\ k.pc \in {"evict", "archive", "remove"} => Evicts(k)
           /\ k.pc \in {"idle", "claim", "expand", "prepare", "put", "claimNew", "list",
                        "evict", "archive", "remove"}
<1>1. CASE k = Idle
  BY <1>1 DEF Idle, Steps
<1>2. CASE k \in Ensuring
  BY <1>2 DEF Ensuring, Idle, Steps
<1>3. CASE k \in Listing
  BY <1>3 DEF Listing, Idle, Steps
<1>4. CASE Evicts(k)
  <2>1. k.pc \in {"evict", "archive", "remove"}
    BY <1>4 DEF Evicts
  <2>2. k # Idle
    BY <2>1 DEF Idle
  <2> QED BY <1>4, <2>1, <2>2 DEF Steps
<1> QED BY <1>1, <1>2, <1>3, <1>4 DEF EngineOK

\* An engine goes on with its call.
LEMMA EnsureMoves ==
    ASSUME NEW k \in Ensuring, NEW p \in Steps
    PROVE  LET m == [k EXCEPT !.pc = p] IN
           m \in Ensuring /\ m.pc = p /\ m.q = k.q /\ m.old = k.old /\ m.prov = k.prov
  BY DEF Ensuring, Steps

LEMMA EvictMoves ==
    ASSUME NEW k, Evicts(k), NEW p \in {"evict", "archive", "remove"}, NEW l, NEW c
    PROVE  LET m == [pc |-> p, q |-> k.q, old |-> k.old, prov |-> k.prov,
                     left |-> l, listed |-> k.listed, current |-> c] IN
           /\ Evicts(m) /\ m.pc = p /\ m.q = k.q /\ m.old = k.old /\ m.prov = k.prov
           /\ m.left = l /\ m.listed = k.listed
  BY DEF Evicts

LEMMA EngineStep ==
    ASSUME TaskTypes, NEW e \in Engines, NEW k, EngineOK(k), Goto(e, k)
    PROVE  /\ eng' = [f \in Engines |-> eng'[f]]
           /\ eng'[e] = k
           /\ \A f \in Engines : f # e => eng'[f] = eng[f]
           /\ \A f \in Engines : EngineOK(eng'[f])
<1>1. eng = [f \in Engines |-> eng[f]] /\ \A f \in Engines : EngineOK(eng[f])
  BY DEF TaskTypes
<1>2. eng' = [f \in Engines |-> IF f = e THEN k ELSE eng[f]]
  BY <1>1 DEF Goto
<1>3. eng'[e] = k /\ \A f \in Engines : f # e => eng'[f] = eng[f]
  BY <1>2
<1>4. eng' = [f \in Engines |-> eng'[f]]
  BY <1>2
<1> QED BY <1>1, <1>3, <1>4

\* No lease is taken from a tool or a call that has not given it up.
-----------------------------------------------------------------------------
(* Leases.                                                                  *)

\* No lease goes but by ending.
LeasesKept == \A r \in Repos, m \in Held : Has(r, m) => Has(r, m)'

LEMMA MineHeld ==
    ASSUME NEW q, q.task \in Tasks, q.owner \in Owners
    PROVE  Mine(q) \in Held /\ Mine(q) # Nothing
  BY DEF Mine, Held, Nothing

LEMMA CheckoutsKeep ==
    ASSUME NEW c, Checkouts(c), \A r \in Repos : c[r] \in {checkout[r], Nothing} \/ checkout[r] = Nothing
    PROVE  LeasesKept
<1>1. /\ checkout' = c
      /\ ended' = (ended \cup {l \in Leases(checkout) : c[l[1]] = Nothing}) \ Leases(c)
  BY DEF Checkouts
<1>2. SUFFICES ASSUME NEW r \in Repos, NEW m \in Held, Has(r, m), c[r] # m PROVE <<r, m>> \in ended'
  BY <1>1 DEF LeasesKept, Has
<1>3. m # Nothing
  BY DEF Held, Nothing
<1>4. <<r, m>> \notin Leases(c)
  BY <1>2 DEF Leases
<1>5. CASE <<r, m>> \in ended
  BY <1>1, <1>4, <1>5
<1>6. CASE checkout[r] = m
  <2>1. c[r] = Nothing
    BY <1>2, <1>3, <1>6
  <2>2. <<r, m>> \in Leases(checkout)
    BY <1>3, <1>6 DEF Leases
  <2> QED BY <1>1, <1>4, <2>1, <2>2
<1> QED BY <1>2, <1>5, <1>6 DEF Has

LEMMA UntouchedKept == ASSUME UNCHANGED leaseVars PROVE LeasesKept
  BY DEF leaseVars, LeasesKept, Has

LEMMA AcquiredKeeps ==
    ASSUME TaskTypes, NEW q \in Asked, NEW rs \in SUBSET Repos, MayAcquire(rs, q),
           Checkouts(Acquired(rs, q))
    PROVE  /\ LeasesKept /\ \A r \in rs : Has(r, Mine(q))'
           /\ checkout' \in [Repos -> {Nothing} \cup Held]
<1>1. checkout' = Acquired(rs, q) /\ checkout \in [Repos -> {Nothing} \cup Held]
  BY DEF Checkouts, TaskTypes
<1>2. Mine(q) \in Held
  BY AskedFields, MineHeld
<1>3. \A r \in Repos : Acquired(rs, q)[r] = IF r \in rs THEN Mine(q) ELSE checkout[r]
  BY DEF Acquired
<1>4. \A r \in rs : checkout[r] \in {Nothing, Mine(q)}
  BY DEF MayAcquire
<1>5. LeasesKept
  <2>1. \A r \in Repos : Acquired(rs, q)[r] \in {checkout[r], Nothing} \/ checkout[r] = Nothing
    BY <1>3, <1>4
  <2> QED BY <2>1, CheckoutsKeep
<1>6. \A r \in rs : Has(r, Mine(q))'
  BY <1>1, <1>3 DEF Has, Mine
<1>7. checkout' \in [Repos -> {Nothing} \cup Held]
  BY <1>1, <1>2 DEF Acquired
<1> QED BY <1>5, <1>6, <1>7

LEMMA ReleasedKeeps ==
    ASSUME TaskTypes, NEW q, Checkouts(Released(q))
    PROVE  LeasesKept /\ checkout' \in [Repos -> {Nothing} \cup Held]
<1>1. checkout' = Released(q) /\ checkout \in [Repos -> {Nothing} \cup Held]
  BY DEF Checkouts, TaskTypes
<1>2. \A r \in Repos : Released(q)[r] \in {checkout[r], Nothing}
  BY DEF Released
<1>3. LeasesKept
  BY <1>2, CheckoutsKeep
<1> QED BY <1>1, <1>3 DEF Released

\* What a call relies on it still has, when leases go by ending.
LEMMA LeasedStays ==
    ASSUME LeasesKept, NEW k, EngineOK(k), Leased(k)
    PROVE  Leased(k)'
<1>1. ASSUME k.pc \in Steps PROVE Mine(k.q) \in Held /\ k.q.repo \in Repos /\ k.old \in AnyBundle
  BY <1>1, EngineFields, AskedFields, MineHeld
<1>2. ASSUME k.pc = "claim", k.prov = "checkout", NEW r \in k.old.repos
      PROVE  Has(r, Mine(k.q))'
  <2>1. Mine(k.q) \in Held /\ k.old \in AnyBundle /\ k.old # Nothing
    BY <1>1, <1>2 DEF Steps, EngineOK
  <2>2. r \in Repos
    BY <1>2, <2>1, BundleFields
  <2>3. Has(r, Mine(k.q))
    BY <1>2 DEF Leased
  <2>4. PICK m \in Held : m = Mine(k.q)
    BY <2>1
  <2>5. Has(r, m)'
    BY <2>2, <2>3, <2>4 DEF LeasesKept
  <2> QED BY <2>4, <2>5 DEF Has, Mine
<1>3. ASSUME k.pc \in {"prepare", "put", "claimNew"}, k.prov = "checkout"
      PROVE  Has(k.q.repo, Mine(k.q))'
  <2>1. Mine(k.q) \in Held /\ k.q.repo \in Repos
    BY <1>1, <1>3 DEF Steps
  <2>2. Has(k.q.repo, Mine(k.q))
    BY <1>3 DEF Leased
  <2>3. PICK m \in Held : m = Mine(k.q)
    BY <2>1
  <2>4. Has(k.q.repo, m)'
    BY <2>1, <2>2, <2>3 DEF LeasesKept
  <2> QED BY <2>3, <2>4 DEF Has, Mine
<1> QED BY <1>2, <1>3 DEF Leased, Has, Mine

-----------------------------------------------------------------------------
(* Steps of an engine.                                                      *)

LEMMA OthersIdle ==
    ASSUME Alone, ~raced, NEW e \in Engines, eng[e] # Idle
    PROVE  \A f \in Engines : f # e => eng[f] = Idle
  BY DEF Alone

LEMMA IdleIsFine ==
    EngineOK(Idle) /\ Idle.pc = "idle" /\ Limited(Idle)' /\ Leased(Idle)' /\ \A u : ~Removes(Idle, u)
<1>1. Idle.pc = "idle" /\ EngineOK(Idle)
  BY DEF Idle, EngineOK
<1> QED BY <1>1 DEF Limited, Leased, Removes

\* Who begins to work, and where: a tool that has what it asked for.
Joins(u) == u.by = "tool" /\ (u.asked /\ u.prov = "checkout" => Has(u.repo, Mine(u)))

\* A step of one engine, which comes to be at k.
LEMMA EngineKeeps ==
    ASSUME TaskInv, NEW e \in Engines, NEW k, EngineOK(k), Goto(e, k),
           bundle' \in [Tasks -> AnyBundle], checkout' \in [Repos -> {Nothing} \cup Held],
           tree' \in [Tasks \X Repos -> WorkTrees], using' \subseteq Uses, raced' \in BOOLEAN,
           LeasesKept, Leased(k)', \A u \in using' : u \in using \/ Joins(u)',
           raced => raced',
           ~raced' => \A f \in Engines : f # e => eng[f] = Idle,
           ~raced' => Limited(k)',
           \A u \in using : u.engine = e /\ u.by = "process" => ~Removes(k, u),
           NoWorkLost'
    PROVE  TaskInv'
<1>1. TaskTypes /\ using \subseteq Uses /\ Seen
  BY DEF TaskInv, TaskTypes, WorkInv
<1>2. /\ eng' = [f \in Engines |-> eng'[f]]
      /\ eng'[e] = k
      /\ \A f \in Engines : f # e => eng'[f] = eng[f]
      /\ \A f \in Engines : EngineOK(eng'[f])
  BY <1>1, EngineStep
<1>3. TaskTypes'
  BY <1>2 DEF TaskTypes
<1>4. CheckoutInv'
  <2>1. ASSUME NEW u \in using', u.asked, u.prov = "checkout" PROVE Has(u.repo, Mine(u))'
    <3>1. CASE u \in using
      <4>1. Has(u.repo, Mine(u))
        BY <2>1, <3>1 DEF TaskInv, CheckoutInv
      <4>2. u.repo \in Repos /\ u.task \in Tasks /\ u.owner \in Owners
        BY <1>1, <3>1 DEF Uses
      <4>3. PICK m \in Held : m = Mine(u)
        BY <4>2, MineHeld
      <4>4. Has(u.repo, m)'
        BY <4>1, <4>2, <4>3 DEF LeasesKept
      <4> QED BY <4>3, <4>4 DEF Has, Mine
    <3>2. CASE Joins(u)'
      BY <2>1, <3>2 DEF Joins, Has, Mine
    <3> QED BY <2>1, <3>1, <3>2
  <2>2. ASSUME NEW f \in Engines PROVE Leased(eng[f])'
    <3>1. CASE f = e
      BY <1>2, <3>1 DEF Leased, Has, Mine
    <3>2. CASE f # e
      <4>1. PICK j : j = eng[f]
        OBVIOUS
      <4>2. eng'[f] = j /\ EngineOK(j) /\ Leased(j)
        BY <1>1, <1>2, <3>2, <4>1 DEF TaskInv, CheckoutInv, TaskTypes
      <4>3. Leased(j)'
        BY <4>2, LeasedStays
      <4> QED BY <4>2, <4>3 DEF Leased, Has, Mine
    <3> QED BY <3>1, <3>2
  <2> QED BY <2>1, <2>2 DEF CheckoutInv
<1>5. Alone'
  BY <1>2 DEF Alone
<1>6. Seen'
  <2>1. SUFFICES ASSUME NEW u \in using', u.by = "process" PROVE ~Removes(eng'[u.engine], u)
    BY DEF Seen, Removes
  <2>2. u \in using /\ u.engine \in Engines
    BY <1>1, <2>1 DEF Joins, Uses
  <2>3. CASE u.engine = e
    BY <1>2, <2>1, <2>2, <2>3
  <2>4. CASE u.engine # e
    BY <1>1, <1>2, <2>1, <2>2, <2>4 DEF Seen
  <2> QED BY <2>3, <2>4
<1>7. ASSUME ~raced', NEW f \in Engines PROVE Limited(eng[f])'
  <2>1. CASE f = e
    BY <1>2, <1>7, <2>1 DEF Limited
  <2>2. CASE f # e
    BY <1>2, <1>7, <2>2, IdleIsFine DEF Limited
  <2> QED BY <2>1, <2>2
<1> QED BY <1>3, <1>4, <1>5, <1>6, <1>7 DEF TaskInv, WorkInv

\* What an engine that is at work knows.
LEMMA AtWork ==
    ASSUME TaskInv, NEW e \in Engines, NEW k, k = eng[e], k.pc # "idle"
    PROVE  /\ TaskTypes /\ EngineOK(k) /\ k # Idle /\ Leased(k) /\ (~raced => Limited(k)) /\ NoWorkLost
           /\ bundle \in [Tasks -> AnyBundle] /\ checkout \in [Repos -> {Nothing} \cup Held]
           /\ tree \in [Tasks \X Repos -> WorkTrees] /\ using \subseteq Uses /\ raced \in BOOLEAN
           /\ ~raced => \A f \in Engines : f # e => eng[f] = Idle
           /\ k.pc \in Steps => k \in Ensuring /\ k.q \in Asked /\ k.old \in AnyBundle /\ k.prov \in Provs
<1>1. TaskTypes /\ Alone /\ Leased(k) /\ (~raced => Limited(k)) /\ NoWorkLost
  BY DEF TaskInv, CheckoutInv, WorkInv
<1>2. /\ EngineOK(k)
      /\ bundle \in [Tasks -> AnyBundle] /\ checkout \in [Repos -> {Nothing} \cup Held]
      /\ tree \in [Tasks \X Repos -> WorkTrees] /\ using \subseteq Uses /\ raced \in BOOLEAN
  BY <1>1 DEF TaskTypes
<1>3. k # Idle
  BY DEF Idle
<1>4. k.pc \in Steps => k \in Ensuring /\ k.q \in Asked /\ k.old \in AnyBundle /\ k.prov \in Provs
  BY <1>2, EngineFields
<1>5. ~raced => \A f \in Engines : f # e => eng[f] = Idle
  BY <1>1, <1>3, OthersIdle
<1> QED BY <1>1, <1>2, <1>3, <1>4, <1>5

\* A step of an engine at work that leaves worktrees where they are and does
\* not come to remove one.
LEMMA WorkStep ==
    ASSUME TaskInv, NEW e \in Engines, eng[e].pc # "idle",
           NEW k, EngineOK(k), k.pc \in Steps \cup {"idle", "list"}, Goto(e, k),
           bundle' \in [Tasks -> AnyBundle], checkout' \in [Repos -> {Nothing} \cup Held],
           tree' \in [Tasks \X Repos -> WorkTrees], using' \subseteq Uses,
           LeasesKept, Leased(k)', \A u \in using' : u \in using \/ Joins(u)',
           UNCHANGED <<lost, raced>>
    PROVE  TaskInv'
<1>1. NoWorkLost /\ raced \in BOOLEAN /\ (~raced => \A f \in Engines : f # e => eng[f] = Idle)
  BY AtWork
<1>2. NoWorkLost'
  BY <1>1 DEF NoWorkLost
<1>3. Limited(k)' /\ \A u : ~Removes(k, u)
  BY DEF Limited, Removes, Steps
<1> QED BY <1>1, <1>2, <1>3, EngineKeeps

\* A call ends, and its leases with it.
LEMMA FailStep ==
    ASSUME TaskInv, NEW e \in Engines, eng[e].pc # "idle",
           Goto(e, Idle), UNCHANGED leaseVars \/ Checkouts(Released(eng[e].q)),
           bundle' \in [Tasks -> AnyBundle], tree' \in [Tasks \X Repos -> WorkTrees],
           UNCHANGED <<using, raced>>, NoWorkLost'
    PROVE  TaskInv'
<1>1. TaskTypes
  BY DEF TaskInv
<1>2. LeasesKept /\ checkout' \in [Repos -> {Nothing} \cup Held]
  <2>1. CASE UNCHANGED leaseVars
    BY <1>1, <2>1, UntouchedKept DEF leaseVars, TaskTypes
  <2>2. CASE Checkouts(Released(eng[e].q))
    <3>1. PICK q : q = eng[e].q
      OBVIOUS
    <3>2. Checkouts(Released(q))
      BY <2>2, <3>1
    <3> QED BY <1>1, <3>2, ReleasedKeeps
  <2> QED BY <2>1, <2>2
<1>3. using' \subseteq Uses /\ \A u \in using' : u \in using
  BY <1>1 DEF TaskTypes
<1>4. raced \in BOOLEAN /\ (~raced => \A f \in Engines : f # e => eng[f] = Idle)
  BY AtWork
<1> QED BY <1>2, <1>3, <1>4, IdleIsFine, EngineKeeps

\* Most calls that end leave the worktrees alone.
LEMMA FailKeeps ==
    ASSUME TaskInv, NEW e \in Engines, eng[e].pc # "idle",
           Goto(e, Idle), UNCHANGED leaseVars \/ Checkouts(Released(eng[e].q)),
           bundle' \in [Tasks -> AnyBundle], UNCHANGED <<tree, using, lost, raced>>
    PROVE  TaskInv'
<1>1. tree \in [Tasks \X Repos -> WorkTrees] /\ NoWorkLost
  BY AtWork
<1>2. tree' \in [Tasks \X Repos -> WorkTrees] /\ NoWorkLost'
  BY <1>1 DEF NoWorkLost
<1> QED BY <1>2, FailStep

LEMMA GiveBackFields ==
    ASSUME TaskInv, NEW e \in Engines, eng[e].q \in Asked, GiveBack(e)
    PROVE  /\ bundle' \in [Tasks -> AnyBundle]
           /\ Goto(e, Idle) /\ (UNCHANGED leaseVars \/ Checkouts(Released(eng[e].q)))
<1>1. bundle \in [Tasks -> AnyBundle]
  BY DEF TaskInv, TaskTypes
<1>2. PICK q : q = eng[e].q
  OBVIOUS
<1>3. q.task \in Tasks
  BY <1>2, AskedFields
<1>4. bundle' \in [Tasks -> AnyBundle]
  <2>1. CASE bundle' = bundle
    BY <1>1, <2>1
  <2>2. CASE bundle[q.task] # Nothing
    <3>1. PICK b : b = bundle[q.task]
      OBVIOUS
    <3>2. PICK c : c = [b EXCEPT !.owner = "none", !.live = FALSE]
      OBVIOUS
    <3>3. b \in Bundles
      BY <1>1, <1>3, <2>2, <3>1, BundleFields
    <3>4. c \in AnyBundle
      BY <1>2, <3>2, <3>3, BundlesMade, BundleIsSomething
    <3>5. bundle' = [bundle EXCEPT ![q.task] = c] \/ bundle' = bundle
      BY <1>2, <3>1, <3>2 DEF GiveBack, Stored, storeVars
    <3> QED BY <1>1, <1>3, <3>4, <3>5
  <2> QED BY <1>2, <2>1, <2>2 DEF GiveBack, storeVars
<1>5. Goto(e, Idle) /\ (UNCHANGED leaseVars \/ Checkouts(Released(eng[e].q)))
  BY DEF GiveBack, Fail
<1> QED BY <1>4, <1>5

LEMMA GiveBackKeeps ==
    ASSUME TaskInv, NEW e \in Engines, eng[e].pc # "idle", eng[e].q \in Asked, GiveBack(e),
           UNCHANGED <<tree, using, lost, raced>>
    PROVE  TaskInv'
  BY GiveBackFields, FailKeeps

LEMMA FailReleases ==
    ASSUME NEW e, FailAndRelease(e)
    PROVE  Goto(e, Idle) /\ (UNCHANGED leaseVars \/ Checkouts(Released(eng[e].q)))
  BY DEF FailAndRelease, Fail

-----------------------------------------------------------------------------
(* Ensure.                                                                  *)

\* A call begins.
LEMMA BeginsAlone ==
    ASSUME TaskInv, NEW e \in Engines, Begins(e)
    PROVE  /\ raced' \in BOOLEAN /\ (raced => raced')
           /\ ~raced' => \A f \in Engines : f # e => eng[f] = Idle
<1>1. raced \in BOOLEAN
  BY DEF TaskInv, TaskTypes
<1> QED BY <1>1, Zenon DEF Begins

LEMMA EnsureStartKeeps ==
    ASSUME TaskInv, NEW e \in Engines, NEW q \in Asked, EnsureStart(e, q)
    PROVE  TaskInv'
<1>0. /\ TaskTypes /\ NoWorkLost
      /\ bundle \in [Tasks -> AnyBundle] /\ using \subseteq Uses /\ tree \in [Tasks \X Repos -> WorkTrees]
      /\ q.task \in Tasks /\ q.repo \in Repos /\ q.prov \in Provs
  BY AskedFields DEF TaskInv, WorkInv, TaskTypes
<1>1. PICK b : b = bundle[q.task]
  OBVIOUS
<1>2. PICK prov : prov = IF b # Nothing THEN b.prov ELSE q.prov
  OBVIOUS
<1>3. PICK paths : paths = IF prov = "worktree" THEN {} ELSE IF b # Nothing THEN b.repos ELSE {q.repo}
  OBVIOUS
<1>4. PICK p : p = IF b # Nothing THEN "claim" ELSE IF prov = "worktree" THEN "list" ELSE "prepare"
  OBVIOUS
<1>5. PICK k : k = [pc |-> p, q |-> q, old |-> b, prov |-> prov]
  OBVIOUS
<1>6. /\ Begins(e) /\ MayAcquire(paths, q) /\ Checkouts(Acquired(paths, q)) /\ Goto(e, k)
      /\ UNCHANGED <<bundle, tree, lost, using>>
  BY <1>1, <1>2, <1>3, <1>4, <1>5 DEF EnsureStart, storeVars, gitVars
<1>7. b \in AnyBundle /\ prov \in Provs /\ paths \in SUBSET Repos
  BY <1>0, <1>1, <1>2, <1>3, BundleFields
<1>8. k.pc = p /\ k.q = q /\ k.old = b /\ k.prov = prov
  BY <1>5
<1>9. EngineOK(k)
  <2>1. CASE b # Nothing
    <3>1. k \in Ensuring
      BY <1>4, <1>5, <1>7, <2>1 DEF Ensuring, Steps
    <3> QED BY <1>4, <1>8, <2>1, <3>1, AskedIsSomething DEF EngineOK
  <2>2. CASE b = Nothing /\ prov = "worktree"
    <3>1. k \in Listing
      BY <1>4, <1>5, <1>7, <2>2 DEF Listing
    <3> QED BY <1>4, <1>8, <2>2, <3>1 DEF EngineOK
  <2>3. CASE b = Nothing /\ prov # "worktree"
    <3>1. k \in Ensuring
      BY <1>4, <1>5, <1>7, <2>3 DEF Ensuring, Steps
    <3> QED BY <1>4, <1>8, <2>3, <3>1 DEF EngineOK
  <2> QED BY <2>1, <2>2, <2>3
<1>10. /\ LeasesKept /\ \A r \in paths : Has(r, Mine(q))'
       /\ checkout' \in [Repos -> {Nothing} \cup Held]
  BY <1>0, <1>6, <1>7, AcquiredKeeps
<1>11. Leased(k)'
  <2>1. p = "claim" /\ prov = "checkout" => paths = b.repos
    BY <1>3, <1>4
  <2>2. p = "prepare" /\ prov = "checkout" => paths = {q.repo}
    BY <1>3, <1>4
  <2> QED BY <1>4, <1>8, <1>10, <2>1, <2>2 DEF Leased, Has, Mine
<1>12. Limited(k)' /\ \A u : ~Removes(k, u)
  BY <1>4, <1>8 DEF Limited, Removes
<1>13. raced' \in BOOLEAN /\ (raced => raced') /\ (~raced' => \A f \in Engines : f # e => eng[f] = Idle)
  BY <1>6, BeginsAlone
<1>14. NoWorkLost'
  BY <1>0, <1>6, <1>13 DEF NoWorkLost
<1>15. /\ bundle' \in [Tasks -> AnyBundle] /\ using' \subseteq Uses
       /\ tree' \in [Tasks \X Repos -> WorkTrees] /\ \A u \in using' : u \in using
  BY <1>0, <1>6
<1> QED BY <1>6, <1>9, <1>10, <1>11, <1>12, <1>13, <1>14, <1>15, EngineKeeps

\* The tool that a call lets work has what it asked for.
LEMMA ReturnJoins ==
    ASSUME NEW e \in Engines, NEW k, k = eng[e], k.q \in Asked, k.prov \in Provs, Return(e),
           using \subseteq Uses, k.prov = "checkout" => Has(k.q.repo, Mine(k.q))'
    PROVE  /\ Goto(e, Idle) /\ using' \subseteq Uses
           /\ \A u \in using' : u \in using \/ Joins(u)'
<1>1. PICK u : u = Tool(e, k.q, k.prov, TRUE)
  OBVIOUS
<1>2. Goto(e, Idle) /\ using' = using \cup {u}
  BY <1>1 DEF Return
<1>3. k.q.task \in Tasks /\ k.q.owner \in Owners /\ k.q.repo \in Repos
  BY AskedFields
<1>4. u \in Uses /\ u.by = "tool" /\ u.prov = k.prov /\ u.repo = k.q.repo /\ Mine(u) = Mine(k.q)
  BY <1>1, <1>3 DEF Uses, Tool, Mine
<1>5. Joins(u)'
  BY <1>4 DEF Joins, Has, Mine
<1> QED BY <1>2, <1>4, <1>5

LEMMA EnsureClaimKeeps ==
    ASSUME TaskInv, NEW e \in Engines, EnsureClaim(e)
    PROVE  TaskInv'
<1>1. PICK k : k = eng[e]
  OBVIOUS
<1>2. PICK q : q = k.q
  OBVIOUS
<1>3. PICK b : b = bundle[q.task]
  OBVIOUS
<1>4. k.pc = "claim" /\ UNCHANGED <<tree, lost, raced>>
  BY <1>1 DEF EnsureClaim, At, gitVars
<1>5. /\ TaskTypes /\ EngineOK(k) /\ Leased(k)
      /\ bundle \in [Tasks -> AnyBundle] /\ checkout \in [Repos -> {Nothing} \cup Held]
      /\ tree \in [Tasks \X Repos -> WorkTrees] /\ using \subseteq Uses
      /\ k \in Ensuring /\ q \in Asked /\ k.old \in AnyBundle /\ k.prov \in Provs
  BY <1>1, <1>2, <1>4, AtWork DEF Steps
<1>6. q.task \in Tasks
  BY <1>5, AskedFields
<1>7. CASE FailAndRelease(e) /\ UNCHANGED <<bundle, using>>
  BY <1>1, <1>4, <1>5, <1>7, FailReleases, FailKeeps
<1>8. CASE /\ MayClaim(b, q) /\ UNCHANGED <<checkout, ended>> /\ bundle' = [bundle EXCEPT ![q.task] = Claimed(b, q)]
           /\ \/ q.repo \in k.old.repos /\ Return(e)
              \/ Goto(e, [k EXCEPT !.pc = "expand", !.old = Claimed(b, q)]) /\ UNCHANGED using
  <2>1. PICK c : c = Claimed(b, q)
    OBVIOUS
  <2>2. b \in Bundles
    BY <1>3, <1>5, <1>6, <1>8, BundleFields DEF MayClaim
  <2>3. c \in AnyBundle /\ c # Nothing
    BY <1>5, <2>1, <2>2, BundlesMade, BundleIsSomething
  <2>4. bundle' \in [Tasks -> AnyBundle] /\ tree' \in [Tasks \X Repos -> WorkTrees]
    BY <1>4, <1>5, <1>6, <1>8, <2>1, <2>3
  <2>5. LeasesKept /\ checkout' \in [Repos -> {Nothing} \cup Held]
    BY <1>5, <1>8, UntouchedKept DEF leaseVars
  <2>6. CASE q.repo \in k.old.repos /\ Return(e)
    <3>1. k.prov = "checkout" => Has(q.repo, Mine(q))
      BY <1>2, <1>4, <1>5, <2>6 DEF Leased
    <3>2. k.prov = "checkout" => Has(q.repo, Mine(q))'
      BY <1>8, <3>1 DEF Has, Mine
    <3>3. Goto(e, Idle) /\ using' \subseteq Uses /\ \A u \in using' : u \in using \/ Joins(u)'
      BY <1>1, <1>2, <1>5, <2>6, <3>2, ReturnJoins
    <3> QED BY <1>1, <1>4, <2>4, <2>5, <3>3, IdleIsFine, WorkStep
  <2>7. CASE Goto(e, [k EXCEPT !.pc = "expand", !.old = Claimed(b, q)]) /\ UNCHANGED using
    <3>1. PICK m : m = [k EXCEPT !.pc = "expand", !.old = c]
      OBVIOUS
    <3>2. m \in Ensuring /\ m.pc = "expand" /\ m.q = q /\ m.old = c
      BY <1>2, <1>5, <2>3, <3>1 DEF Ensuring, Steps
    <3>3. EngineOK(m) /\ Leased(m)'
      BY <1>5, <2>3, <3>2, AskedIsSomething DEF EngineOK, Leased
    <3>4. Goto(e, m) /\ using' \subseteq Uses /\ \A u \in using' : u \in using
      BY <1>5, <2>1, <2>7, <3>1
    <3> QED BY <1>1, <1>4, <2>4, <2>5, <3>2, <3>3, <3>4, WorkStep DEF Steps
  <2> QED BY <1>8, <2>6, <2>7
<1> QED BY <1>1, <1>2, <1>3, <1>7, <1>8 DEF EnsureClaim, Stored, storeVars, leaseVars

LEMMA EnsureExpandKeeps ==
    ASSUME TaskInv, NEW e \in Engines, EnsureExpand(e)
    PROVE  TaskInv'
<1>1. PICK k : k = eng[e]
  OBVIOUS
<1>2. PICK q : q = k.q
  OBVIOUS
<1>3. k.pc = "expand" /\ UNCHANGED <<tree, lost, raced, using>>
  BY <1>1 DEF EnsureExpand, At, gitVars
<1>4. /\ TaskTypes /\ EngineOK(k) /\ Leased(k)
      /\ bundle \in [Tasks -> AnyBundle] /\ checkout \in [Repos -> {Nothing} \cup Held]
      /\ tree \in [Tasks \X Repos -> WorkTrees] /\ using \subseteq Uses
      /\ k \in Ensuring /\ q \in Asked /\ k.old \in AnyBundle /\ k.prov \in Provs
  BY <1>1, <1>2, <1>3, AtWork DEF Steps
<1>5. q.repo \in Repos
  BY <1>4, AskedFields
<1>6. CASE GiveBack(e)
  BY <1>1, <1>2, <1>3, <1>4, <1>6, GiveBackKeeps
<1>7. CASE /\ k.prov = "worktree" /\ Goto(e, [k EXCEPT !.pc = "list"]) /\ UNCHANGED <<bundle, checkout, ended>>
  <2>1. PICK m : m = [k EXCEPT !.pc = "list"]
    OBVIOUS
  <2>2. m \in Listing /\ m.pc = "list" /\ m.q = q
    BY <1>2, <1>4, <1>7, <2>1 DEF Ensuring, Listing
  <2>3. EngineOK(m) /\ Leased(m)'
    BY <1>4, <2>2, AskedIsSomething DEF EngineOK, Leased
  <2>4. LeasesKept
    BY <1>7, UntouchedKept DEF leaseVars
  <2>5. /\ bundle' \in [Tasks -> AnyBundle] /\ checkout' \in [Repos -> {Nothing} \cup Held]
        /\ tree' \in [Tasks \X Repos -> WorkTrees] /\ using' \subseteq Uses /\ \A u \in using' : u \in using
    BY <1>3, <1>4, <1>7
  <2> QED BY <1>1, <1>3, <1>7, <2>1, <2>2, <2>3, <2>4, <2>5, WorkStep
<1>8. CASE /\ MayAcquire({q.repo}, q) /\ Checkouts(Acquired({q.repo}, q))
           /\ Goto(e, [k EXCEPT !.pc = "prepare"]) /\ UNCHANGED bundle
  <2>1. PICK m : m = [k EXCEPT !.pc = "prepare"]
    OBVIOUS
  <2>2. m \in Ensuring /\ m.pc = "prepare" /\ m.q = q
    BY <1>2, <1>4, <2>1, EnsureMoves DEF Steps
  <2>3. LeasesKept /\ Has(q.repo, Mine(q))' /\ checkout' \in [Repos -> {Nothing} \cup Held]
    BY <1>4, <1>5, <1>8, AcquiredKeeps
  <2>4. EngineOK(m) /\ Leased(m)'
    BY <1>4, <2>2, <2>3, AskedIsSomething DEF EngineOK, Leased, Has, Mine
  <2>5. /\ bundle' \in [Tasks -> AnyBundle] /\ tree' \in [Tasks \X Repos -> WorkTrees]
        /\ using' \subseteq Uses /\ \A u \in using' : u \in using
    BY <1>3, <1>4, <1>8
  <2> QED BY <1>1, <1>3, <1>8, <2>1, <2>2, <2>3, <2>4, <2>5, WorkStep DEF Steps
<1> QED BY <1>1, <1>2, <1>6, <1>7, <1>8 DEF EnsureExpand, storeVars, leaseVars

LEMMA EnsurePrepareKeeps ==
    ASSUME TaskInv, NEW e \in Engines, EnsurePrepare(e)
    PROVE  TaskInv'
<1>1. PICK k : k = eng[e]
  OBVIOUS
<1>2. PICK q : q = k.q
  OBVIOUS
<1>3. k.pc = "prepare" /\ UNCHANGED <<lost, raced, using>>
  BY <1>1 DEF EnsurePrepare, At
<1>4. /\ TaskTypes /\ EngineOK(k) /\ Leased(k)
      /\ bundle \in [Tasks -> AnyBundle] /\ checkout \in [Repos -> {Nothing} \cup Held]
      /\ tree \in [Tasks \X Repos -> WorkTrees] /\ using \subseteq Uses
      /\ k \in Ensuring /\ q \in Asked /\ k.old \in AnyBundle /\ k.prov \in Provs
  BY <1>1, <1>2, <1>3, AtWork DEF Steps
<1>5. CASE GiveBack(e) /\ UNCHANGED tree
  BY <1>1, <1>2, <1>3, <1>4, <1>5, GiveBackKeeps
<1>6. CASE FailAndRelease(e) /\ UNCHANGED <<bundle, tree>>
  BY <1>1, <1>3, <1>4, <1>6, FailReleases, FailKeeps
<1>7. CASE /\ \/ tree' = tree
              \/ tree' = [tree EXCEPT ![<<q.task, q.repo>>] = [on |-> TRUE, work |-> FALSE, due |-> FALSE]]
           /\ Goto(e, [k EXCEPT !.pc = "put"])
           /\ UNCHANGED <<bundle, checkout, ended>>
  <2>1. PICK m : m = [k EXCEPT !.pc = "put"]
    OBVIOUS
  <2>2. m \in Ensuring /\ m.pc = "put" /\ m.q = q /\ m.prov = k.prov
    BY <1>2, <1>4, <2>1, EnsureMoves DEF Steps
  <2>3. k.prov = "checkout" => Has(q.repo, Mine(q))
    BY <1>2, <1>3, <1>4 DEF Leased
  <2>4. EngineOK(m) /\ Leased(m)'
    BY <1>4, <1>7, <2>2, <2>3, AskedIsSomething DEF EngineOK, Leased, Has, Mine
  <2>5. tree' \in [Tasks \X Repos -> WorkTrees]
    <3>1. PICK c : c = [on |-> TRUE, work |-> FALSE, due |-> FALSE]
      OBVIOUS
    <3>2. c \in WorkTrees
      BY <3>1 DEF WorkTrees
    <3> QED BY <1>4, <1>7, <3>1, <3>2
  <2>6. LeasesKept
    BY <1>7, UntouchedKept DEF leaseVars
  <2>7. /\ bundle' \in [Tasks -> AnyBundle] /\ checkout' \in [Repos -> {Nothing} \cup Held]
        /\ using' \subseteq Uses /\ \A u \in using' : u \in using
    BY <1>3, <1>4, <1>7
  <2> QED BY <1>1, <1>3, <1>7, <2>1, <2>2, <2>4, <2>5, <2>6, <2>7, WorkStep DEF Steps
<1> QED BY <1>1, <1>2, <1>5, <1>6, <1>7 DEF EnsurePrepare, storeVars, leaseVars

LEMMA EnsurePutKeeps ==
    ASSUME TaskInv, NEW e \in Engines, EnsurePut(e)
    PROVE  TaskInv'
<1>1. PICK k : k = eng[e]
  OBVIOUS
<1>2. PICK q : q = k.q
  OBVIOUS
<1>3. k.pc = "put" /\ UNCHANGED <<tree, lost, raced>>
  BY <1>1 DEF EnsurePut, At, gitVars
<1>4. /\ TaskTypes /\ EngineOK(k) /\ Leased(k)
      /\ bundle \in [Tasks -> AnyBundle] /\ checkout \in [Repos -> {Nothing} \cup Held]
      /\ tree \in [Tasks \X Repos -> WorkTrees] /\ using \subseteq Uses
      /\ k \in Ensuring /\ q \in Asked /\ k.old \in AnyBundle /\ k.prov \in Provs
  BY <1>1, <1>2, <1>3, AtWork DEF Steps
<1>5. q.task \in Tasks
  BY <1>4, AskedFields
<1>6. k.prov = "checkout" => Has(q.repo, Mine(q))
  BY <1>2, <1>3, <1>4 DEF Leased
<1>7. CASE FailAndRelease(e) /\ UNCHANGED <<bundle, using>>
  BY <1>1, <1>3, <1>4, <1>7, FailReleases, FailKeeps
<1>8. CASE /\ k.old = Nothing /\ bundle' = [bundle EXCEPT ![q.task] = BundleOf(q)]
           /\ Goto(e, [k EXCEPT !.pc = "claimNew"]) /\ UNCHANGED <<using, checkout, ended>>
  <2>1. PICK m : m = [k EXCEPT !.pc = "claimNew"]
    OBVIOUS
  <2>2. m \in Ensuring /\ m.pc = "claimNew" /\ m.q = q /\ m.prov = k.prov /\ m.old = Nothing
    BY <1>2, <1>4, <1>8, <2>1, EnsureMoves DEF Steps
  <2>3. EngineOK(m) /\ Leased(m)'
    BY <1>6, <1>8, <2>2, AskedIsSomething DEF EngineOK, Leased, Has, Mine
  <2>4. bundle' \in [Tasks -> AnyBundle]
    <3>1. PICK c : c = BundleOf(q)
      OBVIOUS
    <3>2. c \in AnyBundle
      BY <1>4, <3>1, AskedFields DEF BundleOf, Bundles, AnyBundle
    <3> QED BY <1>4, <1>5, <1>8, <3>1, <3>2
  <2>5. LeasesKept
    BY <1>8, UntouchedKept DEF leaseVars
  <2>6. /\ checkout' \in [Repos -> {Nothing} \cup Held] /\ tree' \in [Tasks \X Repos -> WorkTrees]
        /\ using' \subseteq Uses /\ \A u \in using' : u \in using
    BY <1>3, <1>4, <1>8
  <2> QED BY <1>1, <1>3, <1>8, <2>1, <2>2, <2>3, <2>4, <2>5, <2>6, WorkStep DEF Steps
<1>9. CASE /\ k.old # Nothing
           /\ \E live \in StillLive(q.task, k.old) :
                 bundle' = [bundle EXCEPT ![q.task] = [k.old EXCEPT !.repos = @ \cup {q.repo}, !.live = live]]
           /\ Return(e) /\ UNCHANGED <<checkout, ended>>
  <2>1. PICK live \in StillLive(q.task, k.old) :
              bundle' = [bundle EXCEPT ![q.task] = [k.old EXCEPT !.repos = @ \cup {q.repo}, !.live = live]]
    BY <1>9
  <2>2. PICK b : b = k.old
    OBVIOUS
  <2>3. b \in Bundles
    BY <1>4, <1>9, <2>2, BundleFields
  <2>4. live \in BOOLEAN
    <3>1. b.live \in BOOLEAN
      BY <2>3 DEF Bundles
    <3>2. ASSUME bundle[q.task] \in {b, [b EXCEPT !.live = FALSE]} PROVE bundle[q.task].live \in BOOLEAN
      <4>1. PICK c : c = [b EXCEPT !.live = FALSE]
        OBVIOUS
      <4>2. c.live = FALSE
        BY <2>3, <4>1 DEF Bundles
      <4> QED BY <3>1, <3>2, <4>1, <4>2
    <3> QED BY <2>1, <2>2, <3>1, <3>2 DEF StillLive
  <2>5. PICK c : c = [b EXCEPT !.repos = @ \cup {q.repo}, !.live = live]
    OBVIOUS
  <2>6. c \in AnyBundle
    BY <1>4, <2>3, <2>4, <2>5, BundlesMade, BundleIsSomething
  <2>7. bundle' \in [Tasks -> AnyBundle]
    BY <1>4, <1>5, <2>1, <2>2, <2>5, <2>6
  <2>8. k.prov = "checkout" => Has(q.repo, Mine(q))'
    BY <1>6, <1>9 DEF Has, Mine
  <2>9. Goto(e, Idle) /\ using' \subseteq Uses /\ \A u \in using' : u \in using \/ Joins(u)'
    BY <1>1, <1>2, <1>4, <1>9, <2>8, ReturnJoins
  <2>10. LeasesKept
    BY <1>9, UntouchedKept DEF leaseVars
  <2>11. checkout' \in [Repos -> {Nothing} \cup Held] /\ tree' \in [Tasks \X Repos -> WorkTrees]
    BY <1>3, <1>4, <1>9
  <2> QED BY <1>1, <1>3, <2>7, <2>9, <2>10, <2>11, IdleIsFine, WorkStep
<1> QED BY <1>1, <1>2, <1>7, <1>8, <1>9 DEF EnsurePut, Stored, storeVars, leaseVars

LEMMA EnsureClaimNewKeeps ==
    ASSUME TaskInv, NEW e \in Engines, EnsureClaimNew(e)
    PROVE  TaskInv'
<1>1. PICK k : k = eng[e]
  OBVIOUS
<1>2. PICK q : q = k.q
  OBVIOUS
<1>3. PICK b : b = bundle[q.task]
  OBVIOUS
<1>4. k.pc = "claimNew" /\ UNCHANGED <<tree, lost, raced>>
  BY <1>1 DEF EnsureClaimNew, At, gitVars
<1>5. /\ TaskTypes /\ EngineOK(k) /\ Leased(k)
      /\ bundle \in [Tasks -> AnyBundle] /\ checkout \in [Repos -> {Nothing} \cup Held]
      /\ tree \in [Tasks \X Repos -> WorkTrees] /\ using \subseteq Uses
      /\ k \in Ensuring /\ q \in Asked /\ k.prov \in Provs
  BY <1>1, <1>2, <1>4, AtWork DEF Steps
<1>6. q.task \in Tasks
  BY <1>5, AskedFields
<1>7. CASE FailAndRelease(e) /\ UNCHANGED <<bundle, using>>
  BY <1>1, <1>4, <1>5, <1>7, FailReleases, FailKeeps
<1>8. CASE /\ MayClaim(b, q) /\ UNCHANGED <<checkout, ended>> /\ Return(e)
           /\ bundle' = [bundle EXCEPT ![q.task] = Claimed(b, q)]
  <2>1. PICK c : c = Claimed(b, q)
    OBVIOUS
  <2>2. b \in Bundles
    BY <1>3, <1>5, <1>6, <1>8, BundleFields DEF MayClaim
  <2>3. c \in AnyBundle
    BY <1>5, <2>1, <2>2, BundlesMade, BundleIsSomething
  <2>4. bundle' \in [Tasks -> AnyBundle] /\ tree' \in [Tasks \X Repos -> WorkTrees]
    BY <1>4, <1>5, <1>6, <1>8, <2>1, <2>3
  <2>5. k.prov = "checkout" => Has(q.repo, Mine(q))
    BY <1>2, <1>4, <1>5 DEF Leased
  <2>6. k.prov = "checkout" => Has(q.repo, Mine(q))'
    BY <1>8, <2>5 DEF Has, Mine
  <2>7. Goto(e, Idle) /\ using' \subseteq Uses /\ \A u \in using' : u \in using \/ Joins(u)'
    BY <1>1, <1>2, <1>5, <1>8, <2>6, ReturnJoins
  <2>8. LeasesKept /\ checkout' \in [Repos -> {Nothing} \cup Held]
    BY <1>5, <1>8, UntouchedKept DEF leaseVars
  <2> QED BY <1>1, <1>4, <2>4, <2>7, <2>8, IdleIsFine, WorkStep
<1> QED BY <1>1, <1>2, <1>3, <1>7, <1>8 DEF EnsureClaimNew, Stored, storeVars, leaseVars

-----------------------------------------------------------------------------
(* The limit on worktrees.                                                  *)

Limiting == {"evict", "archive", "remove"}

\* The loop over the listed bundles goes on.
LEMMA LimitStep ==
    ASSUME TaskInv, NEW e \in Engines, NEW k, k = eng[e], k.pc \in Limiting,
           NEW p \in Limiting, NEW l, NEW c, Evicting(e, p, l, c),
           bundle' \in [Tasks -> AnyBundle], tree' \in [Tasks \X Repos -> WorkTrees],
           UNCHANGED <<checkout, ended, using, raced>>, NoWorkLost',
           \A t \in Tasks : bundle'[t] = bundle[t] \/ bundle'[t] = Nothing,
           ~raced /\ p # "evict" => \A t \in Tasks : t = Head(l) => Loose(bundle[t]),
           ~raced /\ p = "remove" =>
              \A t \in Tasks, r \in Repos :
                  t = Head(l) /\ r \in k.listed[t].repos /\ tree'[<<t, r>>].on => ~tree'[<<t, r>>].due,
           p # "evict" => \A u \in using : u.engine = e /\ u.by = "process" =>
              ~(Head(l) = u.task /\ u.prov = "worktree" /\ u.repo \in k.listed[u.task].repos)
    PROVE  TaskInv'
<1>1. PICK m : m = [pc |-> p, q |-> k.q, old |-> k.old, prov |-> k.prov,
                    left |-> l, listed |-> k.listed, current |-> c]
  OBVIOUS
<1>2. /\ EngineOK(k) /\ (~raced => Limited(k))
      /\ checkout \in [Repos -> {Nothing} \cup Held] /\ using \subseteq Uses /\ raced \in BOOLEAN
      /\ ~raced => \A f \in Engines : f # e => eng[f] = Idle
  BY AtWork DEF Limiting
<1>3. Evicts(k)
  BY <1>2, EngineFields DEF Limiting
<1>4. Evicts(m) /\ m.pc = p /\ m.q = k.q /\ m.old = k.old /\ m.left = l /\ m.listed = k.listed
  BY <1>1, <1>3, EvictMoves DEF Limiting
<1>5. EngineOK(m)
  <2>1. k # Idle
    BY DEF Idle, Limiting
  <2> QED BY <1>2, <1>4, <2>1 DEF EngineOK, Limiting
<1>6. Goto(e, m)
  BY <1>1 DEF Evicting
<1>7. Leased(m)' /\ LeasesKept
  BY <1>4, UntouchedKept DEF Leased, Limiting, leaseVars
<1>8. \A u \in using : u.engine = e /\ u.by = "process" => ~Removes(m, u)
  BY <1>4 DEF Removes
<1>9. ASSUME ~raced' PROVE Limited(m)'
  <2>1. ~raced /\ Limited(k)
    BY <1>2, <1>9
  <2>2. ASSUME NEW t \in Tasks PROVE AsListed(k.listed[t], bundle'[t])
    BY <2>1 DEF Limited, AsListed, Limiting
  <2>3. ASSUME p # "evict", NEW t \in Tasks, t = Head(l) PROVE Loose(bundle'[t])
    BY <2>1, <2>3 DEF Loose
  <2>4. \A t \in Tasks : AsListed(m.listed[t], bundle'[t])
    BY <1>4, <2>2
  <2>5. m.pc \in {"archive", "remove"} => \A t \in Tasks : t = Head(m.left) => Loose(bundle'[t])
    BY <1>4, <2>3
  <2>6. m.pc = "remove" =>
          \A t \in Tasks, r \in Repos :
              t = Head(m.left) /\ r \in m.listed[t].repos /\ tree'[<<t, r>>].on => ~tree'[<<t, r>>].due
    BY <1>4, <2>1
  <2> QED BY <2>4, <2>5, <2>6 DEF Limited, Loose, AsListed
<1>10. checkout' \in [Repos -> {Nothing} \cup Held] /\ using' \subseteq Uses /\ raced' \in BOOLEAN
       /\ \A u \in using' : u \in using
  BY <1>2
<1> QED BY <1>2, <1>5, <1>6, <1>7, <1>8, <1>9, <1>10, EngineKeeps

\* The limit is kept: an Ensure has its slot.
LEMMA EnoughKeeps ==
    ASSUME TaskInv, NEW e \in Engines, eng[e].pc \in Limiting \cup {"list"}, Enough(e),
           UNCHANGED <<bundle, checkout, ended, tree, using, lost, raced>>
    PROVE  TaskInv'
<1>1. PICK k : k = eng[e]
  OBVIOUS
<1>2. /\ EngineOK(k) /\ k # Idle /\ bundle \in [Tasks -> AnyBundle]
      /\ checkout \in [Repos -> {Nothing} \cup Held]
      /\ tree \in [Tasks \X Repos -> WorkTrees] /\ using \subseteq Uses
  BY <1>1, AtWork DEF Limiting
<1>3. k.q \in Asked \cup {Nothing} /\ k.old \in AnyBundle /\ k.prov = "worktree"
  BY <1>1, <1>2, EngineFields DEF Limiting, Evicts
<1>4. PICK m : m = IF k.q = Nothing THEN Idle
                   ELSE [pc |-> "prepare", q |-> k.q, old |-> k.old, prov |-> k.prov]
  OBVIOUS
<1>5. Goto(e, m)
  BY <1>1, <1>4 DEF Enough
<1>6. EngineOK(m) /\ m.pc \in Steps \cup {"idle"} /\ Leased(m)'
  <2>1. CASE k.q = Nothing
    BY <1>4, <2>1, IdleIsFine
  <2>2. CASE k.q # Nothing
    <3>1. m = [pc |-> "prepare", q |-> k.q, old |-> k.old, prov |-> k.prov]
      BY <1>4, <2>2
    <3>2. m \in Ensuring /\ m.pc = "prepare" /\ m.q = k.q /\ m.prov = "worktree"
      BY <1>3, <2>2, <3>1 DEF Ensuring, Steps, Provs
    <3> QED BY <2>2, <3>2 DEF EngineOK, Leased, Steps
  <2> QED BY <2>1, <2>2
<1>7. LeasesKept
  BY UntouchedKept DEF leaseVars
<1>8. /\ bundle' \in [Tasks -> AnyBundle] /\ checkout' \in [Repos -> {Nothing} \cup Held]
      /\ tree' \in [Tasks \X Repos -> WorkTrees] /\ using' \subseteq Uses /\ \A u \in using' : u \in using
  BY <1>2
<1> QED BY <1>1, <1>2, <1>5, <1>6, <1>7, <1>8, WorkStep, EngineFields

LEMMA ReconcileLimitKeeps ==
    ASSUME TaskInv, NEW e \in Engines, NEW n \in Limits, ReconcileLimit(e, n)
    PROVE  TaskInv'
<1>0. /\ TaskTypes /\ NoWorkLost
      /\ bundle \in [Tasks -> AnyBundle] /\ checkout \in [Repos -> {Nothing} \cup Held]
      /\ using \subseteq Uses /\ tree \in [Tasks \X Repos -> WorkTrees]
  BY DEF TaskInv, WorkInv, TaskTypes
<1>1. PICK k : k = [pc |-> "list", q |-> Nothing, old |-> Nothing, prov |-> "worktree"]
  OBVIOUS
<1>2. Begins(e) /\ Goto(e, k) /\ UNCHANGED <<bundle, tree, lost, checkout, ended, using>>
  BY <1>1 DEF ReconcileLimit, storeVars, gitVars, leaseVars
<1>3. k \in Listing /\ k.pc = "list" /\ k.old = Nothing
  BY <1>1 DEF Listing, AnyBundle
<1>4. EngineOK(k) /\ Leased(k)' /\ Limited(k)' /\ \A u : ~Removes(k, u)
  BY <1>3 DEF EngineOK, Leased, Limited, Removes
<1>5. raced' \in BOOLEAN /\ (raced => raced') /\ (~raced' => \A f \in Engines : f # e => eng[f] = Idle)
  BY <1>2, BeginsAlone
<1>6. NoWorkLost' /\ LeasesKept
  BY <1>0, <1>2, <1>5, UntouchedKept DEF NoWorkLost, leaseVars
<1>7. /\ bundle' \in [Tasks -> AnyBundle] /\ checkout' \in [Repos -> {Nothing} \cup Held]
      /\ tree' \in [Tasks \X Repos -> WorkTrees] /\ using' \subseteq Uses /\ \A u \in using' : u \in using
  BY <1>0, <1>2
<1> QED BY <1>2, <1>4, <1>5, <1>6, <1>7, EngineKeeps

LEMMA LimitListKeeps ==
    ASSUME TaskInv, NEW e \in Engines, LimitList(e)
    PROVE  TaskInv'
<1>1. PICK k : k = eng[e]
  OBVIOUS
<1>2. k.pc = "list" /\ UNCHANGED <<bundle, tree, lost, checkout, ended, using, raced>>
  BY <1>1 DEF LimitList, At, storeVars, gitVars, leaseVars
<1>3. /\ EngineOK(k) /\ k # Idle /\ NoWorkLost /\ bundle \in [Tasks -> AnyBundle]
      /\ checkout \in [Repos -> {Nothing} \cup Held] /\ raced \in BOOLEAN
      /\ tree \in [Tasks \X Repos -> WorkTrees] /\ using \subseteq Uses
      /\ ~raced => \A f \in Engines : f # e => eng[f] = Idle
  BY <1>1, <1>2, AtWork
<1>4. k \in Listing
  BY <1>2, <1>3, EngineFields
<1>5. CASE Enough(e)
  BY <1>1, <1>2, <1>5, EnoughKeeps
<1>6. CASE Goto(e, [pc |-> "evict", q |-> k.q, old |-> k.old, prov |-> k.prov,
                    left |-> order, listed |-> bundle, current |-> Current])
  <2>1. PICK m : m = [pc |-> "evict", q |-> k.q, old |-> k.old, prov |-> k.prov,
                      left |-> order, listed |-> bundle, current |-> Current]
    OBVIOUS
  <2>2. Evicts(m) /\ m.pc = "evict" /\ m.q = k.q /\ m.old = k.old /\ m.listed = bundle
    BY <1>3, <1>4, <2>1 DEF Evicts, Listing
  <2>3. EngineOK(m) /\ Leased(m)'
    BY <1>3, <2>2 DEF EngineOK, Leased
  <2>4. Limited(m)' /\ \A u : ~Removes(m, u)
    BY <1>2, <2>2 DEF Limited, AsListed, Removes
  <2>5. NoWorkLost' /\ LeasesKept
    BY <1>2, <1>3, UntouchedKept DEF NoWorkLost, leaseVars
  <2>6. /\ bundle' \in [Tasks -> AnyBundle] /\ checkout' \in [Repos -> {Nothing} \cup Held]
        /\ tree' \in [Tasks \X Repos -> WorkTrees] /\ using' \subseteq Uses /\ \A u \in using' : u \in using
    BY <1>2, <1>3
  <2> QED BY <1>2, <1>3, <1>6, <2>1, <2>3, <2>4, <2>5, <2>6, EngineKeeps
<1> QED BY <1>1, <1>5, <1>6 DEF LimitList

\* A bundle is archived only when, by what is stored of it now, nobody has a
\* live lease of it, and no process that the engine knows of is in it.
LEMMA LimitNextKeeps ==
    ASSUME TaskInv, NEW e \in Engines, LimitNext(e)
    PROVE  TaskInv'
<1>1. PICK k : k = eng[e]
  OBVIOUS
<1>2. PICK t : t = Head(k.left)
  OBVIOUS
<1>3. PICK b : b = k.listed[t]
  OBVIOUS
<1>4. k.pc = "evict" /\ UNCHANGED <<tree, lost, using, raced>>
  BY <1>1 DEF LimitNext, At, gitVars
<1>5. /\ EngineOK(k) /\ (~raced => Limited(k)) /\ NoWorkLost
      /\ bundle \in [Tasks -> AnyBundle] /\ tree \in [Tasks \X Repos -> WorkTrees]
  BY <1>1, <1>4, AtWork
<1>6. Evicts(k)
  BY <1>4, <1>5, EngineFields
<1>7. NoWorkLost' /\ tree' \in [Tasks \X Repos -> WorkTrees] /\ k.pc \in Limiting
  BY <1>4, <1>5 DEF NoWorkLost, Limiting
<1>8. CASE Enough(e) /\ UNCHANGED <<bundle, checkout, ended>>
  BY <1>1, <1>4, <1>7, <1>8, EnoughKeeps
<1>9. CASE k.old = Nothing /\ Fail(e) /\ UNCHANGED <<bundle, checkout, ended>>
  BY <1>1, <1>4, <1>5, <1>9, FailKeeps DEF Fail, leaseVars
<1>10. CASE k.old # Nothing /\ GiveBack(e)
  <2>1. k.q \in Asked
    BY <1>4, <1>5, <1>6, <1>10 DEF EngineOK, Evicts, Idle
  <2> QED BY <1>1, <1>4, <1>10, <2>1, GiveBackKeeps
<1>11. CASE Skip(e) /\ UNCHANGED <<checkout, ended>> /\ (UNCHANGED bundle \/ Deleted(t))
  <2>1. \A s \in Tasks : bundle'[s] = bundle[s] \/ bundle'[s] = Nothing
    BY <1>5, <1>11 DEF Deleted
  <2>2. bundle' \in [Tasks -> AnyBundle]
    BY <1>5, <1>11 DEF Deleted, AnyBundle
  <2>3. PICK l, c : Evicting(e, "evict", l, c)
    BY <1>11 DEF Skip
  <2> QED BY <1>1, <1>4, <1>7, <1>11, <2>1, <2>2, <2>3, LimitStep DEF Limiting
<1>12. CASE /\ \E live \in StillLive(t, b) : ~(IsLeased(b, live) \/ IsRunning(e, t, b))
            /\ Stay(e, "archive") /\ UNCHANGED <<bundle, checkout, ended>>
  <2>1. PICK live \in StillLive(t, b) : ~IsLeased(b, live) /\ ~IsRunning(e, t, b)
    BY <1>12
  <2>2. Evicting(e, "archive", k.left, k.current)
    BY <1>1, <1>12 DEF Stay
  <2>3. ASSUME ~raced, NEW s \in Tasks, s = Head(k.left) PROVE Loose(bundle[s])
    <3>1. s = t /\ AsListed(b, bundle[t])
      BY <1>2, <1>3, <1>4, <1>5, <2>3 DEF Limited
    <3>2. CASE bundle[t] = Nothing
      BY <3>1, <3>2 DEF Loose
    <3>3. CASE bundle[t] = b
      <4>1. live = b.live
        BY <2>1, <3>3 DEF StillLive
      <4> QED BY <2>1, <3>1, <3>3, <4>1 DEF IsLeased, Loose
    <3>4. CASE b # Nothing /\ bundle[t] = [b EXCEPT !.live = FALSE]
      <4>1. b \in AnyBundle
        BY <1>3, <1>6, <2>3, <3>1 DEF Evicts
      <4>2. b \in Bundles
        BY <3>4, <4>1, BundleFields
      <4>3. PICK c : c = [b EXCEPT !.live = FALSE]
        OBVIOUS
      <4>4. c.live = FALSE
        BY <4>2, <4>3 DEF Bundles
      <4> QED BY <3>1, <3>4, <4>3, <4>4 DEF Loose
    <3> QED BY <3>1, <3>2, <3>3, <3>4 DEF AsListed
  <2>4. ASSUME NEW u \in using, u.engine = e, u.by = "process"
        PROVE  ~(Head(k.left) = u.task /\ u.prov = "worktree" /\ u.repo \in k.listed[u.task].repos)
    BY <1>2, <1>3, <2>1, <2>4 DEF IsRunning
  <2>5. bundle' \in [Tasks -> AnyBundle] /\ \A s \in Tasks : bundle'[s] = bundle[s]
    BY <1>5, <1>12
  <2> QED BY <1>1, <1>4, <1>7, <1>12, <2>2, <2>3, <2>4, <2>5, LimitStep DEF Limiting
<1> QED BY <1>1, <1>2, <1>3, <1>8, <1>9, <1>10, <1>11, <1>12 DEF LimitNext, NoSlot, storeVars, leaseVars

\* What the archive's commit covers is no longer due.
LEMMA SavedFields ==
    ASSUME TaskTypes, NEW t, NEW rs, Saved(t, rs)
    PROVE  /\ tree' \in [Tasks \X Repos -> WorkTrees]
           /\ \A s \in Tasks, r \in Repos :
                 /\ tree'[<<s, r>>].on = tree[<<s, r>>].on
                 /\ s = t /\ r \in rs => ~tree'[<<s, r>>].due
<1>1. tree \in [Tasks \X Repos -> WorkTrees] /\ DOMAIN tree = Tasks \X Repos
  BY DEF TaskTypes
<1>2. tree' = [x \in Tasks \X Repos |-> IF x[1] = t /\ x[2] \in rs
                                          THEN [tree[x] EXCEPT !.due = FALSE] ELSE tree[x]]
  BY <1>1 DEF Saved
<1>3. ASSUME NEW w \in WorkTrees
      PROVE  LET v == [w EXCEPT !.due = FALSE] IN v \in WorkTrees /\ v.on = w.on /\ v.due = FALSE
  BY DEF WorkTrees
<1>4. tree' \in [Tasks \X Repos -> WorkTrees]
  BY <1>1, <1>2, <1>3
<1>5. ASSUME NEW s \in Tasks, NEW r \in Repos
      PROVE  /\ tree'[<<s, r>>].on = tree[<<s, r>>].on
             /\ s = t /\ r \in rs => ~tree'[<<s, r>>].due
  <2>1. PICK w \in WorkTrees : w = tree[<<s, r>>]
    BY <1>1
  <2>2. tree'[<<s, r>>] = IF s = t /\ r \in rs THEN [w EXCEPT !.due = FALSE] ELSE w
    BY <1>2, <2>1
  <2> QED BY <1>3, <2>1, <2>2
<1> QED BY <1>4, <1>5

LEMMA LimitArchiveKeeps ==
    ASSUME TaskInv, NEW e \in Engines, LimitArchive(e)
    PROVE  TaskInv'
<1>1. PICK k : k = eng[e]
  OBVIOUS
<1>2. PICK t : t = Head(k.left)
  OBVIOUS
<1>3. PICK todo : todo = OnDisk(t, k.listed[t])
  OBVIOUS
<1>4. k.pc = "archive" /\ UNCHANGED <<bundle, lost, checkout, ended, using, raced>>
  BY <1>1 DEF LimitArchive, At, storeVars, leaseVars
<1>5. /\ TaskTypes /\ EngineOK(k) /\ (~raced => Limited(k)) /\ NoWorkLost
      /\ bundle \in [Tasks -> AnyBundle] /\ using \subseteq Uses
  BY <1>1, <1>4, AtWork
<1>6. NoWorkLost' /\ k.pc \in Limiting /\ bundle' \in [Tasks -> AnyBundle]
  BY <1>4, <1>5 DEF NoWorkLost, Limiting
<1>7. CASE Saved(t, todo) /\ Stay(e, "remove")
  <2>1. /\ tree' \in [Tasks \X Repos -> WorkTrees]
        /\ \A s \in Tasks, r \in Repos :
              /\ tree'[<<s, r>>].on = tree[<<s, r>>].on
              /\ s = t /\ r \in todo => ~tree'[<<s, r>>].due
    BY <1>5, <1>7, SavedFields
  <2>2. Evicting(e, "remove", k.left, k.current)
    BY <1>1, <1>7 DEF Stay
  <2>3. ~raced => \A s \in Tasks : s = Head(k.left) => Loose(bundle[s])
    BY <1>4, <1>5 DEF Limited
  <2>4. ASSUME NEW s \in Tasks, NEW r \in Repos,
               s = Head(k.left), r \in k.listed[s].repos, tree'[<<s, r>>].on
        PROVE  ~tree'[<<s, r>>].due
    <3>1. s = t /\ r \in todo
      BY <1>2, <1>3, <2>1, <2>4 DEF OnDisk
    <3> QED BY <2>1, <3>1
  <2>5. ASSUME NEW u \in using, u.engine = e, u.by = "process"
        PROVE  ~(Head(k.left) = u.task /\ u.prov = "worktree" /\ u.repo \in k.listed[u.task].repos)
    <3>1. ~Removes(k, u)
      BY <1>1, <2>5 DEF TaskInv, WorkInv, Seen
    <3> QED BY <1>4, <3>1 DEF Removes
  <2> QED BY <1>1, <1>4, <1>6, <2>1, <2>2, <2>3, <2>4, <2>5, LimitStep DEF Limiting
<1>8. CASE (\E rs \in SUBSET todo : Saved(t, rs)) /\ Skip(e)
  <2>1. tree' \in [Tasks \X Repos -> WorkTrees]
    BY <1>5, <1>8, SavedFields
  <2>2. PICK l, c : Evicting(e, "evict", l, c)
    BY <1>8 DEF Skip
  <2> QED BY <1>1, <1>4, <1>6, <2>1, <2>2, LimitStep DEF Limiting
<1>9. (\E rs \in SUBSET (todo \ {r \in todo : archive[<<t, r>>] = "old"}) : rs # todo /\ Saved(t, rs))
      => \E rs \in SUBSET todo : Saved(t, rs)
  OBVIOUS
<1> QED BY <1>1, <1>2, <1>3, <1>7, <1>8, <1>9 DEF LimitArchive

\* What is removed while one engine is at work was not due.
LEMMA RemovedFields ==
    ASSUME TaskTypes, NEW t, NEW rs, Removed(t, rs)
    PROVE  /\ tree' \in [Tasks \X Repos -> WorkTrees]
           /\ lost = {} /\ lost' # {} =>
                 \E s \in Tasks, r \in Repos : s = t /\ r \in rs /\ tree[<<s, r>>].due
<1>1. tree \in [Tasks \X Repos -> WorkTrees] /\ DOMAIN tree = Tasks \X Repos
  BY DEF TaskTypes
<1>2. NoTree \in WorkTrees
  BY DEF NoTree, WorkTrees
<1>3. tree' \in [Tasks \X Repos -> WorkTrees]
  BY <1>1, <1>2 DEF Removed
<1>4. lost' = lost \cup {x \in Tasks \X Repos : x[1] = t /\ x[2] \in rs /\ tree[x].due}
  BY <1>1 DEF Removed
<1>5. ASSUME lost = {}, lost' # {}
      PROVE  \E s \in Tasks, r \in Repos : s = t /\ r \in rs /\ tree[<<s, r>>].due
  <2>1. PICK x \in Tasks \X Repos : x[1] = t /\ x[2] \in rs /\ tree[x].due
    BY <1>4, <1>5
  <2>2. PICK s \in Tasks, r \in Repos : x = <<s, r>>
    OBVIOUS
  <2>3. s = t /\ r \in rs /\ tree[<<s, r>>].due
    BY <2>1, <2>2
  <2> QED BY <2>3
<1> QED BY <1>3, <1>5

LEMMA LimitRemoveKeeps ==
    ASSUME TaskInv, NEW e \in Engines, LimitRemove(e)
    PROVE  TaskInv'
<1>1. PICK k : k = eng[e]
  OBVIOUS
<1>2. PICK t : t = Head(k.left)
  OBVIOUS
<1>3. PICK todo : todo = OnDisk(t, k.listed[t])
  OBVIOUS
<1>4. k.pc = "remove" /\ UNCHANGED <<using, raced>>
  BY <1>1 DEF LimitRemove, At
<1>5. /\ TaskTypes /\ EngineOK(k) /\ (~raced => Limited(k)) /\ NoWorkLost
      /\ bundle \in [Tasks -> AnyBundle] /\ raced \in BOOLEAN
  BY <1>1, <1>4, AtWork
<1>6. PICK rs \in SUBSET todo : Removed(t, rs)
  BY <1>1, <1>2, <1>3 DEF LimitRemove
<1>7. /\ tree' \in [Tasks \X Repos -> WorkTrees]
      /\ lost = {} /\ lost' # {} =>
            \E s \in Tasks, r \in Repos : s = t /\ r \in rs /\ tree[<<s, r>>].due
  BY <1>5, <1>6, RemovedFields
<1>8. NoWorkLost'
  <2>1. SUFFICES ASSUME lost' # {}, ~raced PROVE FALSE
    BY <1>4, <1>5 DEF NoWorkLost
  <2>2. lost = {}
    BY <1>5, <2>1 DEF NoWorkLost
  <2>3. PICK s \in Tasks, r \in Repos : s = t /\ r \in rs /\ tree[<<s, r>>].due
    BY <1>7, <2>1, <2>2
  <2>4. r \in k.listed[s].repos /\ tree[<<s, r>>].on
    BY <1>3, <1>6, <2>3 DEF OnDisk
  <2> QED BY <1>2, <1>4, <1>5, <2>1, <2>3, <2>4 DEF Limited
<1>9. k.pc \in Limiting /\ Evicts(k)
  BY <1>4, <1>5, EngineFields DEF Limiting
<1>10. CASE /\ \E l, c : Evicting(e, "evict", l, c)
            /\ Deleted(t) \/ UNCHANGED bundle
            /\ UNCHANGED <<checkout, ended>>
  <2>1. /\ bundle' \in [Tasks -> AnyBundle]
        /\ \A s \in Tasks : bundle'[s] = bundle[s] \/ bundle'[s] = Nothing
    BY <1>5, <1>10 DEF Deleted, AnyBundle
  <2>2. PICK l, c : Evicting(e, "evict", l, c)
    BY <1>10
  <2> QED BY <1>1, <1>4, <1>7, <1>8, <1>9, <1>10, <2>1, <2>2, LimitStep DEF Limiting
<1>11. CASE k.old = Nothing /\ Fail(e) /\ UNCHANGED <<bundle, checkout, ended>>
  <2>1. Goto(e, Idle) /\ UNCHANGED leaseVars /\ bundle' \in [Tasks -> AnyBundle]
    BY <1>5, <1>11 DEF Fail, leaseVars
  <2> QED BY <1>1, <1>4, <1>7, <1>8, <2>1, FailStep
<1>12. CASE k.old # Nothing /\ GiveBack(e)
  <2>1. k.q \in Asked
    BY <1>4, <1>5, <1>9, <1>12 DEF EngineOK, Evicts, Idle
  <2>2. /\ bundle' \in [Tasks -> AnyBundle]
        /\ Goto(e, Idle) /\ (UNCHANGED leaseVars \/ Checkouts(Released(eng[e].q)))
    BY <1>1, <1>12, <2>1, GiveBackFields
  <2> QED BY <1>1, <1>4, <1>7, <1>8, <2>2, FailStep
<1> QED BY <1>1, <1>2, <1>10, <1>11, <1>12 DEF LimitRemove, NoSlot, Skip, storeVars, leaseVars

-----------------------------------------------------------------------------
(* Tools, time and the process.                                             *)

\* A step that is not an engine's.
LEMMA QuietStep ==
    ASSUME TaskInv, UNCHANGED <<eng, lost, raced>>,
           bundle' \in [Tasks -> AnyBundle], checkout' \in [Repos -> {Nothing} \cup Held],
           tree' \in [Tasks \X Repos -> WorkTrees], using' \subseteq Uses, LeasesKept,
           \A u \in using' : u.asked /\ u.prov = "checkout" =>
              \E v \in using : v.asked /\ v.prov = "checkout" /\ v.repo = u.repo /\ Mine(v) = Mine(u),
           \A u \in using' : u.by = "process" => u \in using \/ ~Removes(eng[u.engine], u),
           \A k : ~raced /\ Limited(k) /\ (\E e \in Engines : k = eng[e]) => Limited(k)'
    PROVE  TaskInv'
<1>1. /\ TaskTypes /\ Alone /\ Seen /\ NoWorkLost /\ using \subseteq Uses
      /\ \A e \in Engines : Leased(eng[e]) /\ EngineOK(eng[e])
      /\ ~raced => \A e \in Engines : Limited(eng[e])
  BY DEF TaskInv, TaskTypes, CheckoutInv, WorkInv
<1>2. TaskTypes'
  BY <1>1 DEF TaskTypes
<1>3. CheckoutInv'
  <2>1. ASSUME NEW u \in using', u.asked, u.prov = "checkout" PROVE Has(u.repo, Mine(u))'
    <3>1. PICK v \in using : v.asked /\ v.prov = "checkout" /\ v.repo = u.repo /\ Mine(v) = Mine(u)
      BY <2>1
    <3>2. Has(v.repo, Mine(v))
      BY <3>1 DEF TaskInv, CheckoutInv
    <3>3. v.repo \in Repos /\ v.task \in Tasks /\ v.owner \in Owners
      BY <1>1 DEF Uses
    <3>4. PICK m \in Held : m = Mine(v)
      BY <3>3, MineHeld
    <3>5. Has(v.repo, m)'
      BY <3>2, <3>3, <3>4 DEF LeasesKept
    <3>6. m = Mine(u) /\ v.repo = u.repo
      BY <3>1, <3>4
    <3> QED BY <3>5, <3>6 DEF Has, Mine
  <2>2. ASSUME NEW f \in Engines PROVE Leased(eng[f])'
    <3>1. PICK j : j = eng[f]
      OBVIOUS
    <3>2. eng'[f] = j /\ Leased(j)'
      BY <1>1, <3>1, LeasedStays
    <3> QED BY <3>2 DEF Leased, Has, Mine
  <2> QED BY <2>1, <2>2 DEF CheckoutInv
<1>4. Alone' /\ NoWorkLost'
  BY <1>1 DEF Alone, NoWorkLost
<1>5. Seen'
  BY <1>1 DEF Seen, Removes
<1>6. ASSUME ~raced', NEW e \in Engines PROVE Limited(eng[e])'
  <2>1. PICK k : k = eng[e]
    OBVIOUS
  <2>2. eng'[e] = k /\ Limited(k)'
    BY <1>1, <1>6, <2>1
  <2> QED BY <2>2 DEF Limited
<1> QED BY <1>2, <1>3, <1>4, <1>5, <1>6 DEF TaskInv, WorkInv

\* What stays as it is.
LEMMA Typed ==
    ASSUME TaskInv
    PROVE  /\ bundle \in [Tasks -> AnyBundle] /\ checkout \in [Repos -> {Nothing} \cup Held]
           /\ tree \in [Tasks \X Repos -> WorkTrees] /\ using \subseteq Uses
  BY DEF TaskInv, TaskTypes

LEMMA LimitedStays ==
    ASSUME UNCHANGED <<bundle, tree>>, NEW k, Limited(k)
    PROVE  Limited(k)'
  BY DEF Limited

LEMMA UseUnaskedKeeps ==
    ASSUME TaskInv, NEW e \in Engines, NEW q \in Asked, UseUnasked(e, q)
    PROVE  TaskInv'
<1>1. PICK prov \in Unasked(q) : using' = using \cup {Tool(e, q, prov, FALSE)}
  BY DEF UseUnasked
<1>2. UNCHANGED <<bundle, checkout, ended, tree, eng, lost, raced>>
  BY DEF UseUnasked, storeVars, gitVars, leaseVars
<1>3. q.task \in Tasks /\ q.owner \in Owners /\ q.repo \in Repos /\ q.prov \in Provs
  BY AskedFields
<1>4. prov \in Provs
  <2>1. bundle[q.task] \in AnyBundle
    BY <1>3, Typed
  <2> QED BY <1>1, <1>3, <2>1, BundleFields DEF Unasked, Provs
<1>5. PICK u : u = Tool(e, q, prov, FALSE)
  OBVIOUS
<1>6. u \in Uses /\ u.asked = FALSE /\ u.by = "tool"
  BY <1>3, <1>4, <1>5 DEF Uses, Tool
<1>7. using' \subseteq Uses /\ \A v \in using' : v \in using \/ (v.asked = FALSE /\ v.by = "tool")
  BY <1>1, <1>5, <1>6, Typed
<1>8. LeasesKept /\ \A k : Limited(k) => Limited(k)'
  BY <1>2, UntouchedKept, LimitedStays DEF leaseVars
<1> QED BY <1>2, <1>7, <1>8, Typed, QuietStep

LEMMA BackgroundKeeps ==
    ASSUME TaskInv, NEW u \in using, Background(u)
    PROVE  TaskInv'
<1>1. UNCHANGED <<bundle, checkout, ended, tree, eng, lost, raced>>
  BY DEF Background, storeVars, gitVars, leaseVars
<1>2. PICK by : by = IF Removing(u.engine, u) THEN "late" ELSE "process"
  OBVIOUS
<1>3. PICK v : v = [u EXCEPT !.by = by]
  OBVIOUS
<1>4. using' \subseteq using \cup {v}
  BY <1>2, <1>3 DEF Background
<1>5. u \in Uses /\ by \in {"late", "process"}
  BY <1>2, Typed
<1>6. /\ v \in Uses /\ v.engine = u.engine /\ v.task = u.task /\ v.owner = u.owner /\ v.repo = u.repo
      /\ v.prov = u.prov /\ v.asked = u.asked /\ v.by = by
  BY <1>3, <1>5 DEF Uses
<1>7. Mine(v) = Mine(u)
  BY <1>6 DEF Mine
<1>8. v.by = "process" => ~Removes(eng[v.engine], v)
  BY <1>2, <1>6 DEF Removes, Removing
<1>9. LeasesKept /\ \A k : Limited(k) => Limited(k)'
  BY <1>1, UntouchedKept, LimitedStays DEF leaseVars
<1>10. ASSUME NEW w \in using', w.asked, w.prov = "checkout"
       PROVE  \E x \in using : x.asked /\ x.prov = "checkout" /\ x.repo = w.repo /\ Mine(x) = Mine(w)
  BY <1>4, <1>6, <1>7, <1>10
<1>11. \A w \in using' : w.by = "process" => w \in using \/ ~Removes(eng[w.engine], w)
  BY <1>4, <1>8
<1>12. using' \subseteq Uses
  BY <1>4, <1>6, Typed
<1> QED BY <1>1, <1>9, <1>10, <1>11, <1>12, Typed, QuietStep

\* What is done in a worktree while it is being removed is not due: nobody has
\* a live lease of its bundle, and its engine knows of no process there.
LEMMA WorkKeeps ==
    ASSUME TaskInv, NEW u \in using, Work(u)
    PROVE  TaskInv'
<1>1. UNCHANGED <<bundle, checkout, ended, eng, using, lost, raced>>
  BY DEF Work, storeVars, leaseVars
<1>2. PICK x : x = <<u.task, u.repo>>
  OBVIOUS
<1>3. u \in Uses /\ u.task \in Tasks /\ u.repo \in Repos /\ u.owner \in Owners /\ u.engine \in Engines
  BY Typed DEF Uses
<1>4. PICK d : d = (tree[x].due \/ Protected(u))
  OBVIOUS
<1>5. PICK w : w = [on |-> TRUE, work |-> TRUE, due |-> d]
  OBVIOUS
<1>6. u.prov = "worktree" /\ tree[x].on /\ tree' = [tree EXCEPT ![x] = w]
  BY <1>2, <1>4, <1>5 DEF Work
<1>7. x \in Tasks \X Repos /\ tree[x] \in WorkTrees
  BY <1>2, <1>3, Typed
<1>8. d \in BOOLEAN
  BY <1>4
<1>9. w \in WorkTrees /\ w.due = d
  BY <1>5, <1>8 DEF WorkTrees
<1>10. tree' \in [Tasks \X Repos -> WorkTrees] /\ tree'[x] = w
       /\ \A y \in Tasks \X Repos : y # x => tree'[y] = tree[y]
  BY <1>6, <1>7, <1>9, Typed
<1>11. LeasesKept
  BY <1>1, UntouchedKept DEF leaseVars
<1>12. ASSUME NEW k, ~raced, Limited(k), NEW e \in Engines, k = eng[e] PROVE Limited(k)'
  <2>1. ASSUME k.pc = "remove", NEW t \in Tasks, NEW r \in Repos,
               t = Head(k.left), r \in k.listed[t].repos, tree'[<<t, r>>].on
        PROVE  ~tree'[<<t, r>>].due
    <3>1. CASE <<t, r>> # x
      BY <1>10, <1>12, <2>1, <3>1 DEF Limited
    <3>2. CASE <<t, r>> = x
      <4>1. t = u.task /\ r = u.repo
        BY <1>2, <3>2
      <4>2. ~tree[x].due
        BY <1>6, <1>12, <2>1, <3>2 DEF Limited
      <4>3. Loose(bundle[t])
        BY <1>12, <2>1 DEF Limited
      <4>4. ~Covered(u)
        BY <1>3, <4>1, <4>3, TaskLeaseAssumption DEF Covered, Loose
      <4>5. Removes(k, u) /\ Removing(e, u) /\ At(e, "remove")
        BY <1>6, <1>12, <2>1, <4>1 DEF Removes, Removing, At
      <4>6. ~(u.engine = e /\ u.by = "process")
        BY <1>12, <4>5 DEF TaskInv, WorkInv, Seen
      <4>7. ~Protected(u)
        BY <4>4, <4>5, <4>6 DEF Protected
      <4> QED BY <1>4, <1>9, <1>10, <3>2, <4>2, <4>7
    <3> QED BY <3>1, <3>2
  <2> QED BY <1>1, <1>12, <2>1 DEF Limited
<1>13. /\ bundle' \in [Tasks -> AnyBundle] /\ checkout' \in [Repos -> {Nothing} \cup Held]
       /\ using' \subseteq Uses /\ \A v \in using' : v \in using
  BY <1>1, Typed
<1> QED BY <1>1, <1>10, <1>11, <1>12, <1>13, QuietStep

LEMMA ExpireBundleKeeps ==
    ASSUME TaskInv, NEW t \in Tasks, ExpireBundle(t)
    PROVE  TaskInv'
<1>1. /\ UNCHANGED <<checkout, ended, tree, eng, using, lost, raced>>
      /\ bundle' = [bundle EXCEPT ![t].live = FALSE] /\ bundle[t] # Nothing
  BY DEF ExpireBundle, gitVars, leaseVars
<1>2. PICK b : b = bundle[t]
  OBVIOUS
<1>3. PICK c : c = [b EXCEPT !.live = FALSE]
  OBVIOUS
<1>4. b \in Bundles
  BY <1>1, <1>2, BundleFields, Typed
<1>5. c \in AnyBundle /\ ~c.live
  <2>1. c \in Bundles /\ c.live = FALSE
    BY <1>3, <1>4, LeaseRunsOut
  <2> QED BY <2>1, BundleIsSomething
<1>6. /\ bundle' \in [Tasks -> AnyBundle] /\ bundle'[t] = c
      /\ \A s \in Tasks : s # t => bundle'[s] = bundle[s]
  BY <1>1, <1>2, <1>3, <1>5, Typed
<1>7. ASSUME NEW k, Limited(k), NEW e \in Engines, k = eng[e] PROVE Limited(k)'
  <2>1. ASSUME k.pc \in {"evict", "archive", "remove"}, NEW s \in Tasks
        PROVE  AsListed(k.listed[s], bundle'[s])
    <3>1. AsListed(k.listed[s], bundle[s])
      BY <1>7, <2>1 DEF Limited
    <3>2. CASE s # t
      BY <1>6, <3>1, <3>2
    <3>3. CASE s = t
      <4>1. PICK a : a = k.listed[t]
        OBVIOUS
      <4>2. a = b \/ (a # Nothing /\ b = [a EXCEPT !.live = FALSE])
        BY <1>1, <1>2, <3>1, <3>3, <4>1 DEF AsListed
      <4>3. CASE a = b
        BY <1>1, <1>2, <1>3, <1>6, <3>3, <4>1, <4>3 DEF AsListed
      <4>4. CASE a # Nothing /\ b = [a EXCEPT !.live = FALSE]
        <5>1. a \in AnyBundle
          <6>1. EngineOK(k)
            BY <1>7 DEF TaskInv, TaskTypes
          <6> QED BY <2>1, <4>1, <6>1, EngineFields DEF Evicts
        <5>2. a \in Bundles
          BY <4>4, <5>1, BundleFields
        <5>3. c = b
          BY <1>3, <4>4, <5>2, LeaseRunsOut
        <5> QED BY <1>6, <3>3, <4>1, <4>4, <5>3 DEF AsListed
      <4> QED BY <4>2, <4>3, <4>4
    <3> QED BY <3>2, <3>3
  <2>2. ASSUME k.pc \in {"archive", "remove"}, NEW s \in Tasks, s = Head(k.left)
        PROVE  Loose(bundle'[s])
    BY <1>5, <1>6, <1>7, <2>2 DEF Limited, Loose
  <2> QED BY <1>1, <1>7, <2>1, <2>2 DEF Limited, Loose, AsListed
<1>8. LeasesKept
  BY <1>1, UntouchedKept DEF leaseVars
<1>9. /\ checkout' \in [Repos -> {Nothing} \cup Held] /\ tree' \in [Tasks \X Repos -> WorkTrees]
      /\ using' \subseteq Uses /\ \A v \in using' : v \in using
  BY <1>1, Typed
<1> QED BY <1>1, <1>6, <1>7, <1>8, <1>9, QuietStep

\* A tool ends, a checkout's lease runs out, or nothing happens.
LEMMA EndsKeep ==
    ASSUME TaskInv,
           \/ \E u \in using : EndWork(u)
           \/ \E r \in Repos : ExpireCheckout(r)
           \/ UNCHANGED workVars
    PROVE  TaskInv'
<1>1. UNCHANGED <<bundle, tree, eng, lost, raced>> /\ using' \subseteq using
  BY DEF EndWork, ExpireCheckout, workVars, storeVars, gitVars
<1>2. LeasesKept /\ checkout' \in [Repos -> {Nothing} \cup Held]
  <2>1. CASE UNCHANGED leaseVars
    BY <2>1, UntouchedKept, Typed DEF leaseVars
  <2>2. ASSUME NEW r \in Repos, ExpireCheckout(r)
        PROVE  LeasesKept /\ checkout' \in [Repos -> {Nothing} \cup Held]
    <3>1. PICK c : c = [checkout EXCEPT ![r] = Nothing]
      OBVIOUS
    <3>2. Checkouts(c) /\ checkout' = c
      BY <2>2, <3>1 DEF ExpireCheckout, Checkouts
    <3>3. c \in [Repos -> {Nothing} \cup Held] /\ \A s \in Repos : c[s] \in {checkout[s], Nothing}
      BY <3>1, Typed
    <3> QED BY <3>2, <3>3, CheckoutsKeep
  <2> QED BY <2>1, <2>2 DEF EndWork, workVars
<1>3. \A k : Limited(k) => Limited(k)'
  BY <1>1, LimitedStays
<1> QED BY <1>1, <1>2, <1>3, Typed, QuietStep

LEMMA WorkCrashKeeps ==
    ASSUME TaskInv, WorkCrash
    PROVE  TaskInv'
<1>1. /\ UNCHANGED <<bundle, tree, raced, lost>> /\ eng' = [e \in Engines |-> Idle]
      /\ Checkouts([r \in Repos |-> Nothing])
  BY DEF WorkCrash, storeVars, gitVars
<1>2. PICK left \in SUBSET using : using' = {[u EXCEPT !.by = "orphan"] : u \in left}
  BY DEF WorkCrash
<1>3. TaskTypes /\ CheckoutInv /\ NoWorkLost
  BY DEF TaskInv, WorkInv
<1>4. LeasesKept /\ checkout' \in [Repos -> {Nothing} \cup Held]
  <2>1. PICK c : c = [r \in Repos |-> Nothing]
    OBVIOUS
  <2>2. Checkouts(c) /\ checkout' = c
    BY <1>1, <2>1 DEF Checkouts
  <2>3. c \in [Repos -> {Nothing} \cup Held] /\ \A r \in Repos : c[r] = Nothing
    BY <2>1
  <2> QED BY <2>2, <2>3, CheckoutsKeep
<1>5. ASSUME NEW u \in using'
      PROVE  /\ u \in Uses /\ u.by = "orphan"
             /\ \E v \in using : v.asked = u.asked /\ v.prov = u.prov /\ v.repo = u.repo /\ Mine(v) = Mine(u)
  <2>1. PICK v \in using : u = [v EXCEPT !.by = "orphan"]
    BY <1>2
  <2>2. v \in Uses
    BY Typed
  <2>3. /\ u \in Uses /\ u.by = "orphan" /\ v.task = u.task /\ v.owner = u.owner
        /\ v.asked = u.asked /\ v.prov = u.prov /\ v.repo = u.repo
    BY <2>1, <2>2 DEF Uses
  <2> QED BY <2>3 DEF Mine
<1>6. \A e \in Engines : eng'[e] = Idle /\ EngineOK(eng'[e])
  BY <1>1, IdleIsFine
<1>7. TaskTypes'
  BY <1>1, <1>3, <1>4, <1>5, <1>6 DEF TaskTypes
<1>8. CheckoutInv'
  <2>1. ASSUME NEW u \in using', u.asked, u.prov = "checkout" PROVE Has(u.repo, Mine(u))'
    <3>1. PICK v \in using : v.asked /\ v.prov = "checkout" /\ v.repo = u.repo /\ Mine(v) = Mine(u)
      BY <1>5, <2>1
    <3>2. Has(v.repo, Mine(v))
      BY <1>3, <3>1 DEF CheckoutInv
    <3>3. v.repo \in Repos /\ v.task \in Tasks /\ v.owner \in Owners
      BY Typed DEF Uses
    <3>4. PICK m \in Held : m = Mine(v)
      BY <3>3, MineHeld
    <3>5. Has(v.repo, m)'
      BY <1>4, <3>2, <3>3, <3>4 DEF LeasesKept
    <3>6. m = Mine(u) /\ v.repo = u.repo
      BY <3>1, <3>4
    <3> QED BY <3>5, <3>6 DEF Has, Mine
  <2>2. ASSUME NEW e \in Engines PROVE Leased(eng[e])'
    BY <1>6, IdleIsFine DEF Leased, Has, Mine
  <2> QED BY <2>1, <2>2 DEF CheckoutInv
<1>9. Alone' /\ Seen' /\ NoWorkLost'
  BY <1>1, <1>3, <1>5, <1>6 DEF Alone, Seen, NoWorkLost
<1>10. \A e \in Engines : Limited(eng[e])'
  BY <1>6, IdleIsFine DEF Limited
<1> QED BY <1>7, <1>8, <1>9, <1>10 DEF TaskInv, WorkInv

-----------------------------------------------------------------------------
(* The theorems.                                                            *)

\* Whoever asked for a checkout has its lease until that ends; no process that
\* an engine knows of is in a worktree it removes; and unless calls have
\* overlapped, a bundle that is being removed has no live lease, and from the
\* archive's commit on nothing in its worktrees is due (enforceWorktreeLimit).
THEOREM TaskInvariant == TaskLeaseSpec => []TaskInv
<1>1. TaskLeaseInit => TaskInv
  <2> SUFFICES ASSUME TaskLeaseInit PROVE TaskInv
    OBVIOUS
  <2>1. PICK left \in SUBSET Asked :
          /\ bundle = [t \in Tasks |-> IF \E q \in left : q.task = t
                                         THEN BundleOf(CHOOSE q \in left : TRUE) ELSE Nothing]
          /\ tree = [x \in Tasks \X Repos |->
                        IF \E q \in left : <<q.task, q.repo>> = x /\ q.prov = "worktree"
                          THEN [on |-> TRUE, work |-> TRUE, due |-> TRUE] ELSE NoTree]
    BY DEF TaskLeaseInit
  <2>2. /\ checkout = [r \in Repos |-> Nothing] /\ eng = [e \in Engines |-> Idle] /\ using = {}
        /\ lost = {} /\ raced = FALSE
    BY DEF TaskLeaseInit
  <2>3. bundle \in [Tasks -> AnyBundle]
    <3>1. \A q \in Asked : BundleOf(q) \in AnyBundle
      <4>1. SUFFICES ASSUME NEW q \in Asked PROVE BundleOf(q) \in Bundles
        BY DEF AnyBundle
      <4> QED BY AskedFields DEF BundleOf, Bundles
    <3>2. left # {} => (CHOOSE q \in left : TRUE) \in Asked
      OBVIOUS
    <3>3. Nothing \in AnyBundle
      BY DEF AnyBundle
    <3> QED BY <2>1, <3>1, <3>2, <3>3
  <2>4. tree \in [Tasks \X Repos -> WorkTrees]
    BY <2>1 DEF NoTree, WorkTrees
  <2>5. Idle.pc = "idle" /\ EngineOK(Idle) /\ \A e \in Engines : eng[e] = Idle
    BY <2>2, IdleIsFine
  <2>6. TaskTypes
    BY <2>2, <2>3, <2>4, <2>5 DEF TaskTypes
  <2>7. CheckoutInv
    BY <2>2, <2>5 DEF CheckoutInv, Leased
  <2>8. Alone /\ Seen /\ NoWorkLost /\ \A e \in Engines : Limited(eng[e])
    BY <2>2, <2>5 DEF Alone, Seen, NoWorkLost, Limited
  <2> QED BY <2>6, <2>7, <2>8 DEF TaskInv, WorkInv
<1>2. TaskInv /\ [TaskLeaseNext]_workVars => TaskInv'
  BY EnsureStartKeeps, EnsureClaimKeeps, EnsureExpandKeeps, EnsurePrepareKeeps, EnsurePutKeeps,
     EnsureClaimNewKeeps, ReconcileLimitKeeps, LimitListKeeps, LimitNextKeeps, LimitArchiveKeeps,
     LimitRemoveKeeps, UseUnaskedKeeps, BackgroundKeeps, WorkKeeps, ExpireBundleKeeps, EndsKeep,
     WorkCrashKeeps DEF TaskLeaseNext
<1> QED BY <1>1, <1>2, PTL DEF TaskLeaseSpec

\* The limit on worktrees removes nothing that is due and not archived
\* (enforceWorktreeLimit), whatever tools and processes do meanwhile, unless
\* calls of two engines have overlapped.
THEOREM NoWorkLostHolds == TaskLeaseSpec => []NoWorkLost
<1>1. TaskInv => NoWorkLost
  BY DEF TaskInv, WorkInv
<1> QED BY <1>1, TaskInvariant, PTL

\* Of those who asked for a checkout (acquireActiveCheckoutLease), one task and
\* owner is at work in it, unless a lease ended under somebody's hands.
THEOREM CheckoutExclusiveHolds == TaskLeaseSpec => []CheckoutExclusive
<1>1. TaskInv => CheckoutExclusive
  <2>1. SUFFICES ASSUME TaskInv, NEW u \in using, NEW v \in using, u.asked, v.asked,
                        u.prov = "checkout", v.prov = "checkout", u.repo = v.repo,
                        <<u.repo, Mine(u)>> \notin ended, <<v.repo, Mine(v)>> \notin ended
                 PROVE  Mine(u) = Mine(v)
    BY DEF CheckoutExclusive
  <2>2. checkout[u.repo] = Mine(u) /\ checkout[u.repo] = Mine(v)
    BY <2>1 DEF TaskInv, CheckoutInv, Has
  <2> QED BY <2>2
<1> QED BY <1>1, TaskInvariant, PTL
=============================================================================
