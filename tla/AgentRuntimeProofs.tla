------------------------- MODULE AgentRuntimeProofs -------------------------
(***************************************************************************)
(* The agent runtime, for any requests, processes, messages, files, teams  *)
(* and budgets, failed appends and deaths of the process: background       *)
(* processes, the mailbox, the coding kernel with its recovery ledger,     *)
(* patch sets with their savepoints, and the agents of a team.             *)
(***************************************************************************)
EXTENDS AgentRuntime, CapabilityLeaseProofs, FiniteSetTheorems, WellFoundedInduction, TLAPS

-----------------------------------------------------------------------------
(* Operators.                                                               *)

\* A set that can be numbered with 1..n has no more than n elements.
LEMMA NumberedUpTo ==
    ASSUME NEW T, NEW n \in Nat, NEW f \in [T -> 1..n], \A x, y \in T : f[x] = f[y] => x = y
    PROVE  Cardinality(T) <= n
<1>1. f \in Injection(T, 1..n)
  BY DEF Injection, IsInjective
<1>2. IsFiniteSet(1..n) /\ Cardinality(1..n) = n
  BY FS_Interval
<1> QED BY <1>1, <1>2, FS_Injection

LOCAL INSTANCE FiniteSetsExt

\* Every set of natural numbers that is not empty has a least element.
LEMMA SmallestOf ==
    ASSUME NEW T \in SUBSET Nat, T # {}
    PROVE  \E x \in T : \A y \in T : x <= y
<1>1. \E x \in T : \A y \in T : ~(<<y, x>> \in OpToRel(<, Nat))
  BY NatLessThanWellFounded, WFMin, Zenon
<1>2. \A x, y \in T : y < x => <<y, x>> \in OpToRel(<, Nat)
  BY Zenon DEF OpToRel
<1>3. \E x \in T : \A y \in T : ~(y < x)
  BY <1>1, <1>2, Zenon
<1> QED BY <1>3

\* And one that has a bound has a greatest, which is its Max.
LEMMA MaxOf ==
    ASSUME NEW T \in SUBSET Nat, T # {}, NEW n \in Nat, \A y \in T : y <= n
    PROVE  Max(T) \in T /\ \A y \in T : y <= Max(T)
<1>1. \E x \in T : \A y \in T : x >= y
  <2> DEFINE U == {k \in 0..n : \E y \in T : k = n - y}
  <2>1. \A y \in T : n - y \in U
    OBVIOUS
  <2>2. U \in SUBSET Nat
    OBVIOUS
  <2> HIDE DEF U
  <2>3. U # {}
    BY <2>1
  <2>4. PICK u \in U : \A w \in U : u <= w
    BY <2>2, <2>3, SmallestOf, Zenon
  <2>5. PICK x \in T : u = n - x
    BY DEF U
  <2> QED BY <2>1, <2>4, <2>5
<1> QED BY <1>1 DEF Max

\* What an append leaves: the same log, or one with the event at its end, when
\* its key was not there.  An append that reports success has the event's key
\* in the log.
LEMMA AppendLeaves ==
    ASSUME NEW T, NEW s \in Seq(T), NEW tear \in BOOLEAN, NEW e \in T,
           NEW o \in AppendOutcomes(s, tear, e)
    PROVE  /\ o.log \in Seq(T) /\ o.torn \in BOOLEAN /\ o.ok \in BOOLEAN
           /\ o.log = s \/ (o.log = Append(s, e) /\ e.key \notin KeysOf(s))
           /\ o.ok => o.log = Append(s, e) \/ e.key \in KeysOf(s)
<1>1. \/ o = [log |-> s, torn |-> TRUE, ok |-> FALSE]
      \/ o = [log |-> s, torn |-> FALSE, ok |-> FALSE]
      \/ e.key \in KeysOf(s) /\ o = [log |-> s, torn |-> FALSE, ok |-> TRUE]
      \/ e.key \notin KeysOf(s) /\ o = [log |-> Append(s, e), torn |-> FALSE, ok |-> TRUE]
      \/ e.key \notin KeysOf(s) /\ o = [log |-> Append(s, e), torn |-> FALSE, ok |-> FALSE]
  BY Zenon DEF AppendOutcomes
<1>2. Append(s, e) \in Seq(T)
  OBVIOUS
<1>3. o.log = s \/ (o.log = Append(s, e) /\ e.key \notin KeysOf(s))
  BY <1>1
<1>4. o.torn = TRUE \/ o.torn = FALSE
  BY <1>1
<1>5. o.ok = FALSE \/ (o.ok = TRUE /\ (o.log = Append(s, e) \/ e.key \in KeysOf(s)))
  BY <1>1
<1> QED BY <1>2, <1>3, <1>4, <1>5

-----------------------------------------------------------------------------
(* Processes.                                                               *)

\* The record is in the table and says running, or the child was told to end.
Minded(p) == (p \in records /\ procStatus[p] = "running") \/ p \in told \cup toSignal \cup missed

\* How far Start, the child and the goroutine that waits for it may be apart.
Started ==
    \A p \in Procs :
        /\ procStatus[p] = "running" => p \in records /\ launch[p] # "none"
        /\ launch[p] # "none" => requestOf[p] \in ProcRequests
        /\ launch[p] \in {"none", "filed", "unsettled"} => child[p] # "alive"
        /\ waiter[p] # "none" => launch[p] = "done"
        /\ waiter[p] \in {"terminate", "reap", "settle"} \/ launch[p] = "unsettled" =>
              procStatus[p] # "running"
        /\ launch[p] = "filed" => Minded(p)

ProcessInv == ProcessesTypeOK /\ Started /\ ForgottenAreTold /\ RequestCancels

\* FileRecord: a record that is pruned is of a process that does not run.
LEMMA FileRecordKeeps ==
    ASSUME ProcessInv, NEW p \in Procs, NEW r \in ProcRequests, NEW t \in BOOLEAN,
           FileRecord(p, r, t)
    PROVE  ProcessInv'
<1> USE DEF ProcessInv, endVars
<1>1. /\ launch[p] = "none" /\ \A q \in Procs : q > p => launch[q] = "none"
      /\ Procs \subseteq Nat
  BY DEF FileRecord, Procs
<1>2. /\ records' \subseteq Procs /\ p \in records'
      /\ \A q \in records : procStatus[q] = "running" => q \in records'
  BY DEF FileRecord, Roomy, Prunable, ProcessesTypeOK
<1>3. /\ requestToProcess' = [requestToProcess EXCEPT ![r] = p]
      /\ procStatus' = [procStatus EXCEPT ![p] = "running"]
      /\ requestOf' = [requestOf EXCEPT ![p] = r]
      /\ timed' = [timed EXCEPT ![p] = t]
      /\ launch' = [launch EXCEPT ![p] = "filed"]
      /\ UNCHANGED <<child, handle, waiter, told, toSignal, toStop, missed, stopAlls>>
  BY DEF FileRecord
<1>4. ProcessesTypeOK'
  BY <1>2, <1>3 DEF ProcessesTypeOK
<1>5. Started'
  BY <1>1, <1>2, <1>3 DEF ProcessesTypeOK, Started, Minded
<1>6. ForgottenAreTold'
  BY <1>1, <1>2, <1>3 DEF ProcessesTypeOK, Started, ForgottenAreTold
<1>7. RequestCancels'
  BY <1>1, <1>2, <1>3 DEF ProcessesTypeOK, Started, RequestCancels
<1> QED BY <1>4, <1>5, <1>6, <1>7

\* The steps that leave the requests alone.
LEMMA ProcessStepKeeps ==
    ASSUME ProcessInv, NEW p \in Procs,
           \/ Launch(p) \/ Publish(p) \/ FailStart(p) \/ ChildExits(p) \/ WaitTimeout(p)
           \/ Terminate(p) \/ (\E st \in {"exited", "failed"} : WaitDone(p, st))
           \/ SignalCall(p) \/ Cancel(p) \/ SendSignal(p) \/ StopNext(p)
    PROVE  ProcessInv'
<1> USE DEF ProcessInv, recordVars, childVars, endVars
<1>1. ProcessesTypeOK'
  <2> USE DEF ProcessesTypeOK
  <2>0. CASE Launch(p)
    BY <2>0 DEF Launch
  <2>1. CASE Publish(p)
    BY <2>1 DEF Publish
  <2>6. CASE FailStart(p)
    BY <2>6 DEF FailStart
  <2>2. CASE ChildExits(p) \/ Terminate(p) \/ SignalCall(p) \/ SendSignal(p)
    BY <2>2 DEF ChildExits, Terminate, SignalCall, SendSignal
  <2>3. CASE WaitTimeout(p)
    BY <2>3 DEF WaitTimeout
  <2>4. ASSUME NEW st \in {"exited", "failed"}, WaitDone(p, st) PROVE ProcessesTypeOK'
    BY <2>4 DEF WaitDone
  <2>5. CASE Cancel(p) \/ StopNext(p)
    BY <2>5 DEF Cancel, StopNext, MarkCancelled
  <2> QED BY <2>0, <2>1, <2>2, <2>3, <2>4, <2>5, <2>6
<1>2. Started'
  <2> USE DEF ProcessesTypeOK, Started, Minded
  <2>1. CASE Launch(p) \/ Publish(p) \/ FailStart(p)
    BY <2>1 DEF Launch, Publish, FailStart
  <2>2. CASE ChildExits(p) \/ Terminate(p) \/ SignalCall(p) \/ SendSignal(p)
    BY <2>2 DEF ChildExits, Terminate, SignalCall, SendSignal
  <2>3. CASE WaitTimeout(p)
    BY <2>3 DEF WaitTimeout
  <2>4. ASSUME NEW st \in {"exited", "failed"}, WaitDone(p, st) PROVE Started'
    BY <2>4 DEF WaitDone
  <2>5. CASE Cancel(p) \/ StopNext(p)
    BY <2>5 DEF Cancel, StopNext, MarkCancelled
  <2> QED BY <2>1, <2>2, <2>3, <2>4, <2>5
<1>3. ForgottenAreTold'
  BY DEF ProcessesTypeOK, Started, Minded, ForgottenAreTold, Launch, Publish, FailStart,
         ChildExits, WaitTimeout, Terminate, WaitDone, SignalCall, Cancel, SendSignal, StopNext,
         MarkCancelled
<1>4. RequestCancels'
  BY DEF ProcessesTypeOK, Started, RequestCancels, Launch, Publish, FailStart,
         ChildExits, WaitTimeout, Terminate, WaitDone, SignalCall, Cancel, SendSignal, StopNext,
         MarkCancelled
<1> QED BY <1>1, <1>2, <1>3, <1>4

\* A process that has ended gives its own request free, and no other.
LEMMA SettledKeeps == ASSUME ProcessInv, NEW p \in Procs, Settled(p) PROVE ProcessInv'
<1> USE DEF ProcessInv, ProcessesTypeOK, Started, Settled, FreeRequest, endVars
<1>1. ProcessesTypeOK'
  OBVIOUS
<1>2. Started'
  BY DEF Minded
<1>3. ForgottenAreTold'
  BY DEF ForgottenAreTold
<1>4. RequestCancels'
  <2>1. procStatus[p] # "running"
    OBVIOUS
  <2> QED BY <2>1 DEF RequestCancels
<1> QED BY <1>1, <1>2, <1>3, <1>4

\* StopAll: the requests it forgets are of processes it will cancel.
LEMMA StopAllKeeps == ProcessInv /\ StopAll => ProcessInv'
<1> SUFFICES ASSUME ProcessInv, StopAll PROVE ProcessInv'
  OBVIOUS
<1> USE DEF ProcessInv, ProcessesTypeOK, StopAll, childVars
<1>1. ProcessesTypeOK'
  BY ProcessesAssumption
<1>2. Started' /\ ForgottenAreTold'
  BY DEF Started, Minded, ForgottenAreTold
<1>3. RequestCancels'
  BY DEF Started, RequestCancels
<1> QED BY <1>1, <1>2, <1>3

\* CancelRequest is Cancel of the process that has the request.
LEMMA CancelRequestKeeps ==
    ASSUME ProcessInv, NEW r \in ProcRequests, CancelRequest(r)
    PROVE  ProcessInv'
<1>1. requestToProcess[r] \in Procs /\ Cancel(requestToProcess[r])
  BY DEF ProcessInv, ProcessesTypeOK, CancelRequest, Cancel
<1> QED BY <1>1, ProcessStepKeeps

\* What holds of background processes at every step: how far Start, the child
\* and the goroutine that waits for it may be apart, that a process which is not
\* in the table was told to end, and that a request's cancel reaches its process.
THEOREM ProcessInvariant == ProcessesSpec => []ProcessInv
<1>1. ProcessesInit => ProcessInv
  BY ProcessesAssumption
     DEF ProcessesInit, ProcessInv, ProcessesTypeOK, Started, Minded, ForgottenAreTold,
         RequestCancels
<1>2. ProcessInv /\ [ProcessesNext]_procVars => ProcessInv'
  <2> SUFFICES ASSUME ProcessInv, [ProcessesNext]_procVars PROVE ProcessInv'
    OBVIOUS
  <2>1. CASE UNCHANGED procVars
    BY <2>1 DEF procVars, recordVars, childVars, endVars, ProcessInv, ProcessesTypeOK, Started,
                Minded, ForgottenAreTold, RequestCancels
  <2>2. CASE ProcessesNext
    BY <2>2, FileRecordKeeps, ProcessStepKeeps, SettledKeeps, StopAllKeeps, CancelRequestKeeps
       DEF ProcessesNext
  <2> QED BY <2>1, <2>2
<1> QED BY <1>1, <1>2, PTL DEF ProcessesSpec

\* A child that runs is known as running or was told to end, whatever is
\* pruned, cancelled or timed out while Start stores its handle.
THEOREM ForgottenAreToldHolds == ProcessesSpec => []ForgottenAreTold
BY ProcessInvariant, PTL DEF ProcessInv

\* The request of a running process reaches it, though an earlier process of
\* the same request ends late.
THEOREM RequestCancelsHolds == ProcessesSpec => []RequestCancels
BY ProcessInvariant, PTL DEF ProcessInv

-----------------------------------------------------------------------------
(* The mailbox.                                                             *)

\* The event that a message's log has at place i.
MailKey(i) == IF i = 1 THEN <<"queue">> ELSE <<"update", i>>
MailStatus(i) ==
    IF i = 1 THEN {"queued"} ELSE IF i = 2 THEN {"delivered", "expired"} ELSE {"acknowledged"}
MailEvent ==
    [st : {"queued", "delivered", "acknowledged", "expired"}, rev : 1..3, at : Nat,
     key : {MailKey(i) : i \in 1..3}]

\* The log of message m holds its revisions in order.
MailLogged(m) ==
    /\ mlog[m] \in Seq(MailEvent) /\ Len(mlog[m]) <= 3
    /\ \A i \in 1..Len(mlog[m]) :
          mlog[m][i].rev = i /\ mlog[m][i].key = MailKey(i) /\ mlog[m][i].st \in MailStatus(i)

\* What is in memory is the last revision of the log or the one before it: an
\* append may fail when its line is written.
MailInMemory(m) ==
    /\ box[m] = NoMessage \/ (box[m] \in MailEvent /\ box[m].st \in MailStatus(box[m].rev))
    /\ box[m].rev <= Len(mlog[m]) /\ (open => Len(mlog[m]) <= box[m].rev + 1)

\* Deliver works on queued messages, and what it has handed out or will hand
\* out is past them in the log and in memory.
MailHanded(m) ==
    /\ m \in todo => delivering /\ box[m].rev = 1
    /\ m \in out => delivering
    /\ m \in out \/ presented[m] > 0 =>
          Len(mlog[m]) >= 2 /\ (open => box[m].rev >= 2)
    /\ presented[m] + (IF m \in out THEN 1 ELSE 0) <= 1
    /\ m \in acked => Len(mlog[m]) = 3 /\ (open => box[m].rev = 3)

MailInv ==
    /\ mlog \in [Messages -> Seq(MailEvent)]
    /\ box \in [Messages -> MailEvent \cup {NoMessage}]
    /\ mtorn \in BOOLEAN /\ open \in BOOLEAN /\ delivering \in BOOLEAN
    /\ todo \subseteq Messages /\ out \subseteq Messages /\ acked \subseteq Messages
    /\ presented \in [Messages -> Nat]
    /\ now \in Nat
    /\ delivering => open
    /\ ~open => box = [m \in Messages |-> NoMessage]
    /\ \A m \in Messages : MailLogged(m) /\ MailInMemory(m) /\ MailHanded(m)

\* An event that follows the one in memory: its key is in the log when the log
\* is ahead, and only then.
LEMMA MailKeys ==
    ASSUME NEW m \in Messages, MailInv, NEW e, e.key = MailKey(box[m].rev + 1), box[m].rev <= 2
    PROVE  e.key \in KeysOf(mlog[m]) => Len(mlog[m]) > box[m].rev
<1>1. SUFFICES ASSUME e.key \in KeysOf(mlog[m]) PROVE Len(mlog[m]) > box[m].rev
  OBVIOUS
<1>2. PICK i \in 1..Len(mlog[m]) : mlog[m][i].key = e.key
  BY <1>1, SMTT(60) DEF KeysOf, MailInv
<1>3. MailKey(i) = MailKey(box[m].rev + 1) /\ i \in Nat \ {0} /\ box[m].rev \in 0..3
  <2>1. MailKey(i) = MailKey(box[m].rev + 1)
    BY <1>2 DEF MailInv, MailLogged
  <2>2. Len(mlog[m]) \in Nat
    BY DEF MailInv, MailLogged
  <2>3. box[m].rev \in 0..3
    BY DEF MailInv, NoMessage, MailEvent
  <2> QED BY <2>1, <2>2, <2>3
<1>4. i = box[m].rev + 1
  <2>1. CASE i = 1 /\ box[m].rev + 1 # 1
    <3>1. <<"queue">>[1] = <<"update", box[m].rev + 1>>[1]
      BY <1>3, <2>1 DEF MailKey
    <3> QED BY <3>1
  <2>2. CASE i # 1 /\ box[m].rev + 1 = 1
    <3>1. <<"queue">>[1] = <<"update", i>>[1]
      BY <1>3, <2>2 DEF MailKey
    <3> QED BY <3>1
  <2>3. CASE i # 1 /\ box[m].rev + 1 # 1
    <3>1. <<"update", i>>[2] = <<"update", box[m].rev + 1>>[2]
      BY <1>3, <2>3 DEF MailKey
    <3> QED BY <3>1
  <2> QED BY <2>1, <2>2, <2>3
<1> QED BY <1>2, <1>3, <1>4

\* AppendMessage of the next revision of a message.
LEMMA AppendMessageKeeps ==
    ASSUME MailInv, open, NEW m \in Messages, NEW e \in MailEvent, NEW ok \in BOOLEAN,
           box[m].rev <= 2, e.rev = box[m].rev + 1, e.key = MailKey(e.rev),
           e.st \in MailStatus(e.rev), AppendMessage(m, e, ok)
    PROVE  /\ mlog' \in [Messages -> Seq(MailEvent)]
           /\ mtorn' \in BOOLEAN
           /\ \A n \in Messages : n # m => mlog'[n] = mlog[n]
           /\ box' = IF ok THEN [box EXCEPT ![m] = e] ELSE box
           /\ MailLogged(m)'
           /\ Len(mlog'[m]) >= Len(mlog[m]) /\ Len(mlog'[m]) <= e.rev
           /\ ok => Len(mlog'[m]) = e.rev
<1>1. PICK o \in AppendOutcomes(mlog[m], mtorn, e) :
        /\ o.ok = ok
        /\ mlog' = [mlog EXCEPT ![m] = o.log]
        /\ mtorn' = o.torn
        /\ box' = IF ok THEN [box EXCEPT ![m] = e] ELSE box
  BY DEF AppendMessage
<1>2. mlog[m] \in Seq(MailEvent) /\ mtorn \in BOOLEAN /\ mlog \in [Messages -> Seq(MailEvent)]
  BY DEF MailInv
<1>3. /\ o.log \in Seq(MailEvent) /\ o.torn \in BOOLEAN /\ o.ok \in BOOLEAN
      /\ o.log = mlog[m] \/ (o.log = Append(mlog[m], e) /\ e.key \notin KeysOf(mlog[m]))
      /\ o.ok => o.log = Append(mlog[m], e) \/ e.key \in KeysOf(mlog[m])
  BY <1>2, AppendLeaves
<1>4. /\ MailLogged(m)
      /\ box[m].rev \in 0..2 /\ box[m].rev <= Len(mlog[m]) /\ Len(mlog[m]) <= box[m].rev + 1
      /\ Len(mlog[m]) \in Nat
  BY <1>2 DEF MailInv, MailInMemory, MailEvent, NoMessage
<1>5. e.key \in KeysOf(mlog[m]) => Len(mlog[m]) > box[m].rev
  BY MailKeys
<1>6. Len(mlog[m]) > box[m].rev => e.key \in KeysOf(mlog[m])
  <2>1. ASSUME Len(mlog[m]) > box[m].rev PROVE mlog[m][e.rev].key = e.key /\ e.rev \in DOMAIN mlog[m]
    BY <1>2, <1>4, <2>1 DEF MailLogged
  <2> QED BY <2>1 DEF KeysOf
<1>7. o.log = mlog[m] \/ (o.log = Append(mlog[m], e) /\ Len(mlog[m]) = box[m].rev)
  BY <1>3, <1>4, <1>6
<1>8. mlog'[m] = o.log
  BY <1>1, <1>2
<1>9. MailLogged(m)'
  <2>1. CASE o.log = mlog[m]
    BY <1>4, <1>8, <2>1 DEF MailLogged
  <2>2. CASE o.log = Append(mlog[m], e) /\ Len(mlog[m]) = box[m].rev
    BY <1>2, <1>3, <1>4, <1>8, <2>2 DEF MailLogged
  <2> QED BY <1>7, <2>1, <2>2
<1> QED BY <1>1, <1>2, <1>3, <1>4, <1>5, <1>7, <1>8, <1>9

\* What AppendMessage does to the state that is not about handing out.
LEMMA MailAppended ==
    ASSUME MailInv, open, open' = open, NEW m \in Messages, NEW e \in MailEvent,
           NEW ok \in BOOLEAN,
           box[m].rev <= 2, e.rev = box[m].rev + 1, e.key = MailKey(e.rev),
           e.st \in MailStatus(e.rev), AppendMessage(m, e, ok)
    PROVE  /\ mlog' \in [Messages -> Seq(MailEvent)]
           /\ box' \in [Messages -> MailEvent \cup {NoMessage}]
           /\ mtorn' \in BOOLEAN
           /\ \A n \in Messages : n # m => mlog'[n] = mlog[n] /\ box'[n] = box[n]
           /\ \A n \in Messages : MailLogged(n)' /\ MailInMemory(n)'
           /\ Len(mlog'[m]) >= Len(mlog[m]) /\ Len(mlog'[m]) \in Nat /\ Len(mlog[m]) \in Nat
           /\ ok => Len(mlog'[m]) = e.rev /\ box'[m] = e
           /\ ~ok => box' = box
<1>1. /\ mlog' \in [Messages -> Seq(MailEvent)]
      /\ mtorn' \in BOOLEAN
      /\ \A n \in Messages : n # m => mlog'[n] = mlog[n]
      /\ box' = IF ok THEN [box EXCEPT ![m] = e] ELSE box
      /\ MailLogged(m)'
      /\ Len(mlog'[m]) >= Len(mlog[m]) /\ Len(mlog'[m]) <= e.rev
      /\ ok => Len(mlog'[m]) = e.rev
  BY AppendMessageKeeps
<1>2. /\ box \in [Messages -> MailEvent \cup {NoMessage}]
      /\ mlog \in [Messages -> Seq(MailEvent)]
      /\ \A n \in Messages : MailLogged(n) /\ MailInMemory(n)
  BY DEF MailInv
<1>3. /\ box' \in [Messages -> MailEvent \cup {NoMessage}]
      /\ \A n \in Messages : n # m => box'[n] = box[n]
      /\ ok => box'[m] = e
      /\ ~ok => box' = box
  BY <1>1, <1>2
<1>4. Len(mlog[m]) \in Nat /\ Len(mlog'[m]) \in Nat
  BY <1>1, <1>2
<1>5. ASSUME NEW n \in Messages, n # m PROVE MailLogged(n)' /\ MailInMemory(n)'
  BY <1>1, <1>2, <1>3, <1>5 DEF MailLogged, MailInMemory
<1>6. MailInMemory(m)'
  <2>1. CASE ok
    BY <1>1, <1>3, <2>1 DEF MailInMemory
  <2>2. CASE ~ok
    <3>1. box[m].rev \in 0..3
      BY <1>2 DEF MailEvent, NoMessage
    <3> QED BY <1>1, <1>2, <1>3, <1>4, <2>2, <3>1 DEF MailInMemory
  <2> QED BY <2>1, <2>2
<1> QED BY <1>1, <1>3, <1>4, <1>5, <1>6

LEMMA QueueKeeps == ASSUME MailInv, NEW m \in Messages, Queue(m) PROVE MailInv'
<1> DEFINE e == [st |-> "queued", rev |-> 1, at |-> now, key |-> <<"queue">>]
<1>1. PICK ok \in BOOLEAN : AppendMessage(m, e, ok)
  BY DEF Queue
<1>2. /\ open /\ open' = open /\ box[m].rev = 0 /\ box[m].rev <= 2 /\ e.rev = box[m].rev + 1
      /\ ~delivering
      /\ UNCHANGED <<todo, out, delivering, presented, acked, now>>
  BY DEF Queue, Unlocked, NoMessage, deliverVars
<1>3. e \in MailEvent /\ e.key = MailKey(e.rev) /\ e.st \in MailStatus(e.rev)
  <2>1. MailKey(1) = <<"queue">> /\ now \in Nat
    BY DEF MailKey, MailInv
  <2> QED BY <2>1 DEF MailEvent, MailStatus
<1> HIDE DEF e
<1>4. /\ mlog' \in [Messages -> Seq(MailEvent)]
      /\ box' \in [Messages -> MailEvent \cup {NoMessage}]
      /\ mtorn' \in BOOLEAN
      /\ \A n \in Messages : n # m => mlog'[n] = mlog[n] /\ box'[n] = box[n]
      /\ \A n \in Messages : MailLogged(n)' /\ MailInMemory(n)'
      /\ Len(mlog'[m]) >= Len(mlog[m]) /\ Len(mlog'[m]) \in Nat /\ Len(mlog[m]) \in Nat
      /\ ok => Len(mlog'[m]) = e.rev /\ box'[m] = e
      /\ ~ok => box' = box
  BY <1>1, <1>2, <1>3, MailAppended
<1>5. ASSUME NEW n \in Messages, n # m PROVE MailHanded(n)'
  BY <1>2, <1>4, <1>5 DEF MailInv, MailHanded
<1>6. MailHanded(m)'
  BY <1>2, <1>4 DEF MailInv, MailHanded
<1> QED BY <1>2, <1>4, <1>5, <1>6 DEF MailInv

LEMMA DeliverOneKeeps == ASSUME MailInv, NEW m \in Messages, DeliverOne(m) PROVE MailInv'
<1>1. PICK ok \in BOOLEAN :
        /\ AppendMessage(m, Updated(m, IF Expired(m) THEN "expired" ELSE "delivered"), ok)
        /\ todo' = IF ok THEN todo \ {m} ELSE {}
        /\ out' = IF ok /\ ~Expired(m) THEN out \cup {m} ELSE out
  BY DEF DeliverOne
<1> DEFINE e == Updated(m, IF Expired(m) THEN "expired" ELSE "delivered")
<1>2. /\ open /\ open' = open /\ box[m].rev = 1 /\ box[m].rev <= 2 /\ m \in todo
      /\ delivering
      /\ UNCHANGED <<delivering, presented, acked, now>>
  BY DEF DeliverOne, Oldest, MailInv, MailHanded
<1>3. e \in MailEvent /\ e.key = MailKey(e.rev) /\ e.st \in MailStatus(e.rev) /\ e.rev = box[m].rev + 1
  <2>1. box[m] \in MailEvent
    BY <1>2 DEF MailInv, NoMessage
  <2>2. MailKey(2) = <<"update", 2>> /\ 2 \in 1..3
    BY DEF MailKey
  <2>3. e = [st |-> IF Expired(m) THEN "expired" ELSE "delivered", rev |-> 2, at |-> box[m].at,
             key |-> <<"update", 2>>]
    BY <1>2, <2>1 DEF Updated, MailEvent
  <2> HIDE DEF e
  <2> QED BY <1>2, <2>1, <2>2, <2>3 DEF MailEvent, MailStatus
<1> HIDE DEF e
<1>4. /\ mlog' \in [Messages -> Seq(MailEvent)]
      /\ box' \in [Messages -> MailEvent \cup {NoMessage}]
      /\ mtorn' \in BOOLEAN
      /\ \A n \in Messages : n # m => mlog'[n] = mlog[n] /\ box'[n] = box[n]
      /\ \A n \in Messages : MailLogged(n)' /\ MailInMemory(n)'
      /\ Len(mlog'[m]) >= Len(mlog[m]) /\ Len(mlog'[m]) \in Nat /\ Len(mlog[m]) \in Nat
      /\ ok => Len(mlog'[m]) = e.rev /\ box'[m] = e
      /\ ~ok => box' = box
  BY <1>1, <1>2, <1>3, MailAppended DEF e
<1>5. ASSUME NEW n \in Messages, n # m PROVE MailHanded(n)'
  BY <1>1, <1>2, <1>4, <1>5 DEF MailInv, MailHanded
<1>6. MailHanded(m)'
  <2>1. m \notin out /\ presented[m] = 0 /\ m \notin acked
    BY <1>2 DEF MailInv, MailHanded
  <2>2. ~ok => out' = out /\ box' = box /\ m \notin todo'
    BY <1>1, <1>4
  <2>3. ok => Len(mlog'[m]) = 2 /\ box'[m].rev = 2 /\ m \notin todo'
    BY <1>1, <1>2, <1>3, <1>4
  <2>4. /\ presented' = presented /\ acked' = acked /\ delivering'
        /\ m \notin todo' /\ (m \in out' => Len(mlog'[m]) = 2 /\ box'[m].rev = 2)
    BY <1>2, <2>1, <2>2, <2>3
  <2> QED BY <2>1, <2>4 DEF MailHanded
<1>7. todo' \subseteq Messages /\ out' \subseteq Messages
  BY <1>1 DEF MailInv
<1> QED BY <1>2, <1>4, <1>5, <1>6, <1>7 DEF MailInv

LEMMA AcknowledgeKeeps == ASSUME MailInv, NEW m \in Messages, Acknowledge(m) PROVE MailInv'
<1> DEFINE e == Updated(m, "acknowledged")
<1>1. PICK ok \in BOOLEAN :
        AppendMessage(m, e, ok) /\ acked' = IF ok THEN acked \cup {m} ELSE acked
  BY DEF Acknowledge
<1>2. /\ open /\ open' = open /\ box[m].st = "delivered" /\ ~delivering
      /\ UNCHANGED <<todo, out, delivering, presented, now>>
  BY DEF Acknowledge, Unlocked, deliverVars
<1>3. box[m] \in MailEvent /\ box[m].rev = 2 /\ box[m].rev <= 2
  BY <1>2 DEF MailInv, MailInMemory, NoMessage, MailEvent, MailStatus
<1>4. e \in MailEvent /\ e.key = MailKey(e.rev) /\ e.st \in MailStatus(e.rev) /\ e.rev = box[m].rev + 1
  <2>1. MailKey(3) = <<"update", 3>> /\ 3 \in 1..3
    BY DEF MailKey
  <2>2. e = [st |-> "acknowledged", rev |-> 3, at |-> box[m].at, key |-> <<"update", 3>>]
    BY <1>3 DEF Updated, MailEvent
  <2> HIDE DEF e
  <2> QED BY <1>3, <2>1, <2>2 DEF MailEvent, MailStatus
<1> HIDE DEF e
<1>5. /\ mlog' \in [Messages -> Seq(MailEvent)]
      /\ box' \in [Messages -> MailEvent \cup {NoMessage}]
      /\ mtorn' \in BOOLEAN
      /\ \A n \in Messages : n # m => mlog'[n] = mlog[n] /\ box'[n] = box[n]
      /\ \A n \in Messages : MailLogged(n)' /\ MailInMemory(n)'
      /\ Len(mlog'[m]) >= Len(mlog[m]) /\ Len(mlog'[m]) \in Nat /\ Len(mlog[m]) \in Nat
      /\ ok => Len(mlog'[m]) = e.rev /\ box'[m] = e
      /\ ~ok => box' = box
  BY <1>1, <1>2, <1>3, <1>4, MailAppended
<1>6. ASSUME NEW n \in Messages, n # m PROVE MailHanded(n)'
  BY <1>1, <1>2, <1>5, <1>6 DEF MailInv, MailHanded
<1>7. MailHanded(m)'
  BY <1>1, <1>2, <1>3, <1>4, <1>5 DEF MailInv, MailHanded
<1>8. acked' \subseteq Messages
  BY <1>1 DEF MailInv
<1> QED BY <1>2, <1>5, <1>6, <1>7, <1>8 DEF MailInv

\* NewMailbox: what is in memory is what the log says.
LEMMA OpenMailboxKeeps == MailInv /\ OpenMailbox => MailInv'
<1> SUFFICES ASSUME MailInv, OpenMailbox PROVE MailInv'
  OBVIOUS
<1>1. /\ ~open /\ open'
      /\ box' = [m \in Messages |-> IF mlog[m] = <<>> THEN NoMessage ELSE mlog[m][Len(mlog[m])]]
      /\ UNCHANGED <<mlog, mtorn, todo, out, delivering, presented, acked, now>>
  BY DEF OpenMailbox, mailLogVars, deliverVars
<1>2. ASSUME NEW m \in Messages
      PROVE  /\ box'[m] \in MailEvent \cup {NoMessage}
             /\ box'[m] = NoMessage \/ (box'[m] \in MailEvent /\ box'[m].st \in MailStatus(box'[m].rev))
             /\ box'[m].rev = Len(mlog[m]) /\ Len(mlog[m]) \in Nat
  <2>1. mlog[m] \in Seq(MailEvent) /\ Len(mlog[m]) \in Nat
    BY DEF MailInv
  <2>2. CASE mlog[m] = <<>>
    BY <1>1, <2>1, <2>2 DEF NoMessage
  <2>3. CASE mlog[m] # <<>>
    <3>1. Len(mlog[m]) \in 1..Len(mlog[m]) /\ box'[m] = mlog[m][Len(mlog[m])]
      BY <1>1, <2>1, <2>3
    <3> QED BY <2>1, <3>1 DEF MailInv, MailLogged
  <2> QED BY <2>2, <2>3
<1>3. box' \in [Messages -> MailEvent \cup {NoMessage}]
  BY <1>1, <1>2
<1>4. ASSUME NEW m \in Messages PROVE MailLogged(m)' /\ MailInMemory(m)' /\ MailHanded(m)'
  <2>1. MailLogged(m)'
    BY <1>1 DEF MailInv, MailLogged
  <2>2. MailInMemory(m)'
    BY <1>1, <1>2 DEF MailInMemory
  <2>3. m \notin todo /\ m \notin out
    BY <1>1 DEF MailInv, MailHanded
  <2>4. MailHanded(m)
    BY DEF MailInv
  <2>5. /\ UNCHANGED <<mlog, todo, out, presented, acked>>
        /\ box'[m].rev = Len(mlog[m]) /\ Len(mlog[m]) \in Nat
    BY <1>1, <1>2
  <2>6. MailHanded(m)'
    BY <2>3, <2>4, <2>5 DEF MailHanded
  <2> QED BY <2>1, <2>2, <2>6
<1> QED BY <1>1, <1>3, <1>4 DEF MailInv

LEMMA DeliverKeeps == MailInv /\ Deliver => MailInv'
<1> SUFFICES ASSUME MailInv, Deliver PROVE MailInv'
  OBVIOUS
<1>1. /\ open /\ delivering' /\ ~delivering
      /\ todo' = {m \in Messages : box[m].st = "queued"} /\ out' = {}
      /\ UNCHANGED <<mlog, mtorn, open, box, presented, acked, now>>
  BY DEF Deliver, Unlocked, mailLogVars
<1>2. ASSUME NEW m \in Messages PROVE MailLogged(m)' /\ MailInMemory(m)' /\ MailHanded(m)'
  <2>1. MailLogged(m)' /\ MailInMemory(m)'
    BY <1>1 DEF MailInv, MailLogged, MailInMemory
  <2>2. box[m].st = "queued" => box[m].rev = 1
    BY DEF MailInv, MailInMemory, NoMessage, MailEvent, MailStatus
  <2>3. m \notin out
    BY <1>1 DEF MailInv, MailHanded
  <2> QED BY <1>1, <2>1, <2>2, <2>3 DEF MailInv, MailHanded
<1> QED BY <1>1, <1>2 DEF MailInv

LEMMA DeliverEndKeeps == MailInv /\ DeliverEnd => MailInv'
<1> SUFFICES ASSUME MailInv, DeliverEnd PROVE MailInv'
  OBVIOUS
<1>1. /\ todo = {} /\ todo' = {} /\ out' = {} /\ delivering' = FALSE
      /\ presented' = [m \in Messages |-> IF m \in out THEN presented[m] + 1 ELSE presented[m]]
      /\ UNCHANGED <<mlog, mtorn, open, box, acked, now>>
  BY DEF DeliverEnd, Hand, mailLogVars
<1>2. presented' \in [Messages -> Nat]
  BY <1>1 DEF MailInv
<1>3. ASSUME NEW m \in Messages PROVE MailLogged(m)' /\ MailInMemory(m)' /\ MailHanded(m)'
  <2>1. MailLogged(m)' /\ MailInMemory(m)'
    BY <1>1 DEF MailInv, MailLogged, MailInMemory
  <2>2. MailHanded(m) /\ presented[m] \in Nat
    BY DEF MailInv
  <2> QED BY <1>1, <2>1, <2>2 DEF MailHanded
<1> QED BY <1>1, <1>2, <1>3 DEF MailInv

\* The process dies, and Deliver's result with it.
LEMMA MailCrashKeeps == MailInv /\ MailCrash => MailInv'
<1> SUFFICES ASSUME MailInv, MailCrash PROVE MailInv'
  OBVIOUS
<1>1. /\ open' = FALSE /\ box' = [m \in Messages |-> NoMessage]
      /\ todo' = {} /\ out' = {} /\ delivering' = FALSE
      /\ UNCHANGED <<mlog, mtorn, presented, acked, now>>
  BY DEF MailCrash, mailLogVars
<1>2. ASSUME NEW m \in Messages PROVE MailLogged(m)' /\ MailInMemory(m)' /\ MailHanded(m)'
  <2>1. MailLogged(m)' /\ Len(mlog[m]) \in Nat
    BY <1>1 DEF MailInv, MailLogged
  <2>2. MailInMemory(m)'
    BY <1>1, <2>1 DEF MailInMemory, NoMessage
  <2>3. MailHanded(m) /\ presented[m] \in Nat
    BY DEF MailInv
  <2> QED BY <1>1, <2>1, <2>2, <2>3 DEF MailHanded
<1> QED BY <1>1, <1>2 DEF MailInv

LEMMA MailRestKeeps == MailInv /\ (MailTick \/ UNCHANGED mailVars) => MailInv'
<1> SUFFICES ASSUME MailInv, MailTick \/ UNCHANGED mailVars PROVE MailInv'
  OBVIOUS
<1>1. UNCHANGED <<mlog, mtorn, open, box, todo, out, delivering, presented, acked>> /\ now' \in Nat
  BY DEF MailTick, MailInv, mailVars, mailLogVars, deliverVars
<1> QED BY <1>1 DEF MailInv, MailLogged, MailInMemory, MailHanded

\* What holds of a message at every step: in the log it goes from queued to
\* delivered to acknowledged, memory is no more than one event behind, and what
\* Deliver hands out is delivered in both.
THEOREM MailInvariant == MailboxSpec => []MailInv
<1>1. MailboxInit => MailInv
  <2> SUFFICES ASSUME MailboxInit PROVE MailInv
    OBVIOUS
  <2>1. mlog \in [Messages -> Seq(MailEvent)]
    <3>1. <<>> \in Seq(MailEvent)
      OBVIOUS
    <3> QED BY <3>1 DEF MailboxInit
  <2>2. ASSUME NEW m \in Messages PROVE MailLogged(m) /\ MailInMemory(m) /\ MailHanded(m)
    BY <2>1 DEF MailboxInit, MailLogged, MailInMemory, MailHanded, NoMessage
  <2> QED BY <2>1, <2>2 DEF MailboxInit, MailInv
<1>2. MailInv /\ [MailboxNext]_mailVars => MailInv'
  BY OpenMailboxKeeps, QueueKeeps, DeliverOneKeeps, AcknowledgeKeeps, DeliverKeeps,
     DeliverEndKeeps, MailCrashKeeps, MailRestKeeps
     DEF MailboxNext
<1> QED BY <1>1, <1>2, PTL DEF MailboxSpec

\* Deliver hands a message out at most once, over appends that fail before or
\* after their line is written and over restarts.
THEOREM PresentedOnceHolds == MailboxSpec => []PresentedOnce
<1>1. MailInv => PresentedOnce
  BY DEF MailInv, MailHanded, PresentedOnce
<1> QED BY <1>1, MailInvariant, PTL

\* An acknowledged message stays acknowledged for every mailbox that is opened
\* later.
THEOREM AcknowledgedStaysHolds == MailboxSpec => []AcknowledgedStays
<1>1. MailInv => AcknowledgedStays
  <2> SUFFICES ASSUME MailInv, open, NEW m \in acked PROVE box[m].st = "acknowledged"
    BY DEF AcknowledgedStays
  <2>1. m \in Messages /\ box[m].rev = 3
    BY DEF MailInv, MailHanded
  <2>2. box[m] # NoMessage
    BY <2>1 DEF NoMessage
  <2>3. box[m].st \in MailStatus(box[m].rev)
    BY <2>1, <2>2 DEF MailInv, MailInMemory
  <2> QED BY <2>1, <2>3 DEF MailStatus
<1> QED BY <1>1, MailInvariant, PTL

\* Of every message there is a status, and time stays within its bound.
LEMMA MailTypesHold == MailboxSpec => []MailboxTypeOK
<1>1. MailboxInit => now \in 0..MaxTime
  BY MailboxAssumption DEF MailboxInit
<1>2. now \in 0..MaxTime /\ [MailboxNext]_mailVars => (now \in 0..MaxTime)'
  <2> SUFFICES ASSUME now \in 0..MaxTime, [MailboxNext]_mailVars PROVE now' \in 0..MaxTime
    OBVIOUS
  <2>1. now' = now \/ (now < MaxTime /\ now' = now + 1)
    BY DEF MailboxNext, OpenMailbox, Queue, DeliverOne, Acknowledge, Deliver, DeliverEnd, MailTick,
           MailCrash, mailVars
  <2> QED BY <2>1, MailboxAssumption
<1>3. MailInv /\ now \in 0..MaxTime => MailboxTypeOK
  <2> SUFFICES ASSUME MailInv, now \in 0..MaxTime PROVE MailboxTypeOK
    OBVIOUS
  <2>1. ASSUME NEW m \in Messages
        PROVE  box[m].st \in {"none", "queued", "delivered", "acknowledged", "expired"}
    BY DEF MailInv, MailEvent, NoMessage
  <2> QED BY <2>1 DEF MailInv, MailboxTypeOK
<1> QED BY <1>1, <1>2, <1>3, MailInvariant, PTL DEF MailboxSpec

-----------------------------------------------------------------------------
(* The coding kernel and the recovery ledger.                               *)

Recoveries == {"repair_code", "reconcile_patch", "reobserve", "compact_context",
               "retry_provider", "switch_engine", "request_user", "escalate"}

Snapshot ==
    [rev : Nat, stage : Stages \cup {"none"}, failed : Active \cup {"none"},
     action : Recoveries \cup {"none"},
     key : {<<"init">>} \cup ({"transition", "resume-recovery", "resume-blocked", "complete"} \X Nat)
             \cup ({"failure"} \X Occurrences \X Nat)]

Decision ==
    [occ : Occurrences, sig : Signatures, attempt : Nat \ {0}, retry : BOOLEAN,
     action : Recoveries, key : {"decision"} \X Occurrences]

KernelTypes ==
    /\ klog \in Seq(Snapshot) /\ rlog \in Seq(Decision)
    /\ ktorn \in BOOLEAN /\ up \in BOOLEAN /\ finished \in BOOLEAN
    /\ kernel \in Snapshot \cup {NoSnapshot}
    /\ attempts \in [Signatures -> Nat]
    /\ occurrences \in [Occurrences -> Decision \cup {Undecided}]
    /\ granted \subseteq Occurrences
    /\ late \subseteq Occurrences

\* What the log says of completion: a key of Complete is on an event of
\* Complete, and revisions do not decrease.
KernelLogged ==
    /\ \A i \in 1..Len(klog) : \A n \in Nat :
          klog[i].key = <<"complete", n>> => klog[i].stage = "complete" /\ klog[i].rev = n
    /\ \A i, j \in 1..Len(klog) : i < j => klog[i].rev <= klog[j].rev

\* The kernel in memory is no more than one revision behind the log, and
\* HandleFailure is between its two events only in a stage of the work.
KernelInMemory ==
    /\ up => kernel \in Snapshot /\ \A i \in 1..Len(klog) : klog[i].rev <= kernel.rev + 1
    /\ decided # <<>> => up /\ kernel.stage \in Active

\* A reported completion is the highest revision of the log.
KernelFinished ==
    finished => \E i \in 1..Len(klog) :
        klog[i].stage = "complete" /\ \A j \in 1..Len(klog) : klog[j].rev <= klog[i].rev

KernelInv == KernelLogged /\ KernelInMemory /\ KernelFinished /\ CompletedStays

\* The decisions in the log: one of each occurrence, and no two of one kind
\* have the same attempt, but for those whose append failed.
LedgerLogged ==
    /\ \A i \in 1..Len(rlog) :
          /\ rlog[i].sig = SignatureOf[rlog[i].occ] /\ rlog[i].key = <<"decision", rlog[i].occ>>
          /\ rlog[i].retry => rlog[i].attempt <= MaxAttempts[rlog[i].sig]
          /\ rlog[i].attempt <= i
    /\ \A i, j \in 1..Len(rlog) : i # j =>
          /\ rlog[i].occ # rlog[j].occ
          /\ rlog[i].sig = rlog[j].sig /\ rlog[i].occ \notin late /\ rlog[j].occ \notin late =>
                rlog[i].attempt # rlog[j].attempt

\* Attempts in memory count every decision whose append worked, and what is in
\* memory is in the log.
LedgerInMemory ==
    /\ \A s \in Signatures : attempts[s] <= Len(rlog)
    /\ up => \A i \in 1..Len(rlog) :
          rlog[i].occ \notin late => rlog[i].attempt <= attempts[rlog[i].sig]
    /\ \A o \in Occurrences : occurrences[o] # Undecided =>
          \E i \in 1..Len(rlog) : occurrences[o] = rlog[i]
    /\ decided # <<>> => \E i \in 1..Len(rlog) : decided = <<rlog[i]>>

\* A retry that was granted is in the log.
RetriesLogged ==
    \A o \in granted : \E i \in 1..Len(rlog) : rlog[i].occ = o /\ rlog[i].retry

LedgerInv == LedgerLogged /\ LedgerInMemory /\ RetriesLogged

RuntimeInv == KernelTypes /\ KernelInv /\ LedgerInv

LEMMA SnapshotFields ==
    \A k \in Snapshot : /\ k.rev \in Nat /\ k.stage \in Stages \cup {"none"}
                        /\ k.failed \in Active \cup {"none"}
                        /\ k.action \in Recoveries \cup {"none"}
BY DEF Snapshot

\* persistSnapshot of the next revision.
LEMMA PersistKeeps ==
    ASSUME KernelTypes, KernelInv, up, up' = up, ~finished, decided' = <<>>, NEW e \in Snapshot,
           e.rev = kernel.rev + 1,
           \A n \in Nat : e.key = <<"complete", n>> => e.stage = "complete" /\ e.rev = n,
           e.stage = "complete" => e.key = <<"complete", e.rev>>,
           PersistSnapshot(e)
    PROVE  /\ klog' \in Seq(Snapshot) /\ ktorn' \in BOOLEAN /\ finished' \in BOOLEAN
           /\ kernel' = e \/ kernel' = kernel
           /\ UNCHANGED <<rlog, late>>
           /\ KernelInv'
<1>1. PICK o \in AppendOutcomes(klog, ktorn, e) :
        /\ klog' = o.log
        /\ ktorn' = o.torn
        /\ kernel' = IF o.ok THEN e ELSE kernel
        /\ finished' = (finished \/ (o.ok /\ e.stage = "complete"))
        /\ UNCHANGED <<rlog, late>>
  BY DEF PersistSnapshot, Noted
<1>2. klog \in Seq(Snapshot) /\ ktorn \in BOOLEAN /\ kernel \in Snapshot /\ Len(klog) \in Nat
  BY DEF KernelTypes, KernelInv, KernelInMemory
<1>3. /\ o.log \in Seq(Snapshot) /\ o.torn \in BOOLEAN /\ o.ok \in BOOLEAN
      /\ o.log = klog \/ (o.log = Append(klog, e) /\ e.key \notin KeysOf(klog))
      /\ o.ok => o.log = Append(klog, e) \/ e.key \in KeysOf(klog)
  BY <1>2, AppendLeaves
<1>4. \A i \in 1..Len(klog) : klog[i].rev <= e.rev /\ klog[i].rev \in Nat
  <2>1. \A i \in 1..Len(klog) : klog[i] \in Snapshot
    BY <1>2
  <2> QED BY <2>1, SnapshotFields DEF KernelInv, KernelInMemory
<1>5. /\ klog' = klog \/ (/\ Len(klog') = Len(klog) + 1 /\ klog'[Len(klog) + 1] = e
                         /\ \A i \in 1..Len(klog) : klog'[i] = klog[i])
      /\ Len(klog') \in Nat /\ klog' \in Seq(Snapshot)
  BY <1>1, <1>2, <1>3
<1>6. KernelLogged'
  <2>1. KernelLogged
    BY DEF KernelInv
  <2>2. CASE klog' = klog
    BY <2>1, <2>2 DEF KernelLogged
  <2>3. CASE klog' # klog
    <3>1. \A i \in 1..Len(klog') : i \in 1..Len(klog) \/ i = Len(klog) + 1
      BY <1>2, <1>5, <2>3
    <3>2. \A i \in 1..Len(klog') : \A n \in Nat :
            klog'[i].key = <<"complete", n>> => klog'[i].stage = "complete" /\ klog'[i].rev = n
      BY <1>5, <2>1, <2>3, <3>1 DEF KernelLogged
    <3>3. ASSUME NEW i \in 1..Len(klog'), NEW j \in 1..Len(klog'), i < j
          PROVE  klog'[i].rev <= klog'[j].rev
      <4>1. i \in 1..Len(klog) /\ klog'[i] = klog[i]
        BY <1>2, <1>5, <2>3, <3>3
      <4>2. CASE j \in 1..Len(klog)
        BY <1>5, <2>1, <2>3, <3>3, <4>1, <4>2 DEF KernelLogged
      <4>3. CASE j = Len(klog) + 1
        BY <1>4, <1>5, <2>3, <4>1, <4>3
      <4> QED BY <3>1, <4>2, <4>3
    <3> QED BY <3>2, <3>3 DEF KernelLogged
  <2> QED BY <2>2, <2>3
<1>7. \A i \in 1..Len(klog') : klog'[i].rev <= e.rev
  <2>1. e.rev \in Nat
    BY DEF Snapshot
  <2> QED BY <1>2, <1>4, <1>5, <2>1
<1>8. kernel' = e \/ kernel' = kernel
  BY <1>1
<1>9. KernelInMemory'
  <2>1. e.rev \in Nat /\ kernel.rev \in Nat /\ \A i \in 1..Len(klog') : klog'[i].rev \in Nat
    <3>1. \A i \in 1..Len(klog') : klog'[i] \in Snapshot
      BY <1>5
    <3> QED BY <1>2, <3>1, SnapshotFields
  <2>2. kernel' \in Snapshot /\ \A i \in 1..Len(klog') : klog'[i].rev <= kernel'.rev + 1
    BY <1>2, <1>7, <1>8, <2>1
  <2> QED BY <2>2 DEF KernelInMemory
<1>10. CASE ~finished'
  BY <1>1, <1>3, <1>5, <1>6, <1>8, <1>9, <1>10 DEF KernelInv, KernelFinished, CompletedStays
<1>11. CASE finished'
  <2>1. o.ok /\ e.stage = "complete" /\ kernel' = e
    BY <1>1, <1>11
  <2>2. PICK i \in 1..Len(klog') : klog'[i].key = <<"complete", e.rev>>
    <3>1. CASE o.log = Append(klog, e)
      <4>1. klog'[Len(klog) + 1] = e /\ Len(klog') = Len(klog) + 1
        BY <1>1, <1>2, <3>1
      <4> QED BY <1>2, <2>1, <4>1
    <3>2. CASE o.log = klog /\ e.key \in KeysOf(klog)
      BY <1>1, <1>2, <2>1, <3>2 DEF KeysOf
    <3> QED BY <1>3, <2>1, <3>1, <3>2
  <2>3. klog'[i].stage = "complete" /\ klog'[i].rev = e.rev
    <3>1. e.rev \in Nat
      BY DEF Snapshot
    <3> QED BY <1>6, <2>2, <3>1 DEF KernelLogged
  <2>4. KernelFinished'
    BY <1>7, <2>3 DEF KernelFinished
  <2> QED BY <1>1, <1>3, <1>5, <1>6, <1>8, <1>9, <1>11, <2>1, <2>4 DEF KernelInv, CompletedStays
<1> QED BY <1>10, <1>11

\* A step that leaves the ledger alone.
LEMMA LedgerFrame ==
    ASSUME LedgerInv, UNCHANGED <<rlog, late, attempts, occurrences, granted>>,
           up' => up, decided' = decided \/ decided' = <<>>
    PROVE  LedgerInv'
BY DEF LedgerInv, LedgerLogged, LedgerInMemory, RetriesLogged

\* A move of the kernel that is not a failure.
LEMMA MoveKeeps ==
    ASSUME RuntimeInv, Callable, kernel.stage # "complete",
           NEW st \in Stages \cup {"none"},
           NEW op \in {"transition", "resume-recovery", "resume-blocked", "complete"},
           st = "complete" <=> op = "complete",
           PersistSnapshot([kernel EXCEPT !.rev = NextRev, !.stage = st, !.key = <<op, NextRev>>]),
           UNCHANGED <<up, attempts, occurrences, decided, granted>>
    PROVE  RuntimeInv'
<1> DEFINE e == [kernel EXCEPT !.rev = NextRev, !.stage = st, !.key = <<op, NextRev>>]
<1>1. /\ up /\ decided = <<>> /\ ~finished /\ kernel \in Snapshot /\ NextRev = kernel.rev + 1
      /\ decided' = <<>> /\ up' = up
  BY DEF Callable, RuntimeInv, KernelInv, KernelInMemory, CompletedStays, NextRev
<1>2. NextRev \in Nat
  BY <1>1, SnapshotFields
<1>3. e \in Snapshot /\ e.rev = NextRev /\ e.stage = st /\ e.key = <<op, NextRev>>
  <2>1. <<op, NextRev>> \in {"transition", "resume-recovery", "resume-blocked", "complete"} \X Nat
    BY <1>2
  <2> QED BY <1>1, <1>2, <2>1 DEF Snapshot
<1>4. PersistSnapshot(e)
  BY Zenon
<1>0. KernelTypes /\ KernelInv
  BY DEF RuntimeInv
<1> HIDE DEF e
<1>5. e.rev = kernel.rev + 1
  BY <1>1, <1>3
<1>6. ASSUME NEW n \in Nat, e.key = <<"complete", n>> PROVE e.stage = "complete" /\ e.rev = n
  <2>1. <<op, NextRev>>[1] = <<"complete", n>>[1] /\ <<op, NextRev>>[2] = <<"complete", n>>[2]
    BY <1>3, <1>6
  <2> QED BY <1>3, <2>1
<1>7. e.stage = "complete" => e.key = <<"complete", e.rev>>
  BY <1>3
<1>8. /\ klog' \in Seq(Snapshot) /\ ktorn' \in BOOLEAN /\ finished' \in BOOLEAN
      /\ kernel' = e \/ kernel' = kernel
      /\ UNCHANGED <<rlog, late>>
      /\ KernelInv'
  BY <1>0, <1>1, <1>3, <1>4, <1>5, <1>6, <1>7, PersistKeeps
<1>9. KernelTypes'
  BY <1>0, <1>1, <1>3, <1>8 DEF KernelTypes
<1>10. LedgerInv'
  BY <1>1, <1>8, LedgerFrame DEF RuntimeInv
<1> QED BY <1>8, <1>9, <1>10 DEF RuntimeInv

LEMMA KernelMoves ==
    ASSUME RuntimeInv, Advance \/ ResumeRecovery \/ ResumeBlocked \/ Complete
    PROVE  RuntimeInv'
<1>0. kernel.failed \in Stages \cup {"none"} /\ kernel.failed # "complete"
  BY SnapshotFields DEF RuntimeInv, KernelTypes, NoSnapshot, Active, Stages
<1>1. CASE Advance
  <2>1. /\ kernel.stage # "complete" /\ NextStage[kernel.stage] \in Stages \cup {"none"}
        /\ NextStage[kernel.stage] # "complete"
    BY <1>1 DEF Advance, NextStage, Stages, Active
  <2>2. Callable /\ PersistSnapshot([kernel EXCEPT !.rev = NextRev, !.stage = NextStage[kernel.stage],
                                                   !.key = <<"transition", NextRev>>])
        /\ UNCHANGED <<up, attempts, occurrences, decided, granted>>
    BY <1>1 DEF Advance
  <2> QED BY <2>1, <2>2, MoveKeeps
<1>2. CASE ResumeRecovery
  <2>1. /\ kernel.stage # "complete" /\ ResumeStage \in Stages \cup {"none"}
        /\ ResumeStage # "complete"
    BY <1>0, <1>2 DEF ResumeRecovery, ResumeStage, Stages, Active
  <2>2. Callable /\ PersistSnapshot([kernel EXCEPT !.rev = NextRev, !.stage = ResumeStage,
                                                   !.key = <<"resume-recovery", NextRev>>])
        /\ UNCHANGED <<up, attempts, occurrences, decided, granted>>
    BY <1>2 DEF ResumeRecovery
  <2> QED BY <2>1, <2>2, MoveKeeps
<1>3. CASE ResumeBlocked
  <2>1. kernel.stage # "complete"
    BY <1>3 DEF ResumeBlocked
  <2>2. Callable /\ PersistSnapshot([kernel EXCEPT !.rev = NextRev, !.stage = kernel.failed,
                                                   !.key = <<"resume-blocked", NextRev>>])
        /\ UNCHANGED <<up, attempts, occurrences, decided, granted>>
    BY <1>3 DEF ResumeBlocked
  <2> QED BY <1>0, <2>1, <2>2, MoveKeeps
<1>4. CASE Complete
  <2>1. kernel.stage # "complete" /\ "complete" \in Stages \cup {"none"}
    BY <1>4 DEF Complete, Stages
  <2>2. Callable /\ PersistSnapshot([kernel EXCEPT !.rev = NextRev, !.stage = "complete",
                                                   !.key = <<"complete", NextRev>>])
        /\ UNCHANGED <<up, attempts, occurrences, decided, granted>>
    BY <1>4 DEF Complete
  <2> QED BY <2>1, <2>2, MoveKeeps
<1> QED BY <1>1, <1>2, <1>3, <1>4

\* HandleFailure after the decision.
LEMMA HandleFailureKeeps == RuntimeInv /\ HandleFailure => RuntimeInv'
<1> SUFFICES ASSUME RuntimeInv, HandleFailure PROVE RuntimeInv'
  OBVIOUS
<1> DEFINE d == decided[1]
           st == IF d.action = "request_user" THEN "blocked"
                 ELSE IF d.retry THEN "repair" ELSE "failed"
           e == [rev |-> NextRev, stage |-> st, failed |-> kernel.stage,
                 action |-> d.action, key |-> <<"failure", d.occ, NextRev>>]
<1>1. /\ decided # <<>> /\ decided' = <<>> /\ PersistSnapshot(e)
      /\ granted' = IF kernel'.stage = "repair" THEN granted \cup {d.occ} ELSE granted
      /\ UNCHANGED <<up, attempts, occurrences>>
  BY DEF HandleFailure
<1>2. /\ up /\ kernel.stage \in Active /\ kernel \in Snapshot /\ ~finished
      /\ NextRev = kernel.rev + 1 /\ up' = up
  BY <1>1 DEF RuntimeInv, KernelInv, KernelInMemory, CompletedStays, NextRev, Active
<1>3. PICK i \in 1..Len(rlog) : d = rlog[i]
  BY <1>1 DEF RuntimeInv, LedgerInv, LedgerInMemory
<1>4. d \in Decision
  BY <1>3 DEF RuntimeInv, KernelTypes
<1>5. NextRev \in Nat
  BY <1>2, SnapshotFields
<1>6. /\ d.occ \in Occurrences /\ d.action \in Recoveries
      /\ st \in {"blocked", "repair", "failed"} /\ (st = "repair" => d.retry)
  BY <1>4 DEF Decision
<1>7. e \in Snapshot /\ e.rev = kernel.rev + 1 /\ e.stage = st /\ e.key = <<"failure", d.occ, NextRev>>
  <2>1. <<"failure", d.occ, NextRev>> \in {"failure"} \X Occurrences \X Nat
    BY <1>5, <1>6
  <2> HIDE DEF st, d
  <2> QED BY <1>2, <1>5, <1>6, <2>1 DEF Snapshot, Stages
<1>8. KernelTypes /\ KernelInv /\ LedgerInv
  BY DEF RuntimeInv
<1> HIDE DEF e, st, d
<1>9. ASSUME NEW n \in Nat, e.key = <<"complete", n>> PROVE FALSE
  <2>1. <<"failure", d.occ, NextRev>>[1] = <<"complete", n>>[1]
    BY <1>7, <1>9
  <2> QED BY <2>1
<1>10. e.stage # "complete"
  BY <1>6, <1>7
<1>11. /\ klog' \in Seq(Snapshot) /\ ktorn' \in BOOLEAN /\ finished' \in BOOLEAN
       /\ kernel' = e \/ kernel' = kernel
       /\ UNCHANGED <<rlog, late>>
       /\ KernelInv'
  BY <1>1, <1>2, <1>7, <1>8, <1>9, <1>10, PersistKeeps
<1>12. kernel'.stage = "repair" => d.retry
  BY <1>2, <1>6, <1>7, <1>11 DEF Active
<1>13. KernelTypes'
  BY <1>1, <1>2, <1>6, <1>7, <1>8, <1>11 DEF KernelTypes
<1>14. LedgerInv'
  <2>1. LedgerLogged' /\ LedgerInMemory'
    BY <1>1, <1>8, <1>11 DEF LedgerInv, LedgerLogged, LedgerInMemory
  <2>2. RetriesLogged'
    BY <1>1, <1>3, <1>8, <1>11, <1>12 DEF LedgerInv, RetriesLogged
  <2> QED BY <2>1, <2>2 DEF LedgerInv
<1> QED BY <1>11, <1>13, <1>14 DEF RuntimeInv

LEMMA MaxOfTwo ==
    ASSUME NEW a \in Nat, NEW b \in Nat
    PROVE  Max({a, b}) \in {a, b} /\ Max({a, b}) >= a /\ Max({a, b}) >= b
<1>1. \E x \in {a, b} : \A y \in {a, b} : x >= y
  OBVIOUS
<1> QED BY <1>1 DEF Max

\* What the ledger is rebuilt to: the attempts of the log, and its decisions.
LEMMA LedgerRebuilt ==
    ASSUME KernelTypes, LedgerLogged
    PROVE  /\ \A s \in Signatures :
                 /\ AttemptsIn(s) \in Nat /\ AttemptsIn(s) <= Len(rlog)
                 /\ \A i \in 1..Len(rlog) : rlog[i].sig = s => rlog[i].attempt <= AttemptsIn(s)
           /\ \A o \in Occurrences :
                 \/ DecisionIn(o) = Undecided
                 \/ \E i \in 1..Len(rlog) : DecisionIn(o) = rlog[i]
<1>1. /\ Len(rlog) \in Nat /\ DOMAIN rlog = 1..Len(rlog)
      /\ \A i \in 1..Len(rlog) : rlog[i] \in Decision
  BY DEF KernelTypes
<1>2. \A i \in 1..Len(rlog) : rlog[i].attempt \in Nat /\ rlog[i].attempt <= Len(rlog)
  <2>1. \A i \in 1..Len(rlog) : rlog[i].attempt \in Nat
    BY <1>1 DEF Decision
  <2> QED BY <1>1, <2>1 DEF LedgerLogged
<1>3. ASSUME NEW s \in Signatures
      PROVE  /\ AttemptsIn(s) \in Nat /\ AttemptsIn(s) <= Len(rlog)
             /\ \A i \in 1..Len(rlog) : rlog[i].sig = s => rlog[i].attempt <= AttemptsIn(s)
  <2> DEFINE T == {0} \cup {rlog[i].attempt : i \in {j \in DOMAIN rlog : rlog[j].sig = s}}
  <2>1. T \in SUBSET Nat /\ T # {} /\ \A y \in T : y <= Len(rlog)
    BY <1>1, <1>2
  <2>2. \A i \in 1..Len(rlog) : rlog[i].sig = s => rlog[i].attempt \in T
    BY <1>1
  <2>3. AttemptsIn(s) = Max(T)
    BY DEF AttemptsIn
  <2> HIDE DEF T
  <2>4. Max(T) \in T /\ \A y \in T : y <= Max(T)
    BY <1>1, <2>1, MaxOf
  <2> QED BY <2>1, <2>2, <2>3, <2>4
<1>4. ASSUME NEW o \in Occurrences, DecisionIn(o) # Undecided
      PROVE  \E i \in 1..Len(rlog) : DecisionIn(o) = rlog[i]
  <2> DEFINE mine == {i \in DOMAIN rlog : rlog[i].occ = o}
  <2>1. mine # {} /\ DecisionIn(o) = rlog[Max(mine)]
    BY <1>4 DEF DecisionIn
  <2>2. mine \in SUBSET Nat /\ \A y \in mine : y <= Len(rlog)
    BY <1>1
  <2>3. mine \subseteq 1..Len(rlog)
    BY <1>1
  <2> HIDE DEF mine
  <2>4. Max(mine) \in mine
    BY <1>1, <2>1, <2>2, MaxOf
  <2> QED BY <2>1, <2>3, <2>4
<1> QED BY <1>3, <1>4

\* The next decision of an occurrence.
LEMMA NewDecisionFields ==
    ASSUME RuntimeInv, NEW o \in Occurrences
    PROVE  LET e == NewDecision(o) IN
           /\ e \in Decision /\ e.occ = o /\ e.sig = SignatureOf[o] /\ SignatureOf[o] \in Signatures
           /\ e.key = <<"decision", o>>
           /\ e.attempt = attempts[SignatureOf[o]] + 1
           /\ e.retry => e.attempt <= MaxAttempts[SignatureOf[o]]
<1> DEFINE s == SignatureOf[o]
           n == attempts[s] + 1
           act == IF n <= MaxAttempts[s] \/ MaxAttempts[s] = 0 THEN Action[s] ELSE "escalate"
<1>1. s \in Signatures
  BY DEF Signatures
<1>2. n \in Nat \ {0} /\ attempts[s] \in Nat
  BY <1>1 DEF RuntimeInv, KernelTypes
<1>3. act \in Recoveries
  BY <1>1, KernelAssumption DEF Recoveries
<1>4. NewDecision(o) = [occ |-> o, sig |-> s, attempt |-> n, retry |-> n <= MaxAttempts[s],
                        action |-> act, key |-> <<"decision", o>>]
  BY DEF NewDecision
<1>5. <<"decision", o>> \in {"decision"} \X Occurrences /\ (n <= MaxAttempts[s]) \in BOOLEAN
  OBVIOUS
<1> HIDE DEF act, n, s
<1>6. NewDecision(o) \in Decision
  BY <1>1, <1>2, <1>3, <1>4, <1>5 DEF Decision
<1>7. /\ NewDecision(o).occ = o /\ NewDecision(o).sig = s /\ NewDecision(o).key = <<"decision", o>>
      /\ NewDecision(o).attempt = n
  BY <1>4
<1>8. NewDecision(o).retry = (n <= MaxAttempts[s])
  BY <1>4
<1>9. NewDecision(o).retry => n <= MaxAttempts[s]
  BY <1>8
<1> QED BY <1>1, <1>6, <1>7, <1>9 DEF n, s

\* A decision is appended to the log: it is the first of its occurrence, and
\* takes an attempt that no decision before it has.
LEMMA DecisionAppended ==
    ASSUME RuntimeInv, up, NEW o \in Occurrences,
           rlog' = Append(rlog, NewDecision(o)), NewDecision(o).key \notin KeysOf(rlog),
           late' = late \/ late' = late \cup {o}
    PROVE  LedgerLogged'
<1> DEFINE e == NewDecision(o)
           n == Len(rlog) + 1
<1>1. /\ e \in Decision /\ e.occ = o /\ e.sig = SignatureOf[o] /\ SignatureOf[o] \in Signatures
      /\ e.key = <<"decision", o>>
      /\ e.attempt = attempts[SignatureOf[o]] + 1
      /\ e.retry => e.attempt <= MaxAttempts[SignatureOf[o]]
  BY NewDecisionFields
<1> HIDE DEF e
<1>2. /\ rlog \in Seq(Decision) /\ Len(rlog) \in Nat /\ Len(rlog') = n /\ rlog'[n] = e
      /\ \A i \in 1..Len(rlog) : rlog'[i] = rlog[i] /\ rlog[i] \in Decision
      /\ \A i \in 1..n : i \in 1..Len(rlog) \/ i = n
      /\ n \notin 1..Len(rlog)
  BY DEF e, RuntimeInv, KernelTypes
<1>3. LedgerLogged /\ attempts[SignatureOf[o]] \in Nat /\ attempts[SignatureOf[o]] <= Len(rlog)
      /\ \A i \in 1..Len(rlog) : rlog[i].attempt \in Nat
  BY <1>1, <1>2 DEF RuntimeInv, KernelTypes, LedgerInv, LedgerInMemory, Decision
<1>4. ASSUME NEW i \in 1..Len(rlog) PROVE rlog[i].occ # o
  <2>1. rlog[i].key # e.key
    BY <1>2 DEF KeysOf, e
  <2>2. rlog[i].key = <<"decision", rlog[i].occ>>
    BY <1>3 DEF LedgerLogged
  <2> QED BY <1>1, <2>1, <2>2
<1>5. ASSUME NEW i \in 1..Len(rlog), rlog[i].sig = e.sig, rlog[i].occ \notin late'
      PROVE  rlog[i].attempt # e.attempt
  <2>1. rlog[i].attempt <= attempts[SignatureOf[o]]
    BY <1>1, <1>5 DEF RuntimeInv, LedgerInv, LedgerInMemory
  <2> QED BY <1>1, <1>3, <2>1
<1>6. ASSUME NEW i \in 1..n
      PROVE  /\ rlog'[i].sig = SignatureOf[rlog'[i].occ] /\ rlog'[i].key = <<"decision", rlog'[i].occ>>
             /\ rlog'[i].retry => rlog'[i].attempt <= MaxAttempts[rlog'[i].sig]
             /\ rlog'[i].attempt <= i
  <2>1. CASE i \in 1..Len(rlog)
    BY <1>2, <1>3, <2>1 DEF LedgerLogged
  <2>2. CASE i = n
    BY <1>1, <1>2, <1>3, <2>2
  <2> QED BY <1>2, <2>1, <2>2
<1>7. ASSUME NEW i \in 1..n, NEW j \in 1..n, i # j
      PROVE  /\ rlog'[i].occ # rlog'[j].occ
             /\ rlog'[i].sig = rlog'[j].sig /\ rlog'[i].occ \notin late' /\ rlog'[j].occ \notin late' =>
                   rlog'[i].attempt # rlog'[j].attempt
  <2>1. CASE i \in 1..Len(rlog) /\ j \in 1..Len(rlog)
    BY <1>2, <1>3, <1>7, <2>1 DEF LedgerLogged
  <2>2. CASE i = n /\ j \in 1..Len(rlog)
    BY <1>1, <1>2, <1>4, <1>5, <2>2
  <2>3. CASE j = n /\ i \in 1..Len(rlog)
    BY <1>1, <1>2, <1>4, <1>5, <2>3
  <2> QED BY <1>2, <1>7, <2>1, <2>2, <2>3
<1> QED BY <1>2, <1>6, <1>7 DEF LedgerLogged

\* Decide, up to the event of the decision.
LEMMA DecideKeeps == ASSUME RuntimeInv, NEW o \in Occurrences, Decide(o) PROVE RuntimeInv'
<1>0. /\ up /\ kernel.stage \in Active /\ decided = <<>>
      /\ UNCHANGED <<klog, up, kernel, granted, finished>>
      /\ KernelTypes /\ KernelInv /\ LedgerInv
  BY DEF Decide, Callable, kLogVars, kGhosts, RuntimeInv
<1>1. KernelInv'
  BY <1>0 DEF KernelInv, KernelLogged, KernelInMemory, KernelFinished, CompletedStays
<1>2. CASE occurrences[o] # Undecided
  <2>1. decided' = <<occurrences[o]>> /\ UNCHANGED <<rlog, ktorn, late, attempts, occurrences>>
    BY <1>2 DEF Decide, kLogVars
  <2>2. KernelTypes'
    BY <1>0, <2>1 DEF KernelTypes
  <2>3. LedgerInv'
    BY <1>0, <1>2, <2>1 DEF LedgerInv, LedgerLogged, LedgerInMemory, RetriesLogged
  <2> QED BY <1>1, <2>2, <2>3 DEF RuntimeInv
<1>3. CASE occurrences[o] = Undecided
  <2> DEFINE e == NewDecision(o)
  <2>1. PICK w \in AppendOutcomes(rlog, ktorn, e) :
          /\ rlog' = w.log
          /\ ktorn' = w.torn
          /\ late' = IF ~w.ok /\ w.log # rlog THEN late \cup {o} ELSE late
          /\ IF w.ok THEN Remember(o, CHOOSE x \in {w.log[i] : i \in DOMAIN w.log} : x.occ = o)
             ELSE UNCHANGED <<occurrences, attempts, decided>>
    BY <1>3 DEF Decide, Noted
  <2>2. /\ e \in Decision /\ e.occ = o /\ e.sig = SignatureOf[o] /\ SignatureOf[o] \in Signatures
        /\ e.key = <<"decision", o>>
        /\ e.attempt = attempts[SignatureOf[o]] + 1
        /\ e.retry => e.attempt <= MaxAttempts[SignatureOf[o]]
    BY NewDecisionFields
  <2>3. rlog \in Seq(Decision) /\ ktorn \in BOOLEAN /\ Len(rlog) \in Nat
    BY <1>0 DEF KernelTypes
  <2> HIDE DEF e
  <2>4. /\ w.log \in Seq(Decision) /\ w.torn \in BOOLEAN /\ w.ok \in BOOLEAN
        /\ w.log = rlog \/ (w.log = Append(rlog, e) /\ e.key \notin KeysOf(rlog))
        /\ w.ok => w.log = Append(rlog, e) \/ e.key \in KeysOf(rlog)
    <3>1. e \in Decision
      BY <2>2
    <3>2. w \in AppendOutcomes(rlog, ktorn, e)
      OBVIOUS
    <3> QED BY <2>3, <3>1, <3>2, AppendLeaves, Zenon
  <2>5. late' \subseteq Occurrences
    BY <1>0, <2>1 DEF KernelTypes
  <2>6. LedgerLogged'
    <3>1. CASE w.log = rlog
      BY <1>0, <2>1, <3>1 DEF LedgerInv, LedgerLogged
    <3>2. CASE w.log = Append(rlog, e) /\ e.key \notin KeysOf(rlog)
      BY <1>0, <2>1, <3>2, DecisionAppended DEF e
    <3> QED BY <2>4, <3>1, <3>2
  <2>7. /\ Len(rlog') \in Nat /\ Len(rlog') >= Len(rlog)
        /\ \A i \in 1..Len(rlog) : rlog'[i] = rlog[i] /\ i \in 1..Len(rlog')
        /\ \A i \in 1..Len(rlog') : rlog'[i] \in Decision
        /\ \A i \in 1..Len(rlog') : i \in 1..Len(rlog) \/ rlog'[i] = e
    <3>1. rlog' \in Seq(Decision) /\ (rlog' = rlog \/ rlog' = Append(rlog, e)) /\ e \in Decision
      BY <2>1, <2>2, <2>4
    <3> QED BY <2>3, <3>1
  <2>8. RetriesLogged'
    BY <1>0, <2>7 DEF LedgerInv, RetriesLogged
  <2>9. CASE ~w.ok
    <3>1. UNCHANGED <<occurrences, attempts, decided>>
      BY <2>1, <2>9
    <3>2. KernelTypes'
      BY <1>0, <2>1, <2>4, <2>5, <3>1 DEF KernelTypes
    <3>3. ASSUME NEW i \in 1..Len(rlog'), rlog'[i].occ \notin late' PROVE i \in 1..Len(rlog)
      <4>1. CASE w.log = rlog
        BY <2>1, <4>1
      <4>2. CASE w.log # rlog
        BY <2>1, <2>2, <2>7, <2>9, <3>3, <4>2
      <4> QED BY <4>1, <4>2
    <3>4. ASSUME NEW i \in 1..Len(rlog'), rlog'[i].occ \notin late'
          PROVE  rlog'[i].attempt <= attempts'[rlog'[i].sig]
      <4>1. i \in 1..Len(rlog) /\ rlog'[i] = rlog[i] /\ rlog[i].occ \notin late
        BY <2>1, <2>7, <3>3, <3>4
      <4> QED BY <1>0, <3>1, <4>1 DEF LedgerInv, LedgerInMemory
    <3>5. \A s \in Signatures : attempts'[s] <= Len(rlog')
      BY <1>0, <2>3, <2>7, <3>1 DEF LedgerInv, LedgerInMemory, KernelTypes
    <3>6. LedgerInMemory'
      BY <1>0, <2>7, <3>1, <3>4, <3>5 DEF LedgerInv, LedgerInMemory
    <3> QED BY <1>1, <2>6, <2>8, <3>2, <3>6 DEF RuntimeInv, LedgerInv
  <2>10. CASE w.ok
    <3> DEFINE d == CHOOSE x \in {w.log[i] : i \in DOMAIN w.log} : x.occ = o
    <3>1. Remember(o, d) /\ late' = late
      BY <2>1, <2>10
    <3>2. \E x \in {w.log[i] : i \in DOMAIN w.log} : x.occ = o
      <4>1. CASE w.log = Append(rlog, e)
        <5>1. w.log[Len(rlog) + 1] = e /\ Len(rlog) + 1 \in DOMAIN w.log
          BY <2>2, <2>3, <4>1
        <5> QED BY <2>2, <5>1
      <4>2. CASE w.log = rlog /\ e.key \in KeysOf(rlog)
        <5>1. PICK i \in DOMAIN rlog : rlog[i].key = e.key
          BY <4>2 DEF KeysOf
        <5>2. <<"decision", rlog[i].occ>> = <<"decision", o>>
          BY <1>0, <2>2, <2>3, <5>1 DEF LedgerInv, LedgerLogged
        <5>3. rlog[i].occ = o
          BY <5>2
        <5> QED BY <4>2, <5>3
      <4> QED BY <2>4, <2>10, <4>1, <4>2
    <3>3. d \in {w.log[i] : i \in DOMAIN w.log} /\ d.occ = o
      BY <3>2
    <3> HIDE DEF d
    <3>4. PICK k \in 1..Len(rlog') : d = rlog'[k]
      BY <2>1, <2>4, <3>3
    <3>5. d \in Decision /\ d.sig \in Signatures /\ d.attempt \in Nat /\ d.attempt <= Len(rlog')
      <4>1. d.attempt <= k /\ d \in Decision
        BY <2>6, <2>7, <3>4 DEF LedgerLogged
      <4> QED BY <2>7, <3>4, <4>1 DEF Decision
    <3>6. /\ occurrences' = [occurrences EXCEPT ![o] = d] /\ decided' = <<d>>
          /\ attempts' = [attempts EXCEPT ![d.sig] = Max({attempts[d.sig], d.attempt})]
      BY <3>1 DEF Remember
    <3>7. attempts \in [Signatures -> Nat]
      BY <1>0 DEF KernelTypes
    <3>8. /\ Max({attempts[d.sig], d.attempt}) \in {attempts[d.sig], d.attempt}
          /\ Max({attempts[d.sig], d.attempt}) >= attempts[d.sig]
          /\ Max({attempts[d.sig], d.attempt}) >= d.attempt
      BY <3>5, <3>7, MaxOfTwo
    <3>9. /\ attempts' \in [Signatures -> Nat]
          /\ \A s \in Signatures : attempts'[s] >= attempts[s] /\ attempts'[s] <= Len(rlog')
          /\ attempts'[d.sig] >= d.attempt
      <4>1. \A s \in Signatures : attempts[s] <= Len(rlog)
        BY <1>0 DEF LedgerInv, LedgerInMemory
      <4>2. attempts'[d.sig] = Max({attempts[d.sig], d.attempt}) /\ attempts[d.sig] \in Nat
        BY <3>5, <3>6, <3>7
      <4>3. \A s \in Signatures : s # d.sig => attempts'[s] = attempts[s] /\ attempts[s] \in Nat
        BY <3>6, <3>7
      <4>4. attempts' \in [Signatures -> Nat]
        BY <3>5, <3>6, <3>7, <3>8, <4>2
      <4>5. attempts'[d.sig] >= attempts[d.sig] /\ attempts'[d.sig] >= d.attempt
            /\ attempts'[d.sig] <= Len(rlog')
        BY <2>3, <2>7, <3>5, <3>8, <4>1, <4>2
      <4> QED BY <2>3, <2>7, <4>1, <4>3, <4>4, <4>5
    <3>10. KernelTypes'
      BY <1>0, <2>1, <2>4, <2>5, <3>5, <3>6, <3>9 DEF KernelTypes
    <3>11. ASSUME NEW i \in 1..Len(rlog'), rlog'[i].occ \notin late'
           PROVE  rlog'[i].attempt <= attempts'[rlog'[i].sig]
      <4>0. rlog'[i].attempt \in Nat /\ rlog'[i].sig \in Signatures
        BY <2>7 DEF Decision
      <4>1. CASE i \in 1..Len(rlog)
        <5>1. rlog[i].attempt <= attempts[rlog[i].sig] /\ rlog'[i] = rlog[i]
          BY <1>0, <2>7, <3>1, <3>11, <4>1 DEF LedgerInv, LedgerInMemory
        <5> QED BY <3>7, <3>9, <4>0, <5>1
      <4>2. CASE rlog'[i] = e
        <5>1. i = k
          BY <2>2, <2>6, <3>3, <3>4, <4>2 DEF LedgerLogged
        <5> QED BY <3>4, <3>9, <5>1
      <4> QED BY <2>7, <4>1, <4>2
    <3>12. ASSUME NEW q \in Occurrences, occurrences'[q] # Undecided
           PROVE  \E i \in 1..Len(rlog') : occurrences'[q] = rlog'[i]
      <4>1. CASE q = o
        BY <1>0, <3>4, <3>6, <4>1 DEF KernelTypes
      <4>2. CASE q # o
        BY <1>0, <2>7, <3>6, <3>12, <4>2 DEF KernelTypes, LedgerInv, LedgerInMemory
      <4> QED BY <4>1, <4>2
    <3>13. LedgerInMemory'
      BY <3>4, <3>6, <3>9, <3>11, <3>12 DEF LedgerInMemory
    <3> QED BY <1>1, <2>6, <2>8, <3>10, <3>13 DEF RuntimeInv, LedgerInv
  <2> QED BY <2>4, <2>9, <2>10
<1> QED BY <1>2, <1>3

\* NewCodingKernel and NewRecoveryLedger.
LEMMA OpenKernelKeeps == RuntimeInv /\ OpenKernel => RuntimeInv'
<1> SUFFICES ASSUME RuntimeInv, OpenKernel PROVE RuntimeInv'
  OBVIOUS
<1>0. /\ KernelTypes /\ KernelLogged /\ KernelInMemory /\ KernelFinished /\ LedgerInv
      /\ ~up /\ decided = <<>> /\ decided' = <<>> /\ Replays(klog)
      /\ attempts' = [s \in Signatures |-> AttemptsIn(s)]
      /\ occurrences' = [o \in Occurrences |-> DecisionIn(o)]
      /\ UNCHANGED <<rlog, late, granted, finished>>
      /\ klog \in Seq(Snapshot) /\ Len(klog) \in Nat
  BY DEF OpenKernel, RuntimeInv, KernelInv, KernelInMemory, KernelTypes, kLogVars, kGhosts
<1>1. /\ \A s \in Signatures :
            /\ AttemptsIn(s) \in Nat /\ AttemptsIn(s) <= Len(rlog)
            /\ \A i \in 1..Len(rlog) : rlog[i].sig = s => rlog[i].attempt <= AttemptsIn(s)
      /\ \A o \in Occurrences :
            \/ DecisionIn(o) = Undecided
            \/ \E i \in 1..Len(rlog) : DecisionIn(o) = rlog[i]
  BY <1>0, LedgerRebuilt DEF LedgerInv
<1>2. \A i \in 1..Len(rlog) : rlog[i] \in Decision /\ rlog[i].sig \in Signatures
  <2>1. rlog \in Seq(Decision)
    BY <1>0 DEF KernelTypes
  <2>2. ASSUME NEW i \in 1..Len(rlog) PROVE rlog[i] \in Decision
    BY <2>1
  <2> QED BY <2>2 DEF Decision
<1>3. LedgerInv'
  <2>1. LedgerLogged' /\ RetriesLogged'
    BY <1>0 DEF LedgerInv, LedgerLogged, RetriesLogged
  <2>2. LedgerInMemory'
    BY <1>0, <1>1, <1>2 DEF LedgerInMemory
  <2> QED BY <2>1, <2>2 DEF LedgerInv
<1>4. attempts' \in [Signatures -> Nat] /\ occurrences' \in [Occurrences -> Decision \cup {Undecided}]
  BY <1>0, <1>1, <1>2
<1>5. CASE klog # <<>>
  <2>1. up' = TRUE /\ kernel' = klog[Len(klog)] /\ UNCHANGED <<klog, ktorn>>
    BY <1>5 DEF OpenKernel, kLogVars
  <2>2. Len(klog) \in 1..Len(klog) /\ \A i \in 1..Len(klog) : klog[i] \in Snapshot /\ klog[i].rev \in Nat
    <3>1. Len(klog) \in 1..Len(klog) /\ \A i \in 1..Len(klog) : klog[i] \in Snapshot
      BY <1>0, <1>5
    <3> QED BY <3>1, SnapshotFields
  <2>3. \A i \in 1..Len(klog) : klog[i].rev <= kernel'.rev
    BY <1>0, <2>1, <2>2 DEF KernelLogged
  <2>4. KernelInMemory'
    BY <1>0, <2>1, <2>2, <2>3 DEF KernelInMemory
  <2>5. KernelLogged' /\ KernelFinished'
    BY <1>0, <2>1 DEF KernelLogged, KernelFinished
  <2>6. CompletedStays'
    <3> SUFFICES ASSUME finished PROVE kernel'.stage = "complete"
      BY <1>0 DEF CompletedStays
    <3>1. PICK i \in 1..Len(klog) :
            klog[i].stage = "complete" /\ \A j \in 1..Len(klog) : klog[j].rev <= klog[i].rev
      BY <1>0 DEF KernelFinished
    <3>2. CASE i = Len(klog)
      BY <2>1, <3>1, <3>2
    <3>3. CASE i # Len(klog)
      <4> DEFINE n == Len(klog)
      <4>1. n \in 2..n /\ n - 1 \in 1..n /\ i <= n - 1
        BY <1>0, <3>3
      <4>2. klog[n].rev > klog[n - 1].rev
        BY <1>0, <4>1 DEF Replays
      <4>3. klog[i].rev <= klog[n - 1].rev
        <5>1. CASE i = n - 1
          BY <2>2, <5>1
        <5>2. CASE i # n - 1
          BY <1>0, <4>1, <5>2 DEF KernelLogged
        <5> QED BY <5>1, <5>2
      <4>4. klog[n].rev <= klog[i].rev
        BY <2>2, <3>1
      <4> QED BY <2>2, <4>1, <4>2, <4>3, <4>4
    <3> QED BY <3>2, <3>3
  <2>7. KernelTypes'
    BY <1>0, <1>4, <2>1, <2>2 DEF KernelTypes
  <2> QED BY <1>3, <2>4, <2>5, <2>6, <2>7 DEF RuntimeInv, KernelInv
<1>6. CASE klog = <<>>
  <2>1. PICK o \in AppendOutcomes(klog, ktorn, Initialized) :
          /\ klog' = o.log /\ ktorn' = o.torn /\ up' = o.ok
          /\ kernel' = IF o.ok THEN Initialized ELSE kernel
    BY <1>6 DEF OpenKernel, Noted
  <2>2. Initialized \in Snapshot /\ Initialized.rev = 1 /\ Initialized.key = <<"init">>
    <3>1. Initialized \in Snapshot
      BY DEF Initialized, Snapshot, Stages, Active
    <3> QED BY <3>1 DEF Initialized
  <2>3. /\ o.log \in Seq(Snapshot) /\ o.torn \in BOOLEAN /\ o.ok \in BOOLEAN
        /\ o.log = klog \/ (o.log = Append(klog, Initialized) /\ Initialized.key \notin KeysOf(klog))
        /\ o.ok => o.log = Append(klog, Initialized) \/ Initialized.key \in KeysOf(klog)
    <3>1. ktorn \in BOOLEAN
      BY <1>0 DEF KernelTypes
    <3>2. o \in AppendOutcomes(klog, ktorn, Initialized) /\ Initialized \in Snapshot
          /\ klog \in Seq(Snapshot)
      BY <1>0, <2>2
    <3> QED BY <3>1, <3>2, AppendLeaves, Zenon
  <2>4. Len(klog') \in {0, 1} /\ \A i \in 1..Len(klog') : klog'[i] = Initialized
    BY <1>0, <1>6, <2>1, <2>2, <2>3
  <2>5. ~finished
    BY <1>0, <1>6 DEF KernelFinished
  <2>6. KernelLogged'
    <3>1. ASSUME NEW n \in Nat, <<"init">> = <<"complete", n>> PROVE FALSE
      <4>1. <<"init">>[1] = <<"complete", n>>[1]
        BY <3>1
      <4> QED BY <4>1
    <3> QED BY <2>2, <2>4, <3>1 DEF KernelLogged
  <2>7. KernelInMemory'
    BY <1>0, <2>1, <2>2, <2>4 DEF KernelInMemory
  <2>8. KernelFinished' /\ CompletedStays'
    BY <1>0, <2>5 DEF KernelFinished, CompletedStays
  <2>9. KernelTypes'
    BY <1>0, <1>4, <2>1, <2>2, <2>3 DEF KernelTypes
  <2> QED BY <1>3, <2>6, <2>7, <2>8, <2>9 DEF RuntimeInv, KernelInv
<1> QED BY <1>5, <1>6

\* The process dies, or nothing of this happens.
LEMMA KernelRestKeeps ==
    RuntimeInv /\ (KernelCrash \/ RuntimeReady \/ UNCHANGED kernelVars) => RuntimeInv'
<1> SUFFICES ASSUME RuntimeInv, KernelCrash \/ RuntimeReady \/ UNCHANGED kernelVars
             PROVE  RuntimeInv'
  OBVIOUS
<1>1. CASE KernelCrash
  <2>1. /\ up' = FALSE /\ kernel' = NoSnapshot /\ decided' = <<>>
        /\ attempts' = [s \in Signatures |-> 0]
        /\ occurrences' = [o \in Occurrences |-> Undecided]
        /\ UNCHANGED <<klog, rlog, ktorn, late, granted, finished>>
    BY <1>1 DEF KernelCrash, kLogVars, kGhosts
  <2>2. KernelTypes'
    BY <2>1 DEF RuntimeInv, KernelTypes
  <2>3. KernelInv'
    BY <2>1 DEF RuntimeInv, KernelInv, KernelLogged, KernelInMemory, KernelFinished, CompletedStays
  <2>4. LedgerInv'
    <3>1. Len(rlog) \in Nat
      BY DEF RuntimeInv, KernelTypes
    <3> QED BY <2>1, <3>1 DEF RuntimeInv, LedgerInv, LedgerLogged, LedgerInMemory, RetriesLogged
  <2> QED BY <2>2, <2>3, <2>4 DEF RuntimeInv
<1>2. CASE RuntimeReady \/ UNCHANGED kernelVars
  <2>1. UNCHANGED <<klog, rlog, ktorn, late, up, kernel, attempts, occurrences, decided, granted, finished>>
    BY <1>2 DEF RuntimeReady, kernelVars, kLogVars, kMemory, kGhosts
  <2>2. KernelTypes'
    BY <2>1 DEF RuntimeInv, KernelTypes
  <2>3. KernelInv'
    BY <2>1 DEF RuntimeInv, KernelInv, KernelLogged, KernelInMemory, KernelFinished, CompletedStays
  <2>4. LedgerInv'
    BY <2>1, LedgerFrame DEF RuntimeInv
  <2> QED BY <2>2, <2>3, <2>4 DEF RuntimeInv
<1> QED BY <1>1, <1>2

\* What holds of the coding kernel and its recovery ledger at every step: both are
\* no more than one append behind the log, a reported completion is the log's
\* last word, and retries of one failure have different attempts.
THEOREM KernelInvariant == KernelSpec => []RuntimeInv
<1>1. KernelInit => RuntimeInv
  <2> SUFFICES ASSUME KernelInit PROVE RuntimeInv
    OBVIOUS
  <2>1. klog \in Seq(Snapshot) /\ rlog \in Seq(Decision) /\ Len(klog) = 0 /\ Len(rlog) = 0
    BY DEF KernelInit
  <2>2. KernelTypes
    BY <2>1 DEF KernelInit, KernelTypes
  <2>3. KernelInv
    BY <2>1 DEF KernelInit, KernelInv, KernelLogged, KernelInMemory, KernelFinished, CompletedStays
  <2>4. LedgerInv
    BY <2>1 DEF KernelInit, LedgerInv, LedgerLogged, LedgerInMemory, RetriesLogged
  <2> QED BY <2>2, <2>3, <2>4 DEF RuntimeInv
<1>2. RuntimeInv /\ [KernelNext]_kernelVars => RuntimeInv'
  BY OpenKernelKeeps, KernelMoves, DecideKeeps, HandleFailureKeeps, KernelRestKeeps DEF KernelNext
<1> QED BY <1>1, <1>2, PTL DEF KernelSpec

\* A kernel that has reported completion is complete for every runtime that is
\* opened later: whatever was written at the same revision, the log then
\* cannot be replayed.
THEOREM CompletedStaysHolds == KernelSpec => []CompletedStays
BY KernelInvariant, PTL DEF RuntimeInv, KernelInv

\* Retries of one kind of failure, over restarts and deaths between the
\* decision and the move, are no more than its budget.
THEOREM RetryBudgetHolds == KernelSpec => []RetryBudget
<1>1. RuntimeInv => RetryBudget
  <2> SUFFICES ASSUME RuntimeInv, NEW s \in Signatures
               PROVE  Cardinality({o \in granted \ late : SignatureOf[o] = s}) <= MaxAttempts[s]
    BY DEF RetryBudget
  <2> DEFINE S == {o \in granted \ late : SignatureOf[o] = s}
             At(o) == CHOOSE i \in 1..Len(rlog) : rlog[i].occ = o /\ rlog[i].retry
  <2>1. MaxAttempts[s] \in Nat
    BY KernelAssumption
  <2>2. \A o \in S : o \in granted /\ o \notin late /\ SignatureOf[o] = s
    OBVIOUS
  <2> HIDE DEF S
  <2>3. ASSUME NEW o \in S
        PROVE  At(o) \in 1..Len(rlog) /\ rlog[At(o)].occ = o /\ rlog[At(o)].retry
    <3>1. \E i \in 1..Len(rlog) : rlog[i].occ = o /\ rlog[i].retry
      BY <2>2 DEF RuntimeInv, LedgerInv, RetriesLogged
    <3> QED BY <3>1
  <2> HIDE DEF At
  <2>4. ASSUME NEW o \in S
        PROVE  rlog[At(o)].attempt \in 1..MaxAttempts[s] /\ rlog[At(o)].sig = s
    <3>1. rlog[At(o)] \in Decision
      BY <2>3 DEF RuntimeInv, KernelTypes
    <3>2. rlog[At(o)].sig = s
      BY <2>2, <2>3 DEF RuntimeInv, LedgerInv, LedgerLogged
    <3>3. rlog[At(o)].attempt <= MaxAttempts[s]
      BY <2>3, <3>2 DEF RuntimeInv, LedgerInv, LedgerLogged
    <3> QED BY <2>1, <3>1, <3>2, <3>3 DEF Decision
  <2> DEFINE f == [o \in S |-> rlog[At(o)].attempt]
  <2>5. f \in [S -> 1..MaxAttempts[s]]
    BY <2>4
  <2>6. ASSUME NEW o \in S, NEW q \in S, f[o] = f[q] PROVE o = q
    <3>1. rlog[At(o)].attempt = rlog[At(q)].attempt
      BY <2>6
    <3>2. \A i, j \in 1..Len(rlog) :
             i # j /\ rlog[i].sig = rlog[j].sig /\ rlog[i].occ \notin late /\ rlog[j].occ \notin late
             => rlog[i].attempt # rlog[j].attempt
      BY DEF RuntimeInv, LedgerInv, LedgerLogged
    <3> HIDE DEF f
    <3>3. At(o) = At(q)
      BY <2>2, <2>3, <2>4, <3>1, <3>2
    <3> QED BY <2>3, <3>3
  <2> HIDE DEF f
  <2>7. Cardinality(S) <= MaxAttempts[s]
    BY <2>1, <2>5, <2>6, NumberedUpTo
  <2> QED BY <2>7 DEF S
<1> QED BY <1>1, KernelInvariant, PTL

\* The counters of the kernel stay within their bounds: HandleFailure's second
\* event has the revision that its first one left room for.
KernelBounds ==
    /\ ready \in BOOLEAN
    /\ kFaults \in 0..MaxKernelFaults
    /\ kCrashes \in 0..MaxKernelCrashes
    /\ kernel.rev <= MaxRevision
    /\ decided # <<>> => kernel.rev < MaxRevision
    /\ \A i \in 1..Len(klog) : klog[i].rev <= MaxRevision

\* An append within the bound.
LEMMA AppendBounds ==
    ASSUME KernelTypes, KernelBounds, NEW e, e.rev <= MaxRevision,
           NEW o \in AppendOutcomes(klog, ktorn, e), klog' = o.log
    PROVE  \A i \in 1..Len(klog') : klog'[i].rev <= MaxRevision
<1>1. klog \in Seq(Snapshot \cup {e}) /\ ktorn \in BOOLEAN
  BY DEF KernelTypes
<1>2. o.log = klog \/ o.log = Append(klog, e)
  BY <1>1, AppendLeaves
<1>3. Len(klog) \in Nat /\ \A i \in 1..Len(klog) : klog[i].rev <= MaxRevision
  BY <1>1 DEF KernelBounds
<1>4. CASE o.log = Append(klog, e)
  <2>1. Len(klog') = Len(klog) + 1 /\ \A i \in 1..Len(klog') : klog'[i] \in {e} \/ (i \in 1..Len(klog) /\ klog'[i] = klog[i])
    BY <1>1, <1>4
  <2> QED BY <1>3, <2>1
<1> QED BY <1>2, <1>3, <1>4

LEMMA NotedBounds ==
    ASSUME KernelBounds, NEW o, Noted(o)
    PROVE  kFaults' \in 0..MaxKernelFaults
BY KernelAssumption DEF Noted, KernelBounds

\* A move of the kernel persists its next revision.
LEMMA MovesBounded ==
    ASSUME RuntimeInv, KernelBounds,
           Advance \/ ResumeRecovery \/ ResumeBlocked \/ Complete \/ HandleFailure
    PROVE  KernelBounds'
<1>0. /\ KernelTypes /\ kernel \in Snapshot /\ kernel.rev < MaxRevision /\ kernel.rev \in Nat
      /\ decided' = <<>> /\ UNCHANGED <<ready, kCrashes>>
  BY SnapshotFields
     DEF RuntimeInv, KernelInv, KernelInMemory, KernelBounds, Callable, Advance, ResumeRecovery,
         ResumeBlocked, Complete, HandleFailure
<1>1. PICK e : PersistSnapshot(e) /\ e.rev = NextRev
  <2>1. ASSUME NEW st, NEW key
        PROVE  [kernel EXCEPT !.rev = NextRev, !.stage = st, !.key = key].rev = NextRev
    BY <1>0 DEF Snapshot
  <2>2. CASE HandleFailure
    BY <2>2 DEF HandleFailure
  <2> QED BY <2>1, <2>2 DEF Advance, ResumeRecovery, ResumeBlocked, Complete
<1>2. PICK o \in AppendOutcomes(klog, ktorn, e) :
        klog' = o.log /\ Noted(o) /\ kernel' = IF o.ok THEN e ELSE kernel
  BY <1>1 DEF PersistSnapshot
<1>3. e.rev <= MaxRevision
  BY <1>0, <1>1, KernelAssumption DEF NextRev
<1>4. \A i \in 1..Len(klog') : klog'[i].rev <= MaxRevision
  BY <1>0, <1>2, <1>3, AppendBounds
<1>5. kFaults' \in 0..MaxKernelFaults
  BY <1>2, NotedBounds
<1>6. kernel'.rev <= MaxRevision
  BY <1>2, <1>3 DEF KernelBounds
<1> QED BY <1>0, <1>4, <1>5, <1>6 DEF KernelBounds

LEMMA OpenBounded == RuntimeInv /\ KernelBounds /\ OpenKernel => KernelBounds'
<1> SUFFICES ASSUME RuntimeInv, KernelBounds, OpenKernel PROVE KernelBounds'
  OBVIOUS
<1>0. /\ KernelTypes /\ decided = <<>> /\ decided' = <<>> /\ UNCHANGED <<ready, kCrashes>>
      /\ klog \in Seq(Snapshot)
  BY DEF RuntimeInv, KernelTypes, KernelInv, KernelInMemory, OpenKernel, kGhosts
<1>1. CASE klog # <<>>
  <2>1. kernel' = klog[Len(klog)] /\ UNCHANGED <<klog, kFaults>>
    BY <1>1 DEF OpenKernel, kLogVars
  <2>2. Len(klog) \in 1..Len(klog)
    BY <1>0, <1>1
  <2>3. kernel'.rev <= MaxRevision
    BY <2>1, <2>2 DEF KernelBounds
  <2> QED BY <1>0, <2>1, <2>3 DEF KernelBounds
<1>2. CASE klog = <<>>
  <2>1. PICK o \in AppendOutcomes(klog, ktorn, Initialized) :
          klog' = o.log /\ Noted(o) /\ kernel' = IF o.ok THEN Initialized ELSE kernel
    BY <1>2 DEF OpenKernel
  <2>2. Initialized.rev <= MaxRevision
    BY KernelAssumption DEF Initialized
  <2>3. \A i \in 1..Len(klog') : klog'[i].rev <= MaxRevision
    BY <1>0, <2>1, <2>2, AppendBounds
  <2>4. kFaults' \in 0..MaxKernelFaults
    BY <2>1, NotedBounds
  <2>5. kernel'.rev <= MaxRevision
    BY <2>1, <2>2 DEF KernelBounds
  <2> QED BY <1>0, <2>3, <2>4, <2>5 DEF KernelBounds
<1> QED BY <1>1, <1>2

LEMMA RestBounded ==
    ASSUME KernelBounds,
           KernelCrash \/ RuntimeReady \/ (\E o \in Occurrences : Decide(o)) \/ UNCHANGED kernelVars
    PROVE  KernelBounds'
<1>1. CASE KernelCrash
  <2>1. /\ kernel' = NoSnapshot /\ decided' = <<>> /\ UNCHANGED <<klog, kFaults, ready>>
        /\ kCrashes < MaxKernelCrashes /\ kCrashes' = kCrashes + 1
    BY <1>1 DEF KernelCrash, kLogVars, kGhosts
  <2> QED BY <2>1, KernelAssumption DEF KernelBounds, NoSnapshot
<1>2. ASSUME NEW o \in Occurrences, Decide(o) PROVE KernelBounds'
  <2>1. UNCHANGED <<klog, kernel, ready, kCrashes>> /\ kernel.rev < MaxRevision
    BY <1>2 DEF Decide, Callable, kLogVars, kGhosts
  <2>2. kFaults' \in 0..MaxKernelFaults
    <3>1. CASE occurrences[o] # Undecided
      BY <1>2, <3>1 DEF Decide, kLogVars, KernelBounds
    <3>2. CASE occurrences[o] = Undecided
      <4>1. \E w \in AppendOutcomes(rlog, ktorn, NewDecision(o)) : Noted(w)
        BY <1>2, <3>2 DEF Decide
      <4> QED BY <4>1, NotedBounds
    <3> QED BY <3>1, <3>2
  <2> QED BY <2>1, <2>2 DEF KernelBounds
<1>3. CASE RuntimeReady \/ UNCHANGED kernelVars
  <2>1. UNCHANGED <<klog, kernel, decided, kFaults, kCrashes>> /\ ready' \in BOOLEAN
    BY <1>3 DEF RuntimeReady, kernelVars, kLogVars, kMemory, kGhosts, KernelBounds
  <2> QED BY <2>1 DEF KernelBounds
<1> QED BY <1>1, <1>2, <1>3

LEMMA KernelTypesHold == KernelSpec => []KernelTypeOK
<1>1. KernelInit => KernelBounds
  <2> SUFFICES ASSUME KernelInit PROVE KernelBounds
    OBVIOUS
  <2>1. /\ ready = FALSE /\ kFaults = 0 /\ kCrashes = 0 /\ kernel.rev = 0 /\ decided = <<>>
        /\ Len(klog) = 0
    BY DEF KernelInit, NoSnapshot
  <2>2. {MaxRevision, MaxKernelFaults, MaxKernelCrashes} \subseteq Nat
    BY KernelAssumption
  <2>3. 0 <= MaxRevision /\ 0 \in 0..MaxKernelFaults /\ 0 \in 0..MaxKernelCrashes
    BY <2>2
  <2>4. \A i \in 1..Len(klog) : klog[i].rev <= MaxRevision
    BY <2>1
  <2> QED BY <2>1, <2>3, <2>4 DEF KernelBounds
<1>2. RuntimeInv /\ KernelBounds /\ [KernelNext]_kernelVars => KernelBounds'
  BY OpenBounded, MovesBounded, RestBounded DEF KernelNext
<1>3. RuntimeInv /\ KernelBounds => KernelTypeOK
  <2> SUFFICES ASSUME RuntimeInv, KernelBounds PROVE KernelTypeOK
    OBVIOUS
  <2>1. /\ kernel.rev \in Nat /\ kernel.stage \in Stages \cup {"none"}
        /\ kernel.failed \in Active \cup {"none"}
    BY SnapshotFields DEF RuntimeInv, KernelTypes, NoSnapshot
  <2>2. Len(decided) <= 1
    <3>1. decided = <<>> \/ \E i \in 1..Len(rlog) : decided = <<rlog[i]>>
      BY DEF RuntimeInv, LedgerInv, LedgerInMemory
    <3>2. ASSUME NEW x PROVE Len(<<x>>) <= 1
      OBVIOUS
    <3>3. Len(<<>>) <= 1
      OBVIOUS
    <3> QED BY <3>1, <3>2, <3>3
  <2>3. kernel.rev \in 0..MaxRevision
    BY <2>1, KernelAssumption DEF KernelBounds
  <2>4. {ktorn, up, ready, finished} \subseteq BOOLEAN
    BY DEF RuntimeInv, KernelTypes, KernelBounds
  <2> QED BY <2>1, <2>2, <2>3, <2>4 DEF RuntimeInv, KernelTypes, KernelBounds, KernelTypeOK
<1> QED BY <1>1, <1>2, <1>3, KernelInvariant, PTL DEF KernelSpec

-----------------------------------------------------------------------------
(* Savepoints and patch sets.                                               *)

EditStages == {"capture", "captured", "check", "write", "create", "undo", "failed",
               "applied", "sealed", "plan", "rewound"}
Applying == stage \in {"check", "write", "create", "undo", "failed"}
Applies(p) == patch[p].kind \in {"edit", "create"}

\* Content c has the user's text in region r.
UsersText(c, r) == c # Absent /\ c[r] = "user"

CreatesNew == \A p \in Paths : patch[p].kind = "create" => patch[p].expected = Absent

EditTypes ==
    /\ EditingTypeOK
    /\ CreatesNew
    /\ stage \in EditStages
    /\ back \in {"capture", "captured", "sealed"}
    /\ stuck \in BOOLEAN

\* Where the loops of ApplyPatchSet are.
ApplyPlaces ==
    /\ Applying => back # "capture" /\ \A p \in written : Applies(p)
    /\ stage = "check" => written = {} /\ ~stuck
    /\ stage = "write" => left \subseteq Of("edit")
    /\ stage = "create" => left \subseteq Of("create")
    /\ stage = "failed" => written = {}
    /\ stage = "captured" => back = "captured"

\* A file that was checked, and that nobody has written since, is what the
\* patch expects.
Unwritten ==
    \A p \in Paths :
        Applies(p) /\ IsChecked(p) /\ p \notin crossed \cup written /\ ~stuck =>
            file[p] = patch[p].expected

\* The user's regions hold the user's text.
Owned == \A x \in userOwns : UsersText(file[x[1]], x[2])

\* The agent's patch, on a file that is as the agent saw it, leaves the user's
\* regions alone.
MeansWell ==
    stage = "check" /\ back = "captured" =>
        /\ \A p \in Paths : patch[p].kind = "edit" => patch[p].content # Absent
        /\ \A x \in userOwns :
              patch[x[1]].kind = "edit" /\ file[x[1]] = patch[x[1]].expected =>
                  UsersText(patch[x[1]].content, x[2])

\* Of a file that the agent captured as it found it, the agent has changed the
\* first region, or it has created or removed the file.
AsLookedAt ==
    stage # "capture" =>
        \A p \in Paths \ unseen :
            \/ before[p] = Absent /\ after[p] = <<"agent", "agent">>
            \/ before[p] # Absent /\ after[p] \in {Absent, <<"agent", before[p][2]>>}

\* And the way back changes only the agent's text.
RewindsOwn ==
    stage = "plan" \/ (Applying /\ back = "sealed") =>
        \A p \in Paths \ unseen : patch[p].kind = "edit" =>
            /\ patch[p].content # Absent
            /\ patch[p].content[2] = patch[p].expected[2]
            /\ patch[p].content[1] = patch[p].expected[1] \/ patch[p].expected[1] = "agent"

\* So neither the content of a file that was checked nor its backup takes the
\* user's text.
KeepsUser ==
    \A x \in userOwns :
        /\ Applies(x[1]) /\ IsChecked(x[1]) /\ x[1] \notin crossed
        /\ back = "captured" \/ x[1] \notin unseen
        => UsersText(patch[x[1]].expected, x[2]) /\ UsersText(patch[x[1]].content, x[2])

NoLoss ==
    /\ stage \in {"capture", "captured"} \/ (Applying /\ back = "captured") => overwritten = {}
    /\ UserKept

EditInv ==
    /\ EditTypes /\ ApplyPlaces /\ Unwritten /\ Owned /\ MeansWell /\ AsLookedAt
    /\ RewindsOwn /\ KeepsUser /\ NoLoss

\* A set of natural numbers that is not empty has its Min.
LEMMA MinOf ==
    ASSUME NEW T \in SUBSET Nat, T # {}
    PROVE  Min(T) \in T
<1>1. \E x \in T : \A y \in T : x <= y
  BY SmallestOf
<1> QED BY <1>1 DEF Min

LEMMA OrderFacts == DOMAIN Order = 1..Len(Order) /\ Len(Order) \in Nat /\ DOMAIN Order \subseteq Nat
    /\ \A i \in DOMAIN Order : Order[i] \in Paths
  BY EditingAssumption DEF Paths

LEMMA ContentFacts ==
    ASSUME NEW c \in Contents, c # Absent
    PROVE  DOMAIN c = 1..2 /\ c[1] \in Texts /\ c[2] \in Texts
  BY DEF Contents, Texts

\* The file that a loop visits.
LEMMA VisitFacts ==
    ASSUME left \subseteq DOMAIN Order, left # {}
    PROVE  Min(left) \in left /\ Next1 \in Paths /\ Next1 = Order[Min(left)]
<1>1. Min(left) \in left
  BY MinOf, OrderFacts
<1> QED BY <1>1, OrderFacts DEF Next1

\* Every file is visited by a loop that has nothing left.
LEMMA AllVisited ==
    ASSUME NEW p \in Paths
    PROVE  \E i \in DOMAIN Order : Order[i] = p
  BY DEF Paths

\* The rollback takes a file that was written.
LEMMA LastWrittenFacts ==
    ASSUME written \subseteq Paths, written # {}, \A p \in written : Applies(p)
    PROVE  LastWritten \in written
<1> DEFINE new == {i \in Of("create") : Order[i] \in written}
           old == {i \in Of("edit") : Order[i] \in written}
<1>1. new \in SUBSET Nat /\ old \in SUBSET Nat /\ \A i \in new \cup old : i <= Len(Order)
  BY OrderFacts DEF Of
<1>2. new # {} \/ old # {}
  <2>1. PICK p \in written : TRUE
    OBVIOUS
  <2>2. PICK i \in DOMAIN Order : Order[i] = p
    BY AllVisited
  <2> QED BY <2>1, <2>2 DEF Applies, Of
<1>3. LastWritten = Order[IF new # {} THEN Max(new) ELSE Max(old)]
  BY DEF LastWritten
<1>4. \A i \in new \cup old : Order[i] \in written
  OBVIOUS
<1> HIDE DEF new, old
<1>5. CASE new # {}
  <2>1. Max(new) \in new
    BY <1>1, <1>5, MaxOf, OrderFacts
  <2> QED BY <1>3, <1>4, <1>5, <2>1
<1>6. CASE new = {}
  <2>1. Max(old) \in old
    BY <1>1, <1>2, <1>6, MaxOf, OrderFacts
  <2> QED BY <1>3, <1>4, <1>6, <2>1
<1> QED BY <1>5, <1>6

\* What a write to a file that was checked leaves: no region of the user's is
\* taken, unless the file was crossed or changed before the agent's look.
LEMMA PutsLeaves ==
    ASSUME EditInv, NEW p \in Paths, NEW c \in {patch[p].expected, patch[p].content},
           Applying, IsChecked(p), Applies(p), Puts(p, c)
    PROVE  /\ file' \in [Paths -> Contents] /\ file'[p] = c
           /\ \A q \in Paths : q # p => file'[q] = file[q]
           /\ userOwns' \subseteq userOwns
           /\ overwritten' \subseteq Paths \X (1..2)
           /\ back = "captured" => overwritten' = overwritten
           /\ \A x \in overwritten' : x[1] \in unseen
           /\ \A x \in userOwns' : UsersText(file'[x[1]], x[2])
<1> DEFINE gone == {x \in userOwns : x[1] = p /\ (c = Absent \/ c[x[2]] # "user")}
<1>1. /\ file \in [Paths -> Contents] /\ c \in Contents /\ userOwns \subseteq Paths \X (1..2)
      /\ overwritten \subseteq Paths \X (1..2)
  BY DEF EditInv, EditTypes, EditingTypeOK
<1>2. /\ file' = [file EXCEPT ![p] = c] /\ userOwns' = userOwns \ gone
      /\ overwritten' = IF p \in crossed THEN overwritten ELSE overwritten \cup gone
  BY DEF Puts
<1>3. ASSUME p \notin crossed, back = "captured" \/ p \notin unseen PROVE gone = {}
  BY <1>3 DEF EditInv, KeepsUser, UsersText
<1>4. overwritten' \subseteq Paths \X (1..2) /\ userOwns' \subseteq userOwns
  BY <1>1, <1>2
<1>5. back = "captured" => overwritten' = overwritten
  BY <1>2, <1>3
<1>6. \A x \in overwritten' : x[1] \in unseen
  BY <1>2, <1>3 DEF EditInv, NoLoss, UserKept
<1>7. ASSUME NEW x \in userOwns' PROVE UsersText(file'[x[1]], x[2])
  <2>1. x \in userOwns /\ x \notin gone /\ x[1] \in Paths
    BY <1>1, <1>2
  <2>2. CASE x[1] = p
    BY <1>1, <1>2, <2>1, <2>2 DEF UsersText
  <2>3. CASE x[1] # p
    <3>1. file'[x[1]] = file[x[1]]
      BY <1>1, <1>2, <2>1, <2>3
    <3> QED BY <2>1, <3>1 DEF EditInv, Owned
  <2> QED BY <2>2, <2>3
<1>8. file' \in [Paths -> Contents] /\ file'[p] = c /\ \A q \in Paths : q # p => file'[q] = file[q]
  BY <1>1, <1>2
<1> QED BY <1>4, <1>5, <1>6, <1>7, <1>8

\* A file changes as ApplyPatchSet writes it, and is among the written, or was
\* put back.
LEMMA PutsKeeps ==
    ASSUME EditInv, NEW p \in Paths, NEW c \in {patch[p].expected, patch[p].content},
           stage \in {"write", "create", "undo"}, Applies(p), Puts(p, c), stage' = stage,
           left' \subseteq left, written' \subseteq written \cup {p},
           \/ p \in written' /\ written \subseteq written'
           \/ c = patch[p].expected /\ written \subseteq written' \cup {p},
           stuck' \in BOOLEAN, stuck => stuck',
           UNCHANGED <<back, before, after, patch, unseen, crossed>>
    PROVE  EditInv'
<1>0. Applying /\ IsChecked(p) /\ \A q \in Paths : IsChecked(q) /\ IsChecked(q)'
  BY DEF Applying, IsChecked
<1>1. /\ file' \in [Paths -> Contents] /\ file'[p] = c
      /\ \A q \in Paths : q # p => file'[q] = file[q]
      /\ userOwns' \subseteq userOwns
      /\ overwritten' \subseteq Paths \X (1..2)
      /\ back = "captured" => overwritten' = overwritten
      /\ \A x \in overwritten' : x[1] \in unseen
      /\ \A x \in userOwns' : UsersText(file'[x[1]], x[2])
  BY <1>0, PutsLeaves
<1>2. EditTypes'
  BY <1>1 DEF EditInv, EditTypes, CreatesNew, EditingTypeOK
<1>3. ApplyPlaces'
  BY <1>0 DEF EditInv, ApplyPlaces, Applying, Applies, Of
<1>4. Unwritten'
  <2>1. SUFFICES ASSUME NEW q \in Paths, Applies(q), q \notin crossed, q \notin written', ~stuck'
                 PROVE  file'[q] = patch[q].expected
    BY DEF Unwritten, Applies
  <2>2. CASE q = p
    BY <1>1, <2>1, <2>2
  <2>3. CASE q # p
    <3>1. q \notin written /\ ~stuck
      BY <2>1, <2>3
    <3> QED BY <1>0, <1>1, <2>1, <2>3, <3>1 DEF EditInv, Unwritten
  <2> QED BY <2>2, <2>3
<1>5. Owned'
  BY <1>1 DEF Owned
<1>6. MeansWell' /\ AsLookedAt' /\ RewindsOwn'
  BY <1>0 DEF EditInv, MeansWell, AsLookedAt, RewindsOwn, Applying
<1>7. KeepsUser'
  <2>1. SUFFICES ASSUME NEW x \in userOwns', Applies(x[1]), x[1] \notin crossed,
                        back = "captured" \/ x[1] \notin unseen
                 PROVE  UsersText(patch[x[1]].expected, x[2]) /\ UsersText(patch[x[1]].content, x[2])
    BY DEF KeepsUser, Applies, UsersText
  <2>2. x \in userOwns /\ x[1] \in Paths
    BY <1>1 DEF EditInv, EditTypes, CreatesNew, EditingTypeOK
  <2> QED BY <1>0, <2>1, <2>2 DEF EditInv, KeepsUser
<1>8. NoLoss'
  BY <1>0, <1>1 DEF EditInv, NoLoss, UserKept, Applying
<1> QED BY <1>2, <1>3, <1>4, <1>5, <1>6, <1>7, <1>8 DEF EditInv

\* The steps of ApplyPatchSet that change no file.
LEMMA ApplyMovesKeeps ==
    ASSUME EditInv, stage \in {"write", "create", "undo", "failed"}, stage' \in EditStages,
           left' \subseteq DOMAIN Order,
           \/ stage' = "create" /\ left' = Of("create") /\ UNCHANGED <<written, stuck>>
           \/ stage' = "undo" /\ stage \in {"write", "create"} /\ UNCHANGED <<written, stuck>>
           \/ stage' = "undo" /\ stage = "undo" /\ stuck' = TRUE /\ written' \subseteq written
           \/ stage' = "failed" /\ written = {} /\ UNCHANGED <<written, stuck>>
           \/ stage' = back /\ UNCHANGED <<written, stuck>>
           \/ stage' \in {"applied", "rewound"} /\ UNCHANGED <<written, stuck>>,
           UNCHANGED <<file, userOwns, overwritten, back, before, after, patch, unseen, crossed>>
    PROVE  EditInv'
<1>0. Applying /\ \A q \in Paths : IsChecked(q)
  BY DEF Applying, IsChecked
<1>1. back \in {"captured", "sealed"}
  BY <1>0 DEF EditInv, EditTypes, ApplyPlaces
<1>2. EditTypes'
  BY DEF EditInv, EditTypes, CreatesNew, EditingTypeOK
<1>3. ApplyPlaces'
  BY <1>0, <1>1 DEF EditInv, ApplyPlaces, Applying, Applies, Of
<1>4. Unwritten'
  <2>1. SUFFICES ASSUME NEW q \in Paths, Applies(q), q \notin crossed, q \notin written', ~stuck'
                 PROVE  file[q] = patch[q].expected
    BY DEF Unwritten, Applies
  <2>2. q \notin written /\ ~stuck
    BY <2>1
  <2> QED BY <1>0, <2>1, <2>2 DEF EditInv, Unwritten
<1>5. Owned'
  BY DEF EditInv, Owned, UsersText
<1>6. MeansWell' /\ AsLookedAt' /\ RewindsOwn'
  BY <1>0, <1>1 DEF EditInv, MeansWell, AsLookedAt, RewindsOwn, Applying
<1>7. KeepsUser'
  <2>1. \A x \in userOwns : x[1] \in Paths
    BY DEF EditInv, EditTypes, CreatesNew, EditingTypeOK
  <2> QED BY <1>0, <2>1 DEF EditInv, KeepsUser, Applies, UsersText
<1>8. NoLoss'
  BY <1>0, <1>1 DEF EditInv, NoLoss, UserKept, Applying
<1> QED BY <1>2, <1>3, <1>4, <1>5, <1>6, <1>7, <1>8 DEF EditInv

\* WriteFile, CreateFile, Undo and the return of the error.
LEMMA ApplyKeeps ==
    ASSUME EditInv, \/ \E ok \in BOOLEAN : WriteFile(ok) \/ CreateFile(ok) \/ Undo(ok)
                    \/ Failed
    PROVE  EditInv'
<1>0. /\ left \subseteq DOMAIN Order /\ written \subseteq Paths /\ stuck \in BOOLEAN
      /\ Of("create") \subseteq DOMAIN Order
      /\ back \in EditStages /\ {"create", "undo", "failed", "applied", "rewound"} \subseteq EditStages
  BY DEF EditInv, EditTypes, CreatesNew, EditingTypeOK, Of, EditStages
<1>1. CASE Failed
  <2>1. /\ stage = "failed" /\ stage' = back
        /\ UNCHANGED <<file, userOwns, overwritten, back, before, after, patch, unseen, crossed,
                       left, written, stuck>>
    BY <1>1 DEF Failed
  <2> QED BY <1>0, <2>1, ApplyMovesKeeps
<1>2. ASSUME NEW ok \in BOOLEAN, WriteFile(ok) PROVE EditInv'
  <2>0. stage = "write" /\ UNCHANGED <<back, before, after, patch, unseen, crossed, stuck>>
    BY <1>2 DEF WriteFile
  <2>1. CASE left = {}
    BY <1>0, <1>2, <2>0, <2>1, ApplyMovesKeeps DEF WriteFile, userVars
  <2>2. CASE left # {} /\ ~ok
    BY <1>0, <1>2, <2>0, <2>2, ApplyMovesKeeps DEF WriteFile, userVars
  <2>3. CASE left # {} /\ ok
    <3>1. /\ Puts(Next1, patch[Next1].content) /\ written' = written \cup {Next1}
          /\ left' = left \ {Min(left)} /\ stage' = stage
      BY <1>2, <2>3 DEF WriteFile, Visited
    <3>2. Next1 \in Paths /\ Applies(Next1)
      BY <1>0, <2>0, <2>3, VisitFacts DEF EditInv, ApplyPlaces, Of, Applies
    <3> QED BY <1>0, <2>0, <3>1, <3>2, PutsKeeps
  <2> QED BY <2>1, <2>2, <2>3
<1>3. ASSUME NEW ok \in BOOLEAN, CreateFile(ok) PROVE EditInv'
  <2>0. stage = "create" /\ UNCHANGED <<back, before, after, patch, unseen, crossed, stuck>>
    BY <1>3 DEF CreateFile
  <2>1. CASE left = {}
    <3>1. stage' \in {"applied", "rewound"} /\ left' = DOMAIN Order
      BY <1>3, <2>1 DEF CreateFile, Enters
    <3> QED BY <1>0, <1>3, <2>0, <2>1, <3>1, ApplyMovesKeeps DEF CreateFile, userVars
  <2>2. CASE left # {} /\ ~(ok /\ file[Next1] = Absent)
    BY <1>0, <1>3, <2>0, <2>2, ApplyMovesKeeps DEF CreateFile, userVars
  <2>3. CASE left # {} /\ ok /\ file[Next1] = Absent
    <3>1. /\ Puts(Next1, patch[Next1].content) /\ written' = written \cup {Next1}
          /\ left' = left \ {Min(left)} /\ stage' = stage
      BY <1>3, <2>3 DEF CreateFile, Visited
    <3>2. Next1 \in Paths /\ Applies(Next1)
      BY <1>0, <2>0, <2>3, VisitFacts DEF EditInv, ApplyPlaces, Of, Applies
    <3> QED BY <1>0, <2>0, <3>1, <3>2, PutsKeeps
  <2> QED BY <2>1, <2>2, <2>3
<1>4. ASSUME NEW ok \in BOOLEAN, Undo(ok) PROVE EditInv'
  <2>0. stage = "undo" /\ UNCHANGED <<back, left, before, after, patch, unseen, crossed>>
    BY <1>4 DEF Undo
  <2>1. CASE written = {}
    BY <1>0, <1>4, <2>0, <2>1, ApplyMovesKeeps DEF Undo, userVars
  <2>2. CASE written # {} /\ ~ok
    <3>1. /\ UNCHANGED <<file, userOwns, overwritten>> /\ stage' = stage
          /\ stuck' = TRUE /\ written' = written \ {LastWritten}
      BY <1>4, <2>2 DEF Undo, userVars
    <3>2. stage' \in EditStages /\ written' \subseteq written
      BY <1>0, <2>0, <3>1
    <3> QED BY <1>0, <2>0, <3>1, <3>2, ApplyMovesKeeps
  <2>3. CASE written # {} /\ ok
    <3>1. PICK p : p = LastWritten
      OBVIOUS
    <3>2. /\ Puts(p, patch[p].expected) /\ written' = written \ {p} /\ stage' = stage
          /\ stuck' = stuck
      BY <1>0, <1>4, <2>3, <3>1 DEF Undo
    <3>3. \A q \in written : Applies(q)
      BY <2>0 DEF EditInv, ApplyPlaces, Applying
    <3>4. p \in written
      BY <1>0, <2>3, <3>1, <3>3, LastWrittenFacts
    <3> QED BY <1>0, <2>0, <3>2, <3>3, <3>4, PutsKeeps
  <2> QED BY <2>1, <2>2, <2>3
<1> QED BY <1>1, <1>2, <1>3, <1>4

\* The patch is proposed, or the way back is applied: nothing is checked yet.
LEMMA EnterCheckKeeps ==
    ASSUME EditInv, stage' = "check", left' = DOMAIN Order, written' = {}, crossed' = {},
           stuck' = FALSE, back' \in {"captured", "sealed"}, UNCHANGED file,
           EditingTypeOK', CreatesNew', MeansWell', AsLookedAt', RewindsOwn', NoLoss',
           userOwns' \subseteq userOwns
    PROVE  EditInv'
<1>1. \A p : ~IsChecked(p)'
  BY DEF IsChecked
<1>2. EditTypes'
  BY DEF EditTypes, EditStages
<1>3. ApplyPlaces'
  BY DEF ApplyPlaces
<1>4. Unwritten' /\ KeepsUser'
  BY <1>1 DEF Unwritten, KeepsUser
<1>5. Owned'
  BY DEF EditInv, Owned, UsersText
<1> QED BY <1>2, <1>3, <1>4, <1>5 DEF EditInv

LEMMA ProposeKeeps ==
    ASSUME EditInv, Propose
    PROVE  EditInv'
<1> DEFINE proposed(p) ==
          IF file[p] = Absent
            THEN [kind |-> "create", expected |-> Absent, content |-> <<"agent", "agent">>]
            ELSE [kind |-> "edit", expected |-> file[p], content |-> <<"agent", file[p][2]>>]
<1>1. /\ stage \in {"capture", "captured"} /\ patch' = [p \in Paths |-> proposed(p)]
      /\ after' = [p \in Paths |-> patch'[p].content]
      /\ back' = "captured" /\ stage' = "check" /\ left' = DOMAIN Order
      /\ written' = {} /\ crossed' = {} /\ stuck' = FALSE
      /\ userOwns' = {x \in userOwns : /\ patch'[x[1]].content # Absent
                                       /\ patch'[x[1]].content[x[2]] = "user"}
      /\ unseen' = {p \in Paths : file[p] # before[p]}
      /\ UNCHANGED <<file, before, overwritten>>
  BY DEF Propose, Enters
<1>2. /\ file \in [Paths -> Contents] /\ before \in [Paths -> Contents]
      /\ userOwns \subseteq Paths \X (1..2) /\ overwritten \subseteq Paths \X (1..2)
  BY DEF EditInv, EditTypes, CreatesNew, EditingTypeOK
<1>3. \A p \in Paths : file[p] = Absent \/ (file[p] # Absent /\ file[p][1] \in Texts /\ file[p][2] \in Texts)
  BY <1>2, ContentFacts
<1>4. ASSUME NEW p \in Paths
      PROVE  /\ patch'[p] = proposed(p) /\ after'[p] = proposed(p).content
             /\ proposed(p).kind \in Kinds /\ proposed(p).expected \in Contents
             /\ proposed(p).content \in Contents /\ proposed(p).content # Absent
             /\ proposed(p) \in [kind : Kinds, expected : Contents, content : Contents]
  <2>1. CASE file[p] = Absent
    BY <1>1, <2>1 DEF Contents, Texts, Kinds, Absent
  <2>2. CASE file[p] # Absent
    BY <1>1, <1>2, <1>3, <2>2 DEF Contents, Texts, Kinds, Absent
  <2> QED BY <2>1, <2>2
<1> HIDE DEF proposed
<1>5. EditingTypeOK'
  <2>1. patch' \in [Paths -> [kind : Kinds, expected : Contents, content : Contents]]
    BY <1>1, <1>4
  <2>2. after' \in [Paths -> Contents]
    BY <1>1, <1>4
  <2> QED BY <1>1, <1>2, <2>1, <2>2 DEF EditingTypeOK
<1>6. CreatesNew' /\ MeansWell'
  BY <1>1, <1>4 DEF proposed, CreatesNew, MeansWell, UsersText
<1>7. AsLookedAt'
  <2>1. SUFFICES ASSUME NEW p \in Paths, file[p] = before[p]
                 PROVE  \/ before[p] = Absent /\ after'[p] = <<"agent", "agent">>
                        \/ before[p] # Absent /\ after'[p] \in {Absent, <<"agent", before[p][2]>>}
    BY <1>1 DEF AsLookedAt
  <2> QED BY <1>4, <2>1 DEF proposed
<1>8. RewindsOwn'
  BY <1>1 DEF RewindsOwn
<1>9. NoLoss'
  BY <1>1 DEF EditInv, NoLoss, UserKept
<1> QED BY <1>1, <1>5, <1>6, <1>7, <1>8, <1>9, EnterCheckKeeps

LEMMA ApplyRewindKeeps ==
    ASSUME EditInv, ApplyRewind
    PROVE  EditInv'
<1>1. /\ stage = "plan" /\ stage' = "check" /\ left' = DOMAIN Order /\ back' = "sealed"
      /\ written' = {} /\ crossed' = {} /\ stuck' = FALSE
      /\ UNCHANGED <<file, before, after, patch, userOwns, unseen, overwritten>>
  BY DEF ApplyRewind, Enters
<1>2. EditingTypeOK' /\ CreatesNew'
  BY <1>1 DEF EditInv, EditTypes, CreatesNew, EditingTypeOK
<1>3. MeansWell' /\ AsLookedAt' /\ RewindsOwn' /\ NoLoss'
  BY <1>1 DEF EditInv, MeansWell, AsLookedAt, RewindsOwn, NoLoss, UserKept, Applying
<1> QED BY <1>1, <1>2, <1>3, EnterCheckKeeps

\* The checks: a file that passes is what the patch expects.
LEMMA CheckFileKeeps ==
    ASSUME EditInv, CheckFile
    PROVE  EditInv'
<1>0. /\ stage = "check" /\ Applying /\ back \in {"captured", "sealed"} /\ written = {} /\ ~stuck
      /\ left \subseteq DOMAIN Order
      /\ UNCHANGED <<file, back, before, after, patch, written, userOwns, unseen, crossed, overwritten, stuck>>
  BY DEF CheckFile, EditInv, EditTypes, EditingTypeOK, ApplyPlaces, Applying
<1>1. CASE stage' = back /\ left' = {}
  <2>1. EditTypes' /\ ApplyPlaces'
    BY <1>0, <1>1 DEF EditInv, EditTypes, CreatesNew, EditingTypeOK, EditStages, ApplyPlaces, Applying
  <2>2. \A p : ~IsChecked(p)'
    BY <1>0, <1>1 DEF IsChecked
  <2>3. Unwritten' /\ KeepsUser'
    BY <2>2 DEF Unwritten, KeepsUser
  <2>4. Owned' /\ MeansWell' /\ AsLookedAt' /\ RewindsOwn' /\ NoLoss'
    BY <1>0, <1>1 DEF EditInv, Owned, UsersText, MeansWell, AsLookedAt, RewindsOwn, NoLoss, UserKept, Applying
  <2> QED BY <2>1, <2>3, <2>4 DEF EditInv
<1>2. ASSUME stage' \in {"check", "write"}, left' \subseteq DOMAIN Order,
             stage' = "write" => left' = Of("edit"),
             \A p \in Paths : IsChecked(p)' /\ Applies(p) =>
                IsChecked(p) \/ file[p] = patch[p].expected
      PROVE  EditInv'
  <2>1. EditTypes' /\ ApplyPlaces'
    BY <1>0, <1>2 DEF EditInv, EditTypes, CreatesNew, EditingTypeOK, EditStages, ApplyPlaces, Applying, Of
  <2>2. Unwritten'
    <3>1. SUFFICES ASSUME NEW p \in Paths, Applies(p), IsChecked(p)', p \notin crossed
                   PROVE  file[p] = patch[p].expected
      BY <1>0 DEF Unwritten, Applies
    <3> QED BY <1>0, <1>2, <3>1 DEF EditInv, Unwritten
  <2>3. Owned' /\ MeansWell' /\ AsLookedAt' /\ RewindsOwn' /\ NoLoss'
    BY <1>0, <1>2 DEF EditInv, Owned, UsersText, MeansWell, AsLookedAt, RewindsOwn, NoLoss, UserKept, Applying
  <2>4. KeepsUser'
    <3>1. SUFFICES ASSUME NEW x \in userOwns, Applies(x[1]), IsChecked(x[1])', x[1] \notin crossed,
                          back = "captured" \/ x[1] \notin unseen
                   PROVE  UsersText(patch[x[1]].expected, x[2]) /\ UsersText(patch[x[1]].content, x[2])
      BY <1>0 DEF KeepsUser, Applies, UsersText
    <3>2. PICK p \in Paths, r \in 1..2 : x[1] = p /\ x[2] = r
      BY DEF EditInv, EditTypes, CreatesNew, EditingTypeOK
    <3>3. CASE IsChecked(p)
      BY <3>1, <3>2, <3>3 DEF EditInv, KeepsUser
    <3>4. CASE file[p] = patch[p].expected
      <4>1. UsersText(patch[p].expected, r)
        BY <3>2, <3>4 DEF EditInv, Owned
      <4>2. CASE back = "captured"
        <5>1. patch[p].kind = "edit" \/ patch[p].kind = "create"
          BY <3>1, <3>2 DEF Applies
        <5>2. CASE patch[p].kind = "edit"
          BY <1>0, <3>2, <3>4, <4>1, <4>2, <5>2 DEF EditInv, MeansWell
        <5>3. CASE patch[p].kind = "create"
          BY <4>1, <5>3 DEF EditInv, EditTypes, CreatesNew, UsersText
        <5> QED BY <5>1, <5>2, <5>3
      <4>3. CASE back = "sealed" /\ p \notin unseen
        <5>1. patch[p].kind = "edit"
          BY <3>1, <3>2, <4>1 DEF EditInv, EditTypes, CreatesNew, UsersText, Applies
        <5>2. r = 1 \/ r = 2
          OBVIOUS
        <5> QED BY <1>0, <3>2, <4>1, <4>3, <5>1, <5>2 DEF EditInv, RewindsOwn, UsersText
      <4> QED BY <1>0, <3>1, <3>2, <4>1, <4>2, <4>3
    <3> QED BY <1>2, <3>1, <3>2, <3>3, <3>4
  <2> QED BY <2>1, <2>2, <2>3, <2>4 DEF EditInv
<1>3. CASE left = {}
  <2>1. stage' = "write" /\ left' = Of("edit")
    BY <1>3 DEF CheckFile
  <2>2. \A p \in Paths : IsChecked(p)
    BY <1>0, <1>3, AllVisited DEF IsChecked
  <2> QED BY <1>2, <2>1, <2>2 DEF Of
<1>4. CASE left # {} /\ ~(patch[Next1].kind \in {"edit", "create"} /\ file[Next1] # patch[Next1].expected)
  <2>1. stage' = "check" /\ left' = left \ {Min(left)}
    BY <1>0, <1>4 DEF CheckFile, Visited
  <2>2. ASSUME NEW p \in Paths, IsChecked(p)', Applies(p), ~IsChecked(p)
        PROVE  file[p] = patch[p].expected
    <3>1. p = Next1
      BY <1>0, <2>1, <2>2 DEF IsChecked, Next1
    <3> QED BY <1>4, <2>2, <3>1 DEF Applies
  <2> QED BY <1>0, <1>2, <2>1, <2>2
<1>5. CASE left # {} /\ patch[Next1].kind \in {"edit", "create"} /\ file[Next1] # patch[Next1].expected
  BY <1>0, <1>1, <1>5 DEF CheckFile
<1> QED BY <1>3, <1>4, <1>5

\* Steps that change no file and no patch, outside ApplyPatchSet.
LEMMA EditRestKeeps ==
    ASSUME EditInv, ~Applying, stage' \in EditStages, left' \subseteq DOMAIN Order, EditingTypeOK', CreatesNew',
           stage' \in {"capture", "applied", "sealed", "plan"}, stage' = "capture" => stage = "capture",
           \A x \in userOwns' : UsersText(file'[x[1]], x[2]), overwritten' = overwritten,
           AsLookedAt', RewindsOwn',
           UNCHANGED <<back, unseen, crossed, stuck>>
    PROVE  EditInv'
<1>1. EditTypes' /\ ApplyPlaces'
  BY DEF EditInv, EditTypes, ApplyPlaces, Applying
<1>2. \A p : ~IsChecked(p)'
  BY DEF IsChecked
<1>3. Unwritten' /\ KeepsUser'
  BY <1>2 DEF Unwritten, KeepsUser
<1>4. Owned' /\ MeansWell' /\ NoLoss'
  BY DEF EditInv, Owned, MeansWell, NoLoss, UserKept, Applying
<1> QED BY <1>1, <1>3, <1>4 DEF EditInv

LEMMA CaptureKeeps ==
    ASSUME EditInv, CaptureFile
    PROVE  EditInv'
<1>1. /\ stage = "capture" /\ stage' = stage /\ left' \subseteq left /\ left # {}
      /\ before' = [before EXCEPT ![Next1] = file[Next1]]
      /\ UNCHANGED <<file, back, after, patch, written, userOwns, unseen, crossed, overwritten, stuck>>
  BY DEF CaptureFile, Visited
<1>2. left \subseteq DOMAIN Order
  BY DEF EditInv, EditTypes, CreatesNew, EditingTypeOK
<1>3. Next1 \in Paths
  BY <1>1, <1>2, VisitFacts
<1>4. EditingTypeOK' /\ CreatesNew'
  BY <1>1, <1>3 DEF EditInv, EditTypes, CreatesNew, EditingTypeOK
<1>5. AsLookedAt' /\ RewindsOwn' /\ ~Applying
  BY <1>1 DEF AsLookedAt, RewindsOwn, Applying
<1>6. \A x \in userOwns' : UsersText(file'[x[1]], x[2])
  BY <1>1 DEF EditInv, Owned
<1> QED BY <1>1, <1>2, <1>4, <1>5, <1>6, EditRestKeeps DEF EditStages

LEMMA SealKeeps ==
    ASSUME EditInv, SealFile \/ StartPlan
    PROVE  EditInv'
<1>0. /\ stage \in {"applied", "sealed"} /\ ~Applying /\ left \subseteq DOMAIN Order
      /\ UNCHANGED <<file, back, before, after, written, userOwns, unseen, crossed, overwritten, stuck>>
  BY DEF SealFile, StartPlan, Applying, EditInv, EditTypes, EditingTypeOK
<1>1. \A x \in userOwns' : UsersText(file'[x[1]], x[2])
  BY <1>0 DEF EditInv, Owned
<1>2. CASE SealFile
  <2>1. stage' \in {"applied", "sealed"} /\ left' \subseteq DOMAIN Order /\ UNCHANGED patch
    BY <1>0, <1>2 DEF SealFile, Visited
  <2>2. EditingTypeOK' /\ CreatesNew'
    BY <1>0, <2>1 DEF EditInv, EditTypes, CreatesNew, EditingTypeOK
  <2>3. AsLookedAt' /\ RewindsOwn'
    BY <1>0, <2>1 DEF EditInv, AsLookedAt, RewindsOwn, Applying
  <2> QED BY <1>0, <1>1, <2>1, <2>2, <2>3, EditRestKeeps DEF EditStages
<1>3. CASE StartPlan
  <2>1. stage' = "plan" /\ left' = DOMAIN Order /\ patch' = [p \in Paths |-> NoChange]
    BY <1>3 DEF StartPlan, Enters
  <2>2. patch' \in [Paths -> [kind : Kinds, expected : Contents, content : Contents]]
    BY <2>1 DEF NoChange, Kinds, Contents
  <2>3. EditingTypeOK' /\ CreatesNew'
    BY <1>0, <2>1, <2>2 DEF EditInv, EditTypes, CreatesNew, EditingTypeOK, NoChange
  <2>4. AsLookedAt' /\ RewindsOwn'
    BY <1>0, <2>1 DEF EditInv, AsLookedAt, RewindsOwn, NoChange
  <2> QED BY <1>0, <1>1, <2>1, <2>3, <2>4, EditRestKeeps DEF EditStages
<1> QED BY <1>2, <1>3

LEMMA AgentRemovesKeeps ==
    ASSUME EditInv, NEW p \in Paths, AgentRemoves(p)
    PROVE  EditInv'
<1>1. /\ stage = "applied" /\ stage' = stage /\ before[p] # Absent
      /\ file' = [file EXCEPT ![p] = Absent] /\ after' = [after EXCEPT ![p] = Absent]
      /\ userOwns' = {x \in userOwns : x[1] # p}
      /\ UNCHANGED <<back, left, before, patch, written, unseen, crossed, overwritten, stuck>>
  BY DEF AgentRemoves
<1>2. /\ left \subseteq DOMAIN Order /\ file \in [Paths -> Contents] /\ after \in [Paths -> Contents]
      /\ userOwns \subseteq Paths \X (1..2)
  BY DEF EditInv, EditTypes, CreatesNew, EditingTypeOK
<1>3. EditingTypeOK' /\ CreatesNew'
  BY <1>1 DEF EditInv, EditTypes, CreatesNew, EditingTypeOK, Contents
<1>4. AsLookedAt' /\ RewindsOwn' /\ ~Applying
  BY <1>1, <1>2 DEF EditInv, AsLookedAt, RewindsOwn, Applying
<1>5. \A x \in userOwns' : UsersText(file'[x[1]], x[2])
  BY <1>1, <1>2 DEF EditInv, Owned
<1> QED BY <1>1, <1>2, <1>3, <1>4, <1>5, EditRestKeeps DEF EditStages

\* What is planned for a file without a conflict.
LEMMA RewoundFacts ==
    ASSUME EditInv, NEW p \in Paths, ~Conflicts(p), stage = "plan"
    PROVE  /\ Rewound(p) \in [kind : Kinds, expected : Contents, content : Contents]
           /\ Rewound(p).kind = "create" => Rewound(p).expected = Absent
           /\ Rewound(p).kind = "edit" /\ p \notin unseen =>
                /\ Rewound(p).content # Absent
                /\ Rewound(p).content[2] = Rewound(p).expected[2]
                /\ Rewound(p).content[1] = Rewound(p).expected[1] \/ Rewound(p).expected[1] = "agent"
<1>1. PICK b, a, cur : b = before[p] /\ a = after[p] /\ cur = file[p]
  OBVIOUS
<1>2. PICK merged : merged = Merged(a, cur, b)
  OBVIOUS
<1>3. b \in Contents /\ a \in Contents /\ cur \in Contents
  BY <1>1 DEF EditInv, EditTypes, EditingTypeOK
<1>4. NoChange \in [kind : Kinds, expected : Contents, content : Contents] /\ NoChange.kind = "none"
  BY DEF NoChange, Kinds, Contents
<1>5. CASE /\ b # a /\ b # Absent /\ a # Absent /\ cur # Absent /\ cur # b /\ merged # cur
           /\ Rewound(p) = [kind |-> "edit", expected |-> cur, content |-> merged]
  <2>1. Clashes(a, cur, b) = {}
    BY <1>1, <1>5 DEF Conflicts
  <2>2. /\ b[1] \in Texts /\ b[2] \in Texts /\ a[1] \in Texts /\ a[2] \in Texts
        /\ cur[1] \in Texts /\ cur[2] \in Texts
    BY <1>3, <1>5, ContentFacts
  <2>3. merged = [r \in 1..2 |-> IF cur[r] # a[r] THEN cur[r] ELSE b[r]]
    BY <1>2, <2>1 DEF Merged
  <2>4. /\ merged \in Contents /\ merged # Absent
        /\ merged[1] = IF cur[1] # a[1] THEN cur[1] ELSE b[1]
        /\ merged[2] = IF cur[2] # a[2] THEN cur[2] ELSE b[2]
    <3>1. merged[1] \in Texts /\ merged[2] \in Texts /\ merged = <<merged[1], merged[2]>>
      BY <2>2, <2>3
    <3> QED BY <2>3, <3>1 DEF Contents, Absent
  <2>5. ASSUME p \notin unseen PROVE a[1] = "agent" /\ a[2] = b[2]
    BY <1>1, <1>5, <2>5 DEF EditInv, AsLookedAt
  <2> QED BY <1>3, <1>5, <2>4, <2>5 DEF Kinds
<1>6. CASE Rewound(p) = NoChange
  BY <1>4, <1>6
<1>7. CASE Rewound(p) = [kind |-> "create", expected |-> Absent, content |-> b]
  BY <1>3, <1>7 DEF Kinds, Contents
<1>8. CASE Rewound(p) = [kind |-> "delete", expected |-> cur, content |-> Absent]
  BY <1>3, <1>8 DEF Kinds, Contents
<1>9. Rewound(p) =
        CASE b # a /\ b # Absent /\ a # Absent /\ cur # Absent ->
                IF cur = b \/ merged = cur THEN NoChange
                ELSE [kind |-> "edit", expected |-> cur, content |-> merged]
          [] b # Absent /\ a = Absent /\ cur = Absent ->
                [kind |-> "create", expected |-> Absent, content |-> b]
          [] b # a /\ b = Absent /\ cur = a -> [kind |-> "delete", expected |-> cur, content |-> Absent]
          [] OTHER -> NoChange
  BY <1>1, <1>2 DEF Rewound
<1>10. CASE b = a
  BY <1>6, <1>9, <1>10
<1>11. CASE b # a /\ b # Absent /\ a # Absent /\ cur # Absent
  BY <1>5, <1>6, <1>9, <1>11
<1>12. CASE b # a /\ b # Absent /\ a = Absent /\ cur = Absent
  BY <1>7, <1>9, <1>12
<1>13. CASE b # a /\ b = Absent /\ cur = a
  BY <1>8, <1>9, <1>13
<1>14. CASE /\ b # a /\ ~(b # Absent /\ a # Absent /\ cur # Absent)
            /\ ~(b # Absent /\ a = Absent /\ cur = Absent) /\ ~(b = Absent /\ cur = a)
  BY <1>6, <1>9, <1>14
<1> QED BY <1>10, <1>11, <1>12, <1>13, <1>14

LEMMA PlanKeeps ==
    ASSUME EditInv, PlanFile
    PROVE  EditInv'
<1>0. /\ stage = "plan" /\ ~Applying /\ left \subseteq DOMAIN Order /\ left # {}
      /\ patch \in [Paths -> [kind : Kinds, expected : Contents, content : Contents]]
      /\ UNCHANGED <<file, back, before, after, written, userOwns, unseen, crossed, overwritten, stuck>>
  BY DEF PlanFile, Applying, EditInv, EditTypes, EditingTypeOK
<1>1. \A x \in userOwns' : UsersText(file'[x[1]], x[2])
  BY <1>0 DEF EditInv, Owned
<1>2. CASE Conflicts(Next1)
  <2>1. stage' = "sealed" /\ left' = {} /\ UNCHANGED patch
    BY <1>2 DEF PlanFile
  <2>2. EditingTypeOK' /\ CreatesNew'
    BY <1>0, <2>1 DEF EditInv, EditTypes, CreatesNew, EditingTypeOK
  <2>3. AsLookedAt' /\ RewindsOwn'
    BY <1>0, <2>1 DEF EditInv, AsLookedAt, RewindsOwn, Applying
  <2> QED BY <1>0, <1>1, <2>1, <2>2, <2>3, EditRestKeeps DEF EditStages
<1>3. CASE ~Conflicts(Next1)
  <2>1. PICK p, c : p = Next1 /\ c = Rewound(p)
    OBVIOUS
  <2>2. stage' = "plan" /\ left' \subseteq left /\ patch' = [patch EXCEPT ![p] = c]
    BY <1>0, <1>3, <2>1 DEF PlanFile, Visited
  <2>3. p \in Paths
    BY <1>0, <2>1, VisitFacts
  <2>4. /\ c \in [kind : Kinds, expected : Contents, content : Contents]
        /\ c.kind = "create" => c.expected = Absent
        /\ c.kind = "edit" /\ p \notin unseen =>
              /\ c.content # Absent /\ c.content[2] = c.expected[2]
              /\ c.content[1] = c.expected[1] \/ c.expected[1] = "agent"
    BY <1>0, <1>3, <2>1, <2>3, RewoundFacts
  <2>5. /\ patch' \in [Paths -> [kind : Kinds, expected : Contents, content : Contents]]
        /\ patch'[p] = c /\ \A q \in Paths : q # p => patch'[q] = patch[q]
    BY <1>0, <2>2, <2>3, <2>4
  <2>6. EditingTypeOK' /\ CreatesNew'
    BY <1>0, <2>2, <2>4, <2>5 DEF EditInv, EditTypes, CreatesNew, EditingTypeOK
  <2>7. AsLookedAt'
    BY <1>0, <2>2 DEF EditInv, AsLookedAt
  <2>8. RewindsOwn'
    BY <1>0, <2>2, <2>4, <2>5 DEF EditInv, RewindsOwn
  <2> QED BY <1>0, <1>1, <2>2, <2>6, <2>7, <2>8, EditRestKeeps DEF EditStages
<1> QED BY <1>2, <1>3

\* The user: a file that was checked is crossed from then on.
LEMMA UserWritesKeeps ==
    ASSUME EditInv, NEW p \in Paths, NEW c \in Contents, UserWrites(p, c),
           file[p] = Absent \/ c = Absent \/ \E r \in 1..2 : \A s \in 1..2 :
              c[s] = IF s = r THEN "user" ELSE file[p][s],
           file[p] = Absent => c = <<"user", "user">>
    PROVE  EditInv'
<1> DEFINE new == {r \in DOMAIN c : file[p] = Absent \/ c[r] # file[p][r]}
           meant == {r \in DOMAIN c : /\ stage = "check" /\ back = "captured"
                                      /\ patch[p].kind = "edit"
                                      /\ patch[p].expected = c
                                      /\ patch[p].content[r] # "user"}
<1>1. /\ file' = [file EXCEPT ![p] = c]
      /\ userOwns' = ({x \in userOwns : x[1] # p \/ c # Absent} \cup {<<p, r>> : r \in new})
                        \ {<<p, r>> : r \in meant}
      /\ overwritten' \subseteq overwritten
      /\ crossed' = (IF IsChecked(p) THEN crossed \cup {p} ELSE crossed)
      /\ UNCHANGED <<stage, back, left, before, after, patch, written, unseen, stuck>>
  BY DEF UserWrites
<1>2. /\ file \in [Paths -> Contents] /\ userOwns \subseteq Paths \X (1..2) /\ crossed \subseteq Paths
      /\ overwritten \subseteq Paths \X (1..2)
  BY DEF EditInv, EditTypes, EditingTypeOK
<1>3. /\ file' \in [Paths -> Contents] /\ file'[p] = c /\ \A q \in Paths : q # p => file'[q] = file[q]
  BY <1>1, <1>2
<1>4. new \subseteq 1..2 /\ (c # Absent => DOMAIN c = 1..2) /\ (c = Absent => new = {})
  <2>1. CASE c = Absent
    BY <2>1 DEF Absent
  <2>2. CASE c # Absent
    BY <2>2, ContentFacts
  <2> QED BY <2>1, <2>2
<1>5. userOwns' \subseteq Paths \X (1..2)
  BY <1>1, <1>2, <1>4
<1>6. \A q \in Paths : IsChecked(q)' <=> IsChecked(q)
  BY <1>1 DEF IsChecked
<1>7. \A x \in userOwns' : x[1] # p => x \in userOwns
  BY <1>1
<1>8. ASSUME NEW x \in userOwns', x[1] = p
      PROVE  UsersText(c, x[2]) /\ x[2] \notin meant
  <2>1. PICK r \in 1..2 : x = <<p, r>> /\ x[2] = r
    BY <1>5, <1>8
  <2>2. c # Absent
    BY <1>1, <1>4, <1>8
  <2>3. r \notin meant
    BY <1>1, <1>8, <2>1
  <2>4. CASE r \in new
    BY <1>4, <2>1, <2>2, <2>3, <2>4 DEF UsersText
  <2>5. CASE r \notin new
    <3>1. x \in userOwns
      BY <1>1, <1>8, <2>1, <2>5
    <3>2. file[p] # Absent /\ c[r] = file[p][r]
      BY <1>4, <2>2, <2>5
    <3>3. file[p][r] = "user"
      BY <2>1, <3>1 DEF EditInv, Owned, UsersText
    <3> QED BY <2>1, <2>2, <2>3, <3>2, <3>3 DEF UsersText
  <2> QED BY <2>4, <2>5
<1> HIDE DEF new
<1>9. EditTypes'
  <2>1. crossed' \subseteq Paths /\ overwritten' \subseteq Paths \X (1..2)
    BY <1>1, <1>2
  <2> QED BY <1>1, <1>3, <1>5, <2>1 DEF EditInv, EditTypes, CreatesNew, EditingTypeOK
<1>10. ApplyPlaces' /\ AsLookedAt' /\ RewindsOwn'
  BY <1>1 DEF EditInv, ApplyPlaces, AsLookedAt, RewindsOwn, Applying, Applies, Of
<1>11. NoLoss'
  BY <1>1 DEF EditInv, NoLoss, UserKept, Applying
<1>12. Owned'
  <2>1. SUFFICES ASSUME NEW x \in userOwns' PROVE UsersText(file'[x[1]], x[2])
    BY DEF Owned
  <2>2. CASE x[1] = p
    BY <1>3, <1>8, <2>2
  <2>3. CASE x[1] # p
    <3>1. x \in userOwns /\ x[1] \in Paths
      BY <1>2, <1>7, <2>3
    <3> QED BY <1>3, <2>3, <3>1 DEF EditInv, Owned
  <2> QED BY <2>2, <2>3
<1>13. Unwritten'
  <2>1. SUFFICES ASSUME NEW q \in Paths, Applies(q), IsChecked(q), q \notin crossed', q \notin written, ~stuck
                 PROVE  file'[q] = patch[q].expected
    BY <1>1, <1>6 DEF Unwritten, Applies
  <2>2. q # p /\ q \notin crossed
    BY <1>1, <2>1
  <2> QED BY <1>3, <2>1, <2>2 DEF EditInv, Unwritten
<1>14. KeepsUser'
  <2>1. SUFFICES ASSUME NEW x \in userOwns', Applies(x[1]), IsChecked(x[1]), x[1] \notin crossed',
                        back = "captured" \/ x[1] \notin unseen
                 PROVE  UsersText(patch[x[1]].expected, x[2]) /\ UsersText(patch[x[1]].content, x[2])
    BY <1>1, <1>5, <1>6 DEF KeepsUser, Applies, UsersText
  <2>2. x[1] # p /\ x[1] \notin crossed
    BY <1>1, <2>1
  <2> QED BY <1>7, <2>1, <2>2 DEF EditInv, KeepsUser
<1>15. MeansWell'
  <2>1. SUFFICES ASSUME stage = "check", back = "captured"
                 PROVE  \A x \in userOwns' :
                           patch[x[1]].kind = "edit" /\ file'[x[1]] = patch[x[1]].expected =>
                              UsersText(patch[x[1]].content, x[2])
    BY <1>1 DEF EditInv, MeansWell, UsersText
  <2>2. SUFFICES ASSUME NEW x \in userOwns', patch[x[1]].kind = "edit",
                        file'[x[1]] = patch[x[1]].expected
                 PROVE  UsersText(patch[x[1]].content, x[2])
    OBVIOUS
  <2>3. CASE x[1] # p
    <3>1. x \in userOwns /\ x[1] \in Paths
      BY <1>2, <1>7, <2>3
    <3> QED BY <1>3, <2>1, <2>2, <2>3, <3>1 DEF EditInv, MeansWell
  <2>4. CASE x[1] = p
    <3>1. patch[p].content # Absent
      BY <2>1, <2>2, <2>4 DEF EditInv, MeansWell
    <3>2. patch[p].expected = c /\ c # Absent /\ x[2] \in 1..2 /\ x[2] \notin meant
      BY <1>3, <1>5, <1>8, <2>2, <2>4 DEF UsersText
    <3> QED BY <1>4, <2>1, <2>2, <2>4, <3>1, <3>2 DEF UsersText
  <2> QED BY <2>3, <2>4
<1> QED BY <1>9, <1>10, <1>11, <1>12, <1>13, <1>14, <1>15 DEF EditInv

LEMMA UserEditKeeps ==
    ASSUME EditInv, UserEdit
    PROVE  EditInv'
<1>0. file \in [Paths -> Contents]
  BY DEF EditInv, EditTypes, EditingTypeOK
<1>1. ASSUME NEW p \in Paths, file[p] = Absent, UserWrites(p, <<"user", "user">>) PROVE EditInv'
  <2>1. <<"user", "user">> \in Contents
    BY DEF Contents, Texts
  <2> QED BY <1>1, <2>1, UserWritesKeeps
<1>2. ASSUME NEW p \in Paths, file[p] # Absent, UserWrites(p, Absent) PROVE EditInv'
  BY <1>2, UserWritesKeeps DEF Contents
<1>3. ASSUME NEW p \in Paths, file[p] # Absent, NEW r \in 1..2,
             UserWrites(p, [file[p] EXCEPT ![r] = "user"])
      PROVE  EditInv'
  <2>1. PICK c : c = [file[p] EXCEPT ![r] = "user"]
    OBVIOUS
  <2>2. file[p] \in Texts \X Texts
    BY <1>0, <1>3 DEF Contents
  <2>3. c \in Texts \X Texts /\ \A s \in 1..2 : c[s] = IF s = r THEN "user" ELSE file[p][s]
    BY <2>1, <2>2 DEF Texts
  <2>4. c \in Contents
    BY <2>3 DEF Contents
  <2> QED BY <1>3, <2>1, <2>3, <2>4, UserWritesKeeps
<1> QED BY <1>1, <1>2, <1>3 DEF UserEdit

LEMMA EditInitHolds ==
    ASSUME EditingInit
    PROVE  EditInv
<1>1. /\ stage = "capture" /\ back = "capture" /\ left = DOMAIN Order /\ stuck = FALSE
      /\ userOwns = {} /\ overwritten = {} /\ written = {} /\ patch = [p \in Paths |-> NoChange]
  BY DEF EditingInit
<1>2. EditingTypeOK
  BY DEF EditingInit, EditingTypeOK, Contents, Texts, NoChange, Kinds, Absent
<1>3. EditTypes
  BY <1>1, <1>2 DEF EditTypes, EditStages, CreatesNew, NoChange
<1>4. ApplyPlaces /\ Owned /\ MeansWell /\ AsLookedAt /\ RewindsOwn /\ KeepsUser /\ NoLoss
  BY <1>1 DEF ApplyPlaces, Applying, Owned, MeansWell, AsLookedAt, RewindsOwn, KeepsUser, NoLoss, UserKept
<1>5. Unwritten
  BY <1>1 DEF Unwritten, IsChecked
<1> QED BY <1>3, <1>4, <1>5 DEF EditInv

LEMMA EditStepKeeps ==
    ASSUME EditInv, [EditingNext]_editVars
    PROVE  EditInv'
<1>1. CASE UNCHANGED editVars
  <2> USE <1>1 DEF editVars, EditInv
  <2>1. EditTypes'
    BY DEF EditTypes, EditingTypeOK, CreatesNew
  <2>2. ApplyPlaces' /\ Owned' /\ MeansWell' /\ AsLookedAt' /\ RewindsOwn' /\ NoLoss'
    BY DEF ApplyPlaces, Applying, Applies, Of, Owned, UsersText, MeansWell, AsLookedAt, RewindsOwn,
           NoLoss, UserKept
  <2>3. Unwritten' /\ KeepsUser'
    BY DEF Unwritten, KeepsUser, IsChecked, Applies, UsersText
  <2> QED BY <2>1, <2>2, <2>3
<1> QED BY <1>1, CaptureKeeps, ProposeKeeps, AgentRemovesKeeps, CheckFileKeeps, ApplyKeeps, SealKeeps,
           PlanKeeps, ApplyRewindKeeps, UserEditKeeps DEF EditingNext

\* The savepoint, the patch set and the workspace stay consistent: what every
\* loop has checked, written and may still put back.
THEOREM EditInvariant == EditingSpec => []EditInv
<1>1. EditingInit => EditInv
  BY EditInitHolds
<1>2. EditInv /\ [EditingNext]_editVars => EditInv'
  BY EditStepKeeps
<1> QED BY <1>1, <1>2, PTL DEF EditingSpec

\* ApplyPatchSet that failed has changed nothing in the files that only the
\* agent touched, unless a write of its rollback failed: for any files, edits of
\* the user and failing writes.
THEOREM AllOrNothingHolds == EditingSpec => []AllOrNothing
<1>1. EditInv => AllOrNothing
  <2>1. SUFFICES ASSUME EditInv, stage = "failed", ~stuck, NEW i \in Of("edit") \cup Of("create"),
                        Order[i] \notin crossed
                 PROVE  file[Order[i]] = patch[Order[i]].expected
    BY DEF AllOrNothing
  <2>2. Order[i] \in Paths /\ Applies(Order[i])
    BY OrderFacts DEF Of, Applies
  <2>3. IsChecked(Order[i]) /\ written = {}
    BY <2>1 DEF IsChecked, EditInv, ApplyPlaces
  <2> QED BY <2>1, <2>2, <2>3 DEF EditInv, Unwritten
<1> QED BY <1>1, EditInvariant, PTL

\* Neither a patch nor its rewind overwrites what the user wrote, outside the
\* check-to-write window of one ApplyPatchSet and the capture-to-look window of
\* the savepoint: for any number of edits and failed rewinds.
THEOREM UserKeptHolds == EditingSpec => []UserKept
<1>1. EditInv => UserKept
  BY DEF EditInv, NoLoss
<1> QED BY <1>1, EditInvariant, PTL

-----------------------------------------------------------------------------
(* Agent teams.                                                             *)

OSStatuses == {"created", "active", "completed", "failed", "cancelled", "starting", "running",
               "pending", "planned", "passed"}
OSKeys ==
    {<<"plan">>, <<"register">>, <<"spawn">>, <<"add">>, <<"start">>}
    \cup ({"update", "cancel", "result"} \X Nat)
    \cup ({"status"} \X OSStatuses \X Nat)
OSEvents == [st : OSStatuses, rev : Nat, key : OSKeys]

\* The runtime is rebuilt from the log, and the team is prepared.
Working == {"prepared", "wave", "verify", "finalize", "completed", "stopped"}
Opened == Working \cup {"building"}

\* executePreparedNode has no session yet, and has an activation.
Launching == {"running", "check", "node", "engine"}
Finishing == {"wait", "actDone", "agentDone", "nodeDone"}
Begun == Launching \cup Finishing \cup
         {"settle", "markAct", "markAgent", "markNode", "settleBad", "release"}

\* The activation of a member outlives its session in the log, and in memory
\* from the moment that the log was read.
SessionOK(ph, pc, n, la, ha) ==
    /\ pc # "off" => ph = "wave"
    /\ n \in {0, 1}
    /\ ha.st # "none" \/ n > 0 => la # <<>>
    /\ ph \in Opened /\ n > 0 => ha.st # "none"
    /\ pc \in Launching => n = 0
    /\ pc \in Finishing => n = 1
    /\ pc \in Begun => ha.st # "none"

\* The node: what memory calls completed is so in the log, and a session ended
\* well before.  An append that failed leaves the log ahead by one revision; it
\* is not ahead while a session runs.
NodeOK(ph, pc, fin, ln, hn) ==
    /\ \A i \in DOMAIN ln :
          /\ ln[i].st = "completed" => fin
          /\ ln[i].rev <= LastOf(ln).rev
          /\ ln[i].key[1] = "update" => ln[i].key = <<"update", ln[i].rev>>
          /\ ph \in Opened => ln[i].rev <= hn.rev + 1
          /\ pc \in {"engine"} \cup Finishing => ln[i].rev <= hn.rev
    /\ pc \in {"actDone", "agentDone", "nodeDone", "settle"} => fin
    /\ hn.st = "completed" => fin /\ LastOf(ln).st = "completed"

\* The agent: it is completed in the log once, after its session.
AgentOK(pc, n, lg, hg) ==
    /\ \A i \in DOMAIN lg :
          /\ lg[i].st = "completed" => n > 0 /\ pc \notin {"wait", "actDone", "agentDone"}
          /\ lg[i].key[1] = "status" => lg[i].key = <<"status", lg[i].st, lg[i].rev>>
    /\ hg.st = "completed" => LastOf(lg).st = "completed"

\* The reservation is open until the goroutine settles or releases it.
ReservationOK(ph, pc, rs, ha, hn, hg) ==
    /\ ph \in {"reserved", "building"} => rs = "open"
    /\ ph \in Working /\ (ha.st = "none" \/ pc \in Begun) => rs = "open"
    /\ ph \in Working /\ hn.st = "completed" => pc = "settle" \/ rs = "settled"
    /\ ph = "completed" => hn.st = "completed" /\ hg.st = "completed"

MemberOK(m) ==
    /\ SessionOK(phase, npc[m], sessions[m], log[Act(m)], hot[Act(m)])
    /\ NodeOK(phase, npc[m], m \in done, log[Node(m)], hot[Node(m)])
    /\ AgentOK(npc[m], sessions[m], log[Agent(m)], hot[Agent(m)])
    /\ ReservationOK(phase, npc[m], res[m], hot[Act(m)], hot[Node(m)], hot[Agent(m)])

OSTypes ==
    /\ OSTypeOK
    /\ log \in [Records -> Seq(OSEvents)]
    /\ hot \in [Records -> OSEvents \cup {NoEvent}]

\* An engine starts after its dependencies.
Ordered == \A m \in Members : npc[m] = "engine" \/ sessions[m] > 0 => DependsOn[m] \subseteq done

\* The nodes that PrepareAgentOS has passed are new.
Prepared ==
    phase = "building" =>
        \A i \in DOMAIN Plan : 2 * i <= step => hot[Node(Plan[i])].st = "pending"

OSInv == OSTypes /\ (\A m \in Members : MemberOK(m)) /\ Ordered /\ Prepared

LEMMA RecordFacts ==
    /\ \A m \in Members : /\ Agent(m) \in Records /\ Act(m) \in Records /\ Node(m) \in Records
                          /\ Gate \notin {Agent(m), Act(m), Node(m)}
    /\ \A m, q \in Members : /\ Agent(m) \notin {Act(q), Node(q)} /\ Act(m) # Node(q)
                             /\ Agent(m) = Agent(q) => m = q
                             /\ Act(m) = Act(q) => m = q
                             /\ Node(m) = Node(q) => m = q
    /\ Gate \in Records
  BY DEF Agent, Act, Node, Gate, Records

LEMMA PlanFacts ==
    /\ DOMAIN Plan = 1..Len(Plan) /\ Len(Plan) \in Nat \ {0}
    /\ \A i \in DOMAIN Plan : Plan[i] \in Members
    /\ \A m \in Members : \E i \in DOMAIN Plan : Plan[i] = m
    /\ Lead \in Members
<1>1. Plan \in Seq(Members) /\ Len(Plan) > 0
  BY AgentOSAssumption
<1> QED BY <1>1 DEF Members, Lead

LEMMA EventFacts ==
    /\ \A e \in OSEvents : e.st \in OSStatuses /\ e.rev \in Nat /\ e.key \in OSKeys /\ e.st # "none"
    /\ NoEvent.st = "none" /\ NoEvent.rev = 0 /\ NoEvent \notin OSEvents
  BY DEF OSEvents, OSStatuses, NoEvent

\* A sequence with one more element.
LEMMA AppendedFacts ==
    ASSUME NEW T, NEW s \in Seq(T), NEW e \in T
    PROVE  /\ Append(s, e) \in Seq(T) /\ Append(s, e) # <<>> /\ LastOf(Append(s, e)) = e
           /\ \A i \in DOMAIN Append(s, e) :
                 Append(s, e)[i] = e \/ (i \in DOMAIN s /\ Append(s, e)[i] = s[i])
<1>1. Len(Append(s, e)) = Len(s) + 1 /\ Append(s, e)[Len(s) + 1] = e /\ Append(s, e) \in Seq(T)
  OBVIOUS
<1>2. Append(s, e) # <<>>
  BY <1>1
<1>3. \A i \in DOMAIN Append(s, e) :
         Append(s, e)[i] = e \/ (i \in DOMAIN s /\ Append(s, e)[i] = s[i])
  OBVIOUS
<1> QED BY <1>1, <1>2, <1>3 DEF LastOf

LEMMA WroteFacts ==
    ASSUME NEW s \in Seq(OSEvents), NEW e \in OSEvents, NEW t, t = s \/ t = Append(s, e)
    PROVE  /\ t = s \/ LastOf(t) = e
           /\ \A i \in DOMAIN t : t[i] = e \/ \E j \in DOMAIN s : t[i] = s[j]
<1>1. CASE t = s
  BY <1>1
<1>2. CASE t = Append(s, e)
  <2>1. /\ LastOf(Append(s, e)) = e
        /\ \A i \in DOMAIN Append(s, e) :
              Append(s, e)[i] = e \/ (i \in DOMAIN s /\ Append(s, e)[i] = s[i])
    BY AppendedFacts
  <2> QED BY <1>2, <2>1
<1> QED BY <1>1, <1>2

LEMMA LastFacts ==
    ASSUME NEW s \in Seq(OSEvents)
    PROVE  /\ s = <<>> => LastOf(s) = NoEvent
           /\ s # <<>> => LastOf(s) \in OSEvents /\ \E i \in DOMAIN s : LastOf(s) = s[i]
  BY DEF LastOf

\* What appendLocked leaves of the log and of the record in memory.
LEMMA PersistLeaves ==
    ASSUME OSTypes, NEW r \in Records, NEW e \in OSEvents, NEW ok \in BOOLEAN, Persist(r, e, ok)
    PROVE  /\ log' \in [Records -> Seq(OSEvents)] /\ hot' \in [Records -> OSEvents \cup {NoEvent}]
           /\ torn' \in BOOLEAN /\ osFaults' \in 0..MaxFaults
           /\ hot'[r] = IF ok THEN e ELSE hot[r]
           /\ \/ log'[r] = log[r] /\ (ok => e.key \in KeysOf(log[r]))
              \/ log'[r] = Append(log[r], e)
           /\ \A x \in Records : x # r => log'[x] = log[x] /\ hot'[x] = hot[x]
<1>1. /\ log \in [Records -> Seq(OSEvents)] /\ hot \in [Records -> OSEvents \cup {NoEvent}]
      /\ torn \in BOOLEAN /\ osFaults \in 0..MaxFaults /\ MaxFaults \in Nat
  BY AgentOSAssumption DEF OSTypes, OSTypeOK
<1>2. PICK o \in AppendOutcomes(log[r], torn, e) :
        /\ o.ok = ok
        /\ log' = [log EXCEPT ![r] = o.log]
        /\ torn' = o.torn
        /\ hot' = IF ok THEN [hot EXCEPT ![r] = e] ELSE hot
        /\ IF ok \/ torn THEN UNCHANGED osFaults
           ELSE osFaults < MaxFaults /\ osFaults' = osFaults + 1
  BY DEF Persist
<1>3. log[r] \in Seq(OSEvents)
  BY <1>1
<1>4. /\ o.log \in Seq(OSEvents) /\ o.torn \in BOOLEAN
      /\ o.log = log[r] \/ o.log = Append(log[r], e)
      /\ o.ok => o.log = Append(log[r], e) \/ e.key \in KeysOf(log[r])
  BY <1>1, <1>3, AppendLeaves
<1>5. log'[r] = o.log /\ log' \in [Records -> Seq(OSEvents)] /\ \A x \in Records : x # r => log'[x] = log[x]
  BY <1>1, <1>2, <1>4
<1>6. /\ hot'[r] = (IF ok THEN e ELSE hot[r]) /\ hot' \in [Records -> OSEvents \cup {NoEvent}]
      /\ \A x \in Records : x # r => hot'[x] = hot[x]
  BY <1>1, <1>2
<1>7. osFaults' \in 0..MaxFaults
  BY <1>1, <1>2
<1>8. (log'[r] = log[r] /\ (ok => e.key \in KeysOf(log[r]))) \/ log'[r] = Append(log[r], e)
  BY <1>2, <1>4, <1>5
<1> QED BY <1>2, <1>4, <1>5, <1>6, <1>7, <1>8

\* A step of the goroutine of m that leaves the records and the ledger entries
\* of the other members alone.
LEMMA GoroutineStep ==
    ASSUME OSInv, NEW m \in Members, phase = "wave", phase' = phase, step' = step,
           NEW pc \in NodePC, npc' = [npc EXCEPT ![m] = pc],
           OSTypes', MemberOK(m)', done \subseteq done',
           pc = "engine" \/ sessions'[m] > 0 => DependsOn[m] \subseteq done',
           \A q \in Members : q # m =>
              /\ sessions'[q] = sessions[q] /\ res'[q] = res[q] /\ (q \in done' <=> q \in done)
              /\ log'[Agent(q)] = log[Agent(q)] /\ log'[Act(q)] = log[Act(q)] /\ log'[Node(q)] = log[Node(q)]
              /\ hot'[Agent(q)] = hot[Agent(q)] /\ hot'[Act(q)] = hot[Act(q)] /\ hot'[Node(q)] = hot[Node(q)]
    PROVE  OSInv'
<1>0. npc \in [Members -> NodePC]
  BY DEF OSInv, OSTypes, OSTypeOK
<1>1. npc'[m] = pc /\ \A q \in Members : q # m => npc'[q] = npc[q]
  BY <1>0
<1>2. ASSUME NEW q \in Members PROVE MemberOK(q)'
  <2>1. CASE q = m
    BY <2>1
  <2>2. CASE q # m
    <3>1. MemberOK(q)
      BY DEF OSInv
    <3> QED BY <1>1, <2>2, <3>1 DEF MemberOK
  <2> QED BY <2>1, <2>2
<1>3. Ordered'
  BY <1>1 DEF OSInv, Ordered
<1>4. Prepared'
  BY DEF Prepared
<1> QED BY <1>2, <1>3, <1>4 DEF OSInv

\* The types after a goroutine's append.
LEMMA AppendTypes ==
    ASSUME OSInv, NEW m \in Members, NEW r \in Records, NEW e \in OSEvents, NEW ok \in BOOLEAN,
           Persist(r, e, ok), NEW pc \in NodePC, npc' = [npc EXCEPT ![m] = pc],
           UNCHANGED <<ledgerVars, sessionVars, boundVars, phase, step>>
    PROVE  OSTypes'
<1>1. /\ log' \in [Records -> Seq(OSEvents)] /\ hot' \in [Records -> OSEvents \cup {NoEvent}]
      /\ torn' \in BOOLEAN /\ osFaults' \in 0..MaxFaults
  BY PersistLeaves DEF OSInv
<1>2. \A x \in Records : hot'[x].rev \in Nat
  BY <1>1, EventFacts
<1> QED BY <1>1, <1>2 DEF OSInv, OSTypes, OSTypeOK, ledgerVars, sessionVars, boundVars

\* A goroutine writes to its activation.
LEMMA ActStep ==
    ASSUME OSInv, NEW m \in Members, phase = "wave", NEW e \in OSEvents, NEW ok \in BOOLEAN,
           Persist(Act(m), e, ok), NEW pc \in NodePC, npc' = [npc EXCEPT ![m] = pc],
           \/ npc[m] = "start" /\ ok /\ hot[Act(m)].st = "none" /\ pc = "running"
           \/ npc[m] = "running" /\ ok /\ pc = "check"
           \/ npc[m] = "actDone" /\ pc = "agentDone"
           \/ npc[m] = "markAct" /\ pc = "markAgent"
           \/ npc[m] \in {"start", "running"} /\ ~ok /\ pc = "err",
           UNCHANGED <<ledgerVars, sessionVars, boundVars, phase, step>>
    PROVE  OSInv'
<1>0. UNCHANGED <<res, committed, sessions, done>>
  BY DEF ledgerVars, sessionVars
<1>1. OSTypes'
  <2>1. Act(m) \in Records
    BY RecordFacts
  <2> QED BY <2>1, AppendTypes, Zenon
<1>2. /\ hot'[Act(m)] = IF ok THEN e ELSE hot[Act(m)]
      /\ \/ log'[Act(m)] = log[Act(m)] /\ (ok => e.key \in KeysOf(log[Act(m)]))
         \/ log'[Act(m)] = Append(log[Act(m)], e)
      /\ \A x \in Records : x # Act(m) => log'[x] = log[x] /\ hot'[x] = hot[x]
  <2>1. Act(m) \in Records /\ OSTypes
    BY RecordFacts DEF OSInv
  <2> QED BY <2>1, PersistLeaves, Zenon
<1>3. /\ log'[Agent(m)] = log[Agent(m)] /\ hot'[Agent(m)] = hot[Agent(m)]
      /\ log'[Node(m)] = log[Node(m)] /\ hot'[Node(m)] = hot[Node(m)]
  BY <1>2, RecordFacts
<1>4. \A q \in Members : q # m =>
        /\ log'[Agent(q)] = log[Agent(q)] /\ log'[Act(q)] = log[Act(q)] /\ log'[Node(q)] = log[Node(q)]
        /\ hot'[Agent(q)] = hot[Agent(q)] /\ hot'[Act(q)] = hot[Act(q)] /\ hot'[Node(q)] = hot[Node(q)]
  BY <1>2, RecordFacts
<1>5. npc'[m] = pc /\ e.st # "none"
  BY EventFacts DEF OSInv, OSTypes, OSTypeOK
<1>6. log[Act(m)] \in Seq(OSEvents)
  BY RecordFacts DEF OSInv, OSTypes
<1>7. /\ ok => log'[Act(m)] # <<>>
      /\ log[Act(m)] # <<>> => log'[Act(m)] # <<>>
  BY <1>2, <1>6, AppendedFacts DEF KeysOf
<1>8. MemberOK(m)
  BY DEF OSInv
<1>9. SessionOK(phase, npc[m], sessions[m], log[Act(m)], hot[Act(m)])'
  BY <1>0, <1>2, <1>5, <1>7, <1>8 DEF MemberOK, SessionOK, Launching, Finishing, Begun, Opened, Working
<1>10. NodeOK(phase, npc[m], m \in done, log[Node(m)], hot[Node(m)])'
  BY <1>0, <1>3, <1>5, <1>8 DEF MemberOK, NodeOK, Finishing
<1>11. AgentOK(npc[m], sessions[m], log[Agent(m)], hot[Agent(m)])'
  BY <1>0, <1>3, <1>5, <1>8 DEF MemberOK, AgentOK
<1>12. ReservationOK(phase, npc[m], res[m], hot[Act(m)], hot[Node(m)], hot[Agent(m)])'
  BY <1>0, <1>2, <1>3, <1>5, <1>8 DEF MemberOK, ReservationOK, Launching, Finishing, Begun
<1>13. sessions'[m] > 0 => DependsOn[m] \subseteq done'
  BY <1>0 DEF OSInv, Ordered
<1> QED BY <1>0, <1>1, <1>4, <1>9, <1>10, <1>11, <1>12, <1>13, GoroutineStep DEF MemberOK

\* A goroutine writes to its agent.
LEMMA AgentStep ==
    ASSUME OSInv, NEW m \in Members, phase = "wave", NEW e \in OSEvents, NEW ok \in BOOLEAN,
           Persist(Agent(m), e, ok), NEW pc \in NodePC, npc' = [npc EXCEPT ![m] = pc],
           \/ npc[m] = "agent" /\ e.st # "completed" /\ pc \in {"start", "err"}
           \/ npc[m] = "markAgent" /\ e.st # "completed" /\ pc = "markNode"
           \/ /\ npc[m] = "agentDone" /\ pc = IF ok THEN "nodeDone" ELSE "err"
              /\ e.st = "completed",
           e.key = <<"status", e.st, e.rev>>,
           hot[Agent(m)].st # "completed",
           UNCHANGED <<ledgerVars, sessionVars, boundVars, phase, step>>
    PROVE  OSInv'
<1>0. UNCHANGED <<res, committed, sessions, done>>
  BY DEF ledgerVars, sessionVars
<1>1. OSTypes'
  <2>1. Agent(m) \in Records
    BY RecordFacts
  <2> QED BY <2>1, AppendTypes, Zenon
<1>2. /\ hot'[Agent(m)] = IF ok THEN e ELSE hot[Agent(m)]
      /\ \/ log'[Agent(m)] = log[Agent(m)] /\ (ok => e.key \in KeysOf(log[Agent(m)]))
         \/ log'[Agent(m)] = Append(log[Agent(m)], e)
      /\ \A x \in Records : x # Agent(m) => log'[x] = log[x] /\ hot'[x] = hot[x]
  <2>1. Agent(m) \in Records /\ OSTypes
    BY RecordFacts DEF OSInv
  <2> QED BY <2>1, PersistLeaves, Zenon
<1>3. /\ log'[Act(m)] = log[Act(m)] /\ hot'[Act(m)] = hot[Act(m)]
      /\ log'[Node(m)] = log[Node(m)] /\ hot'[Node(m)] = hot[Node(m)]
  BY <1>2, RecordFacts
<1>4. \A q \in Members : q # m =>
        /\ log'[Agent(q)] = log[Agent(q)] /\ log'[Act(q)] = log[Act(q)] /\ log'[Node(q)] = log[Node(q)]
        /\ hot'[Agent(q)] = hot[Agent(q)] /\ hot'[Act(q)] = hot[Act(q)] /\ hot'[Node(q)] = hot[Node(q)]
  BY <1>2, RecordFacts
<1>5. npc'[m] = pc
  BY DEF OSInv, OSTypes, OSTypeOK
<1>6. log[Agent(m)] \in Seq(OSEvents)
  BY RecordFacts DEF OSInv, OSTypes
<1>7. MemberOK(m)
  BY DEF OSInv
<1>8. SessionOK(phase, npc[m], sessions[m], log[Act(m)], hot[Act(m)])'
  BY <1>0, <1>3, <1>5, <1>7 DEF MemberOK, SessionOK, Launching, Finishing, Begun
<1>9. NodeOK(phase, npc[m], m \in done, log[Node(m)], hot[Node(m)])'
  BY <1>0, <1>3, <1>5, <1>7 DEF MemberOK, NodeOK, Finishing
<1>10. AgentOK(npc[m], sessions[m], log[Agent(m)], hot[Agent(m)])'
  <2>1. CASE e.st # "completed"
    <3>1. hot'[Agent(m)].st # "completed"
      BY <1>2, <2>1
    <3>2. \A i \in DOMAIN log'[Agent(m)] :
             \/ log'[Agent(m)][i] = e
             \/ \E j \in DOMAIN log[Agent(m)] : log'[Agent(m)][i] = log[Agent(m)][j]
      BY <1>2, <1>6, WroteFacts, SMTT(60)
    <3> QED BY <1>0, <1>5, <1>7, <2>1, <3>1, <3>2 DEF MemberOK, AgentOK
  <2>2. CASE e.st = "completed"
    <3>1. npc[m] = "agentDone" /\ pc \in {"nodeDone", "err"}
      BY <2>2
    <3>2. \A i \in DOMAIN log[Agent(m)] : log[Agent(m)][i].st # "completed"
      BY <1>7, <3>1 DEF MemberOK, AgentOK
    <3>3. ASSUME NEW i \in DOMAIN log[Agent(m)], log[Agent(m)][i].key = e.key PROVE FALSE
      <4>1. log[Agent(m)][i].key = <<"status", log[Agent(m)][i].st, log[Agent(m)][i].rev>>
        BY <1>7, <3>3 DEF MemberOK, AgentOK
      <4> QED BY <2>2, <3>2, <3>3, <4>1
    <3>4. ok => log'[Agent(m)] = Append(log[Agent(m)], e)
      BY <1>2, <3>3 DEF KeysOf
    <3>5. ok => LastOf(log'[Agent(m)]) = e
      <4>1. LastOf(Append(log[Agent(m)], e)) = e
        BY <1>6, AppendedFacts
      <4> QED BY <3>4, <4>1
    <3>6. sessions[m] > 0
      BY <1>7, <3>1 DEF MemberOK, SessionOK, Finishing
    <3>7. \A i \in DOMAIN log'[Agent(m)] :
             \/ log'[Agent(m)][i] = e
             \/ \E j \in DOMAIN log[Agent(m)] : log'[Agent(m)][i] = log[Agent(m)][j]
      BY <1>2, <1>6, WroteFacts, SMTT(60)
    <3> QED BY <1>0, <1>2, <1>5, <1>7, <2>2, <3>1, <3>5, <3>6, <3>7 DEF AgentOK, MemberOK
  <2> QED BY <2>1, <2>2
<1>11. ReservationOK(phase, npc[m], res[m], hot[Act(m)], hot[Node(m)], hot[Agent(m)])'
  BY <1>0, <1>3, <1>5, <1>7 DEF MemberOK, ReservationOK, Launching, Finishing, Begun
<1>12. sessions'[m] > 0 => DependsOn[m] \subseteq done'
  BY <1>0 DEF OSInv, Ordered
<1> QED BY <1>0, <1>1, <1>4, <1>8, <1>9, <1>10, <1>11, <1>12, GoroutineStep DEF MemberOK

\* A goroutine writes to its node.
LEMMA NodeStep ==
    ASSUME OSInv, NEW m \in Members, phase = "wave", NEW e \in OSEvents, NEW ok \in BOOLEAN,
           Persist(Node(m), e, ok), NEW pc \in NodePC, npc' = [npc EXCEPT ![m] = pc],
           \/ /\ npc[m] = "node" /\ e.st = "running" /\ pc = IF ok THEN "engine" ELSE "err"
              /\ DependsOn[m] \subseteq done
           \/ npc[m] = "nodeDone" /\ e.st = "completed" /\ pc = IF ok THEN "settle" ELSE "err"
           \/ npc[m] = "markNode" /\ e.st = "failed" /\ pc \in {"settleBad", "release"},
           e.rev = hot[Node(m)].rev + 1, e.key = <<"update", e.rev>>,
           e.st # "completed" => hot[Node(m)].st # "completed",
           UNCHANGED <<ledgerVars, sessionVars, boundVars, phase, step>>
    PROVE  OSInv'
<1>0. UNCHANGED <<res, committed, sessions, done>>
  BY DEF ledgerVars, sessionVars
<1>1. OSTypes'
  <2>1. Node(m) \in Records
    BY RecordFacts
  <2> QED BY <2>1, AppendTypes, Zenon
<1>2. /\ hot'[Node(m)] = IF ok THEN e ELSE hot[Node(m)]
      /\ \/ log'[Node(m)] = log[Node(m)] /\ (ok => e.key \in KeysOf(log[Node(m)]))
         \/ log'[Node(m)] = Append(log[Node(m)], e)
      /\ \A x \in Records : x # Node(m) => log'[x] = log[x] /\ hot'[x] = hot[x]
  <2>1. Node(m) \in Records /\ OSTypes
    BY RecordFacts DEF OSInv
  <2> QED BY <2>1, PersistLeaves, ZenonT(60)
<1>3. /\ log'[Act(m)] = log[Act(m)] /\ hot'[Act(m)] = hot[Act(m)]
      /\ log'[Agent(m)] = log[Agent(m)] /\ hot'[Agent(m)] = hot[Agent(m)]
  BY <1>2, RecordFacts
<1>4. \A q \in Members : q # m =>
        /\ log'[Agent(q)] = log[Agent(q)] /\ log'[Act(q)] = log[Act(q)] /\ log'[Node(q)] = log[Node(q)]
        /\ hot'[Agent(q)] = hot[Agent(q)] /\ hot'[Act(q)] = hot[Act(q)] /\ hot'[Node(q)] = hot[Node(q)]
  BY <1>2, RecordFacts
<1>5. npc'[m] = pc
  BY DEF OSInv, OSTypes, OSTypeOK
<1>6. /\ log[Node(m)] \in Seq(OSEvents) /\ hot[Node(m)].rev \in Nat /\ e.rev \in Nat
      /\ \A i \in DOMAIN log[Node(m)] : log[Node(m)][i].rev \in Nat
  BY RecordFacts, EventFacts DEF OSInv, OSTypes
<1>7. MemberOK(m)
  BY DEF OSInv
<1>8. SessionOK(phase, npc[m], sessions[m], log[Act(m)], hot[Act(m)])'
  BY <1>0, <1>3, <1>5, <1>7 DEF MemberOK, SessionOK, Launching, Finishing, Begun
<1>9. AgentOK(npc[m], sessions[m], log[Agent(m)], hot[Agent(m)])'
  BY <1>0, <1>3, <1>5, <1>7 DEF MemberOK, AgentOK
<1>10. ReservationOK(phase, npc[m], res[m], hot[Act(m)], hot[Node(m)], hot[Agent(m)])'
  BY <1>0, <1>2, <1>3, <1>5, <1>7 DEF MemberOK, ReservationOK, Launching, Finishing, Begun
<1>11. /\ \A i \in DOMAIN log[Node(m)] : log[Node(m)][i].rev <= e.rev
       /\ npc[m] = "nodeDone" => \A i \in DOMAIN log[Node(m)] : log[Node(m)][i].rev < e.rev
  BY <1>6, <1>7 DEF MemberOK, NodeOK, Opened, Working, Finishing
<1>12. LastOf(Append(log[Node(m)], e)) = e
  BY <1>6, AppendedFacts
<1>13. \/ log'[Node(m)] = log[Node(m)]
       \/ LastOf(log'[Node(m)]) = e /\ \A i \in DOMAIN log'[Node(m)] :
            \/ log'[Node(m)][i] = e
            \/ \E j \in DOMAIN log[Node(m)] : log'[Node(m)][i] = log[Node(m)][j]
  BY <1>2, <1>6, WroteFacts
<1>14. npc[m] = "nodeDone" /\ ok => LastOf(log'[Node(m)]) = e
  <2>1. ASSUME npc[m] = "nodeDone", NEW i \in DOMAIN log[Node(m)], log[Node(m)][i].key = e.key PROVE FALSE
    <3>1. log[Node(m)][i].key = <<"update", log[Node(m)][i].rev>>
      BY <1>7, <2>1 DEF MemberOK, NodeOK
    <3> QED BY <1>6, <1>11, <2>1, <3>1
  <2> QED BY <1>2, <1>12, <2>1 DEF KeysOf
<1>15. m \in done \/ e.st # "completed"
  BY <1>7 DEF MemberOK, NodeOK
<1>16. NodeOK(phase, npc[m], m \in done, log[Node(m)], hot[Node(m)])'
  <2>1. /\ npc'[m] \in {"actDone", "agentDone", "nodeDone", "settle"} => m \in done
        /\ hot'[Node(m)].st = "completed" => m \in done /\ LastOf(log'[Node(m)]).st = "completed"
    <3>1. CASE e.st = "completed"
      <4>1. npc[m] = "nodeDone" /\ m \in done
        BY <1>15, <3>1
      <4>2. CASE ok
        BY <1>14, <3>1, <4>1, <4>2
      <4>3. CASE ~ok
        <5>1. hot'[Node(m)] = hot[Node(m)] /\ (hot[Node(m)].st = "completed" => LastOf(log[Node(m)]).st = "completed")
          BY <1>2, <1>7, <4>3 DEF MemberOK, NodeOK
        <5> QED BY <1>13, <3>1, <4>1, <5>1
      <4> QED BY <4>2, <4>3
    <3>2. CASE e.st # "completed"
      BY <1>2, <1>5, <3>2
    <3> QED BY <3>1, <3>2
  <2>2. ASSUME NEW i \in DOMAIN log'[Node(m)]
        PROVE  /\ log'[Node(m)][i].st = "completed" => m \in done
               /\ log'[Node(m)][i].rev <= LastOf(log'[Node(m)]).rev
               /\ log'[Node(m)][i].key[1] = "update" =>
                     log'[Node(m)][i].key = <<"update", log'[Node(m)][i].rev>>
               /\ log'[Node(m)][i].rev <= hot'[Node(m)].rev + 1
               /\ ok => log'[Node(m)][i].rev <= hot'[Node(m)].rev
    <3>1. CASE log'[Node(m)] = log[Node(m)]
      <4>1. i \in DOMAIN log[Node(m)] /\ log'[Node(m)][i] = log[Node(m)][i]
        BY <3>1
      <4> QED BY <1>2, <1>6, <1>7, <1>11, <3>1, <4>1 DEF MemberOK, NodeOK, Opened, Working
    <3>2. CASE log'[Node(m)][i] = e /\ LastOf(log'[Node(m)]) = e
      BY <1>2, <1>6, <1>15, <3>2
    <3>3. CASE LastOf(log'[Node(m)]) = e /\ \E j \in DOMAIN log[Node(m)] : log'[Node(m)][i] = log[Node(m)][j]
      <4>1. PICK j \in DOMAIN log[Node(m)] : log'[Node(m)][i] = log[Node(m)][j]
        BY <3>3
      <4>2. /\ log[Node(m)][j].st = "completed" => m \in done
            /\ log[Node(m)][j].key[1] = "update" => log[Node(m)][j].key = <<"update", log[Node(m)][j].rev>>
        BY <1>7 DEF MemberOK, NodeOK
      <4> QED BY <1>2, <1>6, <1>11, <3>3, <4>1, <4>2
    <3> QED BY <1>13, <2>2, <3>1, <3>2, <3>3
  <2>3. npc'[m] \in {"engine"} \cup Finishing => ok
    BY <1>5 DEF Finishing
  <2> QED BY <1>0, <2>1, <2>2, <2>3 DEF NodeOK
<1>17. pc = "engine" \/ sessions'[m] > 0 => DependsOn[m] \subseteq done'
  BY <1>0 DEF OSInv, Ordered
<1> QED BY <1>0, <1>1, <1>4, <1>8, <1>9, <1>10, <1>16, <1>17, GoroutineStep DEF MemberOK

\* A goroutine goes on without an append.
LEMMA QuietStep ==
    ASSUME OSInv, NEW m \in Members, phase = "wave", NEW pc \in NodePC, npc' = [npc EXCEPT ![m] = pc],
           UNCHANGED <<log, torn, hot, osFaults, crashes, executions, phase, step>>, committed' \in Nat,
           \/ /\ UNCHANGED <<sessions, done, res>>
              /\ \/ npc[m] \in {"agent", "start"} /\ pc \in {"start", "err"}
                 \/ npc[m] \in {"check", "node", "agentDone", "nodeDone"} /\ pc = "err"
                 \/ npc[m] = "check" /\ pc = "node"
                 \/ npc[m] \in {"engine", "wait"} /\ pc = "markAct"
                 \/ npc[m] \in {"markAct", "markAgent", "markNode"}
                    /\ pc \in {"markAgent", "markNode", "settleBad", "release"}
           \/ /\ npc[m] = "engine" /\ pc = "wait"
              /\ sessions' = [sessions EXCEPT ![m] = @ + 1] /\ UNCHANGED <<done, res>>
           \/ npc[m] = "wait" /\ pc = "actDone" /\ done' = done \cup {m} /\ UNCHANGED <<sessions, res>>
           \/ /\ npc[m] \in {"settle", "settleBad"} /\ pc \in {"ok", "err"}
              /\ res' = [res EXCEPT ![m] = IF @ = "open" THEN "settled" ELSE @] /\ UNCHANGED <<sessions, done>>
           \/ /\ npc[m] = "release" /\ pc = "err"
              /\ res' = [res EXCEPT ![m] = IF @ = "open" THEN "released" ELSE @] /\ UNCHANGED <<sessions, done>>
    PROVE  OSInv'
<1>0. /\ npc \in [Members -> NodePC] /\ sessions \in [Members -> Nat] /\ done \subseteq Members
      /\ res \in [Members -> {"none", "open", "settled", "released"}]
  BY DEF OSInv, OSTypes, OSTypeOK
<1>1. /\ npc'[m] = pc /\ npc' \in [Members -> NodePC] /\ done' \subseteq Members
      /\ sessions' \in [Members -> Nat] /\ res' \in [Members -> {"none", "open", "settled", "released"}]
      /\ sessions'[m] = IF pc = "wait" THEN sessions[m] + 1 ELSE sessions[m]
      /\ done \subseteq done' /\ (pc = "actDone" => m \in done')
  BY <1>0
<1>2. OSTypes'
  BY <1>1 DEF OSInv, OSTypes, OSTypeOK
<1>3. \A q \in Members : q # m =>
        sessions'[q] = sessions[q] /\ res'[q] = res[q] /\ (q \in done' <=> q \in done)
  BY <1>0
<1>4. MemberOK(m)
  BY DEF OSInv
<1>5. SessionOK(phase, npc[m], sessions[m], log[Act(m)], hot[Act(m)])'
  BY <1>0, <1>1, <1>4 DEF MemberOK, SessionOK, Launching, Finishing, Begun
<1>6. NodeOK(phase, npc[m], m \in done, log[Node(m)], hot[Node(m)])'
  BY <1>1, <1>4 DEF MemberOK, NodeOK, Finishing
<1>7. AgentOK(npc[m], sessions[m], log[Agent(m)], hot[Agent(m)])'
  BY <1>0, <1>1, <1>4 DEF MemberOK, AgentOK, SessionOK, Launching
<1>8. ReservationOK(phase, npc[m], res[m], hot[Act(m)], hot[Node(m)], hot[Agent(m)])'
  BY <1>0, <1>1, <1>4 DEF MemberOK, ReservationOK, SessionOK, Launching, Finishing, Begun, Working
<1>9. pc = "engine" \/ sessions'[m] > 0 => DependsOn[m] \subseteq done'
  BY <1>0, <1>1 DEF OSInv, Ordered
<1> QED BY <1>1, <1>2, <1>3, <1>5, <1>6, <1>7, <1>8, <1>9, GoroutineStep DEF MemberOK

LEMMA EventsMade ==
    ASSUME OSTypes, NEW m \in Members, NEW st \in OSStatuses
    PROVE  /\ AgentMoves(m, st) \in OSEvents /\ AgentMoves(m, st).st = st
           /\ AgentMoves(m, st).key = <<"status", st, AgentMoves(m, st).rev>>
           /\ \A r \in {Act(m), Node(m)} :
                 /\ RecordMoves(r, st) \in OSEvents /\ RecordMoves(r, st).st = st
                 /\ RecordMoves(r, st).rev = hot[r].rev + 1
                 /\ RecordMoves(r, st).key = <<"update", RecordMoves(r, st).rev>>
<1>1. hot[Agent(m)].rev \in Nat /\ hot[Act(m)].rev \in Nat /\ hot[Node(m)].rev \in Nat
  BY RecordFacts DEF OSTypes, OSTypeOK
<1>2. <<"status", st, hot[Agent(m)].rev + 1>> \in OSKeys
  BY <1>1 DEF OSKeys
<1>3. \A n \in Nat : <<"update", n + 1>> \in OSKeys
  BY DEF OSKeys
<1>4. AgentMoves(m, st) \in OSEvents
  BY <1>1, <1>2 DEF AgentMoves, OSEvents
<1>5. \A r \in {Act(m), Node(m)} : RecordMoves(r, st) \in OSEvents
  BY <1>1, <1>3 DEF RecordMoves, OSEvents
<1> QED BY <1>4, <1>5 DEF AgentMoves, RecordMoves

LEMMA CreatedFacts ==
    ASSUME NEW r, NEW st \in OSStatuses, NEW op \in {"plan", "register", "spawn", "add", "start"}
    PROVE  /\ Created(r, st, op) \in OSEvents /\ Created(r, st, op).st = st /\ Created(r, st, op).rev = 1
           /\ Created(r, st, op).key = <<op>>
  BY DEF Created, OSEvents, OSKeys

\* Every step of executePreparedNode.
LEMMA GoroutineKeeps ==
    ASSUME OSInv, NEW m \in Members, Goroutine(m)
    PROVE  OSInv'
<1>0. /\ npc[m] # "off" /\ OSTypes /\ MemberOK(m) /\ committed \in Nat
      /\ {"start", "err", "running", "check", "node", "engine", "wait", "markAct", "actDone", "agentDone",
          "nodeDone", "settle", "markAgent", "markNode", "settleBad", "release", "ok"} \subseteq NodePC
      /\ {"active", "starting", "running", "completed", "failed"} \subseteq OSStatuses
  BY DEF OSInv, OSTypes, OSTypeOK, NodePC, OSStatuses, Goroutine, NodeAgent, NodeStart, NodeRunning,
         NodeCheck, NodeNode, EngineStart, EngineWait, NodeActDone, NodeAgentDone, NodeDone, MarkFailure,
         Mark, Settle, Release
<1>1. phase = "wave"
  BY <1>0 DEF MemberOK, SessionOK
<1> USE DEF Goes
<1>2. ASSUME UNCHANGED logVars, OnlyLog
      PROVE  UNCHANGED <<log, torn, hot, osFaults, crashes, executions, phase, step, sessions, done, res, committed>>
  BY <1>2 DEF logVars, OnlyLog, ledgerVars, sessionVars, boundVars
<1>3. OnlyLog => UNCHANGED <<ledgerVars, sessionVars, boundVars, phase, step>>
  BY DEF OnlyLog
<1>4. CASE NodeAgent(m)
  <2>0. npc[m] = "agent" /\ OnlyLog
    BY <1>4 DEF NodeAgent
  <2>1. CASE UNCHANGED logVars
    <3>1. npc' = [npc EXCEPT ![m] = "start"] \/ npc' = [npc EXCEPT ![m] = "err"]
      BY <1>4, <2>1 DEF NodeAgent, MovesTo
    <3> QED BY <1>0, <1>1, <1>2, <2>0, <2>1, <3>1, QuietStep
  <2>2. CASE Status(Agent(m)) = "created" /\ MovesTo(m, Agent(m), AgentMoves(m, "active"), "start")
    <3>1. PICK ok \in BOOLEAN : /\ Persist(Agent(m), AgentMoves(m, "active"), ok)
                                /\ npc' = [npc EXCEPT ![m] = IF ok THEN "start" ELSE "err"]
      BY <2>2 DEF MovesTo
    <3>2. PICK pc \in NodePC : pc = (IF ok THEN "start" ELSE "err")
      BY <1>0
    <3>3. PICK e \in OSEvents : /\ e = AgentMoves(m, "active") /\ e.st = "active"
                                /\ e.key = <<"status", e.st, e.rev>>
      BY <1>0, EventsMade
    <3>4. hot[Agent(m)].st # "completed" /\ Persist(Agent(m), e, ok) /\ npc' = [npc EXCEPT ![m] = pc]
      BY <2>2, <3>1, <3>2, <3>3 DEF Status
    <3> QED BY <1>1, <1>3, <2>0, <3>2, <3>3, <3>4, AgentStep, ZenonT(60)
  <2> QED BY <1>4, <2>1, <2>2 DEF NodeAgent
<1>5. CASE NodeStart(m)
  <2>0. npc[m] = "start" /\ OnlyLog
    BY <1>5 DEF NodeStart
  <2>1. CASE npc' = [npc EXCEPT ![m] = "err"] /\ UNCHANGED logVars
    BY <1>0, <1>1, <1>2, <2>0, <2>1, QuietStep
  <2>2. CASE Status(Act(m)) = "none" /\ MovesTo(m, Act(m), Created(Act(m), "starting", "start"), "running")
    <3>1. PICK ok \in BOOLEAN : /\ Persist(Act(m), Created(Act(m), "starting", "start"), ok)
                                /\ npc' = [npc EXCEPT ![m] = IF ok THEN "running" ELSE "err"]
      BY <2>2 DEF MovesTo
    <3>2. PICK pc \in NodePC : pc = (IF ok THEN "running" ELSE "err")
      BY <1>0
    <3>3. PICK e \in OSEvents : e = Created(Act(m), "starting", "start")
      BY <1>0, CreatedFacts
    <3>4. hot[Act(m)].st = "none" /\ Persist(Act(m), e, ok) /\ npc' = [npc EXCEPT ![m] = pc]
      BY <2>2, <3>1, <3>2, <3>3 DEF Status
    <3> QED BY <1>1, <1>3, <2>0, <3>2, <3>3, <3>4, ActStep
  <2> QED BY <1>5, <2>1, <2>2 DEF NodeStart
<1>6. CASE NodeRunning(m)
  <2>0. npc[m] = "running" /\ OnlyLog
    BY <1>6 DEF NodeRunning
  <2>1. PICK ok \in BOOLEAN : /\ Persist(Act(m), RecordMoves(Act(m), "running"), ok)
                              /\ npc' = [npc EXCEPT ![m] = IF ok THEN "check" ELSE "err"]
    BY <1>6 DEF NodeRunning, MovesTo
  <2>2. PICK pc \in NodePC : pc = (IF ok THEN "check" ELSE "err")
    BY <1>0
  <2>3. PICK e \in OSEvents : e = RecordMoves(Act(m), "running")
    BY <1>0, EventsMade
  <2>4. Persist(Act(m), e, ok) /\ npc' = [npc EXCEPT ![m] = pc]
    BY <2>1, <2>2, <2>3
  <2> QED BY <1>1, <1>3, <2>0, <2>2, <2>3, <2>4, ActStep
<1>7. CASE NodeCheck(m)
  <2>1. /\ npc[m] = "check" /\ OnlyLog /\ UNCHANGED logVars
        /\ npc' = [npc EXCEPT ![m] = "node"] \/ npc' = [npc EXCEPT ![m] = "err"]
    BY <1>7 DEF NodeCheck
  <2> QED BY <1>0, <1>1, <1>2, <2>1, QuietStep
<1>8. CASE NodeNode(m)
  <2>0. npc[m] = "node" /\ OnlyLog
    BY <1>8 DEF NodeNode
  <2>1. CASE npc' = [npc EXCEPT ![m] = "err"] /\ UNCHANGED logVars
    BY <1>0, <1>1, <1>2, <2>0, <2>1, QuietStep
  <2>2. CASE Unblocked(m) /\ NodeMay(m, "running") /\ MovesTo(m, Node(m), RecordMoves(Node(m), "running"), "engine")
    <3>1. PICK ok \in BOOLEAN : /\ Persist(Node(m), RecordMoves(Node(m), "running"), ok)
                                /\ npc' = [npc EXCEPT ![m] = IF ok THEN "engine" ELSE "err"]
      BY <2>2 DEF MovesTo
    <3>2. PICK pc \in NodePC : pc = (IF ok THEN "engine" ELSE "err")
      BY <1>0
    <3>3. PICK e \in OSEvents : /\ e = RecordMoves(Node(m), "running") /\ e.st = "running"
                                /\ e.rev = hot[Node(m)].rev + 1 /\ e.key = <<"update", e.rev>>
      BY <1>0, EventsMade
    <3>4. hot[Node(m)].st # "completed" /\ Persist(Node(m), e, ok) /\ npc' = [npc EXCEPT ![m] = pc]
      BY <2>2, <3>1, <3>2, <3>3 DEF Status, NodeMay
    <3>5. DependsOn[m] \subseteq done
      <4>1. SUFFICES ASSUME NEW d \in DependsOn[m] PROVE d \in done
        OBVIOUS
      <4>2. d \in Members /\ hot[Node(d)].st = "completed"
        BY <2>2, AgentOSAssumption DEF Unblocked, Status
      <4>3. MemberOK(d)
        BY <4>2 DEF OSInv
      <4> QED BY <4>2, <4>3 DEF MemberOK, NodeOK
    <3> QED BY <1>1, <1>3, <2>0, <3>2, <3>3, <3>4, <3>5, NodeStep
  <2> QED BY <1>8, <2>1, <2>2 DEF NodeNode
<1>9. ASSUME NEW ok \in BOOLEAN, EngineStart(m, ok) PROVE OSInv'
  <2>1. /\ npc[m] = "engine" /\ UNCHANGED <<log, torn, hot, osFaults, crashes, executions, phase, step, done, res, committed>>
        /\ \/ npc' = [npc EXCEPT ![m] = "wait"] /\ sessions' = [sessions EXCEPT ![m] = @ + 1]
           \/ npc' = [npc EXCEPT ![m] = "markAct"] /\ UNCHANGED sessions
    BY <1>9 DEF EngineStart, logVars, ledgerVars, boundVars
  <2> QED BY <1>0, <1>1, <2>1, QuietStep
<1>10. ASSUME NEW ok \in BOOLEAN, EngineWait(m, ok) PROVE OSInv'
  <2>1. /\ npc[m] = "wait" /\ UNCHANGED <<log, torn, hot, osFaults, crashes, executions, phase, step, sessions, res, committed>>
        /\ \/ npc' = [npc EXCEPT ![m] = "actDone"] /\ done' = done \cup {m}
           \/ npc' = [npc EXCEPT ![m] = "markAct"] /\ UNCHANGED done
    BY <1>10 DEF EngineWait, logVars, ledgerVars, boundVars
  <2> QED BY <1>0, <1>1, <2>1, QuietStep
<1>11. CASE NodeActDone(m)
  <2>1. PICK ok \in BOOLEAN : Persist(Act(m), RecordMoves(Act(m), "completed"), ok)
    BY <1>11 DEF NodeActDone
  <2>2. npc[m] = "actDone" /\ OnlyLog /\ npc' = [npc EXCEPT ![m] = "agentDone"]
    BY <1>11 DEF NodeActDone
  <2>3. PICK e \in OSEvents : e = RecordMoves(Act(m), "completed")
    BY <1>0, EventsMade
  <2>4. Persist(Act(m), e, ok) /\ "agentDone" \in NodePC
    BY <1>0, <2>1, <2>3
  <2> QED BY <1>1, <1>3, <2>2, <2>4, ActStep
<1>12. CASE NodeAgentDone(m)
  <2>0. npc[m] = "agentDone" /\ OnlyLog
    BY <1>12 DEF NodeAgentDone
  <2>1. CASE npc' = [npc EXCEPT ![m] = "err"] /\ UNCHANGED logVars
    BY <1>0, <1>1, <1>2, <2>0, <2>1, QuietStep
  <2>2. CASE MovesTo(m, Agent(m), AgentMoves(m, "completed"), "nodeDone")
    <3>1. PICK ok \in BOOLEAN : /\ Persist(Agent(m), AgentMoves(m, "completed"), ok)
                                /\ npc' = [npc EXCEPT ![m] = IF ok THEN "nodeDone" ELSE "err"]
      BY <2>2 DEF MovesTo
    <3>2. PICK pc \in NodePC : pc = (IF ok THEN "nodeDone" ELSE "err")
      BY <1>0
    <3>3. PICK e \in OSEvents : /\ e = AgentMoves(m, "completed") /\ e.st = "completed"
                                /\ e.key = <<"status", e.st, e.rev>>
      BY <1>0, EventsMade
    <3>4. Persist(Agent(m), e, ok) /\ npc' = [npc EXCEPT ![m] = pc]
      BY <3>1, <3>2, <3>3
    <3>5. hot[Agent(m)].st # "completed"
      <4>1. log[Agent(m)] \in Seq(OSEvents)
        BY <1>0, RecordFacts DEF OSTypes
      <4>2. \A i \in DOMAIN log[Agent(m)] : log[Agent(m)][i].st # "completed"
        BY <1>0, <2>0 DEF MemberOK, AgentOK
      <4>3. LastOf(log[Agent(m)]).st # "completed"
        BY <4>1, <4>2, LastFacts, EventFacts
      <4> QED BY <1>0, <4>3 DEF MemberOK, AgentOK
    <3> QED BY <1>1, <1>3, <2>0, <3>2, <3>3, <3>4, <3>5, AgentStep
  <2> QED BY <1>12, <2>1, <2>2 DEF NodeAgentDone
<1>13. CASE NodeDone(m)
  <2>0. npc[m] = "nodeDone" /\ OnlyLog
    BY <1>13 DEF NodeDone
  <2>1. CASE npc' = [npc EXCEPT ![m] = "err"] /\ UNCHANGED logVars
    BY <1>0, <1>1, <1>2, <2>0, <2>1, QuietStep
  <2>2. CASE MovesTo(m, Node(m), RecordMoves(Node(m), "completed"), "settle")
    <3>1. PICK ok \in BOOLEAN : /\ Persist(Node(m), RecordMoves(Node(m), "completed"), ok)
                                /\ npc' = [npc EXCEPT ![m] = IF ok THEN "settle" ELSE "err"]
      BY <2>2 DEF MovesTo
    <3>2. PICK pc \in NodePC : pc = (IF ok THEN "settle" ELSE "err")
      BY <1>0
    <3>3. PICK e \in OSEvents : /\ e = RecordMoves(Node(m), "completed") /\ e.st = "completed"
                                /\ e.rev = hot[Node(m)].rev + 1 /\ e.key = <<"update", e.rev>>
      BY <1>0, EventsMade
    <3>4. Persist(Node(m), e, ok) /\ npc' = [npc EXCEPT ![m] = pc]
      BY <3>1, <3>2, <3>3
    <3> QED BY <1>1, <1>3, <2>0, <3>2, <3>3, <3>4, NodeStep
  <2> QED BY <1>13, <2>1, <2>2 DEF NodeDone
<1>14. CASE MarkFailure(m)
  <2>0. OnlyLog
    BY <1>14 DEF MarkFailure, Mark
  <2>1. CASE Mark(m, "markAct", Act(m), RecordMoves(Act(m), "failed"), ActMay(m, "failed"), "markAgent")
    <3>1. npc[m] = "markAct" /\ npc' = [npc EXCEPT ![m] = "markAgent"]
      BY <2>1 DEF Mark
    <3>2. CASE UNCHANGED logVars
      BY <1>0, <1>1, <1>2, <2>0, <3>1, <3>2, QuietStep
    <3>3. CASE \E ok \in BOOLEAN : Persist(Act(m), RecordMoves(Act(m), "failed"), ok)
      <4>1. PICK ok \in BOOLEAN, e \in OSEvents : Persist(Act(m), e, ok)
        BY <1>0, <3>3, EventsMade
      <4>2. "markAgent" \in NodePC
        BY <1>0
      <4> QED BY <1>1, <1>3, <2>0, <3>1, <4>1, <4>2, ActStep
    <3> QED BY <2>1, <3>2, <3>3 DEF Mark
  <2>2. CASE Mark(m, "markAgent", Agent(m), AgentMoves(m, "failed"),
                  AgentMay(m, "failed") /\ Status(Agent(m)) # "failed", "markNode")
    <3>1. npc[m] = "markAgent" /\ npc' = [npc EXCEPT ![m] = "markNode"]
      BY <2>2 DEF Mark
    <3>2. CASE UNCHANGED logVars
      BY <1>0, <1>1, <1>2, <2>0, <3>1, <3>2, QuietStep
    <3>3. CASE /\ \E ok \in BOOLEAN : Persist(Agent(m), AgentMoves(m, "failed"), ok)
               /\ AgentMay(m, "failed") /\ Status(Agent(m)) # "failed"
      <4>1. PICK ok \in BOOLEAN, e \in OSEvents : /\ Persist(Agent(m), e, ok) /\ e.st = "failed"
                                                  /\ e.key = <<"status", e.st, e.rev>>
        BY <1>0, <3>3, EventsMade
      <4>2. "markNode" \in NodePC /\ hot[Agent(m)].st # "completed"
        BY <1>0, <3>3 DEF AgentMay, Status
      <4> QED BY <1>1, <1>3, <2>0, <3>1, <4>1, <4>2, AgentStep
    <3> QED BY <2>2, <3>2, <3>3 DEF Mark
  <2>3. CASE Mark(m, "markNode", Node(m), RecordMoves(Node(m), "failed"),
                  NodeMay(m, "failed") /\ Status(Node(m)) # "failed",
                  IF sessions[m] > 0 THEN "settleBad" ELSE "release")
    <3>1. PICK pc \in {"settleBad", "release"} : npc[m] = "markNode" /\ npc' = [npc EXCEPT ![m] = pc]
      BY <2>3 DEF Mark
    <3>2. CASE UNCHANGED logVars
      BY <1>0, <1>1, <1>2, <2>0, <3>1, <3>2, QuietStep
    <3>3. CASE /\ \E ok \in BOOLEAN : Persist(Node(m), RecordMoves(Node(m), "failed"), ok)
               /\ NodeMay(m, "failed") /\ Status(Node(m)) # "failed"
      <4>1. PICK ok \in BOOLEAN, e \in OSEvents : /\ Persist(Node(m), e, ok) /\ e.st = "failed"
                                                  /\ e.rev = hot[Node(m)].rev + 1 /\ e.key = <<"update", e.rev>>
        BY <1>0, <3>3, EventsMade
      <4>2. pc \in NodePC /\ hot[Node(m)].st # "completed"
        BY <1>0, <3>3 DEF NodeMay, Status
      <4> QED BY <1>1, <1>3, <2>0, <3>1, <4>1, <4>2, NodeStep
    <3> QED BY <2>3, <3>2, <3>3 DEF Mark
  <2> QED BY <1>14, <2>1, <2>2, <2>3 DEF MarkFailure
<1>15. ASSUME NEW a \in Actuals, Settle(m, a) PROVE OSInv'
  <2>1. /\ npc[m] \in {"settle", "settleBad"}
        /\ UNCHANGED <<log, torn, hot, osFaults, crashes, executions, phase, step, sessions, done>>
        /\ res' = [res EXCEPT ![m] = IF @ = "open" THEN "settled" ELSE @]
        /\ committed' \in {committed + a, committed}
        /\ npc' = [npc EXCEPT ![m] = "ok"] \/ npc' = [npc EXCEPT ![m] = "err"]
    BY <1>15 DEF Settle, logVars, sessionVars, boundVars
  <2>2. committed' \in Nat
    BY <1>0, <2>1, AgentOSAssumption
  <2> QED BY <1>0, <1>1, <2>1, <2>2, QuietStep
<1>16. CASE Release(m)
  <2>1. /\ npc[m] = "release"
        /\ UNCHANGED <<log, torn, hot, osFaults, crashes, executions, phase, step, sessions, done, committed>>
        /\ res' = [res EXCEPT ![m] = IF @ = "open" THEN "released" ELSE @]
        /\ npc' = [npc EXCEPT ![m] = "err"]
    BY <1>16 DEF Release, logVars, sessionVars, boundVars
  <2> QED BY <1>0, <1>1, <2>1, QuietStep
<1> QED BY <1>4, <1>5, <1>6, <1>7, <1>8, <1>9, <1>10, <1>11, <1>12, <1>13, <1>14, <1>15, <1>16 DEF Goroutine

\* The goroutines run only in a wave.
LEMMA WaveOnly ==
    ASSUME OSInv, phase # "wave", NEW m \in Members
    PROVE  npc[m] = "off"
<1>1. MemberOK(m)
  BY DEF OSInv
<1> QED BY <1>1 DEF MemberOK, SessionOK

\* The execution goes from one phase to another while no goroutine runs.
LEMMA WorkPhases ==
    ASSUME OSInv, phase \in Working, phase' \in Working, OSTypes',
           \A m \in Members :
              /\ npc[m] \in {"off", "ok", "err"} /\ npc'[m] \in {"off", "agent"}
              /\ npc'[m] # "off" => phase' = "wave"
              /\ phase' = "completed" => hot[Node(m)].st = "completed" /\ hot[Agent(m)].st = "completed"
              /\ log'[Agent(m)] = log[Agent(m)] /\ log'[Act(m)] = log[Act(m)] /\ log'[Node(m)] = log[Node(m)]
              /\ hot'[Agent(m)] = hot[Agent(m)] /\ hot'[Act(m)] = hot[Act(m)] /\ hot'[Node(m)] = hot[Node(m)],
           UNCHANGED <<res, sessions, done>>
    PROVE  OSInv'
<1>1. ASSUME NEW m \in Members PROVE MemberOK(m)'
  <2>0. MemberOK(m)
    BY DEF OSInv
  <2>1. SessionOK(phase, npc[m], sessions[m], log[Act(m)], hot[Act(m)])'
    BY <2>0 DEF MemberOK, SessionOK, Opened, Launching, Finishing, Begun
  <2>2. NodeOK(phase, npc[m], m \in done, log[Node(m)], hot[Node(m)])'
    BY <2>0 DEF MemberOK, NodeOK, Opened, Finishing
  <2>3. AgentOK(npc[m], sessions[m], log[Agent(m)], hot[Agent(m)])'
    BY <2>0 DEF MemberOK, AgentOK
  <2>4. ReservationOK(phase, npc[m], res[m], hot[Act(m)], hot[Node(m)], hot[Agent(m)])'
    BY <2>0 DEF MemberOK, ReservationOK, Launching, Finishing, Begun, Working
  <2> QED BY <2>1, <2>2, <2>3, <2>4 DEF MemberOK
<1>2. Ordered'
  BY DEF OSInv, Ordered
<1>3. Prepared'
  BY DEF Prepared, Working
<1> QED BY <1>1, <1>2, <1>3 DEF OSInv

LEMMA WaveKeeps ==
    ASSUME OSInv, Execute \/ WaveEnd
    PROVE  OSInv'
<1>0. /\ npc \in [Members -> NodePC] /\ {"off", "agent"} \subseteq NodePC
      /\ executions \in 0..MaxExecutions /\ MaxExecutions \in Nat
  BY AgentOSAssumption DEF OSInv, OSTypes, OSTypeOK, NodePC
<1>1. /\ UNCHANGED <<log, torn, hot, osFaults, res, committed, sessions, done, crashes, step>>
      /\ executions' \in 0..MaxExecutions
  BY <1>0 DEF Execute, WaveEnd, logVars, ledgerVars, sessionVars, boundVars
<1>2. phase \in Working /\ \A m \in Members : npc[m] \in {"off", "ok", "err"}
  BY WaveOnly DEF Execute, WaveEnd, Working
<1>3. /\ phase' \in {"wave", "verify", "stopped"} /\ npc' \in [Members -> {"off", "agent"}]
      /\ \A m \in Members : npc'[m] # "off" => phase' = "wave"
  <2>1. CASE LookForWork
    <3>1. CASE Runnable # {}
      BY <2>1, <3>1 DEF LookForWork
    <3>2. CASE Runnable = {}
      BY <2>1, <3>2 DEF LookForWork
    <3> QED BY <3>1, <3>2
  <2>2. CASE phase' = "stopped" /\ npc' = [m \in Members |-> "off"]
    BY <2>2
  <2> QED BY <2>1, <2>2 DEF Execute, WaveEnd
<1>4. OSTypes'
  BY <1>0, <1>1, <1>3 DEF OSInv, OSTypes, OSTypeOK, Phases, NodePC
<1>5. \A m \in Members : npc'[m] \in {"off", "agent"}
  BY <1>3
<1> QED BY <1>1, <1>2, <1>3, <1>4, <1>5, WorkPhases DEF Working

LEMMA GateKeeps ==
    ASSUME OSInv, (\E result \in {"passed", "failed", "none", "error"} : Verified(result)) \/ Finalize
    PROVE  OSInv'
<1>0. phase \in {"verify", "finalize"} /\ UNCHANGED <<res, committed, sessions, done, crashes, executions, step, npc>>
  BY DEF Verified, Finalize, ledgerVars, sessionVars, boundVars
<1>1. \A m \in Members : npc[m] = "off" /\ npc'[m] = "off"
  BY <1>0, WaveOnly
<1>2. ASSUME UNCHANGED logVars, phase' \in {"stopped", "finalize", "completed"},
             phase' = "completed" => \A m \in Members :
                hot[Node(m)].st = "completed" /\ hot[Agent(m)].st = "completed"
      PROVE  OSInv'
  <2>1. UNCHANGED <<log, torn, hot, osFaults>>
    BY <1>2 DEF logVars
  <2>2. OSTypes'
    BY <1>0, <1>2, <2>1 DEF OSInv, OSTypes, OSTypeOK, Phases
  <2> QED BY <1>0, <1>1, <1>2, <2>1, <2>2, WorkPhases DEF Working
<1>3. CASE Finalize
  BY <1>2, <1>3 DEF Finalize, Status
<1>4. ASSUME NEW result \in {"passed", "failed", "none", "error"}, Verified(result) PROVE OSInv'
  <2>1. CASE UNCHANGED logVars /\ phase' \in {"stopped", "finalize"}
    BY <1>2, <2>1
  <2>2. ASSUME NEW ok \in BOOLEAN, result \in {"passed", "failed"}, phase' \in {"finalize", "stopped"},
               Persist(Gate, [st |-> result, rev |-> hot[Gate].rev + 1,
                              key |-> <<"result", hot[Gate].rev + 1>>], ok)
        PROVE  OSInv'
    <3>1. Gate \in Records /\ hot[Gate].rev \in Nat /\ OSTypes
      BY RecordFacts DEF OSInv, OSTypes, OSTypeOK
    <3>2. <<"result", hot[Gate].rev + 1>> \in OSKeys
      BY <3>1 DEF OSKeys
    <3>3. PICK e \in OSEvents : e = [st |-> result, rev |-> hot[Gate].rev + 1,
                                    key |-> <<"result", hot[Gate].rev + 1>>]
      BY <2>2, <3>1, <3>2 DEF OSEvents, OSStatuses
    <3>4. Persist(Gate, e, ok)
      BY <2>2, <3>3
    <3>5. /\ log' \in [Records -> Seq(OSEvents)] /\ hot' \in [Records -> OSEvents \cup {NoEvent}]
          /\ torn' \in BOOLEAN /\ osFaults' \in 0..MaxFaults
          /\ \A x \in Records : x # Gate => log'[x] = log[x] /\ hot'[x] = hot[x]
      BY <3>1, <3>4, PersistLeaves, Zenon
    <3>6. \A x \in Records : hot'[x].rev \in Nat
      BY <3>5, EventFacts
    <3>7. OSTypes'
      BY <1>0, <2>2, <3>5, <3>6 DEF OSInv, OSTypes, OSTypeOK, Phases
    <3>8. \A m \in Members :
            /\ log'[Agent(m)] = log[Agent(m)] /\ log'[Act(m)] = log[Act(m)] /\ log'[Node(m)] = log[Node(m)]
            /\ hot'[Agent(m)] = hot[Agent(m)] /\ hot'[Act(m)] = hot[Act(m)] /\ hot'[Node(m)] = hot[Node(m)]
      BY <3>5, RecordFacts
    <3> QED BY <1>0, <1>1, <2>2, <3>7, <3>8, WorkPhases DEF Working
  <2>3. \/ UNCHANGED logVars /\ phase' \in {"stopped", "finalize"}
        \/ /\ result \in {"passed", "failed"}
           /\ \E ok \in BOOLEAN :
                /\ Persist(Gate, [st |-> result, rev |-> hot[Gate].rev + 1,
                                  key |-> <<"result", hot[Gate].rev + 1>>], ok)
                /\ phase' \in {"finalize", "stopped"}
    BY <1>4 DEF Verified
  <2> QED BY <2>1, <2>2, <2>3
<1> QED BY <1>3, <1>4

\* PrepareAgentOS before the runtime is opened, or after it gave up: what the
\* log and the runtime hold of the members stays as it is.
LEMMA ClosedPhases ==
    ASSUME OSInv, phase # "wave", phase' \in {"reserved", "refused"}, OSTypes',
           phase' = "reserved" => \A m \in Members : res'[m] = "open",
           \A m \in Members :
              /\ log'[Agent(m)] = log[Agent(m)] /\ log'[Act(m)] = log[Act(m)] /\ log'[Node(m)] = log[Node(m)]
              /\ hot'[Agent(m)] = hot[Agent(m)] /\ hot'[Act(m)] = hot[Act(m)] /\ hot'[Node(m)] = hot[Node(m)],
           UNCHANGED <<npc, sessions, done>>
    PROVE  OSInv'
<1>1. ASSUME NEW m \in Members PROVE MemberOK(m)'
  <2>0. MemberOK(m) /\ npc[m] = "off"
    BY WaveOnly DEF OSInv
  <2>1. SessionOK(phase, npc[m], sessions[m], log[Act(m)], hot[Act(m)])'
    BY <2>0 DEF MemberOK, SessionOK, Opened, Working
  <2>2. NodeOK(phase, npc[m], m \in done, log[Node(m)], hot[Node(m)])'
    BY <2>0 DEF MemberOK, NodeOK, Opened, Working
  <2>3. AgentOK(npc[m], sessions[m], log[Agent(m)], hot[Agent(m)])'
    BY <2>0 DEF MemberOK, AgentOK
  <2>4. ReservationOK(phase, npc[m], res[m], hot[Act(m)], hot[Node(m)], hot[Agent(m)])'
    BY <2>0 DEF ReservationOK, Working
  <2> QED BY <2>1, <2>2, <2>3, <2>4 DEF MemberOK
<1>2. Ordered'
  BY DEF OSInv, Ordered
<1>3. Prepared'
  BY DEF Prepared
<1> QED BY <1>1, <1>2, <1>3 DEF OSInv

LEMMA ReleaseTypes ==
    ASSUME OSTypes
    PROVE  ReleaseAll \in [Members -> {"none", "open", "settled", "released"}]
  BY DEF OSTypes, OSTypeOK, ReleaseAll

LEMMA ReserveKeeps ==
    ASSUME OSInv, NEW budget \in Budgets, ReserveTeam(budget)
    PROVE  OSInv'
<1>1. /\ phase = "idle" /\ committed' = 0
      /\ UNCHANGED <<log, torn, hot, osFaults, sessions, done, crashes, executions, step, npc>>
  BY DEF ReserveTeam, logVars, sessionVars, boundVars
<1>2. /\ phase' \in {"reserved", "refused"} /\ res' \in [Members -> {"none", "open", "settled", "released"}]
      /\ phase' = "reserved" => \A m \in Members : res'[m] = "open"
  BY DEF ReserveTeam
<1>3. OSTypes'
  BY <1>1, <1>2 DEF OSInv, OSTypes, OSTypeOK, Phases
<1> QED BY <1>1, <1>2, <1>3, ClosedPhases

LEMMA NewRuntimeKeeps ==
    ASSUME OSInv, NEW ok \in BOOLEAN, NewRuntime(ok)
    PROVE  OSInv'
<1>0. /\ phase = "reserved" /\ step' = 0
      /\ UNCHANGED <<committed, sessions, done, crashes, executions, npc>>
  BY DEF NewRuntime, sessionVars, boundVars
<1>1. /\ Gate \in Records /\ OSTypes /\ log \in [Records -> Seq(OSEvents)] /\ MaxFaults \in Nat
      /\ torn \in BOOLEAN /\ osFaults \in 0..MaxFaults
      /\ 0 \in 0..(2 * Len(Plan))
  <2>1. Gate \in Records /\ MaxFaults \in Nat
    BY RecordFacts, AgentOSAssumption
  <2>2. OSTypes /\ log \in [Records -> Seq(OSEvents)] /\ torn \in BOOLEAN /\ osFaults \in 0..MaxFaults
    BY DEF OSInv, OSTypes, OSTypeOK
  <2>3. 0 \in 0..(2 * Len(Plan))
    BY PlanFacts
  <2> QED BY <2>1, <2>2, <2>3
<1>2. PICK e \in OSEvents : e = Created(Gate, "planned", "plan")
  BY CreatedFacts DEF OSStatuses
<1>3. CASE ok
  <2>1. /\ phase' = "building" /\ UNCHANGED <<torn, osFaults, res>>
        /\ \/ hot' = [r \in Records |-> Replay(r)] /\ UNCHANGED log
           \/ /\ hot' = [[r \in Records |-> Replay(r)] EXCEPT ![Gate] = e]
              /\ log' = [log EXCEPT ![Gate] = <<e>>]
    BY <1>2, <1>3 DEF NewRuntime
  <2>2. \A r \in Records : Replay(r) \in OSEvents \cup {NoEvent}
    BY <1>1, LastFacts DEF Replay
  <2>3. <<e>> \in Seq(OSEvents)
    OBVIOUS
  <2>4. /\ log' \in [Records -> Seq(OSEvents)] /\ hot' \in [Records -> OSEvents \cup {NoEvent}]
        /\ \A r \in Records : r # Gate => log'[r] = log[r] /\ hot'[r] = LastOf(log[r])
    BY <1>1, <2>1, <2>2, <2>3 DEF Replay
  <2>5. \A r \in Records : hot'[r].rev \in Nat
    BY <2>4, EventFacts
  <2>6. OSTypes'
    BY <1>0, <1>1, <2>1, <2>4, <2>5 DEF OSInv, OSTypes, OSTypeOK, Phases
  <2>7. ASSUME NEW m \in Members PROVE MemberOK(m)'
    <3>0. MemberOK(m) /\ npc[m] = "off"
      BY <1>0, WaveOnly DEF OSInv
    <3>1. /\ log'[Agent(m)] = log[Agent(m)] /\ log'[Act(m)] = log[Act(m)] /\ log'[Node(m)] = log[Node(m)]
          /\ hot'[Agent(m)] = LastOf(log[Agent(m)]) /\ hot'[Act(m)] = LastOf(log[Act(m)])
          /\ hot'[Node(m)] = LastOf(log[Node(m)])
      BY <2>4, RecordFacts
    <3>2. log[Agent(m)] \in Seq(OSEvents) /\ log[Act(m)] \in Seq(OSEvents) /\ log[Node(m)] \in Seq(OSEvents)
      BY <1>1, RecordFacts
    <3>3. LastOf(log[Act(m)]).st # "none" <=> log[Act(m)] # <<>>
      BY <3>2, LastFacts, EventFacts
    <3>4. SessionOK(phase, npc[m], sessions[m], log[Act(m)], hot[Act(m)])'
      BY <1>0, <2>1, <3>0, <3>1, <3>3 DEF MemberOK, SessionOK, Launching, Finishing, Begun
    <3>5. LastOf(log[Node(m)]).st = "completed" => m \in done
      <4>1. log[Node(m)] = <<>> => LastOf(log[Node(m)]).st # "completed"
        BY <3>2, LastFacts, EventFacts
      <4>2. log[Node(m)] # <<>> => \E i \in DOMAIN log[Node(m)] : LastOf(log[Node(m)]) = log[Node(m)][i]
        BY <3>2, LastFacts
      <4> QED BY <3>0, <4>1, <4>2 DEF MemberOK, NodeOK
    <3>6. /\ \A i \in DOMAIN log[Node(m)] : log[Node(m)][i].rev \in Nat
          /\ LastOf(log[Node(m)]).rev \in Nat
      BY <3>2, LastFacts, EventFacts
    <3>7. NodeOK(phase, npc[m], m \in done, log[Node(m)], hot[Node(m)])'
      BY <1>0, <3>0, <3>1, <3>5, <3>6 DEF MemberOK, NodeOK, Finishing
    <3>8. AgentOK(npc[m], sessions[m], log[Agent(m)], hot[Agent(m)])'
      BY <1>0, <3>0, <3>1 DEF MemberOK, AgentOK
    <3>9. ReservationOK(phase, npc[m], res[m], hot[Act(m)], hot[Node(m)], hot[Agent(m)])'
      BY <1>0, <2>1, <3>0 DEF MemberOK, ReservationOK, Working
    <3> QED BY <3>4, <3>7, <3>8, <3>9 DEF MemberOK
  <2>8. Ordered'
    BY <1>0 DEF OSInv, Ordered
  <2>9. Prepared'
    BY <1>0, PlanFacts DEF Prepared
  <2> QED BY <2>6, <2>7, <2>8, <2>9 DEF OSInv
<1>4. CASE ~ok
  <2>1. /\ phase' = "refused" /\ res' = ReleaseAll /\ UNCHANGED hot
        /\ \/ UNCHANGED <<log, torn, osFaults>>
           \/ \E o \in AppendOutcomes(<<>>, FALSE, e) :
                /\ log' = [log EXCEPT ![Gate] = o.log]
                /\ torn' = o.torn
                /\ osFaults < MaxFaults
                /\ osFaults' = osFaults + 1
    BY <1>2, <1>4 DEF NewRuntime
  <2>2. /\ log' \in [Records -> Seq(OSEvents)] /\ torn' \in BOOLEAN /\ osFaults' \in 0..MaxFaults
        /\ \A r \in Records : r # Gate => log'[r] = log[r]
    <3>1. CASE UNCHANGED <<log, torn, osFaults>>
      BY <1>1, <3>1
    <3>2. ASSUME NEW o \in AppendOutcomes(<<>>, FALSE, e),
                 log' = [log EXCEPT ![Gate] = o.log], torn' = o.torn, osFaults < MaxFaults,
                 osFaults' = osFaults + 1
          PROVE  /\ log' \in [Records -> Seq(OSEvents)] /\ torn' \in BOOLEAN /\ osFaults' \in 0..MaxFaults
                 /\ \A r \in Records : r # Gate => log'[r] = log[r]
      <4>1. <<>> \in Seq(OSEvents)
        OBVIOUS
      <4>2. o.log \in Seq(OSEvents) /\ o.torn \in BOOLEAN
        BY <4>1, AppendLeaves
      <4> QED BY <1>1, <3>2, <4>2
    <3> QED BY <2>1, <3>1, <3>2
  <2>3. OSTypes'
    BY <1>0, <1>1, <2>1, <2>2, ReleaseTypes DEF OSInv, OSTypes, OSTypeOK, Phases
  <2>4. \A m \in Members :
          /\ log'[Agent(m)] = log[Agent(m)] /\ log'[Act(m)] = log[Act(m)] /\ log'[Node(m)] = log[Node(m)]
          /\ hot'[Agent(m)] = hot[Agent(m)] /\ hot'[Act(m)] = hot[Act(m)] /\ hot'[Node(m)] = hot[Node(m)]
    BY <2>1, <2>2, RecordFacts
  <2> QED BY <1>0, <2>1, <2>3, <2>4, ClosedPhases
<1> QED BY <1>3, <1>4

LEMMA StepFacts ==
    ASSUME OSInv, step < 2 * Len(Plan)
    PROVE  /\ StepMember \in Members /\ StepRecord \in Records /\ StepEvent \in OSEvents
           /\ step + 1 \in 0..(2 * Len(Plan))
           /\ \/ StepRecord = Agent(StepMember) /\ StepEvent.st = "created"
                 /\ StepEvent.key \in {<<"register">>, <<"spawn">>}
                 /\ \A i \in DOMAIN Plan : 2 * i <= step + 1 => 2 * i <= step
              \/ /\ StepRecord = Node(StepMember) /\ StepEvent.st = "pending"
                 /\ StepEvent.key = <<"add">> /\ StepEvent.rev = 1
                 /\ \A i \in DOMAIN Plan : 2 * i <= step + 1 => 2 * i <= step \/ Plan[i] = StepMember
<1>0. step \in Nat /\ step + 1 \in 0..(2 * Len(Plan)) /\ step % 2 \in {0, 1}
      /\ step \div 2 \in Nat /\ step = 2 * (step \div 2) + (step % 2)
      /\ Len(Plan) \in Nat
  BY PlanFacts DEF OSInv, OSTypes, OSTypeOK
<1>1. PICK k \in Nat : k = step \div 2
  BY <1>0
<1>2. k + 1 \in DOMAIN Plan /\ StepMember = Plan[k + 1]
  BY <1>0, <1>1, PlanFacts DEF StepMember
<1>3. StepMember \in Members
  BY <1>2, PlanFacts
<1>4. CASE step % 2 = 0
  <2>1. step = 2 * k
    BY <1>0, <1>1, <1>4
  <2>2. StepRecord = Agent(StepMember)
    BY <1>4 DEF StepRecord
  <2>3. \/ StepEvent = Created(StepRecord, "created", "register")
        \/ StepEvent = Created(StepRecord, "created", "spawn")
    BY <1>4 DEF StepEvent
  <2>4. StepEvent \in OSEvents /\ StepEvent.st = "created" /\ StepEvent.key \in {<<"register">>, <<"spawn">>}
    <3>0. "created" \in OSStatuses
      BY DEF OSStatuses
    <3>1. CASE StepEvent = Created(StepRecord, "created", "register")
      BY <3>0, <3>1, CreatedFacts
    <3>2. CASE StepEvent = Created(StepRecord, "created", "spawn")
      BY <3>0, <3>2, CreatedFacts
    <3> QED BY <2>3, <3>1, <3>2
  <2>5. \A i \in DOMAIN Plan : 2 * i <= step + 1 => 2 * i <= step
    BY <1>1, <2>1, PlanFacts
  <2> QED BY <1>0, <1>3, <2>2, <2>4, <2>5, RecordFacts
<1>5. CASE step % 2 = 1
  <2>1. step = 2 * k + 1
    BY <1>0, <1>1, <1>5
  <2>2. StepRecord = Node(StepMember)
    BY <1>5 DEF StepRecord
  <2>3. StepEvent = Created(StepRecord, "pending", "add")
    BY <1>5 DEF StepEvent
  <2>4. StepEvent \in OSEvents /\ StepEvent.st = "pending" /\ StepEvent.key = <<"add">> /\ StepEvent.rev = 1
    BY <2>3, CreatedFacts DEF OSStatuses
  <2>5. \A i \in DOMAIN Plan : 2 * i <= step + 1 => 2 * i <= step \/ i = k + 1
    BY <1>1, <2>1, PlanFacts
  <2> QED BY <1>0, <1>2, <1>3, <2>2, <2>4, <2>5, RecordFacts
<1> QED BY <1>0, <1>4, <1>5

\* A member's agent or node is written while the team is prepared.
LEMMA PreparedMember ==
    ASSUME OSInv, phase = "building", phase' \in {"building", "refused"}, step < 2 * Len(Plan),
           NEW ok \in BOOLEAN, hot[StepRecord] = NoEvent, Persist(StepRecord, StepEvent, ok),
           UNCHANGED <<npc, sessions, done>>,
           phase' = "building" => UNCHANGED res, NEW m \in Members
    PROVE  MemberOK(m)'
<1>0. MemberOK(m) /\ npc[m] = "off" /\ OSTypes
  BY WaveOnly DEF OSInv
<1>1. PICK r \in Records, e \in OSEvents, w \in Members :
        /\ r = StepRecord /\ e = StepEvent /\ w = StepMember /\ Persist(r, e, ok) /\ hot[r] = NoEvent
        /\ \/ r = Agent(w) /\ e.st = "created" /\ e.key \in {<<"register">>, <<"spawn">>}
           \/ r = Node(w) /\ e.st = "pending" /\ e.key = <<"add">> /\ e.rev = 1
  BY StepFacts
<1>2. /\ log' \in [Records -> Seq(OSEvents)]
      /\ hot'[r] = IF ok THEN e ELSE hot[r]
      /\ \/ log'[r] = log[r] /\ (ok => e.key \in KeysOf(log[r]))
         \/ log'[r] = Append(log[r], e)
      /\ \A x \in Records : x # r => log'[x] = log[x] /\ hot'[x] = hot[x]
  BY <1>0, <1>1, PersistLeaves, SMTT(30)
<1>3. log[r] \in Seq(OSEvents) /\ Agent(m) \in Records /\ Act(m) \in Records /\ Node(m) \in Records
  BY <1>0, RecordFacts DEF OSTypes
<1>4. /\ log'[r] = log[r] \/ LastOf(log'[r]) = e
      /\ \A i \in DOMAIN log'[r] : log'[r][i] = e \/ \E j \in DOMAIN log[r] : log'[r][i] = log[r][j]
  BY <1>2, <1>3, WroteFacts
<1>5. log'[Act(m)] = log[Act(m)] /\ hot'[Act(m)] = hot[Act(m)]
  BY <1>1, <1>2, RecordFacts
<1>6. SessionOK(phase, npc[m], sessions[m], log[Act(m)], hot[Act(m)])'
  BY <1>0, <1>5 DEF MemberOK, SessionOK, Opened, Working, Launching, Finishing, Begun
<1>7. ReservationOK(phase, npc[m], res[m], hot[Act(m)], hot[Node(m)], hot[Agent(m)])'
  BY <1>0 DEF MemberOK, ReservationOK, Working
<1>8. AgentOK(npc[m], sessions[m], log[Agent(m)], hot[Agent(m)])'
  <2>1. CASE r # Agent(m)
    BY <1>0, <1>2, <1>3, <2>1 DEF MemberOK, AgentOK
  <2>2. CASE r = Agent(m)
    <3>1. e.st = "created" /\ e.key \in {<<"register">>, <<"spawn">>}
      BY <1>1, <2>2, RecordFacts
    <3>2. hot'[Agent(m)].st # "completed"
      BY <1>1, <1>2, <2>2, <3>1, EventFacts
    <3>3. e.key[1] # "status"
      BY <3>1
    <3> QED BY <1>0, <1>4, <2>2, <3>1, <3>2, <3>3 DEF MemberOK, AgentOK
  <2> QED BY <2>1, <2>2
<1>9. NodeOK(phase, npc[m], m \in done, log[Node(m)], hot[Node(m)])'
  <2>1. CASE r # Node(m)
    BY <1>0, <1>2, <1>3, <2>1 DEF MemberOK, NodeOK, Opened, Working
  <2>2. CASE r = Node(m)
    <3>1. e.st = "pending" /\ e.key = <<"add">> /\ e.rev = 1 /\ e.key[1] # "update"
      BY <1>1, <2>2, RecordFacts
    <3>2. hot'[r].st # "completed" /\ hot'[r].rev \in {0, 1}
      BY <1>1, <1>2, <3>1, EventFacts
    <3>3. ASSUME NEW j \in DOMAIN log[r]
          PROVE  /\ log[r][j].st = "completed" => m \in done
                 /\ log[r][j].key[1] = "update" => log[r][j].key = <<"update", log[r][j].rev>>
                 /\ log[r][j].rev \in Nat /\ log[r][j].rev <= 1 /\ log[r][j].rev <= LastOf(log[r]).rev
      BY <1>0, <1>1, <1>3, <2>2, EventFacts DEF MemberOK, NodeOK, Opened
    <3>4. ASSUME NEW i \in DOMAIN log'[r]
          PROVE  /\ log'[r][i].st = "completed" => m \in done
                 /\ log'[r][i].rev <= LastOf(log'[r]).rev
                 /\ log'[r][i].key[1] = "update" => log'[r][i].key = <<"update", log'[r][i].rev>>
                 /\ log'[r][i].rev <= hot'[r].rev + 1
      <4>1. CASE log'[r] = log[r]
        <5>1. i \in DOMAIN log[r] /\ log'[r][i] = log[r][i]
          BY <4>1
        <5> QED BY <3>2, <3>3, <4>1, <5>1
      <4>2. CASE LastOf(log'[r]) = e /\ log'[r][i] = e
        BY <3>1, <3>2, <4>2
      <4>3. CASE LastOf(log'[r]) = e /\ \E j \in DOMAIN log[r] : log'[r][i] = log[r][j]
        BY <3>1, <3>2, <3>3, <4>3
      <4> QED BY <1>4, <4>1, <4>2, <4>3
    <3> QED BY <1>0, <2>2, <3>2, <3>4 DEF NodeOK, Finishing
  <2> QED BY <2>1, <2>2
<1> QED BY <1>6, <1>7, <1>8, <1>9 DEF MemberOK

LEMMA PrepareStepKeeps ==
    ASSUME OSInv, PrepareStep
    PROVE  OSInv'
<1>0. /\ phase = "building" /\ step < 2 * Len(Plan) /\ OSTypes
      /\ UNCHANGED <<committed, sessions, done, crashes, executions, npc>>
  BY DEF PrepareStep, sessionVars, boundVars, OSInv
<1>1. PICK ok \in BOOLEAN :
        /\ \/ ok /\ AlreadyThere /\ UNCHANGED logVars
           \/ ~ok /\ UNCHANGED logVars
           \/ hot[StepRecord] = NoEvent /\ Persist(StepRecord, StepEvent, ok)
        /\ phase' = IF ok THEN "building" ELSE "refused"
        /\ step' = IF ok THEN step + 1 ELSE step
        /\ res' = IF ok THEN res ELSE ReleaseAll
  BY DEF PrepareStep
<1>2. step' \in 0..(2 * Len(Plan)) /\ phase' \in Phases /\ phase' \in {"building", "refused"}
  BY <1>0, <1>1, StepFacts DEF OSTypes, OSTypeOK, Phases
<1>3. res' \in [Members -> {"none", "open", "settled", "released"}]
  BY <1>0, <1>1, ReleaseTypes DEF OSTypes, OSTypeOK
<1>4. Ordered'
  BY <1>0 DEF OSInv, Ordered
<1>5. CASE UNCHANGED logVars
  <2>1. UNCHANGED <<log, torn, hot, osFaults>>
    BY <1>5 DEF logVars
  <2>2. OSTypes'
    BY <1>0, <1>2, <1>3, <2>1 DEF OSTypes, OSTypeOK
  <2>3. CASE ~ok
    BY <1>0, <1>1, <2>1, <2>2, <2>3, ClosedPhases
  <2>4. CASE ok
    <3>1. phase' = phase /\ step' = step + 1 /\ res' = res
      BY <1>0, <1>1, <2>4
    <3>2. ASSUME NEW m \in Members PROVE MemberOK(m)'
      <4>1. MemberOK(m)
        BY DEF OSInv
      <4> QED BY <1>0, <2>1, <3>1, <4>1 DEF MemberOK, SessionOK, NodeOK, AgentOK, ReservationOK
    <3>3. hot[StepRecord] = StepEvent
      <4>1. CASE AlreadyThere
        BY <4>1 DEF AlreadyThere
      <4>2. CASE hot[StepRecord] = NoEvent /\ Persist(StepRecord, StepEvent, ok)
        <5>1. hot'[StepRecord] = StepEvent
          BY <1>0, <2>4, <4>2, StepFacts, PersistLeaves
        <5> QED BY <2>1, <5>1
      <4> QED BY <1>1, <2>4, <4>1, <4>2
    <3>4. Prepared'
      BY <1>0, <2>1, <3>1, <3>3, StepFacts DEF OSInv, Prepared
    <3> QED BY <1>4, <2>2, <3>2, <3>4 DEF OSInv
  <2> QED BY <2>3, <2>4
<1>6. CASE hot[StepRecord] = NoEvent /\ Persist(StepRecord, StepEvent, ok)
  <2>1. PICK r \in Records, e \in OSEvents : r = StepRecord /\ e = StepEvent
    BY <1>0, StepFacts
  <2>2. Persist(r, e, ok) /\ hot[r] = NoEvent
    BY <1>6, <2>1
  <2>3. /\ log' \in [Records -> Seq(OSEvents)] /\ hot' \in [Records -> OSEvents \cup {NoEvent}]
        /\ torn' \in BOOLEAN /\ osFaults' \in 0..MaxFaults
        /\ hot'[r] = IF ok THEN e ELSE hot[r]
        /\ \A x \in Records : x # r => log'[x] = log[x] /\ hot'[x] = hot[x]
    BY <1>0, <2>2, PersistLeaves, Zenon
  <2>4. \A x \in Records : hot'[x].rev \in Nat
    BY <2>3, EventFacts
  <2>5. OSTypes'
    BY <1>0, <1>2, <1>3, <2>3, <2>4 DEF OSTypes, OSTypeOK
  <2>6. ASSUME NEW m \in Members PROVE MemberOK(m)'
    <3>1. phase' = "building" => UNCHANGED res
      BY <1>1
    <3> QED BY <1>0, <1>2, <1>6, <3>1, PreparedMember
  <2>7. Prepared'
    <3>1. ASSUME phase' = "building", NEW i \in DOMAIN Plan, 2 * i <= step'
          PROVE  hot'[Node(Plan[i])].st = "pending"
      <4>1. ok /\ step' = step + 1
        BY <1>1, <3>1
      <4>2. Node(Plan[i]) \in Records /\ Plan[i] \in Members
        BY PlanFacts, RecordFacts
      <4>3. CASE Node(Plan[i]) = r
        <5>1. e.st = "pending"
          BY <1>0, <2>1, <4>2, <4>3, StepFacts, RecordFacts
        <5> QED BY <2>3, <4>1, <4>3, <5>1
      <4>4. CASE Node(Plan[i]) # r
        <5>1. 2 * i <= step
          BY <1>0, <2>1, <3>1, <4>1, <4>4, StepFacts
        <5>2. hot[Node(Plan[i])].st = "pending"
          BY <1>0, <5>1 DEF OSInv, Prepared
        <5> QED BY <2>3, <4>2, <4>4, <5>2
      <4> QED BY <4>3, <4>4
    <3> QED BY <3>1 DEF Prepared
  <2> QED BY <1>4, <2>5, <2>6, <2>7 DEF OSInv
<1> QED BY <1>1, <1>5, <1>6

LEMMA PrepareEndKeeps ==
    ASSUME OSInv, NEW ok \in BOOLEAN, PrepareEnd(ok)
    PROVE  OSInv'
<1>0. /\ phase = "building" /\ step = 2 * Len(Plan) /\ OSTypes
      /\ UNCHANGED <<log, torn, hot, osFaults, committed, sessions, done, crashes, executions, step, npc>>
      /\ phase' = IF ok THEN "prepared" ELSE "refused"
      /\ res' = IF ok THEN res ELSE ReleaseAll
  BY DEF PrepareEnd, logVars, sessionVars, boundVars, OSInv
<1>1. OSTypes'
  BY <1>0, ReleaseTypes DEF OSTypes, OSTypeOK, Phases
<1>2. CASE ~ok
  BY <1>0, <1>1, <1>2, ClosedPhases
<1>3. CASE ok
  <2>1. phase' = "prepared" /\ res' = res
    BY <1>0, <1>3
  <2>2. ASSUME NEW m \in Members PROVE MemberOK(m)'
    <3>0. MemberOK(m) /\ npc[m] = "off"
      BY <1>0, WaveOnly DEF OSInv
    <3>1. hot[Node(m)].st = "pending"
      <4>1. PICK i \in DOMAIN Plan : Plan[i] = m
        BY PlanFacts
      <4>2. 2 * i <= step
        BY <1>0, PlanFacts
      <4> QED BY <1>0, <4>1, <4>2 DEF OSInv, Prepared
    <3>2. SessionOK(phase, npc[m], sessions[m], log[Act(m)], hot[Act(m)])'
      BY <1>0, <2>1, <3>0 DEF MemberOK, SessionOK, Opened, Launching, Finishing, Begun
    <3>3. NodeOK(phase, npc[m], m \in done, log[Node(m)], hot[Node(m)])'
      BY <1>0, <2>1, <3>0 DEF MemberOK, NodeOK, Opened
    <3>4. AgentOK(npc[m], sessions[m], log[Agent(m)], hot[Agent(m)])'
      BY <1>0, <3>0 DEF MemberOK, AgentOK
    <3>5. ReservationOK(phase, npc[m], res[m], hot[Act(m)], hot[Node(m)], hot[Agent(m)])'
      BY <1>0, <2>1, <3>0, <3>1 DEF MemberOK, ReservationOK, Begun, Launching, Finishing
    <3> QED BY <3>2, <3>3, <3>4, <3>5 DEF MemberOK
  <2>3. Ordered'
    BY <1>0 DEF OSInv, Ordered
  <2>4. Prepared'
    BY <2>1 DEF Prepared
  <2> QED BY <1>1, <2>2, <2>3, <2>4 DEF OSInv
<1> QED BY <1>2, <1>3

\* CancelSubtree writes to agents that are not final, and to nothing else.
LEMMA CancelLeaves ==
    ASSUME OSTypes, NEW root \in Members, CancelSubtree(root)
    PROVE  /\ log' \in [Records -> Seq(OSEvents)] /\ hot' \in [Records -> OSEvents \cup {NoEvent}]
           /\ torn' \in BOOLEAN /\ osFaults' \in 0..MaxFaults
           /\ \A x \in Records :
                 \/ log'[x] = log[x] /\ hot'[x] = hot[x]
                 \/ /\ \E m \in Members : x = Agent(m)
                    /\ hot[x].st # "completed"
                    /\ \E e \in OSEvents : /\ e.st = "cancelled" /\ e.key[1] = "cancel"
                                           /\ log'[x] = Append(log[x], e)
                                           /\ hot'[x] = e \/ hot'[x] = hot[x]
<1> DEFINE live == {m \in IF root = Lead THEN Members ELSE {root} :
                       Status(Agent(m)) \notin FinalAgent \cup {"none"}}
           Hit(r) == r[1] = "agent" /\ r[2] \in live
           Cancelled(r) == [st |-> "cancelled", rev |-> hot[r].rev + 1,
                            key |-> <<"cancel", Len(log[r])>>]
           C == [key |-> "cancel"]
<1>1. /\ log \in [Records -> Seq(OSEvents)] /\ hot \in [Records -> OSEvents \cup {NoEvent}]
      /\ torn \in BOOLEAN /\ osFaults \in 0..MaxFaults /\ MaxFaults \in Nat
      /\ \A r \in Records : hot[r].rev \in Nat
  BY AgentOSAssumption DEF OSTypes, OSTypeOK
<1>2. PICK o \in AppendOutcomes(<<>>, torn, C) :
        /\ log' = [r \in Records |-> IF Hit(r) /\ o.log # <<>>
                                       THEN Append(log[r], Cancelled(r)) ELSE log[r]]
        /\ hot' = [r \in Records |-> IF Hit(r) /\ o.ok THEN Cancelled(r) ELSE hot[r]]
        /\ torn' = o.torn
        /\ IF o.ok \/ torn THEN UNCHANGED osFaults
           ELSE osFaults < MaxFaults /\ osFaults' = osFaults + 1
  BY DEF CancelSubtree
<1>3. o.torn \in BOOLEAN /\ o.ok \in BOOLEAN /\ (o.ok => o.log # <<>>)
  <2>1. C \in {C} /\ <<>> \in Seq({C})
    OBVIOUS
  <2>2. /\ o.torn \in BOOLEAN /\ o.ok \in BOOLEAN
        /\ o.ok => o.log = Append(<<>>, C) \/ C.key \in KeysOf(<<>>)
    BY <1>1, <2>1, AppendLeaves
  <2>3. KeysOf(<<>>) = {}
    BY DEF KeysOf
  <2>4. Append(<<>>, C) # <<>>
    BY <2>1, AppendedFacts
  <2> QED BY <2>2, <2>3, <2>4
<1>4. \A r \in Records : /\ Cancelled(r) \in OSEvents /\ Cancelled(r).st = "cancelled"
                         /\ Cancelled(r).key[1] = "cancel"
                         /\ Append(log[r], Cancelled(r)) \in Seq(OSEvents)
  <2>1. ASSUME NEW r \in Records PROVE Cancelled(r) \in OSEvents
    <3>1. Len(log[r]) \in Nat /\ hot[r].rev + 1 \in Nat
      BY <1>1
    <3>2. <<"cancel", Len(log[r])>> \in OSKeys
      BY <3>1 DEF OSKeys
    <3> QED BY <3>1, <3>2 DEF OSEvents, OSStatuses
  <2> QED BY <1>1, <2>1, AppendedFacts
<1>5. \A r \in Records : Hit(r) => hot[r].st # "completed" /\ \E m \in Members : r = Agent(m)
  <2>1. ASSUME NEW r \in Records, Hit(r) PROVE hot[r].st # "completed" /\ \E m \in Members : r = Agent(m)
    <3>1. PICK m \in Members : r[2] = m /\ r[1] = "agent" /\ Status(Agent(m)) \notin FinalAgent
      BY <2>1
    <3>2. r = Agent(m)
      BY <3>1 DEF Agent, Records, Gate
    <3> QED BY <3>1, <3>2 DEF Status, FinalAgent
  <2> QED BY <2>1
<1> HIDE DEF Hit, Cancelled, C
<1>6. /\ log' \in [Records -> Seq(OSEvents)] /\ hot' \in [Records -> OSEvents \cup {NoEvent}]
  BY <1>1, <1>2, <1>4
<1>7. torn' \in BOOLEAN /\ osFaults' \in 0..MaxFaults
  BY <1>1, <1>2, <1>3
<1>8. ASSUME NEW x \in Records
      PROVE  \/ log'[x] = log[x] /\ hot'[x] = hot[x]
             \/ /\ \E m \in Members : x = Agent(m)
                /\ hot[x].st # "completed"
                /\ \E e \in OSEvents : /\ e.st = "cancelled" /\ e.key[1] = "cancel"
                                       /\ log'[x] = Append(log[x], e)
                                       /\ hot'[x] = e \/ hot'[x] = hot[x]
  <2>1. CASE Hit(x) /\ o.log # <<>>
    <3>1. log'[x] = Append(log[x], Cancelled(x)) /\ (hot'[x] = Cancelled(x) \/ hot'[x] = hot[x])
      BY <1>2, <2>1
    <3> QED BY <1>4, <1>5, <2>1, <3>1
  <2>2. CASE ~(Hit(x) /\ o.log # <<>>)
    BY <1>2, <1>3, <2>2
  <2> QED BY <2>1, <2>2
<1> QED BY <1>6, <1>7, <1>8

LEMMA CancelKeeps ==
    ASSUME OSInv, NEW root \in Members, CancelSubtree(root)
    PROVE  OSInv'
<1>0. /\ UNCHANGED <<res, committed, sessions, done, crashes, executions, phase, step, npc>> /\ OSTypes
      /\ phase \in {"prepared", "wave", "verify", "finalize", "stopped"}
  BY DEF CancelSubtree, ledgerVars, sessionVars, boundVars, OSInv
<1>1. /\ log' \in [Records -> Seq(OSEvents)] /\ hot' \in [Records -> OSEvents \cup {NoEvent}]
      /\ torn' \in BOOLEAN /\ osFaults' \in 0..MaxFaults
      /\ \A x \in Records :
            \/ log'[x] = log[x] /\ hot'[x] = hot[x]
            \/ /\ \E m \in Members : x = Agent(m)
               /\ hot[x].st # "completed"
               /\ \E e \in OSEvents : /\ e.st = "cancelled" /\ e.key[1] = "cancel"
                                      /\ log'[x] = Append(log[x], e)
                                      /\ hot'[x] = e \/ hot'[x] = hot[x]
  BY <1>0, CancelLeaves, Zenon
<1>2. \A x \in Records : hot'[x].rev \in Nat
  BY <1>1, EventFacts
<1>3. OSTypes'
  BY <1>0, <1>1, <1>2 DEF OSTypes, OSTypeOK
<1>4. ASSUME NEW m \in Members PROVE MemberOK(m)'
  <2>0. MemberOK(m) /\ Agent(m) \in Records /\ Act(m) \in Records /\ Node(m) \in Records
    BY RecordFacts DEF OSInv
  <2>1. /\ log'[Act(m)] = log[Act(m)] /\ hot'[Act(m)] = hot[Act(m)]
        /\ log'[Node(m)] = log[Node(m)] /\ hot'[Node(m)] = hot[Node(m)]
    BY <1>1, <2>0, RecordFacts
  <2>2. SessionOK(phase, npc[m], sessions[m], log[Act(m)], hot[Act(m)])'
    BY <1>0, <2>0, <2>1 DEF MemberOK, SessionOK
  <2>3. NodeOK(phase, npc[m], m \in done, log[Node(m)], hot[Node(m)])'
    BY <1>0, <2>0, <2>1 DEF MemberOK, NodeOK
  <2>4. AgentOK(npc[m], sessions[m], log[Agent(m)], hot[Agent(m)])'
    <3>1. CASE log'[Agent(m)] = log[Agent(m)] /\ hot'[Agent(m)] = hot[Agent(m)]
      BY <1>0, <2>0, <3>1 DEF MemberOK, AgentOK
    <3>2. ASSUME NEW e \in OSEvents, e.st = "cancelled", e.key[1] = "cancel",
                 log'[Agent(m)] = Append(log[Agent(m)], e), hot[Agent(m)].st # "completed",
                 hot'[Agent(m)] = e \/ hot'[Agent(m)] = hot[Agent(m)]
          PROVE  AgentOK(npc[m], sessions[m], log[Agent(m)], hot[Agent(m)])'
      <4>1. log[Agent(m)] \in Seq(OSEvents)
        BY <1>0, <2>0 DEF OSTypes
      <4>2. \A i \in DOMAIN log'[Agent(m)] :
               log'[Agent(m)][i] = e \/ \E j \in DOMAIN log[Agent(m)] : log'[Agent(m)][i] = log[Agent(m)][j]
        BY <3>2, <4>1, WroteFacts
      <4> QED BY <1>0, <2>0, <3>2, <4>2 DEF MemberOK, AgentOK
    <3> QED BY <1>1, <2>0, <3>1, <3>2
  <2>5. ReservationOK(phase, npc[m], res[m], hot[Act(m)], hot[Node(m)], hot[Agent(m)])'
    BY <1>0, <2>0, <2>1 DEF MemberOK, ReservationOK
  <2> QED BY <2>2, <2>3, <2>4, <2>5 DEF MemberOK
<1>5. Ordered'
  BY <1>0 DEF OSInv, Ordered
<1>6. Prepared'
  BY <1>0 DEF Prepared
<1> QED BY <1>3, <1>4, <1>5, <1>6 DEF OSInv

LEMMA CrashKeeps ==
    ASSUME OSInv, OSCrash
    PROVE  OSInv'
<1>0. /\ UNCHANGED <<log, torn, osFaults, sessions, done, executions>> /\ OSTypes
      /\ crashes' \in 0..MaxCrashes /\ committed' = 0 /\ step' = 0 /\ phase' = "idle"
      /\ npc' = [m \in Members |-> "off"] /\ res' = [m \in Members |-> "none"]
      /\ hot' = [r \in Records |-> NoEvent]
      /\ 0 \in 0..(2 * Len(Plan))
  <2>1. crashes \in 0..MaxCrashes /\ MaxCrashes \in Nat /\ OSTypes
    BY AgentOSAssumption DEF OSInv, OSTypes, OSTypeOK
  <2>2. crashes' \in 0..MaxCrashes
    BY <2>1 DEF OSCrash
  <2>3. 0 \in 0..(2 * Len(Plan))
    BY PlanFacts
  <2> QED BY <2>1, <2>2, <2>3 DEF OSCrash, sessionVars
<1>1. hot' \in [Records -> OSEvents \cup {NoEvent}] /\ \A r \in Records : hot'[r].rev \in Nat
  BY <1>0, EventFacts
<1>2. OSTypes'
  BY <1>0, <1>1 DEF OSTypes, OSTypeOK, Phases, NodePC
<1>3. ASSUME NEW m \in Members PROVE MemberOK(m)'
  <2>0. MemberOK(m) /\ npc'[m] = "off" /\ hot'[Act(m)] = NoEvent /\ hot'[Node(m)] = NoEvent
        /\ hot'[Agent(m)] = NoEvent
    BY <1>0, RecordFacts DEF OSInv
  <2>1. SessionOK(phase, npc[m], sessions[m], log[Act(m)], hot[Act(m)])'
    BY <1>0, <2>0, EventFacts DEF MemberOK, SessionOK, Opened, Working, Launching, Finishing, Begun
  <2>2. NodeOK(phase, npc[m], m \in done, log[Node(m)], hot[Node(m)])'
    BY <1>0, <2>0, EventFacts DEF MemberOK, NodeOK, Opened, Working, Finishing
  <2>3. AgentOK(npc[m], sessions[m], log[Agent(m)], hot[Agent(m)])'
    BY <1>0, <2>0, EventFacts DEF MemberOK, AgentOK
  <2>4. ReservationOK(phase, npc[m], res[m], hot[Act(m)], hot[Node(m)], hot[Agent(m)])'
    BY <1>0 DEF ReservationOK, Working
  <2> QED BY <2>1, <2>2, <2>3, <2>4 DEF MemberOK
<1>4. Ordered'
  BY <1>0 DEF OSInv, Ordered
<1>5. Prepared'
  BY <1>0 DEF Prepared
<1> QED BY <1>2, <1>3, <1>4, <1>5 DEF OSInv

LEMMA OSInitHolds == OSInit => OSInv
<1> SUFFICES ASSUME OSInit PROVE OSInv
  OBVIOUS
<1>0. 0 \in 0..(2 * Len(Plan)) /\ {MaxFaults, MaxCrashes, MaxExecutions} \subseteq Nat /\ <<>> \in Seq(OSEvents)
  BY PlanFacts, AgentOSAssumption
<1>1. OSTypes
  <2>1. /\ log \in [Records -> Seq(OSEvents)] /\ hot \in [Records -> OSEvents \cup {NoEvent}]
        /\ \A r \in Records : hot[r].rev \in Nat
    BY <1>0, EventFacts DEF OSInit
  <2>2. 0 \in 0..MaxFaults /\ 0 \in 0..MaxCrashes /\ 0 \in 0..MaxExecutions
    BY <1>0
  <2>3. phase \in Phases /\ npc \in [Members -> NodePC] /\ sessions \in [Members -> Nat]
        /\ res \in [Members -> {"none", "open", "settled", "released"}]
    BY DEF OSInit, Phases, NodePC
  <2> QED BY <1>0, <2>1, <2>2, <2>3 DEF OSInit, OSTypes, OSTypeOK
<1>2. ASSUME NEW m \in Members PROVE MemberOK(m)
  <2>1. /\ log[Agent(m)] = <<>> /\ log[Act(m)] = <<>> /\ log[Node(m)] = <<>>
        /\ hot[Agent(m)] = NoEvent /\ hot[Act(m)] = NoEvent /\ hot[Node(m)] = NoEvent
        /\ npc[m] = "off" /\ sessions[m] = 0 /\ phase = "idle"
    BY RecordFacts DEF OSInit
  <2>2. SessionOK(phase, npc[m], sessions[m], log[Act(m)], hot[Act(m)])
    BY <2>1, EventFacts DEF SessionOK, Opened, Working, Launching, Finishing, Begun
  <2>3. NodeOK(phase, npc[m], m \in done, log[Node(m)], hot[Node(m)])
    BY <2>1, EventFacts DEF NodeOK
  <2>4. AgentOK(npc[m], sessions[m], log[Agent(m)], hot[Agent(m)])
    BY <2>1, EventFacts DEF AgentOK
  <2>5. ReservationOK(phase, npc[m], res[m], hot[Act(m)], hot[Node(m)], hot[Agent(m)])
    BY <2>1 DEF ReservationOK, Working
  <2> QED BY <2>2, <2>3, <2>4, <2>5 DEF MemberOK
<1>3. Ordered /\ Prepared
  BY DEF OSInit, Ordered, Prepared
<1> QED BY <1>1, <1>2, <1>3 DEF OSInv

LEMMA OSStepKeeps == OSInv /\ [OSNext]_osVars => OSInv'
<1> SUFFICES ASSUME OSInv, [OSNext]_osVars PROVE OSInv'
  OBVIOUS
<1>1. CASE OSNext
  <2>1. ASSUME NEW budget \in Budgets, ReserveTeam(budget) PROVE OSInv'
    BY <2>1, ReserveKeeps
  <2>2. ASSUME NEW ok \in BOOLEAN, NewRuntime(ok) PROVE OSInv'
    BY <2>2, NewRuntimeKeeps
  <2>3. ASSUME NEW ok \in BOOLEAN, PrepareEnd(ok) PROVE OSInv'
    BY <2>3, PrepareEndKeeps
  <2>4. CASE PrepareStep
    BY <2>4, PrepareStepKeeps
  <2>5. CASE Execute \/ WaveEnd
    BY <2>5, WaveKeeps
  <2>6. ASSUME NEW m \in Members, Goroutine(m) PROVE OSInv'
    BY <2>6, GoroutineKeeps
  <2>7. CASE (\E result \in {"passed", "failed", "none", "error"} : Verified(result)) \/ Finalize
    BY <2>7, GateKeeps
  <2>8. ASSUME NEW m \in Members, CancelSubtree(m) PROVE OSInv'
    BY <2>8, CancelKeeps
  <2>9. CASE OSCrash
    BY <2>9, CrashKeeps
  <2> QED BY <1>1, <2>1, <2>2, <2>3, <2>4, <2>5, <2>6, <2>7, <2>8, <2>9 DEF OSNext
<1>2. CASE UNCHANGED osVars
  <2>1. UNCHANGED <<log, torn, hot, osFaults, res, committed, sessions, done, crashes, executions, phase, step, npc>>
    BY <1>2 DEF osVars, logVars, ledgerVars, sessionVars, boundVars
  <2> QED BY <2>1 DEF OSInv, OSTypes, OSTypeOK, MemberOK, SessionOK, NodeOK, AgentOK, ReservationOK,
                      Ordered, Prepared
<1> QED BY <1>1, <1>2

\* What holds of a team at every step, whatever fails and whenever the process
\* dies: what memory calls done is done in the log, an activation marks each
\* session for good, and reservations are open until their goroutine ends.
THEOREM TeamInvariant == OSSpec => []OSInv
<1>1. OSInit => OSInv
  BY OSInitHolds
<1>2. OSInv /\ [OSNext]_osVars => OSInv'
  BY OSStepKeeps
<1> QED BY <1>1, <1>2, PTL DEF OSSpec

\* An engine works on a node at most once: ActivationManager.Start finds the
\* activation of the session before, in memory or replayed from the log.
THEOREM SessionOnceHolds == OSSpec => []SessionOnce
<1>1. OSInv => SessionOnce
  <2>1. ASSUME OSInv, NEW m \in Members PROVE sessions[m] <= 1
    <3>1. sessions[m] \in {0, 1}
      BY <2>1 DEF OSInv, MemberOK, SessionOK
    <3> QED BY <3>1
  <2> QED BY <2>1 DEF SessionOnce
<1> QED BY <1>1, TeamInvariant, PTL

\* No engine starts before the nodes it depends on have ended well, though
\* their completion may have been read back from the log after a restart.
THEOREM DependenciesFirstHolds == OSSpec => []DependenciesFirst
<1>1. OSInv => DependenciesFirst
  BY DEF OSInv, Ordered, DependenciesFirst
<1> QED BY <1>1, TeamInvariant, PTL

\* ExecutePreparedAgentOS reports completion only when the log says so of every
\* node and agent, and every reservation is settled.
THEOREM CompleteIsDurableHolds == OSSpec => []CompleteIsDurable
<1>1. OSInv => CompleteIsDurable
  <2> SUFFICES ASSUME OSInv, phase = "completed", NEW m \in Members
               PROVE  /\ LastOf(log[Node(m)]).st = "completed"
                      /\ LastOf(log[Agent(m)]).st = "completed"
                      /\ res[m] = "settled"
    BY DEF CompleteIsDurable
  <2>1. MemberOK(m) /\ npc[m] = "off"
    BY WaveOnly DEF OSInv
  <2>2. hot[Node(m)].st = "completed" /\ hot[Agent(m)].st = "completed" /\ res[m] = "settled"
    BY <2>1 DEF MemberOK, ReservationOK, Working
  <2> QED BY <2>1, <2>2 DEF MemberOK, NodeOK, AgentOK
<1> QED BY <1>1, TeamInvariant, PTL

-----------------------------------------------------------------------------
(* The parts together.                                                      *)

\* Every behaviour of the composition is one of each part.
LEMMA PartsBehave ==
    AgentsSpec => /\ OSSpec /\ KernelSpec /\ MailboxSpec
                  /\ CapabilitySpec /\ EditingSpec /\ ProcessesSpec
<1>1. AgentsInit => /\ OSInit /\ KernelInit /\ MailboxInit
                    /\ CapabilityInit /\ EditingInit /\ ProcessesInit
  BY Zenon DEF AgentsInit
<1>2. [AgentsNext]_agentsVars =>
          /\ [OSNext]_osVars /\ [KernelNext]_kernelVars /\ [MailboxNext]_mailVars
          /\ [CapabilityNext]_leaseVars /\ [EditingNext]_editVars /\ [ProcessesNext]_procVars
  BY Zenon DEF AgentsNext, agentsVars
<1> QED BY <1>1, <1>2, PTL
        DEF AgentsSpec, OSSpec, KernelSpec, MailboxSpec, CapabilitySpec, EditingSpec, ProcessesSpec

\* Every variable of the agent runtime keeps its type, whatever the team, the
\* failures, the messages, the leases, the files and the processes are.
THEOREM AgentsTypeCorrect == AgentsSpec => []AgentsTypeOK
<1>1. OSInv => OSTypeOK
  BY DEF OSInv, OSTypes
<1>2. EditInv => EditingTypeOK
  BY DEF EditInv, EditTypes
<1>3. ProcessInv => ProcessesTypeOK
  BY DEF ProcessInv
<1> QED BY <1>1, <1>2, <1>3, PartsBehave, TeamInvariant, EditInvariant, ProcessInvariant,
           KernelTypesHold, MailTypesHold, CapabilityTypeCorrect, PTL
        DEF AgentsTypeOK

\* What the parts promise holds of them together: a team's completion is
\* durable, its engines work on a node once and after the nodes it depends on,
\* retries and completion of the kernel outlive restarts, a message is handed
\* out once, patches and rewinds keep the user's text, processes that are
\* forgotten were told to end, and a capability is used once.
THEOREM AgentsPromise ==
    AgentsSpec => /\ [](CompleteIsDurable /\ SessionOnce /\ DependenciesFirst)
                  /\ [](RetryBudget /\ CompletedStays)
                  /\ [](PresentedOnce /\ AcknowledgedStays)
                  /\ [](AllOrNothing /\ UserKept)
                  /\ [](ForgottenAreTold /\ RequestCancels)
                  /\ OneShotTokens
BY PartsBehave, CompleteIsDurableHolds, SessionOnceHolds, DependenciesFirstHolds,
   RetryBudgetHolds, CompletedStaysHolds, PresentedOnceHolds, AcknowledgedStaysHolds,
   AllOrNothingHolds, UserKeptHolds, ForgottenAreToldHolds, RequestCancelsHolds,
   StoreRefinesOneShot, PTL
=============================================================================
