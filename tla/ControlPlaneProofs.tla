------------------------- MODULE ControlPlaneProofs -------------------------
(***************************************************************************)
(* Facts about ControlPlane, for any requests, connections and faults: an  *)
(* answer that is stored reaches the caller that waits for it, a request   *)
(* that is queued wakes the goroutine that sleeps, a revocation that       *)
(* returned without an error has taken the workspace away, and every       *)
(* variable has its type.                                                  *)
(***************************************************************************)
EXTENDS ControlPlane, TLAPS

Waiting == {"idle", "check", "subscribe", "again", "wait", "done"}

\* AnswerReaches with the shape of what it reads.
AnswerInv ==
    /\ wpc \in [Requests -> Waiting]
    /\ results \in [Acts -> {"none", "ok", "fail"}]
    /\ AnswerReaches

AnswerFrame == wpc' = wpc /\ told' = told /\ acks' = acks /\ results' = results

\* A step that leaves the answers and the callers alone.
LEMMA AnswerFrameKeeps == AnswerInv /\ AnswerFrame => AnswerInv'
BY DEF AnswerInv, AnswerFrame, AnswerReaches, Stored

\* Return: the caller is done, and the others are told what they were told.
LEMMA ReturnKeeps ==
    ASSUME AnswerInv, NEW r \in Requests, NEW res,
           Return(r, res), acks' = acks, results' = results
    PROVE  AnswerInv'
BY DEF AnswerInv, AnswerReaches, Stored, Return, Waiting, Requests

\* Heard: the wait for the answer is over.
LEMMA HeardKeeps ==
    ASSUME AnswerInv, NEW r \in Requests,
           Heard(r), acks' = acks, results' = results
    PROVE  AnswerInv'
<1>1. CASE r \in Acts /\ results[r] = "ok"
  BY <1>1 DEF Heard, AnswerInv, AnswerReaches, Stored, Waiting, Requests
<1>2. CASE ~(r \in Acts /\ results[r] = "ok")
  <2>1. Return(r, IF r \in Revs THEN "ok" ELSE "fail")
    BY <1>2 DEF Heard
  <2> QED BY <2>1, ReturnKeeps
<1> QED BY <1>1, <1>2

\* Acknowledge: whoever waits for the request it stores is sent it.
LEMMA AcknowledgeKeeps ==
    ASSUME AnswerInv, NEW v, Acknowledge(v), wpc' = wpc, results' = results
    PROVE  AnswerInv'
BY DEF AnswerInv, AnswerReaches, Stored, Acknowledge, Publish, Requests

\* Every step of the specification keeps AnswerInv: one case per action that
\* touches the answers or the callers.
LEMMA AnswerStep == AnswerInv /\ [Next]_vars => AnswerInv'
<1> SUFFICES ASSUME AnswerInv, [Next]_vars PROVE AnswerInv'
  OBVIOUS
<1>1. CASE UNCHANGED vars
  BY <1>1, AnswerFrameKeeps DEF AnswerFrame, vars, redisVars, callerVars
<1>2. ASSUME NEW v \in Revs, Revoke(v) PROVE AnswerInv'
  BY <1>2 DEF AnswerInv, AnswerReaches, Stored, Revoke, Waiting, Requests
<1>3. ASSUME NEW a \in Acts, Activate(a) PROVE AnswerInv'
  BY <1>3 DEF AnswerInv, AnswerReaches, Stored, Activate, Waiting, Requests
<1>4. ASSUME NEW a \in Acts, OwnerFound(a) PROVE AnswerInv'
  BY <1>4, ReturnKeeps DEF OwnerFound, Requests, redisVars
<1>5. ASSUME NEW r \in Requests, Look(r) PROVE AnswerInv'
  <2>1. acks' = acks /\ results' = results
    BY <1>5 DEF Look, redisVars
  <2>2. CASE Heard(r)
    BY <2>1, <2>2, HeardKeeps
  <2>3. CASE /\ ~Stored(r)
             /\ wpc' = [wpc EXCEPT ![r] = IF @ = "check" THEN "subscribe" ELSE "wait"]
             /\ UNCHANGED <<told, outcome>>
    BY <2>1, <2>3 DEF AnswerInv, AnswerReaches, Stored, Waiting
  <2> QED BY <1>5, <2>2, <2>3 DEF Look
<1>6. ASSUME NEW r \in Requests, Subscribe(r) PROVE AnswerInv'
  BY <1>6 DEF AnswerInv, AnswerReaches, Stored, Subscribe, Waiting, redisVars
<1>7. ASSUME NEW r \in Requests, Told(r) PROVE AnswerInv'
  BY <1>7, HeardKeeps DEF Told, redisVars
<1>8. ASSUME NEW r \in Requests, TimeUp(r) PROVE AnswerInv'
  BY <1>8, ReturnKeeps DEF TimeUp, redisVars
<1>9. ASSUME NEW c \in Conns, ReadAcked(c) PROVE AnswerInv'
  BY <1>9, AcknowledgeKeeps DEF ReadAcked
<1>10. ASSUME NEW c \in Conns, ReadResult(c) PROVE AnswerInv'
  BY <1>10 DEF ReadResult, Publish, AnswerInv, AnswerReaches, Stored, Requests
<1>11. CASE PostAnswer
  BY <1>11, AcknowledgeKeeps DEF PostAnswer
<1>12. ASSUME NEW c \in Conns,
              \/ NewWaiter(c) \/ PopRev(c) \/ PopAct(c) \/ Authorize(c) \/ Wake(c)
              \/ Notify(c) \/ Offer(c) \/ Write(c) \/ WriteFails(c) \/ Close(c)
              \/ ReadSync(c) \/ ReadAck(c) \/ Connect(c)
       PROVE  AnswerInv'
  BY <1>12, AnswerFrameKeeps
     DEF AnswerFrame, redisVars, callerVars, NewWaiter, PopRev, PopAct, Authorize, Wake,
         Notify, Offer, Write, WriteFails, Close, ReadSync, ReadAck, Connect
<1>13. CASE \/ DevList \/ PostReconcile \/ PostFails \/ DevSynced \/ DevHeartbeat
            \/ DevAck \/ DevStart \/ DevDrop \/ StaleWorkerStop \/ WorkerEnds \/ WorkerStopped
            \/ LocalChange \/ OwnerGone \/ Expire
  BY <1>13, AnswerFrameKeeps
     DEF AnswerFrame, redisVars, callerVars, DevList, PostReconcile, PostFails,
         DevSynced, DevHeartbeat, DevAck, DevStart, DevDrop, WorkerEnds, WorkerStopped, StaleWorkerStop,
         LocalChange, OwnerGone, Expire
<1>14. ASSUME NEW r, TakeRevocation(r) \/ TakeActivation(r) PROVE AnswerInv'
  BY <1>14, AnswerFrameKeeps
     DEF AnswerFrame, redisVars, callerVars, TakeRevocation, TakeActivation
<1> QED
  BY <1>1, <1>2, <1>3, <1>4, <1>5, <1>6, <1>7, <1>8, <1>9, <1>10, <1>11, <1>12,
     <1>13, <1>14
     DEF Next, Caller, Gateway, Device

LEMMA AnswerStart == Init => AnswerInv
BY DEF Init, AnswerInv, AnswerReaches, Waiting

\* WaitForRevocationAck and WaitForActivationResult look, subscribe and look
\* again: whatever the order of a caller and the acknowledgements of its request,
\* a caller that waits while its answer is stored has been sent it.
THEOREM AnswerReachesHolds == Spec => []AnswerReaches
<1>1. AnswerInv => AnswerReaches
  BY DEF AnswerInv
<1> QED BY <1>1, AnswerStart, AnswerStep, PTL DEF Spec

-----------------------------------------------------------------------------
Popping == {"start", "rev", "act", "sleep", "authorize", "hand"}

\* A popper that has seen a list empty is woken when the list fills: from the
\* moment it has looked at the list, and not only once it sleeps.
SignalFollows ==
    \A c \in Conns :
        /\ cst[c] = "open"
        /\ \/ pop[c] = "sleep" /\ (revq # <<>> \/ actq # <<>>)
           \/ pop[c] = "act" /\ revq # <<>>
        => c \in sig \/ c \notin waiters

\* The popper of a connection does nothing before the connection is open.
Unborn == \A c \in Conns : cst[c] = "new" => pop[c] = "start"

WakeInv ==
    /\ cst \in [Conns -> {"new", "open", "closed"}]
    /\ pop \in [Conns -> Popping]
    /\ Unborn
    /\ SignalFollows

WakeFrame ==
    /\ cst' = cst /\ pop' = pop /\ waiters' = waiters /\ sig' = sig
    /\ revq' = revq /\ actq' = actq

LEMMA WakeFrameKeeps == WakeInv /\ WakeFrame => WakeInv'
BY DEF WakeInv, WakeFrame, Unborn, SignalFollows

\* A push followed by the signal, whatever is pushed.
LEMMA SignalKeeps ==
    ASSUME WakeInv, Signal, cst' = cst, pop' = pop PROVE WakeInv'
BY DEF WakeInv, Signal, Unborn, SignalFollows

\* The end of a connection, with or without a push by it.
LEMMA ShutKeeps ==
    ASSUME WakeInv, NEW c \in Conns, Shut(c),
           \/ Signal
           \/ revq' = revq /\ actq' = actq /\ (sig' = sig \/ sig' = sig \ {c})
    PROVE  WakeInv'
BY DEF WakeInv, Shut, Signal, Unborn, SignalFollows, Popping

\* Every step keeps WakeInv: one case per action that touches the lists, the
\* signals or the poppers.
LEMMA WakeStep == WakeInv /\ [Next]_vars => WakeInv'
<1> SUFFICES ASSUME WakeInv, [Next]_vars PROVE WakeInv'
  OBVIOUS
<1> USE DEF redisVars, connVars, popVars
<1>1. CASE UNCHANGED vars
  BY <1>1, WakeFrameKeeps DEF WakeFrame, vars
<1>2. ASSUME NEW v \in Revs, Revoke(v) PROVE WakeInv'
  BY <1>2, SignalKeeps DEF Revoke, RequestRevocation
<1>3. ASSUME NEW a \in Acts, Activate(a) PROVE WakeInv'
  BY <1>3, SignalKeeps DEF Activate, Request
<1>4. ASSUME NEW c \in Conns, NewWaiter(c) PROVE WakeInv'
  BY <1>4 DEF WakeInv, NewWaiter, Unborn, SignalFollows, Popping
<1>5. ASSUME NEW c \in Conns, PopRev(c) PROVE WakeInv'
  <2>1. CASE revq = <<>> /\ pop' = [pop EXCEPT ![c] = "act"] /\ UNCHANGED <<revq, hand, waiters>>
    BY <1>5, <2>1 DEF WakeInv, PopRev, Unborn, SignalFollows, Popping
  <2>2. CASE /\ revq # <<>>
             /\ revq' = Tail(revq)
             /\ pop' = [pop EXCEPT ![c] = "hand"]
             /\ waiters' = waiters \ {c}
    BY <1>5, <2>2 DEF WakeInv, PopRev, Unborn, SignalFollows, Popping
  <2> QED BY <1>5, <2>1, <2>2 DEF PopRev
<1>6. ASSUME NEW c \in Conns, PopAct(c) PROVE WakeInv'
  <2>1. CASE actq = <<>> /\ pop' = [pop EXCEPT ![c] = "sleep"] /\ UNCHANGED <<actq, hand, waiters>>
    BY <1>6, <2>1 DEF WakeInv, PopAct, Unborn, SignalFollows, Popping
  <2>2. CASE /\ actq # <<>>
             /\ actq' = Tail(actq)
             /\ pop' = [pop EXCEPT ![c] = "authorize"]
             /\ waiters' = waiters \ {c}
    BY <1>6, <2>2 DEF WakeInv, PopAct, Unborn, SignalFollows, Popping
  <2> QED BY <1>6, <2>1, <2>2 DEF PopAct
<1>7. ASSUME NEW c \in Conns, Wake(c) \/ Authorize(c) PROVE WakeInv'
  BY <1>7 DEF WakeInv, Wake, Authorize, Unborn, SignalFollows, Popping
<1>8. ASSUME NEW c \in Conns, Notify(c) PROVE WakeInv'
  BY <1>8 DEF WakeInv, Notify, Unborn, SignalFollows
<1>9. ASSUME NEW c \in Conns, Offer(c) PROVE WakeInv'
  BY <1>9 DEF WakeInv, Offer, Unborn, SignalFollows, Popping
<1>10. ASSUME NEW c \in Conns, WriteFails(c) PROVE WakeInv'
  BY <1>10, ShutKeeps DEF WriteFails, RequestRevocation, Request
<1>11. ASSUME NEW c \in Conns, Close(c) PROVE WakeInv'
  BY <1>11, ShutKeeps DEF Close
<1>12. ASSUME NEW c \in Conns, Connect(c) PROVE WakeInv'
  BY <1>12 DEF WakeInv, Connect, Unborn, SignalFollows
<1>13. CASE Expire
  BY <1>13 DEF WakeInv, Expire, Unborn, SignalFollows
<1>14. ASSUME NEW c \in Conns,
              Write(c) \/ ReadSync(c) \/ ReadAck(c) \/ ReadAcked(c) \/ ReadResult(c)
       PROVE  WakeInv'
  BY <1>14, WakeFrameKeeps
     DEF WakeFrame, Write, ReadSync, ReadAck, ReadAcked, ReadResult
<1>15. ASSUME NEW r,
              \/ Look(r) \/ Subscribe(r) \/ Told(r) \/ TimeUp(r) \/ OwnerFound(r)
              \/ TakeRevocation(r) \/ TakeActivation(r)
       PROVE  WakeInv'
  BY <1>15, WakeFrameKeeps
     DEF WakeFrame, Look, Subscribe, Told, TimeUp, OwnerFound, TakeRevocation,
         TakeActivation
<1>16. CASE \/ DevList \/ PostReconcile \/ PostAnswer \/ PostFails \/ DevSynced
            \/ DevHeartbeat \/ DevAck \/ DevStart \/ DevDrop \/ WorkerEnds
            \/ StaleWorkerStop \/ WorkerStopped \/ LocalChange \/ OwnerGone
  BY <1>16, WakeFrameKeeps
     DEF WakeFrame, DevList, PostReconcile, PostAnswer, PostFails, DevSynced,
         DevHeartbeat, DevAck, DevStart, DevDrop, WorkerEnds, WorkerStopped, StaleWorkerStop,
         LocalChange, OwnerGone
<1> QED
  BY <1>1, <1>2, <1>3, <1>4, <1>5, <1>6, <1>7, <1>8, <1>9, <1>10, <1>11, <1>12,
     <1>13, <1>14, <1>15, <1>16
     DEF Next, Caller, Gateway, Device

LEMMA WakeStart == Init => WakeInv
BY DEF Init, WakeInv, Unborn, SignalFollows, Popping

\* WaitForNext files its waiter before it looks at the lists: a goroutine never
\* sleeps through a request that was pushed before, while or after it looked.
THEOREM NoLostWakeupHolds == Spec => []NoLostWakeup
<1>1. WakeInv => NoLostWakeup
  BY DEF WakeInv, SignalFollows, NoLostWakeup
<1> QED BY <1>1, WakeStart, WakeStep, PTL DEF Spec

-----------------------------------------------------------------------------
(* An acknowledged revocation.                                              *)

\* The workspace is out: not in the registry, no worker that was not told to
\* stop, none about to start.
Out == ~registry /\ worker # "live" /\ dpc # "start"

\* The device's acknowledgement is on a socket.
AckUp == \E c \in Conns : \E i \in 1..Len(up[c]) : up[c][i][1] = "ack"

\* What leads to an acknowledgement, and what follows from one: the device has
\* taken the revocation or lists a registry without the workspace, or an
\* acknowledgement is on its way, stored, published or returned to its caller.
Evidence ==
    \/ dpc = "post" /\ ~snap
    \/ dreq \in Revs
    \/ post # None
    \/ AckUp
    \/ \E c \in Conns : reader[c] # None
    \/ \E v \in Revs : v \in acks \/ v \in told \/ outcome[v] = "ok"

\* The types of what the argument reads, and the request the device handles.
RevokeType ==
    /\ registry \in BOOLEAN /\ snap \in BOOLEAN /\ items \in BOOLEAN /\ spoiled \in BOOLEAN
    /\ dev \in Conns \cup {None}
    /\ pend \in Revs \cup {None} /\ post \in Revs \cup {None}
    /\ reader \in [Conns -> Revs \cup {None}]
    /\ up \in [Conns -> Seq(Message)]
    /\ outcome \in [Requests -> {"none", "ok", "fail", "timeout"}]
    /\ dreq \in Requests \cup {None}
    /\ dpc = "start" => dreq \in Acts
    /\ dpc = "ack" => dreq \in Revs
    /\ dreq \in Acts => dpc = "start"

RevokeInv == RevokeType /\ (~spoiled /\ Evidence => Out)

\* A message is put at the end of the device's socket, or nowhere.
LEMMA SendUp ==
    ASSUME up \in [Conns -> Seq(Message)], dev \in Conns, NEW m \in Message, Send(m)
    PROVE  /\ up' \in [Conns -> Seq(Message)]
           /\ AckUp' => AckUp \/ m[1] = "ack"
<1>1. up' = up \/ up' = [up EXCEPT ![dev] = Append(up[dev], m)]
  BY DEF Send
<1>2. up' \in [Conns -> Seq(Message)]
  <2>1. Append(up[dev], m) \in Seq(Message)
    OBVIOUS
  <2> QED BY <1>1, <2>1
<1>3. ASSUME NEW c \in Conns, NEW i \in 1..Len(up'[c]), up'[c][i][1] = "ack"
      PROVE  AckUp \/ m[1] = "ack"
  <2>1. up[c] \in Seq(Message)
    OBVIOUS
  <2>2. CASE up'[c] = up[c]
    BY <1>3, <2>2 DEF AckUp
  <2>3. CASE up'[c] = Append(up[c], m)
    <3>1. CASE i = Len(up[c]) + 1
      BY <1>3, <2>1, <2>3, <3>1
    <3>2. CASE i # Len(up[c]) + 1
      <4>1. i \in 1..Len(up[c]) /\ up'[c][i] = up[c][i]
        BY <2>1, <2>3, <3>2
      <4> QED BY <1>3, <4>1 DEF AckUp
    <3> QED BY <3>1, <3>2
  <2> QED BY <1>1, <2>2, <2>3
<1> QED BY <1>2, <1>3 DEF AckUp

\* The read loop takes the first message of a socket.
LEMMA TailUp ==
    ASSUME up \in [Conns -> Seq(Message)], NEW c \in Conns, up[c] # <<>>,
           up' = [up EXCEPT ![c] = Tail(@)]
    PROVE  /\ up' \in [Conns -> Seq(Message)]
           /\ AckUp' => AckUp
           /\ Head(up[c]) \in Message
           /\ Head(up[c])[1] = "ack" => AckUp
<1>1. up[c] \in Seq(Message) /\ Len(up[c]) \in Nat /\ Len(up[c]) # 0
  OBVIOUS
<1>2. up' \in [Conns -> Seq(Message)]
  BY <1>1
<1>3. Head(up[c]) = up[c][1] /\ 1 \in 1..Len(up[c]) /\ up[c][1] \in Message
  BY <1>1
<1>4. ASSUME NEW d \in Conns, NEW i \in 1..Len(up'[d]), up'[d][i][1] = "ack" PROVE AckUp
  <2>1. CASE d # c
    BY <1>4, <2>1 DEF AckUp
  <2>2. CASE d = c
    <3>1. i + 1 \in 1..Len(up[c]) /\ up'[c][i] = up[c][i + 1]
      BY <1>1, <2>2
    <3> QED BY <1>4, <2>2, <3>1 DEF AckUp
  <2> QED BY <2>1, <2>2
<1> QED BY <1>2, <1>3, <1>4 DEF AckUp

RevokeFrame ==
    /\ UNCHANGED <<registry, snap, items, spoiled, dev, post, reader, up, outcome,
                   dreq, dpc, worker, acks, told>>
    /\ pend' \in Revs \cup {None}

\* A step that leaves the device and the acknowledgements alone.
LEMMA RevokeFrameKeeps == RevokeInv /\ RevokeFrame => RevokeInv'
<1> SUFFICES ASSUME RevokeInv, RevokeFrame PROVE RevokeInv'
  OBVIOUS
<1>1. RevokeType'
  BY DEF RevokeInv, RevokeFrame, RevokeType
<1>2. Evidence' <=> Evidence
  BY DEF RevokeFrame, Evidence, AckUp
<1>3. Out' <=> Out
  BY DEF RevokeFrame, Out
<1> QED BY <1>1, <1>2, <1>3 DEF RevokeInv, RevokeFrame

\* Activate or Revoke returns res.
LEMMA RevokeReturn ==
    ASSUME RevokeInv, NEW r \in Requests, NEW res \in {"ok", "fail", "timeout"},
           Return(r, res), r \in Revs /\ res = "ok" => Evidence,
           UNCHANGED <<redisVars, connVars, devVars, spoiled>>
    PROVE  RevokeInv'
<1>1. /\ outcome' = [outcome EXCEPT ![r] = res] /\ told' \subseteq told
      /\ outcome \in [Requests -> {"none", "ok", "fail", "timeout"}]
  BY DEF Return, RevokeInv, RevokeType
<1>2. outcome' \in [Requests -> {"none", "ok", "fail", "timeout"}]
  BY <1>1
<1>3. RevokeType'
  BY <1>2 DEF RevokeInv, RevokeType, redisVars, connVars, devVars
<1>4. Evidence' => Evidence
  <2>1. ASSUME NEW v \in Revs, v \in acks' \/ v \in told' \/ outcome'[v] = "ok" PROVE Evidence
    <3>1. v \in acks \/ v \in told \/ outcome[v] = "ok" \/ (v = r /\ res = "ok")
      BY <1>1, <2>1 DEF redisVars, Requests
    <3> QED BY <3>1 DEF Evidence
  <2> QED BY <2>1 DEF Evidence, AckUp, redisVars, connVars, devVars
<1>5. Out' <=> Out
  BY DEF Out, devVars
<1> QED BY <1>3, <1>4, <1>5 DEF RevokeInv

\* A caller that hears of its revocation hears of one that was acknowledged.
LEMMA RevokeHeard ==
    ASSUME RevokeInv, NEW r \in Requests, Heard(r), r \in Revs => r \in acks \cup told,
           UNCHANGED <<redisVars, connVars, devVars, spoiled>>
    PROVE  RevokeInv'
<1>1. CASE r \in Acts /\ results[r] = "ok"
  BY <1>1, RevokeFrameKeeps
     DEF Heard, RevokeFrame, RevokeInv, RevokeType, redisVars, connVars, devVars
<1>2. CASE ~(r \in Acts /\ results[r] = "ok")
  <2>1. PICK res \in {"ok", "fail"} : Return(r, res)
    BY <1>2 DEF Heard
  <2>2. r \in Revs => Evidence
    BY DEF Evidence
  <2> QED BY <2>1, <2>2, RevokeReturn
<1> QED BY <1>1, <1>2

\* An acknowledgement is stored and published.
LEMMA RevokeAcknowledge ==
    ASSUME RevokeInv, NEW v \in Revs \cup {None}, Acknowledge(v), v # None => Evidence
    PROVE  /\ pend' \in Revs \cup {None}
           /\ \A u \in Revs : u \in acks' \/ u \in told' => u \in acks \/ u \in told \/ Evidence
  BY DEF Acknowledge, Publish, RevokeInv, RevokeType

\* The steps of the callers.
LEMMA RevokeCaller == RevokeInv /\ Caller => RevokeInv'
<1> SUFFICES ASSUME RevokeInv, Caller PROVE RevokeInv'
  OBVIOUS
<1> USE DEF devVars
<1>1. ASSUME NEW v \in Revs, Revoke(v) PROVE RevokeInv'
  BY <1>1, RevokeFrameKeeps DEF Revoke, RequestRevocation, RevokeFrame
<1>2. ASSUME NEW a \in Acts, Activate(a) PROVE RevokeInv'
  BY <1>2, RevokeFrameKeeps DEF Activate, Request, RevokeFrame, RevokeInv, RevokeType
<1>3. ASSUME NEW a \in Acts, OwnerFound(a) PROVE RevokeInv'
  <2>1. a \in Requests /\ a \notin Revs
    BY ControlAssumption DEF Requests
  <2>2. Return(a, "ok") /\ UNCHANGED <<redisVars, connVars, devVars, spoiled>>
    BY <1>3 DEF OwnerFound
  <2>3. "ok" \in {"ok", "fail", "timeout"}
    OBVIOUS
  <2> QED BY <2>1, <2>2, <2>3, RevokeReturn
<1>4. ASSUME NEW r \in Requests, Look(r) PROVE RevokeInv'
  <2>1. UNCHANGED <<redisVars, connVars, devVars, spoiled>>
    BY <1>4 DEF Look
  <2>2. CASE Stored(r) /\ Heard(r)
    BY <2>1, <2>2, RevokeHeard DEF Stored
  <2>3. CASE UNCHANGED <<told, outcome>>
    BY <2>1, <2>3, RevokeFrameKeeps
       DEF RevokeFrame, RevokeInv, RevokeType, redisVars, connVars
  <2> QED BY <1>4, <2>2, <2>3 DEF Look
<1>5. ASSUME NEW r \in Requests, Subscribe(r) PROVE RevokeInv'
  BY <1>5, RevokeFrameKeeps
     DEF Subscribe, RevokeFrame, RevokeInv, RevokeType, redisVars, connVars
<1>6. ASSUME NEW r \in Requests, Told(r) PROVE RevokeInv'
  BY <1>6, RevokeHeard DEF Told
<1>7. ASSUME NEW r \in Requests, TimeUp(r) PROVE RevokeInv'
  <2>1. Return(r, "timeout") /\ UNCHANGED <<redisVars, connVars, devVars, spoiled>>
    BY <1>7 DEF TimeUp
  <2>2. "timeout" \in {"ok", "fail", "timeout"} /\ "timeout" # "ok"
    OBVIOUS
  <2> QED BY <2>1, <2>2, RevokeReturn
<1> QED BY <1>1, <1>2, <1>3, <1>4, <1>5, <1>6, <1>7 DEF Caller

\* The steps of a connection in its gateway.
LEMMA RevokeGateway ==
    ASSUME RevokeInv, NEW c \in Conns, Gateway(c)
    PROVE  RevokeInv'
<1> USE DEF devVars, redisVars, popVars, callerVars
<1>1. CASE \/ NewWaiter(c) \/ PopRev(c) \/ PopAct(c) \/ Authorize(c) \/ Wake(c)
           \/ Notify(c) \/ Offer(c) \/ Write(c)
  BY <1>1, RevokeFrameKeeps
     DEF RevokeFrame, RevokeInv, RevokeType, NewWaiter, PopRev, PopAct, Authorize, Wake,
         Notify, Offer, Write
<1>2. CASE WriteFails(c) \/ Close(c)
  <2>1. /\ UNCHANGED <<registry, snap, items, spoiled, dev, post, outcome, dreq, dpc, worker,
                       acks, told>>
        /\ reader' = [reader EXCEPT ![c] = None]
        /\ up' = [up EXCEPT ![c] = <<>>]
    BY <1>2 DEF WriteFails, Close, Shut
  <2>2. pend' \in Revs \cup {None}
    BY <1>2 DEF WriteFails, Close, RequestRevocation, Request, RevokeInv, RevokeType
  <2>3. RevokeType'
    BY <2>1, <2>2 DEF RevokeInv, RevokeType
  <2>4. AckUp' => AckUp
    BY <2>1 DEF AckUp, RevokeInv, RevokeType
  <2>5. Evidence' => Evidence
    BY <2>1, <2>4 DEF Evidence, RevokeInv, RevokeType
  <2> QED BY <2>1, <2>3, <2>5 DEF RevokeInv, Out
<1>3. CASE ReadSync(c) \/ ReadResult(c)
  <2>1. /\ UNCHANGED <<registry, snap, items, spoiled, dev, post, outcome, dreq, dpc, worker,
                       acks, reader, pend>>
        /\ up[c] # <<>>
        /\ up' = [up EXCEPT ![c] = Tail(@)]
    BY <1>3 DEF ReadSync, ReadResult
  <2>2. /\ up' \in [Conns -> Seq(Message)]
        /\ AckUp' => AckUp
        /\ Head(up[c]) \in Message
    BY <2>1, TailUp DEF RevokeInv, RevokeType
  <2>3. \A v \in Revs : v \in told' => v \in told
    <3>1. CASE ReadSync(c)
      BY <3>1 DEF ReadSync
    <3>2. CASE ReadResult(c)
      <4>1. Publish(Head(up[c])[2]) /\ Head(up[c])[1] \in {"ok", "fail"}
        BY <3>2 DEF ReadResult
      <4>2. Head(up[c])[2] \in Acts
        BY <2>2, <4>1 DEF Message
      <4> QED BY <4>1, <4>2, ControlAssumption DEF Publish
    <3> QED BY <1>3, <3>1, <3>2
  <2>4. RevokeType'
    BY <2>1, <2>2 DEF RevokeInv, RevokeType
  <2>5. Evidence' => Evidence
    BY <2>1, <2>2, <2>3 DEF Evidence
  <2> QED BY <2>1, <2>4, <2>5 DEF RevokeInv, Out
<1>4. CASE ReadAck(c)
  <2>1. /\ UNCHANGED <<registry, snap, items, spoiled, dev, post, outcome, dreq, dpc, worker,
                       acks, told, pend>>
        /\ up[c] # <<>> /\ Head(up[c])[1] = "ack"
        /\ reader' = [reader EXCEPT ![c] = Expected(Head(up[c])[2])]
        /\ up' = [up EXCEPT ![c] = Tail(@)]
    BY <1>4 DEF ReadAck
  <2>2. /\ up' \in [Conns -> Seq(Message)]
        /\ AckUp
    BY <2>1, TailUp DEF RevokeInv, RevokeType
  <2>3. Expected(Head(up[c])[2]) \in Revs \cup {None}
    BY DEF Expected, RevokeInv, RevokeType
  <2>4. RevokeType'
    BY <2>1, <2>2, <2>3 DEF RevokeInv, RevokeType
  <2> QED BY <2>1, <2>2, <2>4 DEF RevokeInv, Out, Evidence
<1>5. CASE ReadAcked(c)
  <2>1. /\ UNCHANGED <<registry, snap, items, spoiled, dev, post, outcome, dreq, dpc, worker, up>>
        /\ reader[c] # None
        /\ Acknowledge(reader[c])
        /\ reader' = [reader EXCEPT ![c] = None]
    BY <1>5 DEF ReadAcked
  <2>2. Evidence /\ reader[c] \in Revs
    BY <2>1 DEF Evidence, RevokeInv, RevokeType
  <2>3. pend' \in Revs \cup {None}
    BY <2>1, <2>2, RevokeAcknowledge
  <2>4. RevokeType'
    BY <2>1, <2>3 DEF RevokeInv, RevokeType
  <2> QED BY <2>1, <2>2, <2>4 DEF RevokeInv, Out
<1> QED BY <1>1, <1>2, <1>3, <1>4, <1>5 DEF Gateway

\* The steps of the device.
LEMMA RevokeDevice == RevokeInv /\ Device => RevokeInv'
<1> SUFFICES ASSUME RevokeInv, Device PROVE RevokeInv'
  OBVIOUS
<1> USE ControlAssumption DEF connVars, redisVars, popVars, callerVars
<1>0. /\ RevokeType
      /\ ~spoiled /\ Evidence => Out
  BY DEF RevokeInv
<1>1. CASE DevList
  <2>1. /\ UNCHANGED <<registry, items, spoiled, dev, post, reader, up, outcome, dreq,
                       acks, told, pend>>
        /\ dpc \in {"list", "idle"} /\ dpc' \in {"post", "synced"}
        /\ snap' = registry
        /\ worker' = IF worker = "live" /\ ~registry THEN "doomed" ELSE worker
    BY <1>1 DEF DevList
  <2>2. RevokeType'
    BY <1>0, <2>1 DEF RevokeType
  <2>3. Evidence' => Evidence \/ Out'
    BY <2>1 DEF Evidence, AckUp, Out
  <2>4. Out => Out'
    BY <2>1 DEF Out
  <2> QED BY <1>0, <2>1, <2>2, <2>3, <2>4 DEF RevokeInv
<1>2. CASE PostReconcile
  <2>1. /\ UNCHANGED <<registry, snap, items, spoiled, dev, reader, up, outcome, dreq,
                       worker, acks, told, pend>>
        /\ dpc = "post" /\ dpc' = "answer"
        /\ post' = IF catalog /\ ~snap THEN Expected(None) ELSE None
    BY <1>2 DEF PostReconcile
  <2>2. post' \in Revs \cup {None}
    BY <1>0, <2>1 DEF Expected, RevokeType
  <2>3. RevokeType'
    BY <1>0, <2>1, <2>2 DEF RevokeType
  <2>4. Evidence' => Evidence
    BY <2>1 DEF Evidence, AckUp
  <2>5. Out => Out'
    BY <2>1 DEF Out
  <2> QED BY <1>0, <2>1, <2>3, <2>4, <2>5 DEF RevokeInv
<1>3. CASE PostAnswer
  <2>1. /\ UNCHANGED <<registry, snap, items, spoiled, dev, reader, up, outcome, dreq, worker>>
        /\ dpc = "answer" /\ dpc' = "synced"
        /\ Acknowledge(post) /\ post' = None
    BY <1>3 DEF PostAnswer
  <2>2. post \in Revs \cup {None} /\ (post # None => Evidence)
    BY <1>0 DEF RevokeType, Evidence
  <2>3. /\ pend' \in Revs \cup {None}
        /\ \A u \in Revs : u \in acks' \/ u \in told' => u \in acks \/ u \in told \/ Evidence
    BY <2>1, <2>2, RevokeAcknowledge
  <2>4. RevokeType'
    BY <1>0, <2>1, <2>3 DEF RevokeType
  <2>5. Evidence' => Evidence
    BY <2>1, <2>3 DEF Evidence, AckUp
  <2>6. Out => Out'
    BY <2>1 DEF Out
  <2> QED BY <1>0, <2>1, <2>4, <2>5, <2>6 DEF RevokeInv
<1>4. CASE PostFails
  <2>1. /\ UNCHANGED <<registry, snap, items, spoiled, dev, reader, up, outcome, dreq, worker,
                       acks, told, pend>>
        /\ dpc \in {"post", "answer", "synced"} /\ dpc' = "unsynced"
        /\ post' = None
    BY <1>4 DEF PostFails
  <2>2. RevokeType'
    BY <1>0, <2>1 DEF RevokeType
  <2>3. Evidence' => Evidence
    BY <2>1 DEF Evidence, AckUp
  <2>4. Out => Out'
    BY <2>1 DEF Out
  <2> QED BY <1>0, <2>1, <2>2, <2>3, <2>4 DEF RevokeInv
<1>5. CASE DevSynced
  <2>1. /\ UNCHANGED <<registry, snap, spoiled, dev, reader, outcome, dreq, worker, post,
                       acks, told, pend>>
        /\ dev # None
        /\ dpc \in {"synced", "unsynced"}
        /\ dpc' = IF dreq = None THEN "idle" ELSE "ack"
        /\ \/ items' = snap /\ Send(<<"sync", snap>>)
           \/ UNCHANGED <<items, up>>
    BY <1>5 DEF DevSynced
  <2>2. /\ up' \in [Conns -> Seq(Message)]
        /\ AckUp' => AckUp
        /\ items' \in BOOLEAN
    <3>1. CASE items' = snap /\ Send(<<"sync", snap>>)
      <4>1. <<"sync", snap>> \in Message /\ <<"sync", snap>>[1] # "ack"
        BY <1>0 DEF Message, RevokeType
      <4>2. dev \in Conns
        BY <1>0, <2>1 DEF RevokeType
      <4> QED BY <1>0, <3>1, <4>1, <4>2, SendUp DEF RevokeType
    <3>2. CASE UNCHANGED <<items, up>>
      BY <1>0, <3>2 DEF RevokeType, AckUp
    <3> QED BY <2>1, <3>1, <3>2
  <2>3. RevokeType'
    <3>1. dreq # None => dreq \in Revs
      BY <1>0, <2>1 DEF RevokeType, Requests
    <3> QED BY <1>0, <2>1, <2>2, <3>1 DEF RevokeType
  <2>4. Evidence' => Evidence
    BY <2>1, <2>2 DEF Evidence
  <2>5. Out => Out'
    BY <2>1 DEF Out
  <2> QED BY <1>0, <2>1, <2>3, <2>4, <2>5 DEF RevokeInv
<1>6. CASE DevHeartbeat
  <2>1. /\ UNCHANGED <<registry, snap, items, spoiled, dev, reader, outcome, dreq, dpc, worker,
                       post, acks, told, pend>>
        /\ dev # None
        /\ Send(<<"sync", items>>)
    BY <1>6 DEF DevHeartbeat, devVars
  <2>2. <<"sync", items>> \in Message /\ <<"sync", items>>[1] # "ack" /\ dev \in Conns
    BY <1>0, <2>1 DEF Message, RevokeType
  <2>3. up' \in [Conns -> Seq(Message)] /\ (AckUp' => AckUp)
    BY <1>0, <2>1, <2>2, SendUp DEF RevokeType
  <2>4. RevokeType'
    BY <1>0, <2>1, <2>3 DEF RevokeType
  <2>5. Evidence' => Evidence
    BY <2>1, <2>3 DEF Evidence
  <2> QED BY <1>0, <2>1, <2>4, <2>5 DEF RevokeInv, Out
<1>7. CASE DevAck
  <2>1. /\ UNCHANGED <<registry, snap, items, spoiled, dev, reader, outcome, worker,
                       post, acks, told, pend>>
        /\ dpc = "ack" /\ dpc' = "idle" /\ dreq' = None
        /\ Send(<<"ack", dreq>>)
    BY <1>7 DEF DevAck
  <2>2. dreq \in Revs /\ Evidence /\ <<"ack", dreq>> \in Message
    BY <1>0, <2>1 DEF Message, RevokeType, Evidence
  <2>3. up' \in [Conns -> Seq(Message)]
    <3>1. CASE dev \in Conns
      BY <1>0, <2>1, <2>2, <3>1, SendUp DEF RevokeType
    <3>2. CASE dev \notin Conns
      BY <1>0, <2>1, <3>2 DEF Send, RevokeType
    <3> QED BY <3>1, <3>2
  <2>4. RevokeType'
    BY <1>0, <2>1, <2>3 DEF RevokeType, Requests
  <2> QED BY <1>0, <2>1, <2>2, <2>4 DEF RevokeInv, Out
<1>8. CASE DevStart
  <2>1. /\ UNCHANGED <<registry, snap, items, spoiled, dev, reader, outcome,
                       post, acks, told, pend>>
        /\ dpc = "start" /\ dpc' = "idle" /\ dreq' = None
        /\ Send(<<"ok", dreq>>) \/ Send(<<"fail", dreq>>)
    BY <1>8 DEF DevStart
  <2>2. PICK m \in {<<"ok", dreq>>, <<"fail", dreq>>} : Send(m)
    BY <2>1
  <2>3. m \in Message /\ m[1] # "ack"
    BY <1>0, <2>1 DEF Message, RevokeType
  <2>4. up' \in [Conns -> Seq(Message)] /\ (AckUp' => AckUp)
    <3>1. CASE dev \in Conns
      BY <1>0, <2>2, <2>3, <3>1, SendUp DEF RevokeType
    <3>2. CASE dev \notin Conns
      BY <1>0, <2>2, <3>2 DEF Send, RevokeType, AckUp
    <3> QED BY <3>1, <3>2
  <2>5. RevokeType'
    BY <1>0, <2>1, <2>4 DEF RevokeType, Requests
  <2>6. Evidence' => Evidence
    BY <2>1, <2>4 DEF Evidence, Requests
  <2>7. ~Out
    BY <2>1 DEF Out
  <2> QED BY <1>0, <2>1, <2>5, <2>6, <2>7 DEF RevokeInv
<1>9. CASE DevDrop
  <2>1. /\ UNCHANGED <<registry, snap, items, spoiled, reader, up, outcome, acks, told, pend>>
        /\ dev' = None /\ dpc' = "idle" /\ dreq' = None /\ post' = None
        /\ worker' = IF worker \in {"live", "doomed"} THEN "stopping" ELSE worker
    BY <1>9 DEF DevDrop, Serves
  <2>2. RevokeType'
    BY <1>0, <2>1 DEF RevokeType, Requests
  <2>3. Evidence' => Evidence
    BY <2>1 DEF Evidence, AckUp, Requests
  <2>4. Out => Out'
    BY <2>1 DEF Out
  <2> QED BY <1>0, <2>1, <2>2, <2>3, <2>4 DEF RevokeInv
<1>10. ASSUME NEW c \in Conns, Connect(c) PROVE RevokeInv'
  <2>1. /\ UNCHANGED <<registry, snap, spoiled, reader, up, outcome, acks, told, pend, dreq,
                       post, worker>>
        /\ dev' = c /\ dpc \in {"synced", "unsynced"} /\ dpc' = "idle"
        /\ items' \in {snap, registry}
    BY <1>10 DEF Connect
  <2>2. RevokeType'
    BY <1>0, <2>1 DEF RevokeType
  <2>3. Evidence' => Evidence
    BY <2>1 DEF Evidence, AckUp
  <2>4. Out => Out'
    BY <2>1 DEF Out
  <2> QED BY <1>0, <2>1, <2>2, <2>3, <2>4 DEF RevokeInv
<1>11. ASSUME NEW v \in Revs, TakeRevocation(v) PROVE RevokeInv'
  <2>1. /\ UNCHANGED <<snap, items, dev, reader, up, outcome, acks, told, pend, post>>
        /\ worker' = "none" /\ dreq' = v
        /\ dpc' \in {"list", "ack"}
        /\ \/ registry' = FALSE /\ spoiled' = spoiled
           \/ registry' = registry /\ spoiled' = (spoiled \/ registry)
    BY <1>11 DEF TakeRevocation, Take
  <2>2. RevokeType'
    BY <1>0, <2>1 DEF RevokeType, Requests
  <2>3. ~spoiled' => Out'
    BY <1>0, <2>1 DEF Out, RevokeType
  <2> QED BY <2>2, <2>3 DEF RevokeInv
<1>12. ASSUME NEW a \in Acts, TakeActivation(a) PROVE RevokeInv'
  <2>1. /\ UNCHANGED <<registry, snap, items, spoiled, dev, reader, outcome, acks, told, pend,
                       post, worker>>
        /\ dev # None /\ dpc = "idle"
        /\ \/ /\ Send(<<"ok", a>>) \/ Send(<<"fail", a>>)
              /\ UNCHANGED <<dpc, dreq>>
           \/ registry /\ dpc' = "start" /\ dreq' = a /\ UNCHANGED up
    BY <1>12 DEF TakeActivation, Take
  <2>2. CASE (Send(<<"ok", a>>) \/ Send(<<"fail", a>>)) /\ UNCHANGED <<dpc, dreq>>
    <3>1. PICK m \in {<<"ok", a>>, <<"fail", a>>} : Send(m)
      BY <2>2
    <3>2. m \in Message /\ m[1] # "ack" /\ dev \in Conns
      BY <1>0, <2>1 DEF Message, RevokeType
    <3>3. up' \in [Conns -> Seq(Message)] /\ (AckUp' => AckUp)
      BY <1>0, <3>1, <3>2, SendUp DEF RevokeType
    <3>4. RevokeType'
      BY <1>0, <2>1, <2>2, <3>3 DEF RevokeType
    <3>5. Evidence' => Evidence
      BY <2>1, <2>2, <3>3 DEF Evidence
    <3> QED BY <1>0, <2>1, <2>2, <3>4, <3>5 DEF RevokeInv, Out
  <2>3. CASE registry /\ dpc' = "start" /\ dreq' = a /\ UNCHANGED up
    <3>1. RevokeType'
      BY <1>0, <2>1, <2>3 DEF RevokeType, Requests
    <3>2. Evidence' => Evidence
      BY <2>1, <2>3 DEF Evidence, AckUp
    <3>3. ~Out
      BY <2>3 DEF Out
    <3> QED BY <1>0, <2>1, <3>1, <3>2, <3>3 DEF RevokeInv
  <2> QED BY <2>1, <2>2, <2>3
<1>13. CASE StaleWorkerStop \/ WorkerEnds \/ WorkerStopped
  <2>1. /\ UNCHANGED <<registry, snap, items, spoiled, dev, reader, up, outcome, acks, told,
                       pend, post, dpc, dreq>>
        /\ worker' \in {"stopping", "none"}
    BY <1>13 DEF WorkerEnds, WorkerStopped, StaleWorkerStop
  <2>2. RevokeType'
    BY <1>0, <2>1 DEF RevokeType
  <2>3. Evidence' => Evidence
    BY <2>1 DEF Evidence, AckUp
  <2>4. Out => Out'
    BY <2>1 DEF Out
  <2> QED BY <1>0, <2>1, <2>2, <2>3, <2>4 DEF RevokeInv
<1>14. CASE LocalChange
  <2>1. /\ UNCHANGED <<snap, items, dev, reader, up, outcome, acks, told, pend, post, dpc, dreq,
                       worker>>
        /\ registry' = ~registry
        /\ spoiled' = (spoiled \/ registry')
    BY <1>14 DEF LocalChange
  <2>2. RevokeType'
    BY <1>0, <2>1 DEF RevokeType
  <2>3. Evidence' => Evidence
    BY <2>1 DEF Evidence, AckUp
  <2>4. ~spoiled' => ~spoiled /\ ~Out
    BY <1>0, <2>1 DEF Out, RevokeType
  <2> QED BY <1>0, <2>2, <2>3, <2>4 DEF RevokeInv
<1> QED
  BY <1>1, <1>2, <1>3, <1>4, <1>5, <1>6, <1>7, <1>8, <1>9, <1>10, <1>11, <1>12, <1>13,
     <1>14 DEF Device

LEMMA RevokeStart == Init => RevokeInv
<1> SUFFICES ASSUME Init PROVE RevokeInv
  OBVIOUS
<1>1. up \in [Conns -> Seq(Message)]
  <2>1. <<>> \in Seq(Message)
    OBVIOUS
  <2> QED BY <2>1 DEF Init
<1>2. RevokeType
  BY <1>1, ControlAssumption DEF Init, RevokeType, Requests
<1>3. ~Evidence
  BY ControlAssumption DEF Init, Evidence, AckUp, Requests
<1> QED BY <1>2, <1>3 DEF RevokeInv

LEMMA RevokeStep == RevokeInv /\ [Next]_vars => RevokeInv'
<1> SUFFICES ASSUME RevokeInv, [Next]_vars PROVE RevokeInv'
  OBVIOUS
<1>1. CASE OwnerGone \/ Expire \/ UNCHANGED vars
  BY <1>1, RevokeFrameKeeps
     DEF RevokeFrame, RevokeInv, RevokeType, OwnerGone, Expire, vars, redisVars, connVars,
         devVars, callerVars
<1> QED BY <1>1, RevokeCaller, RevokeGateway, RevokeDevice DEF Next

\* An acknowledgement of a revocation says what the device did: when Revoke has
\* returned without an error the workspace is out of the registry, no worker of
\* it starts, and one that is left was told to stop, although it may serve until
\* it does; unless the registry could not be written or the user added it again.
THEOREM RevokedGoneHolds == Spec => []RevokedGone
<1>1. RevokeInv => RevokedGone
  BY DEF RevokeInv, Evidence, Out, RevokedGone
<1> QED BY <1>1, RevokeStart, RevokeStep, PTL DEF Spec

-----------------------------------------------------------------------------
(* The types of everything else: the requests on their way from the lists to *)
(* the device, and the flags and sets of Redis, the gateways and the device. *)

\* A request is on a list, in the hands of a popping goroutine, in an events
\* channel or on a socket.
FlowTypes ==
    /\ revq \in Seq(Revs) /\ actq \in Seq(Acts)
    /\ hand \in [Conns -> Requests \cup {None}]
    /\ buf \in [Conns -> Requests \cup {None}]
    /\ wire \in [Conns -> Seq(Requests)]

\* A step of the gateway of c moves a request, or pushes it again.
LEMMA FlowGateway ==
    ASSUME FlowTypes, NEW c \in Conns, Gateway(c)
    PROVE  FlowTypes'
<1> USE DEF FlowTypes, redisVars, popVars
<1>1. CASE PopRev(c)
  <2>1. revq # <<>> => Head(revq) \in Requests /\ Tail(revq) \in Seq(Revs)
    BY DEF Requests
  <2> QED BY <1>1, <2>1 DEF PopRev
<1>2. CASE PopAct(c)
  <2>1. actq # <<>> => Head(actq) \in Requests /\ Tail(actq) \in Seq(Acts)
    BY DEF Requests
  <2> QED BY <1>2, <2>1 DEF PopAct
<1>3. CASE Authorize(c) \/ Offer(c)
  BY <1>3 DEF Authorize, Offer
<1>4. CASE Write(c)
  <2>1. buf[c] \in Requests => Append(wire[c], buf[c]) \in Seq(Requests)
    OBVIOUS
  <2>2. buf[c] \in Requests
    BY <1>4 DEF Write
  <2> QED BY <1>4, <2>1, <2>2 DEF Write
<1>5. CASE WriteFails(c)
  <2>1. buf[c] \in Revs => Append(revq, buf[c]) \in Seq(Revs)
    OBVIOUS
  <2>2. buf[c] \in Acts => Append(actq, buf[c]) \in Seq(Acts)
    OBVIOUS
  <2>3. revq' \in Seq(Revs) /\ actq' \in Seq(Acts)
    BY <1>5, <2>1, <2>2 DEF WriteFails, RequestRevocation, Request
  <2> QED BY <1>5, <2>3 DEF WriteFails, Shut
<1>6. CASE Close(c)
  BY <1>6 DEF Close, Shut
<1>7. CASE NewWaiter(c) \/ Wake(c) \/ Notify(c)
  BY <1>7 DEF NewWaiter, Wake, Notify
<1>8. CASE ReadSync(c) \/ ReadAck(c) \/ ReadAcked(c) \/ ReadResult(c)
  BY <1>8 DEF ReadSync, ReadAck, ReadAcked, ReadResult
<1> QED BY <1>1, <1>2, <1>3, <1>4, <1>5, <1>6, <1>7, <1>8 DEF Gateway

\* The device takes the first request of its socket, or drops the socket.
LEMMA FlowDevice ==
    ASSUME FlowTypes, RevokeType, Device
    PROVE  FlowTypes'
<1> USE DEF FlowTypes, redisVars, popVars, connVars
<1>1. ASSUME NEW r, TakeRevocation(r) \/ TakeActivation(r) PROVE FlowTypes'
  <2>1. dev \in Conns /\ wire[dev] # <<>>
    BY <1>1 DEF TakeRevocation, TakeActivation, Take, RevokeType
  <2>2. Tail(wire[dev]) \in Seq(Requests)
    BY <2>1
  <2>3. wire' = [wire EXCEPT ![dev] = Tail(@)]
    BY <1>1 DEF TakeRevocation, TakeActivation, Take
  <2> QED BY <1>1, <2>1, <2>2, <2>3 DEF TakeRevocation, TakeActivation
<1>2. CASE DevDrop
  <2>1. <<>> \in Seq(Requests)
    OBVIOUS
  <2> QED BY <1>2, <2>1 DEF DevDrop
<1>3. CASE DevList \/ PostReconcile \/ PostAnswer \/ PostFails \/ DevSynced \/ DevHeartbeat
  BY <1>3 DEF DevList, PostReconcile, PostAnswer, PostFails, DevSynced, DevHeartbeat
<1>4. CASE DevAck \/ DevStart \/ StaleWorkerStop \/ WorkerEnds \/ WorkerStopped \/ LocalChange
  BY <1>4 DEF DevAck, DevStart, WorkerEnds, WorkerStopped, StaleWorkerStop, LocalChange
<1>5. ASSUME NEW c \in Conns, Connect(c) PROVE FlowTypes'
  BY <1>5 DEF Connect
<1> QED BY <1>1, <1>2, <1>3, <1>4, <1>5 DEF Device

LEMMA FlowStep == RevokeInv /\ FlowTypes /\ [Next]_vars => FlowTypes'
<1> SUFFICES ASSUME RevokeType, FlowTypes, [Next]_vars PROVE FlowTypes'
  BY DEF RevokeInv
<1> USE DEF redisVars, popVars, connVars
<1>1. ASSUME NEW v \in Revs, Revoke(v) PROVE FlowTypes'
  <2>1. Append(revq, v) \in Seq(Revs)
    BY DEF FlowTypes
  <2> QED BY <1>1, <2>1 DEF Revoke, RequestRevocation, FlowTypes
<1>2. ASSUME NEW a \in Acts, Activate(a) PROVE FlowTypes'
  <2>1. Append(actq, a) \in Seq(Acts)
    BY DEF FlowTypes
  <2> QED BY <1>2, <2>1 DEF Activate, Request, FlowTypes
<1>3. ASSUME NEW r, Look(r) \/ Subscribe(r) \/ Told(r) \/ TimeUp(r) \/ OwnerFound(r)
      PROVE  FlowTypes'
  BY <1>3 DEF Look, Subscribe, Told, TimeUp, OwnerFound, FlowTypes
<1>4. CASE Expire
  <2>1. <<>> \in Seq(Revs) /\ <<>> \in Seq(Acts)
    OBVIOUS
  <2> QED BY <1>4, <2>1 DEF Expire, FlowTypes
<1>5. CASE OwnerGone \/ UNCHANGED vars
  BY <1>5 DEF OwnerGone, vars, FlowTypes
<1> QED BY <1>1, <1>2, <1>3, <1>4, <1>5, FlowGateway, FlowDevice DEF Next, Caller

Reporting == {"idle", "start", "list", "post", "answer", "synced", "unsynced", "ack"}

FlagTypes ==
    /\ acks \subseteq Revs /\ told \subseteq Requests
    /\ authz \in BOOLEAN /\ owned \in BOOLEAN /\ catalog \in BOOLEAN
    /\ waiters \subseteq Conns /\ sig \subseteq Conns
    /\ dpc \in Reporting
    /\ worker \in {"none", "live", "doomed", "stopping"}
    /\ faults \in 0..MaxFaults

\* A caller that returns is told no more, and what is acknowledged is told.
LEMMA FlagCaller ==
    ASSUME FlagTypes, Caller PROVE FlagTypes'
<1> USE DEF FlagTypes, redisVars, connVars, popVars, devVars
<1>1. ASSUME NEW v \in Revs, Revoke(v) PROVE FlagTypes'
  BY <1>1 DEF Revoke, RequestRevocation, Signal
<1>2. ASSUME NEW a \in Acts, Activate(a) PROVE FlagTypes'
  BY <1>2 DEF Activate, Request, Signal
<1>3. ASSUME NEW r \in Requests, Look(r) \/ Told(r) \/ Subscribe(r) PROVE FlagTypes'
  BY <1>3 DEF Look, Told, Subscribe, Heard, Return
<1>4. ASSUME NEW r, TimeUp(r) \/ OwnerFound(r) PROVE FlagTypes'
  BY <1>4 DEF TimeUp, OwnerFound, Return
<1> QED BY <1>1, <1>2, <1>3, <1>4 DEF Caller

LEMMA FlagAcknowledge ==
    ASSUME acks \subseteq Revs, told \subseteq Requests, NEW v \in Revs \cup {None},
           Acknowledge(v)
    PROVE  acks' \subseteq Revs /\ told' \subseteq Requests
BY DEF Acknowledge, Publish, Requests

LEMMA FlagGateway ==
    ASSUME FlagTypes, RevokeType, NEW c \in Conns, Gateway(c)
    PROVE  FlagTypes'
<1> USE DEF FlagTypes, redisVars, popVars, devVars, callerVars
<1>1. CASE NewWaiter(c) \/ PopRev(c) \/ PopAct(c) \/ Authorize(c) \/ Wake(c)
  BY <1>1 DEF NewWaiter, PopRev, PopAct, Authorize, Wake
<1>2. CASE Notify(c) \/ Offer(c) \/ Write(c)
  BY <1>2 DEF Notify, Offer, Write
<1>3. CASE WriteFails(c)
  <2>1. faults' \in 0..MaxFaults
    BY <1>3, ControlAssumption DEF WriteFails, Spend
  <2>2. sig' \subseteq Conns /\ waiters' \subseteq Conns
    BY <1>3 DEF WriteFails, Shut, RequestRevocation, Request, Signal
  <2> QED BY <1>3, <2>1, <2>2 DEF WriteFails
<1>4. CASE Close(c)
  <2>1. faults' \in 0..MaxFaults
    BY <1>4, ControlAssumption DEF Close, Spend
  <2> QED BY <1>4, <2>1 DEF Close, Shut
<1>5. CASE ReadSync(c)
  <2>1. Head(up[c]) \in Message /\ Head(up[c])[1] = "sync"
    BY <1>5 DEF ReadSync, RevokeType
  <2>2. Head(up[c])[2] \in BOOLEAN
    BY <2>1 DEF Message
  <2> QED BY <1>5, <2>2 DEF ReadSync
<1>6. CASE ReadAck(c)
  BY <1>6 DEF ReadAck
<1>7. CASE ReadAcked(c)
  <2>1. reader[c] \in Revs \cup {None}
    BY DEF RevokeType
  <2> QED BY <1>7, <2>1, FlagAcknowledge DEF ReadAcked
<1>8. CASE ReadResult(c)
  <2>1. Head(up[c]) \in Message /\ Head(up[c])[1] \in {"ok", "fail"}
    BY <1>8 DEF ReadResult, RevokeType
  <2>2. Head(up[c])[2] \in Requests
    BY <2>1 DEF Message, Requests
  <2> QED BY <1>8, <2>2 DEF ReadResult, Publish
<1> QED BY <1>1, <1>2, <1>3, <1>4, <1>5, <1>6, <1>7, <1>8 DEF Gateway

LEMMA FlagDevice ==
    ASSUME FlagTypes, RevokeType, Device
    PROVE  FlagTypes'
<1> USE DEF FlagTypes, redisVars, connVars, popVars, callerVars, Reporting
<1>0. Spend => faults' \in 0..MaxFaults
  BY ControlAssumption DEF Spend
<1>1. CASE DevList \/ PostReconcile
  BY <1>1 DEF DevList, PostReconcile, RevokeType
<1>2. CASE PostAnswer
  <2>1. post \in Revs \cup {None} /\ snap \in BOOLEAN
    BY DEF RevokeType
  <2> QED BY <1>2, <2>1, FlagAcknowledge DEF PostAnswer
<1>3. CASE PostFails \/ StaleWorkerStop \/ WorkerEnds \/ WorkerStopped \/ LocalChange
  BY <1>0, <1>3 DEF PostFails, WorkerEnds, WorkerStopped, StaleWorkerStop, LocalChange, devVars
<1>4. CASE DevSynced \/ DevHeartbeat \/ DevAck
  BY <1>4 DEF DevSynced, DevHeartbeat, DevAck, devVars
<1>5. CASE DevStart
  BY <1>0, <1>5 DEF DevStart
<1>6. CASE DevDrop
  BY <1>0, <1>6 DEF DevDrop
<1>7. ASSUME NEW c \in Conns, Connect(c) PROVE FlagTypes'
  BY <1>7 DEF Connect, RevokeType
<1>8. ASSUME NEW v, TakeRevocation(v) PROVE FlagTypes'
  BY <1>0, <1>8 DEF TakeRevocation
<1>9. ASSUME NEW a, TakeActivation(a) PROVE FlagTypes'
  BY <1>9 DEF TakeActivation
<1> QED BY <1>1, <1>2, <1>3, <1>4, <1>5, <1>6, <1>7, <1>8, <1>9 DEF Device

LEMMA FlagStep == RevokeInv /\ FlagTypes /\ [Next]_vars => FlagTypes'
<1> SUFFICES ASSUME RevokeType, FlagTypes, [Next]_vars PROVE FlagTypes'
  BY DEF RevokeInv
<1>1. CASE Expire \/ OwnerGone
  BY <1>1 DEF Expire, OwnerGone, FlagTypes, connVars, popVars, devVars, callerVars
<1>2. CASE UNCHANGED vars
  BY <1>2 DEF vars, redisVars, connVars, popVars, devVars, callerVars, FlagTypes
<1> QED BY <1>1, <1>2, FlagCaller, FlagGateway, FlagDevice DEF Next

\* Every variable of the lists, the gateways, the device and the callers has
\* its type, for any requests and connections and any number of faults.
THEOREM ControlTypeCorrect == Spec => []ControlTypeOK
<1>1. Init => FlowTypes /\ FlagTypes
  <2> SUFFICES ASSUME Init PROVE FlowTypes /\ FlagTypes
    OBVIOUS
  <2>1. <<>> \in Seq(Revs) /\ <<>> \in Seq(Acts) /\ <<>> \in Seq(Requests)
    OBVIOUS
  <2>2. FlowTypes
    BY <2>1 DEF Init, FlowTypes
  <2>3. 0 \in 0..MaxFaults
    BY ControlAssumption
  <2>4. FlagTypes
    BY <2>3 DEF Init, FlagTypes, Reporting
  <2> QED BY <2>2, <2>4
<1>2. AnswerInv /\ WakeInv /\ RevokeInv /\ FlowTypes /\ FlagTypes => ControlTypeOK
  BY DEF AnswerInv, WakeInv, RevokeInv, RevokeType, FlowTypes, FlagTypes, ControlTypeOK,
         Waiting, Popping, Reporting
<1> QED
  BY <1>1, <1>2, AnswerStart, WakeStart, RevokeStart, AnswerStep, WakeStep, RevokeStep,
     FlowStep, FlagStep, PTL DEF Spec
=============================================================================
