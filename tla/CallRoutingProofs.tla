------------------------- MODULE CallRoutingProofs -------------------------
(***************************************************************************)
(* Theorems about the routing of a tool call, for any number of calls,     *)
(* replicas, workspaces and connections, and any number of lost messages,  *)
(* broken connections and crashed replicas.                                *)
(***************************************************************************)
EXTENDS CallRouting, OwnerLeaseProofs

-----------------------------------------------------------------------------
(* The inductive invariant.  A request id is a token: it is with            *)
(* callOperation, in a published call, with one HandleRouted, or in a       *)
(* published answer, and in one of these places only.                       *)

\* A published call or a published answer, cancellations apart.
Routes(m, r) == m \in net /\ m.id = r /\ m.type \in {"req", "resp"}

\* callOperation has the token before it dispatches: nothing of an earlier
\* attempt is left in Redis or on a replica.
CallerAlone ==
    \A r \in Calls : cpc[r] \in {"idle", "bind", "dispatch"} =>
        /\ attempt[r] <= 1
        /\ \A g \in Gateways : hpc[g][r] = "none"
        /\ \A m \in net : ~Routes(m, r)

\* One handler, or one message, and never both.
OneToken ==
    \A r \in Calls :
        /\ \A g, h \in Gateways :
              hpc[g][r] # "none" /\ hpc[h][r] # "none" => g = h
        /\ \A g \in Gateways, m \in net : ~(hpc[g][r] # "none" /\ Routes(m, r))
        /\ \A m1, m2 \in net : Routes(m1, r) /\ Routes(m2, r) => m1 = m2

\* A call is published to another replica, its answer to the source; the
\* source's own handler runs under a callOperation that waits for it.
Addressed ==
    /\ \A m \in net : m.type = "req" => m.to # SourceOf[m.id]
    /\ \A m \in net : m.type = "resp" => m.to = SourceOf[m.id]
    /\ \A r \in Calls : hpc[SourceOf[r]][r] # "none" => cpc[r] = "direct"
    /\ \A r \in Calls : cpc[r] = "routed" => target[r] \in Gateways

\* A success, wherever it is on its way, was produced by a connection of the
\* call's workspace.
OwnResults ==
    \A r \in Calls, c \in Conns : KeyOf[c] # CallKey[r] =>
        /\ \A g \in Gateways : result[g][r] # Ok(c)
        /\ \A m \in net : m.type = "resp" /\ m.id = r => m.res # Ok(c)
        /\ outcome[r] # Ok(c)

RouteInv == CallerAlone /\ OneToken /\ Addressed /\ NoOrphans /\ OwnResults

-----------------------------------------------------------------------------
(* Lemmas about messages and results.                                       *)

\* What listen finds in a message.
LEMMA MsgFields ==
    ASSUME CallTypeOK, NEW m \in net
    PROVE  /\ m.id \in Calls
           /\ m.to \in Gateways
           /\ m.type \in {"req", "resp", "cancel"}
           /\ m.type = "resp" => m.res \in Results
  BY DEF CallTypeOK, Msgs

\* The messages the code publishes are messages.
LEMMA MsgMade ==
    ASSUME NEW g \in Gateways, NEW r \in Calls
    PROVE  /\ [type |-> "req", to |-> g, id |-> r, res |-> None] \in Msgs
           /\ [type |-> "cancel", to |-> g, id |-> r, res |-> None] \in Msgs
           /\ \A res \in Results :
                 [type |-> "resp", to |-> g, id |-> r, res |-> res] \in Msgs
  BY DEF Msgs

\* An error is a result, and none of a connection's successes.
LEMMA ErrFields ==
    ASSUME NEW e \in Codes
    PROVE  /\ Err(e) \in Results
           /\ \A c \in Conns : Err(e) # Ok(c)
  BY DEF Err, Ok, Results, Codes

-----------------------------------------------------------------------------
(* Type correctness.                                                        *)

\* callOperation's state after a Hub.Call has returned.
LEMMA ReturnType ==
    ASSUME CallTypeOK, NEW r \in Calls, NEW res \in Results, NEW n, Return(r, res, n)
    PROVE  /\ cpc' \in [Calls -> {"idle", "bind", "dispatch", "direct", "routed", "done"}]
           /\ outcome' \in [Calls -> Results \cup {None}]
<1>1. \/ cpc' = [cpc EXCEPT ![r] = "bind"] /\ outcome' = outcome
      \/ cpc' = [cpc EXCEPT ![r] = "done"] /\ outcome' = [outcome EXCEPT ![r] = res]
  BY DEF Return, Transient
<1>2. /\ cpc \in [Calls -> {"idle", "bind", "dispatch", "direct", "routed", "done"}]
      /\ outcome \in [Calls -> Results \cup {None}]
  BY DEF CallTypeOK
<1> QED
  BY <1>1, <1>2

\* HandleRouted's state after it has answered.
LEMMA AnswerType ==
    ASSUME CallTypeOK, NEW g \in Gateways, NEW r \in Calls, NEW res \in Results,
           Answer(g, r, res), LeaseTypeOK', UNCHANGED faults,
           pending' \in [Gateways -> SUBSET Calls], wire' \in [Conns -> SUBSET Calls]
    PROVE  CallTypeOK'
<1>1. /\ cpc' \in [Calls -> {"idle", "bind", "dispatch", "direct", "routed", "done"}]
      /\ outcome' \in [Calls -> Results \cup {None}]
      /\ net' \subseteq Msgs
      /\ cleanup' \in [Gateways -> SUBSET Calls]
  <2>1. CASE Remote(g, r)
    <3>1. /\ net' = net \cup {[type |-> "resp", to |-> SourceOf[r], id |-> r, res |-> res]}
          /\ cleanup' = [cleanup EXCEPT ![g] = @ \cup {r}]
          /\ UNCHANGED <<cpc, outcome>>
      BY <2>1 DEF Answer
    <3>2. SourceOf[r] \in Gateways
      BY CallAssumption
    <3>3. net' \subseteq Msgs
      BY <3>1, <3>2, MsgMade DEF CallTypeOK
    <3> QED
      BY <3>1, <3>3 DEF CallTypeOK
  <2>2. CASE ~Remote(g, r)
    <3>1. Return(r, res, attempt[r]) /\ UNCHANGED <<net, cleanup>>
      BY <2>2 DEF Answer
    <3> QED
      BY <3>1, ReturnType DEF CallTypeOK
  <2> QED
    BY <2>1, <2>2
<1> QED
  BY <1>1 DEF Answer, CallTypeOK

\* A step of the lease, whoever takes it, keeps the lease's types.
LEMMA LeaseKept ==
    ASSUME CallTypeOK, [LeaseNext]_leaseVars
    PROVE  LeaseTypeOK'
  BY LeaseNextType DEF CallTypeOK

\* A step that only moves callOperation, or only its context, keeps the types.
LEMMA CallerType ==
    ASSUME CallTypeOK, RouteInv, NEW r \in Calls, CallerStep(r)
    PROVE  CallTypeOK'
<1> USE DEF CallTypeOK
<1>1. LeaseTypeOK'
  BY LeaseKept DEF CallerStep, StartCall, Bind, BindFail, DispatchDirect, DispatchRouted,
     DispatchFail, RoutedTimeout, HangUp, Deadline
<1>2. CASE StartCall(r) \/ Bind(r)
  BY <1>1, <1>2 DEF StartCall, Bind, handlerVars
<1>3. CASE BindFail(r)
  BY <1>1, <1>3, ErrFields DEF BindFail, handlerVars, Codes
<1>4. CASE DispatchDirect(r)
  <2>1. attempt[r] <= 1 /\ attempt[r] \in 0..2 /\ SourceOf[r] \in Gateways
    BY <1>4, CallAssumption DEF DispatchDirect, RouteInv, CallerAlone
  <2> QED
    BY <1>1, <1>4, <2>1 DEF DispatchDirect, StartHandler
<1>5. CASE DispatchRouted(r)
  <2>1. attempt[r] <= 1 /\ attempt[r] \in 0..2 /\ SourceOf[r] \in Gateways
    BY <1>5, CallAssumption DEF DispatchRouted, RouteInv, CallerAlone
  <2>2. owner[CallKey[r]] \in Gateways
    BY <1>5, CallAssumption DEF DispatchRouted, LeaseTypeOK
  <2>3. net' \subseteq Msgs
    BY <1>5, <2>2, MsgMade DEF DispatchRouted
  <2> QED
    BY <1>1, <1>5, <2>1, <2>2, <2>3 DEF DispatchRouted, handlerVars
<1>6. CASE DispatchFail(r)
  <2>1. attempt[r] <= 1 /\ attempt[r] \in 0..2
    BY <1>6 DEF DispatchFail, RouteInv, CallerAlone
  <2>2. PICK res \in {Err("noOwner"), Err("redisError")} : Return(r, res, attempt[r] + 1)
    BY <1>6 DEF DispatchFail
  <2>3. res \in Results
    BY ErrFields DEF Codes
  <2>4. /\ cpc' \in [Calls -> {"idle", "bind", "dispatch", "direct", "routed", "done"}]
        /\ outcome' \in [Calls -> Results \cup {None}]
    BY <2>2, <2>3, ReturnType
  <2>5. /\ attempt' = [attempt EXCEPT ![r] = @ + 1]
        /\ UNCHANGED <<ctx, overdue, target, cpending, handlerVars, net, wire, faults>>
    BY <1>6 DEF DispatchFail
  <2>6. attempt' \in [Calls -> 0..2]
    BY <2>1, <2>5
  <2> QED
    BY <1>1, <2>4, <2>5, <2>6 DEF handlerVars
<1>7. CASE RoutedTimeout(r)
  <2>1. target[r] \in Gateways
    BY <1>7 DEF RoutedTimeout, RouteInv, Addressed
  <2>2. net' \subseteq Msgs
    BY <1>7, <2>1, MsgMade DEF RoutedTimeout
  <2>3. Err("timeout") \in Results /\ Return(r, Err("timeout"), attempt[r])
    BY <1>7, ErrFields DEF Codes, RoutedTimeout
  <2>4. /\ cpc' \in [Calls -> {"idle", "bind", "dispatch", "direct", "routed", "done"}]
        /\ outcome' \in [Calls -> Results \cup {None}]
    BY <2>3, ReturnType
  <2> QED
    BY <1>1, <1>7, <2>2, <2>4 DEF RoutedTimeout, handlerVars
<1>8. CASE HangUp(r) \/ Deadline(r)
  BY <1>1, <1>8, ZenonT(60) DEF HangUp, Deadline, handlerVars
<1> QED
  BY <1>2, <1>3, <1>4, <1>5, <1>6, <1>7, <1>8 DEF CallerStep

\* Every step of HandleRouted and of handleRemote's cleanup keeps the types.
LEMMA HandlerType ==
    ASSUME CallTypeOK, NEW g \in Gateways, NEW r \in Calls, HandlerStep(g, r)
    PROVE  CallTypeOK'
<1> USE DEF CallTypeOK
<1>1. CASE HandleLookup(g, r)
  <2>1. LocalClient(g, CallKey[r]) \in Conns \cup {None}
    BY CallAssumption DEF LocalClient, LeaseTypeOK
  <2>2. LeaseTypeOK'
    BY <1>1, LeaseKept DEF HandleLookup
  <2> QED
    BY <1>1, <2>1, <2>2 DEF HandleLookup, callVars
<1>2. CASE HandleMiss(g, r)
  <2>1. LeaseTypeOK'
    BY <1>2, CallAssumption DEF HandleMiss, ReleaseOwner, LeaseTypeOK
  <2>2. Err("offline") \in Results
    BY ErrFields DEF Codes
  <2> QED
    BY <1>2, <2>1, <2>2, AnswerType DEF HandleMiss
<1>3. CASE FilePending(g, r)
  <2>1. LeaseTypeOK' /\ UNCHANGED <<wire, faults>>
    BY <1>3, LeaseKept DEF FilePending
  <2>2. CASE r \in pending[g]
    <3>1. Err("duplicate") \in Results
      BY ErrFields DEF Codes
    <3> QED
      BY <1>3, <2>1, <2>2, <3>1, AnswerType DEF FilePending
  <2>3. CASE r \notin pending[g]
    <3>1. /\ pending' = [pending EXCEPT ![g] = @ \cup {r}]
          /\ hpc' = [hpc EXCEPT ![g][r] = "send"]
          /\ UNCHANGED <<callVars, hconn, result, active, cleanup, cancelled, net>>
      BY <1>3, <2>3 DEF FilePending
    <3> QED
      BY <2>1, <3>1 DEF callVars
  <2> QED
    BY <2>2, <2>3
<1>4. CASE SendCall(g, r)
  <2>1. LeaseTypeOK'
    BY <1>4, LeaseKept DEF SendCall
  <2>2. wire' \in [Conns -> SUBSET Calls]
    <3>1. \/ wire' = wire
          \/ wire' = [wire EXCEPT ![hconn[g][r]] = @ \cup {r}]
      BY <1>4 DEF SendCall
    <3>2. wire \in [Conns -> SUBSET Calls]
      OBVIOUS
    <3> HIDE DEF CallTypeOK
    <3> QED
      BY <3>1, <3>2
  <2> QED
    BY <1>4, <2>1, <2>2 DEF SendCall, callVars
<1>5. ASSUME NEW res \in Results, Finish(g, r, res), LeaseTypeOK', UNCHANGED faults,
             wire' \in [Conns -> SUBSET Calls]
      PROVE  CallTypeOK'
  <2>1. pending' \in [Gateways -> SUBSET Calls]
    BY <1>5 DEF Finish
  <2> QED
    BY <1>5, <2>1, AnswerType DEF Finish
<1>6. CASE SendFail(g, r)
  <2>1. LeaseTypeOK'
    BY <1>6 DEF SendFail, LeaseTypeOK
  <2>2. Err("sendError") \in Results
    BY ErrFields DEF Codes
  <2> QED
    BY <1>5, <1>6, <2>1, <2>2 DEF SendFail
<1>7. CASE WaitResult(g, r)
  <2>1. LeaseTypeOK'
    BY <1>7, LeaseKept DEF WaitResult
  <2>2. result[g][r] \in Results
    BY <1>7 DEF WaitResult
  <2> QED
    BY <1>5, <1>7, <2>1, <2>2 DEF WaitResult
<1>8. CASE WaitCtxDone(g, r)
  <2>1. LeaseTypeOK'
    BY <1>8, LeaseKept DEF WaitCtxDone
  <2>2. Err("timeout") \in Results
    BY ErrFields DEF Codes
  <2>3. wire' \in [Conns -> SUBSET Calls]
    BY <1>8 DEF WaitCtxDone
  <2> QED
    BY <1>5, <1>8, <2>1, <2>2, <2>3 DEF WaitCtxDone
<1>9. CASE WaitClosed(g, r)
  <2>1. LeaseTypeOK'
    BY <1>9, LeaseKept DEF WaitClosed
  <2>2. Err("dropped") \in Results
    BY ErrFields DEF Codes
  <2> QED
    BY <1>5, <1>9, <2>1, <2>2 DEF WaitClosed
<1>10. CASE RemoteCleanup(g, r)
  <2>1. LeaseTypeOK'
    BY <1>10, LeaseKept DEF RemoteCleanup
  <2> QED
    BY <1>10, <2>1 DEF RemoteCleanup, callVars
<1> QED
  BY <1>1, <1>2, <1>3, <1>4, <1>6, <1>7, <1>8, <1>9, <1>10 DEF HandlerStep

\* Receiving or losing a message keeps the types.
LEMMA MessageType ==
    ASSUME CallTypeOK, NEW m \in net, MessageStep(m)
    PROVE  CallTypeOK'
<1> USE DEF CallTypeOK
<1>1. /\ m.id \in Calls
      /\ m.to \in Gateways
      /\ m.type = "resp" => m.res \in Results
  BY MsgFields
<1>2. LeaseTypeOK'
  BY LeaseKept DEF MessageStep, ReceiveRequest, ReceiveResponse, ReceiveCancel, LoseMessage
<1>3. CASE ReceiveRequest(m)
  BY <1>1, <1>2, <1>3 DEF ReceiveRequest, StartHandler, callVars
<1>4. CASE ReceiveResponse(m)
  <2>1. /\ net' = net \ {m}
        /\ UNCHANGED <<attempt, ctx, overdue, handlerVars, wire, faults>>
        /\ m.type = "resp"
    BY <1>4 DEF ReceiveResponse
  <2>2. CASE m.id \in cpending[m.to]
    <3>1. /\ cpending' = [cpending EXCEPT ![m.to] = @ \ {m.id}]
          /\ target' = [target EXCEPT ![m.id] = None]
          /\ Return(m.id, m.res, attempt[m.id])
      BY <1>4, <2>2 DEF ReceiveResponse
    <3>2. /\ cpc' \in [Calls -> {"idle", "bind", "dispatch", "direct", "routed", "done"}]
          /\ outcome' \in [Calls -> Results \cup {None}]
      BY <1>1, <2>1, <3>1, ReturnType
    <3> QED
      BY <1>1, <1>2, <2>1, <3>1, <3>2 DEF handlerVars
  <2>3. CASE m.id \notin cpending[m.to]
    <3>1. UNCHANGED <<cpending, target, cpc, outcome>>
      BY <1>4, <2>3 DEF ReceiveResponse
    <3> QED
      BY <1>2, <2>1, <3>1 DEF handlerVars
  <2> QED
    BY <2>2, <2>3
<1>5. CASE ReceiveCancel(m)
  <2>1. cancelled' \in [Gateways -> SUBSET Calls]
    <3>1. \/ cancelled' = cancelled
          \/ cancelled' = [cancelled EXCEPT ![m.to] = @ \cup {m.id}]
      BY <1>5 DEF ReceiveCancel
    <3>2. cancelled \in [Gateways -> SUBSET Calls]
      OBVIOUS
    <3> HIDE DEF CallTypeOK
    <3> QED
      BY <1>1, <3>1, <3>2
  <2> QED
    BY <1>2, <1>5, <2>1 DEF ReceiveCancel, callVars
<1>6. CASE LoseMessage(m)
  <2>1. faults' \in 0..MaxFaults
    BY <1>6, CallAssumption DEF LoseMessage, Spend
  <2> QED
    BY <1>2, <1>6, <2>1 DEF LoseMessage, callVars, handlerVars
<1> QED
  BY <1>3, <1>4, <1>5, <1>6 DEF MessageStep

\* The read loop and unregister keep the types.
LEMMA ConnType ==
    ASSUME CallTypeOK, NEW c \in Conns,
           Unregister(c) \/ \E r \in Calls : ToolResult(c, r)
    PROVE  CallTypeOK'
<1> USE DEF CallTypeOK
<1>1. HomeOf[c] \in Gateways
  BY ConnAssumption
<1>2. ASSUME NEW r \in Calls, ToolResult(c, r) PROVE CallTypeOK'
  <2>1. LeaseTypeOK'
    BY <1>2, LeaseKept DEF ToolResult
  <2>2. /\ pending' \in [Gateways -> SUBSET Calls]
        /\ result' \in [Gateways -> [Calls -> Results \cup {None}]]
    <3>1. \/ UNCHANGED <<pending, result>>
          \/ /\ pending' = [pending EXCEPT ![HomeOf[c]] = @ \ {r}]
             /\ result' = [result EXCEPT ![HomeOf[c]][r] = IF @ = None THEN Ok(c) ELSE @]
      BY <1>2 DEF ToolResult
    <3>2. /\ pending \in [Gateways -> SUBSET Calls]
          /\ result \in [Gateways -> [Calls -> Results \cup {None}]]
      OBVIOUS
    <3>3. Ok(c) \in Results
      BY DEF Results
    <3> HIDE DEF CallTypeOK
    <3> QED
      BY <1>1, <3>1, <3>2, <3>3
  <2>3. wire' \in [Conns -> SUBSET Calls]
    BY <1>2 DEF ToolResult
  <2> QED
    BY <1>2, <2>1, <2>2, <2>3 DEF ToolResult, callVars
<1>3. CASE Unregister(c)
  <2>1. LeaseTypeOK'
    BY <1>3, LeaseKept DEF Unregister, LeaseNext
  <2>2. pending' \in [Gateways -> SUBSET Calls]
    BY <1>1, <1>3 DEF Unregister
  <2>3. result' \in [Gateways -> [Calls -> Results \cup {None}]]
    <3>1. Err("offline") \in Results
      BY ErrFields DEF Codes
    <3>2. result \in [Gateways -> [Calls -> Results \cup {None}]]
      OBVIOUS
    <3> HIDE DEF CallTypeOK
    <3> QED
      BY <1>1, <1>3, <3>1, <3>2 DEF Unregister
  <2>4. wire' \in [Conns -> SUBSET Calls]
    BY <1>3 DEF Unregister
  <2> QED
    BY <1>3, <2>1, <2>2, <2>3, <2>4 DEF Unregister, callVars
<1> QED
  BY <1>2, <1>3

\* The end of a replica keeps the types.
LEMMA CrashType ==
    ASSUME CallTypeOK, NEW g \in Gateways, CrashCalls(g)
    PROVE  CallTypeOK'
<1> USE DEF CallTypeOK
<1>1. LeaseTypeOK'
  BY LeaseKept DEF CrashCalls, LeaseNext
<1>2. faults' \in 0..MaxFaults
  BY CallAssumption DEF CrashCalls, Spend
<1>3. Err("crashed") \in Results
  BY ErrFields DEF Codes
<1>4. /\ cpc' \in [Calls -> {"idle", "bind", "dispatch", "direct", "routed", "done"}]
      /\ outcome' \in [Calls -> Results \cup {None}]
      /\ target' \in [Calls -> Gateways \cup {None}]
  BY <1>3 DEF CrashCalls
<1>5. /\ hpc' \in [Gateways -> [Calls -> {"none", "lookup", "miss", "pend", "send", "wait"}]]
      /\ hconn' \in [Gateways -> [Calls -> Conns \cup {None}]]
      /\ result' \in [Gateways -> [Calls -> Results \cup {None}]]
  BY DEF CrashCalls
<1>6. /\ cpending' \in [Gateways -> SUBSET Calls]
      /\ pending' \in [Gateways -> SUBSET Calls]
      /\ active' \in [Gateways -> SUBSET Calls]
      /\ cleanup' \in [Gateways -> SUBSET Calls]
      /\ cancelled' \in [Gateways -> SUBSET Calls]
      /\ wire' \in [Conns -> SUBSET Calls]
      /\ net' \subseteq Msgs
  BY DEF CrashCalls
<1>7. UNCHANGED <<attempt, ctx, overdue>>
  BY DEF CrashCalls
<1> QED
  BY <1>1, <1>2, <1>4, <1>5, <1>6, <1>7

\* The types are kept by every step, given where the token of a call is.
LEMMA CallNextType ==
    ASSUME CallTypeOK, RouteInv, [Next]_vars
    PROVE  CallTypeOK'
<1>1. CASE LeaseStep /\ UNCHANGED <<callVars, handlerVars, net, wire, faults>>
  <2>1. LeaseTypeOK'
    BY <1>1, LeaseKept DEF LeaseNext
  <2> QED
    BY <1>1, <2>1 DEF CallTypeOK, callVars, handlerVars
<1>2. CASE LeaseFault /\ Spend /\ UNCHANGED <<callVars, handlerVars, net, wire>>
  <2>1. LeaseTypeOK'
    BY <1>2, LeaseKept DEF LeaseNext
  <2>2. faults' \in 0..MaxFaults
    BY <1>2, CallAssumption DEF Spend, CallTypeOK
  <2> QED
    BY <1>2, <2>1, <2>2 DEF CallTypeOK, callVars, handlerVars
<1>3. CASE UNCHANGED vars
  <2>1. LeaseTypeOK'
    BY <1>3, LeaseKept DEF vars
  <2> QED
    BY <1>3, <2>1 DEF CallTypeOK, vars, callVars, handlerVars
<1> QED
  BY <1>1, <1>2, <1>3, CallerType, HandlerType, MessageType, ConnType, CrashType DEF Next

-----------------------------------------------------------------------------
(* The inductive step.                                                      *)

\* The part of the state the invariant speaks of, messages apart.
tokenVars == <<cpc, attempt, outcome, target, cpending, hpc, pending, result>>

\* Messages that are lost or consumed without effect leave the invariant.
LEMMA RouteFewer ==
    ASSUME RouteInv, UNCHANGED tokenVars, net' \subseteq net
    PROVE  RouteInv'
<1> USE DEF tokenVars, Routes
<1>1. CallerAlone'
  BY DEF RouteInv, CallerAlone
<1>2. OneToken'
  BY DEF RouteInv, OneToken
<1>3. Addressed'
  BY DEF RouteInv, Addressed
<1>4. NoOrphans'
  BY DEF RouteInv, NoOrphans
<1>5. OwnResults'
  BY DEF RouteInv, OwnResults
<1> QED
  BY <1>1, <1>2, <1>3, <1>4, <1>5 DEF RouteInv

\* callOperation goes on with the token in its hands, or ends without it:
\* r is with the caller alone before the step, and Hub.Call or Activate has
\* returned res.
LEMMA RouteReturn ==
    ASSUME CallTypeOK, RouteInv, NEW r \in Calls, NEW res \in Results,
           \A c \in Conns : KeyOf[c] # CallKey[r] => res # Ok(c),
           \/ /\ cpc' = [cpc EXCEPT ![r] = "bind"]
              /\ UNCHANGED outcome
              /\ attempt'[r] <= 1
              /\ \A g \in Gateways : hpc'[g][r] = "none"
              /\ \A m \in net' : ~Routes(m, r)'
           \/ /\ cpc' = [cpc EXCEPT ![r] = "done"]
              /\ outcome' = [outcome EXCEPT ![r] = res],
           hpc'[SourceOf[r]][r] = "none",
           \A q \in Calls \ {r} : attempt'[q] = attempt[q] /\ target'[q] = target[q],
           \A g \in Gateways : r \notin cpending'[g] /\ cpending'[g] \subseteq cpending[g],
           \A g \in Gateways, q \in Calls :
              hpc'[g][q] = hpc[g][q] \/ (q = r /\ hpc'[g][q] = "none" /\ q \notin pending'[g]),
           \A g \in Gateways : pending'[g] \subseteq pending[g],
           \A g \in Gateways, q \in Calls : result'[g][q] \in {result[g][q], None},
           net' \subseteq net \cup [type : {"cancel"}, to : Gateways, id : Calls, res : {None}]
    PROVE  RouteInv'
<1>1. \A m \in net' : m.type # "cancel" => m \in net
  OBVIOUS
<1>2. \A g \in Gateways, q \in Calls : hpc'[g][q] # "none" => hpc'[g][q] = hpc[g][q]
  OBVIOUS
<1>3. \A q \in Calls \ {r} : cpc'[q] = cpc[q] /\ outcome'[q] = outcome[q]
  BY DEF CallTypeOK
<1>4. CallerAlone'
  <2>1. SUFFICES ASSUME NEW q \in Calls, cpc'[q] \in {"idle", "bind", "dispatch"}
                 PROVE  /\ attempt'[q] <= 1
                        /\ \A g \in Gateways : hpc'[g][q] = "none"
                        /\ \A m \in net' : ~(m.id = q /\ m.type \in {"req", "resp"})
    BY DEF CallerAlone, Routes
  <2>2. CASE q = r
    BY <2>1, <2>2 DEF Routes, CallTypeOK
  <2>3. CASE q # r
    <3>1. cpc[q] \in {"idle", "bind", "dispatch"} /\ attempt'[q] = attempt[q]
      BY <1>3, <2>1, <2>3
    <3> QED
      BY <1>1, <1>2, <3>1 DEF RouteInv, CallerAlone, Routes
  <2> QED
    BY <2>2, <2>3
<1>5. OneToken'
  BY <1>1, <1>2 DEF RouteInv, OneToken, Routes
<1>6. Addressed'
  <2>1. /\ \A m \in net' : m.type = "req" => m.to # SourceOf[m.id]
        /\ \A m \in net' : m.type = "resp" => m.to = SourceOf[m.id]
    BY <1>1 DEF RouteInv, Addressed
  <2>2. ASSUME NEW q \in Calls, hpc'[SourceOf[q]][q] # "none" PROVE cpc'[q] = "direct"
    BY <1>2, <1>3, <2>2, CallAssumption DEF RouteInv, Addressed
  <2>3. ASSUME NEW q \in Calls, cpc'[q] = "routed" PROVE target'[q] \in Gateways
    <3>1. q # r
      BY <2>3 DEF CallTypeOK
    <3> QED
      BY <1>3, <2>3, <3>1 DEF RouteInv, Addressed
  <2> QED
    BY <2>1, <2>2, <2>3 DEF Addressed
<1>7. NoOrphans'
  BY <1>3 DEF RouteInv, NoOrphans, CallTypeOK
<1>8. OwnResults'
  <2>1. SUFFICES ASSUME NEW q \in Calls, NEW c \in Conns, KeyOf[c] # CallKey[q]
                 PROVE  /\ \A g \in Gateways : result'[g][q] # Ok(c)
                        /\ \A m \in net' : m.type = "resp" /\ m.id = q => m.res # Ok(c)
                        /\ outcome'[q] # Ok(c)
    BY DEF OwnResults
  <2>2. None # Ok(c)
    BY ResultAssumption DEF Results
  <2>3. \A g \in Gateways : result'[g][q] # Ok(c)
    BY <2>1, <2>2 DEF RouteInv, OwnResults
  <2>4. outcome'[q] # Ok(c)
    BY <1>3, <2>1 DEF RouteInv, OwnResults, CallTypeOK
  <2> QED
    BY <1>1, <2>1, <2>3, <2>4 DEF RouteInv, OwnResults
<1> QED
  BY <1>4, <1>5, <1>6, <1>7, <1>8 DEF RouteInv

\* Hub.Call returns to callOperation, which takes the token back only if
\* nothing else holds it.
LEMMA ReturnCases ==
    ASSUME CallTypeOK, NEW r \in Calls, NEW res, NEW n, Return(r, res, n)
    PROVE  \/ /\ cpc' = [cpc EXCEPT ![r] = "bind"]
              /\ UNCHANGED outcome
              /\ n = 1
              /\ Transient(res)
           \/ /\ cpc' = [cpc EXCEPT ![r] = "done"]
              /\ outcome' = [outcome EXCEPT ![r] = res]
  BY DEF Return, Transient

\* Every step of callOperation, Hub.Call and Coordinator.Call keeps the token
\* in one place.
LEMMA CallerRoute ==
    ASSUME CallTypeOK, RouteInv, NEW r \in Calls, CallerStep(r)
    PROVE  RouteInv'
<1>0. SourceOf[r] \in Gateways
  BY CallAssumption
<1>1. CASE StartCall(r) \/ Bind(r)
  <2>1. /\ cpc[r] \in {"idle", "bind"}
        /\ cpc' \in {[cpc EXCEPT ![r] = "bind"], [cpc EXCEPT ![r] = "dispatch"]}
        /\ UNCHANGED <<attempt, outcome, target, cpending, hpc, pending, result, net>>
    BY <1>1 DEF StartCall, Bind, handlerVars
  <2>2. cpc \in [Calls -> {"idle", "bind", "dispatch", "direct", "routed", "done"}]
    BY DEF CallTypeOK
  <2>3. CallerAlone'
    BY <2>1, <2>2 DEF RouteInv, CallerAlone, Routes
  <2>4. OneToken'
    BY <2>1 DEF RouteInv, OneToken, Routes
  <2>5. Addressed'
    BY <1>0, <2>1, <2>2, CallAssumption DEF RouteInv, Addressed, CallerAlone
  <2>6. NoOrphans'
    <3>1. \A g \in Gateways : \A q \in cpending[g] : q \in Calls /\ q # r
      BY <2>1 DEF RouteInv, NoOrphans, CallTypeOK
    <3> QED
      BY <2>1, <2>2, <3>1 DEF RouteInv, NoOrphans
  <2>7. OwnResults'
    BY <2>1 DEF RouteInv, OwnResults
  <2> QED
    BY <2>3, <2>4, <2>5, <2>6, <2>7 DEF RouteInv
<1>2. CASE BindFail(r)
  <2>1. Err("unavailable") \in Results /\ \A c \in Conns : Err("unavailable") # Ok(c)
    BY ErrFields DEF Codes
  <2>2. /\ cpc[r] = "bind"
        /\ cpc' = [cpc EXCEPT ![r] = "done"]
        /\ outcome' = [outcome EXCEPT ![r] = Err("unavailable")]
        /\ UNCHANGED <<attempt, target, cpending, hpc, pending, result, net>>
    BY <1>2 DEF BindFail, handlerVars
  <2>3. hpc[SourceOf[r]][r] = "none" /\ \A g \in Gateways : r \notin cpending[g]
    BY <1>0, <2>2 DEF RouteInv, CallerAlone, NoOrphans
  <2> QED
    BY <1>0, <2>1, <2>2, <2>3, RouteReturn
<1>3. CASE DispatchDirect(r)
  <2>1. /\ cpc[r] = "dispatch"
        /\ cpc' = [cpc EXCEPT ![r] = "direct"]
        /\ hpc' = [hpc EXCEPT ![SourceOf[r]][r] = "lookup"]
        /\ attempt' = [attempt EXCEPT ![r] = @ + 1]
        /\ UNCHANGED <<outcome, target, cpending, pending, result, net>>
    BY <1>3 DEF DispatchDirect, StartHandler
  <2>2. /\ cpc \in [Calls -> {"idle", "bind", "dispatch", "direct", "routed", "done"}]
        /\ hpc \in [Gateways -> [Calls -> {"none", "lookup", "miss", "pend", "send", "wait"}]]
        /\ attempt \in [Calls -> 0..2]
    BY DEF CallTypeOK
  <2>3. /\ \A g \in Gateways : hpc[g][r] = "none"
        /\ \A m \in net : ~Routes(m, r)
    BY <2>1 DEF RouteInv, CallerAlone
  <2>4. \A g \in Gateways, q \in Calls :
            hpc'[g][q] # "none" => hpc'[g][q] = hpc[g][q] \/ (q = r /\ g = SourceOf[r])
    BY <2>1, <2>2
  <2>5. CallerAlone'
    BY <2>1, <2>2, <2>4 DEF RouteInv, CallerAlone, Routes
  <2>6. OneToken'
    BY <2>1, <2>3, <2>4 DEF RouteInv, OneToken, Routes
  <2>7. Addressed'
    <3>1. ASSUME NEW q \in Calls, hpc'[SourceOf[q]][q] # "none" PROVE cpc'[q] = "direct"
      BY <2>1, <2>2, <2>4, <3>1, CallAssumption DEF RouteInv, Addressed
    <3> QED
      BY <2>1, <2>2, <3>1 DEF RouteInv, Addressed
  <2>8. NoOrphans'
    <3>1. ASSUME NEW g \in Gateways, NEW q \in pending'[g] PROVE hpc'[g][q] \in {"send", "wait"}
      <4>1. q \in Calls /\ hpc[g][q] \in {"send", "wait"}
        BY <2>1, <3>1 DEF RouteInv, NoOrphans, CallTypeOK
      <4>2. q # r
        BY <2>3, <4>1
      <4> QED
        BY <1>0, <2>1, <2>2, <4>1, <4>2
    <3> QED
      BY <2>1, <2>2, <3>1 DEF RouteInv, NoOrphans
  <2>9. OwnResults'
    BY <2>1 DEF RouteInv, OwnResults
  <2> QED
    BY <2>5, <2>6, <2>7, <2>8, <2>9 DEF RouteInv
<1>4. CASE DispatchRouted(r)
  <2> DEFINE o == owner[CallKey[r]]
             req == [type |-> "req", to |-> o, id |-> r, res |-> None]
  <2>1. /\ cpc[r] = "dispatch"
        /\ o \notin {SourceOf[r], None}
        /\ cpc' = [cpc EXCEPT ![r] = "routed"]
        /\ cpending' = [cpending EXCEPT ![SourceOf[r]] = @ \cup {r}]
        /\ net' = net \cup {req}
        /\ target' = [target EXCEPT ![r] = o]
        /\ attempt' = [attempt EXCEPT ![r] = @ + 1]
        /\ UNCHANGED <<outcome, hpc, pending, result>>
    BY <1>4 DEF DispatchRouted, handlerVars
  <2>2. o \in Gateways
    BY <2>1, CallAssumption DEF CallTypeOK, LeaseTypeOK
  <2>3. /\ cpc \in [Calls -> {"idle", "bind", "dispatch", "direct", "routed", "done"}]
        /\ cpending \in [Gateways -> SUBSET Calls]
        /\ target \in [Calls -> Gateways \cup {None}]
        /\ attempt \in [Calls -> 0..2]
    BY DEF CallTypeOK
  <2>4. /\ \A g \in Gateways : hpc[g][r] = "none"
        /\ \A m \in net : ~Routes(m, r)
    BY <2>1 DEF RouteInv, CallerAlone
  <2>5. req.id = r /\ req.type = "req" /\ req.to = o
    OBVIOUS
  <2> HIDE DEF o, req
  <2>6. CallerAlone'
    BY <2>1, <2>3, <2>5 DEF RouteInv, CallerAlone, Routes
  <2>7. OneToken'
    BY <2>1, <2>4, <2>5 DEF RouteInv, OneToken, Routes
  <2>8. Addressed'
    BY <1>0, <2>1, <2>2, <2>3, <2>4, <2>5, CallAssumption DEF RouteInv, Addressed
  <2>9. NoOrphans'
    BY <1>0, <2>1, <2>3 DEF RouteInv, NoOrphans
  <2>10. OwnResults'
    BY <2>1, <2>5 DEF RouteInv, OwnResults
  <2> QED
    BY <2>6, <2>7, <2>8, <2>9, <2>10 DEF RouteInv
<1>5. CASE DispatchFail(r)
  <2>1. /\ cpc[r] = "dispatch"
        /\ attempt' = [attempt EXCEPT ![r] = @ + 1]
        /\ UNCHANGED <<target, cpending, hpc, pending, result, net>>
    BY <1>5 DEF DispatchFail, handlerVars
  <2>2. PICK res \in {Err("noOwner"), Err("redisError")} : Return(r, res, attempt[r] + 1)
    BY <1>5 DEF DispatchFail
  <2>3. res \in Results /\ \A c \in Conns : res # Ok(c)
    BY ErrFields DEF Codes
  <2>4. /\ \A g \in Gateways : hpc[g][r] = "none"
        /\ \A m \in net : ~Routes(m, r)
        /\ \A g \in Gateways : r \notin cpending[g]
    BY <2>1 DEF RouteInv, CallerAlone, NoOrphans
  <2>5. attempt'[r] = attempt[r] + 1 /\ \A q \in Calls \ {r} : attempt'[q] = attempt[q]
    BY <2>1 DEF CallTypeOK
  <2>6. \A m \in net' : ~Routes(m, r)'
    BY <2>1, <2>4 DEF Routes
  <2>7. \/ /\ cpc' = [cpc EXCEPT ![r] = "bind"]
           /\ UNCHANGED outcome
           /\ attempt[r] + 1 = 1
        \/ /\ cpc' = [cpc EXCEPT ![r] = "done"]
           /\ outcome' = [outcome EXCEPT ![r] = res]
    BY <2>2, ReturnCases
  <2> QED
    BY <1>0, <2>1, <2>3, <2>4, <2>5, <2>6, <2>7, RouteReturn
<1>6. CASE RoutedTimeout(r)
  <2> DEFINE cancel == [type |-> "cancel", to |-> target[r], id |-> r, res |-> None]
  <2>1. /\ cpc[r] = "routed"
        /\ cpending' = [cpending EXCEPT ![SourceOf[r]] = @ \ {r}]
        /\ target' = [target EXCEPT ![r] = None]
        /\ net' = net \cup {cancel}
        /\ Return(r, Err("timeout"), attempt[r])
        /\ UNCHANGED <<attempt, hpc, pending, result>>
    BY <1>6 DEF RoutedTimeout, handlerVars
  <2>2. Err("timeout") \in Results /\ \A c \in Conns : Err("timeout") # Ok(c)
    BY ErrFields DEF Codes
  <2>3. ~Transient(Err("timeout"))
    BY DEF Transient, Err
  <2>4. cpc' = [cpc EXCEPT ![r] = "done"] /\ outcome' = [outcome EXCEPT ![r] = Err("timeout")]
    BY <2>1, <2>3, ReturnCases
  <2>5. target[r] \in Gateways
    BY <2>1 DEF RouteInv, Addressed
  <2>6. cancel \in [type : {"cancel"}, to : Gateways, id : Calls, res : {None}]
    BY <2>5
  <2>7. hpc[SourceOf[r]][r] = "none"
    BY <2>1 DEF RouteInv, Addressed
  <2>8. \A g \in Gateways : r \notin cpending'[g] /\ cpending'[g] \subseteq cpending[g]
    BY <1>0, <2>1 DEF RouteInv, NoOrphans, CallTypeOK
  <2>9. \A q \in Calls \ {r} : target'[q] = target[q]
    BY <2>1 DEF CallTypeOK
  <2> HIDE DEF cancel
  <2> QED
    BY <1>0, <2>1, <2>2, <2>4, <2>6, <2>7, <2>8, <2>9, RouteReturn, ZenonT(60)
<1>7. CASE HangUp(r) \/ Deadline(r)
  BY <1>7, RouteFewer DEF HangUp, Deadline, tokenVars, handlerVars
<1> QED
  BY <1>1, <1>2, <1>3, <1>4, <1>5, <1>6, <1>7 DEF CallerStep

\* HandleRouted answers and its pending entry, if it had one, is gone: the
\* token goes to a message for the source, or back to callOperation.
LEMMA AnswerRoute ==
    ASSUME CallTypeOK, RouteInv, NEW g \in Gateways, NEW r \in Calls,
           hpc[g][r] # "none", NEW res \in Results,
           \A c \in Conns : KeyOf[c] # CallKey[r] => res # Ok(c),
           Answer(g, r, res),
           pending' = [pending EXCEPT ![g] = @ \ {r}]
    PROVE  RouteInv'
<1>1. /\ hpc' = [hpc EXCEPT ![g][r] = "none"]
      /\ result' = [result EXCEPT ![g][r] = None]
      /\ UNCHANGED <<attempt, target, cpending>>
  BY DEF Answer
<1>2. /\ hpc \in [Gateways -> [Calls -> {"none", "lookup", "miss", "pend", "send", "wait"}]]
      /\ result \in [Gateways -> [Calls -> Results \cup {None}]]
      /\ pending \in [Gateways -> SUBSET Calls]
      /\ SourceOf[r] \in Gateways
  BY CallAssumption DEF CallTypeOK
<1>3. /\ \A h \in Gateways : hpc'[h][r] = "none"
      /\ \A m \in net : ~Routes(m, r)
  BY <1>1, <1>2 DEF RouteInv, OneToken
<1>4. \A h \in Gateways, q \in Calls :
         /\ hpc'[h][q] = hpc[h][q] \/ (q = r /\ hpc'[h][q] = "none" /\ q \notin pending'[h])
         /\ pending'[h] \subseteq pending[h]
         /\ result'[h][q] \in {result[h][q], None}
  BY <1>1, <1>2
<1>5. CASE Remote(g, r)
  <2> DEFINE resp == [type |-> "resp", to |-> SourceOf[r], id |-> r, res |-> res]
  <2>1. net' = net \cup {resp} /\ UNCHANGED <<cpc, outcome>>
    BY <1>5 DEF Answer
  <2>2. resp.type = "resp" /\ resp.to = SourceOf[r] /\ resp.id = r /\ resp.res = res
    OBVIOUS
  <2> HIDE DEF resp
  <2>3. CallerAlone'
    <3>1. cpc[r] \notin {"idle", "bind", "dispatch"}
      BY DEF RouteInv, CallerAlone
    <3> QED
      BY <1>1, <1>4, <2>1, <2>2, <3>1 DEF RouteInv, CallerAlone, Routes
  <2>4. OneToken'
    BY <1>3, <1>4, <2>1, <2>2 DEF RouteInv, OneToken, Routes
  <2>5. Addressed'
    <3>1. ASSUME NEW q \in Calls, hpc'[SourceOf[q]][q] # "none" PROVE cpc'[q] = "direct"
      BY <1>4, <2>1, <3>1, CallAssumption DEF RouteInv, Addressed
    <3> QED
      BY <1>1, <2>1, <2>2, <3>1 DEF RouteInv, Addressed
  <2>6. NoOrphans'
    BY <1>1, <1>2, <1>4, <2>1 DEF RouteInv, NoOrphans
  <2>7. OwnResults'
    <3>1. \A c \in Conns : None # Ok(c)
      BY ResultAssumption DEF Results
    <3> QED
      BY <1>4, <2>1, <2>2, <3>1 DEF RouteInv, OwnResults
  <2> QED
    BY <2>3, <2>4, <2>5, <2>6, <2>7 DEF RouteInv
<1>6. CASE ~Remote(g, r)
  <2>1. Return(r, res, attempt[r]) /\ UNCHANGED net /\ g = SourceOf[r]
    BY <1>6 DEF Answer, Remote
  <2>2. \/ /\ cpc' = [cpc EXCEPT ![r] = "bind"]
           /\ UNCHANGED outcome
           /\ attempt[r] = 1
        \/ /\ cpc' = [cpc EXCEPT ![r] = "done"]
           /\ outcome' = [outcome EXCEPT ![r] = res]
    BY <2>1, ReturnCases
  <2>3. \A h \in Gateways : r \notin cpending[h]
    BY <2>1 DEF RouteInv, NoOrphans, Addressed
  <2>4. \A m \in net' : ~Routes(m, r)'
    BY <1>3, <2>1 DEF Routes
  <2>5. \/ /\ cpc' = [cpc EXCEPT ![r] = "bind"]
           /\ UNCHANGED outcome
           /\ attempt'[r] <= 1
           /\ \A h \in Gateways : hpc'[h][r] = "none"
           /\ \A m \in net' : ~Routes(m, r)'
        \/ /\ cpc' = [cpc EXCEPT ![r] = "done"]
           /\ outcome' = [outcome EXCEPT ![r] = res]
    BY <1>1, <1>3, <2>2, <2>4
  <2>6. /\ hpc'[SourceOf[r]][r] = "none"
        /\ \A q \in Calls \ {r} : attempt'[q] = attempt[q] /\ target'[q] = target[q]
        /\ \A h \in Gateways : r \notin cpending'[h] /\ cpending'[h] \subseteq cpending[h]
        /\ net' \subseteq net \cup [type : {"cancel"}, to : Gateways, id : Calls, res : {None}]
    BY <1>1, <1>2, <1>3, <2>1, <2>3
  <2>7. /\ \A h \in Gateways, q \in Calls :
              hpc'[h][q] = hpc[h][q] \/ (q = r /\ hpc'[h][q] = "none" /\ q \notin pending'[h])
        /\ \A h \in Gateways : pending'[h] \subseteq pending[h]
        /\ \A h \in Gateways, q \in Calls : result'[h][q] \in {result[h][q], None}
    BY <1>4
  <2> QED
    BY <2>5, <2>6, <2>7, RouteReturn, SMTT(30)
<1> QED
  BY <1>5, <1>6

\* A step of HandleRouted that keeps the token: no handler starts or ends.
LEMMA HandlerMoves ==
    ASSUME CallTypeOK, RouteInv, NEW g \in Gateways, NEW r \in Calls,
           NEW s \in {"miss", "pend", "send", "wait"},
           hpc[g][r] # "none",
           hpc' = [hpc EXCEPT ![g][r] = s],
           \/ s \in {"miss", "pend"} /\ hpc[g][r] \notin {"send", "wait"} /\ UNCHANGED pending
           \/ s = "send" /\ pending' = [pending EXCEPT ![g] = @ \cup {r}]
           \/ s = "wait" /\ UNCHANGED pending,
           UNCHANGED <<cpc, attempt, outcome, target, cpending, result, net>>
    PROVE  RouteInv'
<1>1. /\ hpc \in [Gateways -> [Calls -> {"none", "lookup", "miss", "pend", "send", "wait"}]]
      /\ pending \in [Gateways -> SUBSET Calls]
  BY DEF CallTypeOK
<1>2. \A h \in Gateways, q \in Calls : hpc'[h][q] = "none" <=> hpc[h][q] = "none"
  BY <1>1
<1>3. CallerAlone'
  BY <1>2 DEF RouteInv, CallerAlone, Routes
<1>4. OneToken'
  BY <1>2 DEF RouteInv, OneToken, Routes
<1>5. Addressed'
  <2>1. \A q \in Calls : hpc'[SourceOf[q]][q] # "none" => cpc[q] = "direct"
    BY <1>2, CallAssumption DEF RouteInv, Addressed
  <2> QED
    BY <2>1 DEF RouteInv, Addressed
<1>6. NoOrphans'
  <2>1. ASSUME NEW h \in Gateways, NEW q \in pending'[h] PROVE hpc'[h][q] \in {"send", "wait"}
    <3>1. CASE h = g /\ q = r
      BY <1>1, <2>1, <3>1 DEF RouteInv, NoOrphans
    <3>2. CASE ~(h = g /\ q = r)
      <4>1. q \in pending[h] /\ q \in Calls
        BY <1>1, <2>1, <3>2
      <4>2. hpc'[h][q] = hpc[h][q]
        BY <1>1, <3>2, <4>1
      <4> QED
        BY <4>1, <4>2 DEF RouteInv, NoOrphans
    <3> QED
      BY <3>1, <3>2
  <2> QED
    BY <2>1 DEF RouteInv, NoOrphans
<1>7. OwnResults'
  BY DEF RouteInv, OwnResults
<1> QED
  BY <1>3, <1>4, <1>5, <1>6, <1>7 DEF RouteInv

\* Every step of HandleRouted and callLocal keeps the token in one place.
LEMMA HandlerRoute ==
    ASSUME CallTypeOK, RouteInv, NEW g \in Gateways, NEW r \in Calls, HandlerStep(g, r)
    PROVE  RouteInv'
<1>1. CASE HandleLookup(g, r)
  <2>1. PICK s \in {"miss", "pend"} : hpc' = [hpc EXCEPT ![g][r] = s]
    BY <1>1 DEF HandleLookup
  <2>2. /\ hpc[g][r] = "lookup"
        /\ UNCHANGED <<cpc, attempt, outcome, target, cpending, pending, result, net>>
    BY <1>1 DEF HandleLookup, callVars
  <2> QED
    BY <2>1, <2>2, HandlerMoves
<1>2. ASSUME hpc[g][r] \notin {"send", "wait"} PROVE pending = [pending EXCEPT ![g] = @ \ {r}]
  <2>1. r \notin pending[g]
    BY <1>2 DEF RouteInv, NoOrphans
  <2> QED
    BY <2>1 DEF CallTypeOK
<1>3. CASE HandleMiss(g, r)
  <2>1. Err("offline") \in Results /\ \A c \in Conns : Err("offline") # Ok(c)
    BY ErrFields DEF Codes
  <2>2. hpc[g][r] = "miss" /\ Answer(g, r, Err("offline")) /\ UNCHANGED pending
    BY <1>3 DEF HandleMiss
  <2>3. pending' = [pending EXCEPT ![g] = @ \ {r}]
    BY <1>2, <2>2
  <2> QED
    BY <2>1, <2>2, <2>3, AnswerRoute
<1>4. CASE FilePending(g, r)
  <2>1. r \notin pending[g] /\ hpc[g][r] = "pend"
    BY <1>4 DEF FilePending, RouteInv, NoOrphans
  <2> QED
    BY <1>4, <2>1, HandlerMoves DEF FilePending, callVars
<1>5. CASE SendCall(g, r)
  BY <1>5, HandlerMoves DEF SendCall, callVars
<1>6. ASSUME NEW res \in Results, Finish(g, r, res), hpc[g][r] # "none",
             \A c \in Conns : KeyOf[c] # CallKey[r] => res # Ok(c)
      PROVE  RouteInv'
  BY <1>6, AnswerRoute DEF Finish
<1>7. CASE SendFail(g, r)
  <2>1. Err("sendError") \in Results /\ \A c \in Conns : Err("sendError") # Ok(c)
    BY ErrFields DEF Codes
  <2> QED
    BY <1>6, <1>7, <2>1 DEF SendFail
<1>8. CASE WaitResult(g, r)
  <2>1. /\ result[g][r] \in Results
        /\ \A c \in Conns : KeyOf[c] # CallKey[r] => result[g][r] # Ok(c)
    BY <1>8 DEF WaitResult, CallTypeOK, RouteInv, OwnResults
  <2> QED
    BY <1>6, <1>8, <2>1 DEF WaitResult
<1>9. CASE WaitCtxDone(g, r)
  <2>1. Err("timeout") \in Results /\ \A c \in Conns : Err("timeout") # Ok(c)
    BY ErrFields DEF Codes
  <2> QED
    BY <1>6, <1>9, <2>1 DEF WaitCtxDone
<1>10. CASE WaitClosed(g, r)
  <2>1. Err("dropped") \in Results /\ \A c \in Conns : Err("dropped") # Ok(c)
    BY ErrFields DEF Codes
  <2> QED
    BY <1>6, <1>10, <2>1 DEF WaitClosed
<1>11. CASE RemoteCleanup(g, r)
  BY <1>11, RouteFewer DEF RemoteCleanup, tokenVars, callVars
<1> QED
  BY <1>1, <1>3, <1>4, <1>5, <1>7, <1>8, <1>9, <1>10, <1>11 DEF HandlerStep

\* Receiving or losing a message keeps the token in one place.
LEMMA MessageRoute ==
    ASSUME CallTypeOK, RouteInv, NEW m \in net, MessageStep(m)
    PROVE  RouteInv'
<1> DEFINE r == m.id
           g == m.to
<1>1. /\ r \in Calls
      /\ g \in Gateways
      /\ m.type = "resp" => m.res \in Results
  BY MsgFields
<1>2. CASE ReceiveRequest(m)
  <2>1. /\ m.type = "req"
        /\ net' = net \ {m}
        /\ hpc' = [hpc EXCEPT ![g][r] = "lookup"]
        /\ UNCHANGED <<cpc, attempt, outcome, target, cpending, pending, result>>
    BY <1>2 DEF ReceiveRequest, StartHandler, callVars
  <2>2. hpc \in [Gateways -> [Calls -> {"none", "lookup", "miss", "pend", "send", "wait"}]]
    BY DEF CallTypeOK
  <2>3. /\ \A h \in Gateways : hpc[h][r] = "none"
        /\ \A n \in net' : ~Routes(n, r)
        /\ cpc[r] \notin {"idle", "bind", "dispatch"}
        /\ g # SourceOf[r]
    BY <1>1, <2>1 DEF RouteInv, OneToken, Routes, CallerAlone, Addressed
  <2> HIDE DEF r, g
  <2>4. \A h \in Gateways, q \in Calls :
           hpc'[h][q] # "none" => hpc'[h][q] = hpc[h][q] \/ (q = r /\ h = g)
    BY <1>1, <2>1, <2>2
  <2>5. CallerAlone'
    BY <2>1, <2>3, <2>4 DEF RouteInv, CallerAlone, Routes
  <2>6. OneToken'
    BY <2>1, <2>3, <2>4 DEF RouteInv, OneToken, Routes
  <2>7. Addressed'
    <3>1. ASSUME NEW q \in Calls, hpc'[SourceOf[q]][q] # "none" PROVE cpc'[q] = "direct"
      BY <2>1, <2>3, <2>4, <3>1, CallAssumption DEF RouteInv, Addressed
    <3> QED
      BY <2>1, <3>1 DEF RouteInv, Addressed
  <2>8. NoOrphans'
    <3>1. ASSUME NEW h \in Gateways, NEW q \in pending'[h] PROVE hpc'[h][q] \in {"send", "wait"}
      <4>1. q \in Calls /\ hpc[h][q] \in {"send", "wait"}
        BY <2>1, <3>1 DEF RouteInv, NoOrphans, CallTypeOK
      <4>2. q # r
        BY <2>3, <4>1
      <4> QED
        BY <1>1, <2>1, <2>2, <4>1, <4>2
    <3> QED
      BY <2>1, <3>1 DEF RouteInv, NoOrphans
  <2>9. OwnResults'
    BY <2>1 DEF RouteInv, OwnResults
  <2> QED
    BY <2>5, <2>6, <2>7, <2>8, <2>9 DEF RouteInv
<1>3. CASE ReceiveResponse(m)
  <2>1. /\ m.type = "resp"
        /\ net' = net \ {m}
        /\ UNCHANGED <<attempt, hpc, pending, result>>
    BY <1>3 DEF ReceiveResponse, handlerVars
  <2>2. CASE r \notin cpending[g]
    BY <1>3, <2>1, <2>2, RouteFewer DEF ReceiveResponse, tokenVars
  <2>3. CASE r \in cpending[g]
    <3>1. /\ cpending' = [cpending EXCEPT ![g] = @ \ {r}]
          /\ target' = [target EXCEPT ![r] = None]
          /\ Return(r, m.res, attempt[r])
      BY <1>3, <2>3 DEF ReceiveResponse
    <3>2. /\ \A h \in Gateways : hpc'[h][r] = "none"
          /\ \A n \in net' : ~Routes(n, r)'
          /\ SourceOf[r] \in Gateways
          /\ g = SourceOf[r]
      BY <1>1, <2>1, CallAssumption DEF RouteInv, OneToken, Routes, Addressed
    <3>3. /\ m.res \in Results
          /\ \A c \in Conns : KeyOf[c] # CallKey[r] => m.res # Ok(c)
      BY <1>1, <2>1 DEF RouteInv, OwnResults
    <3>4. \/ /\ cpc' = [cpc EXCEPT ![r] = "bind"]
             /\ UNCHANGED outcome
             /\ attempt[r] = 1
          \/ /\ cpc' = [cpc EXCEPT ![r] = "done"]
             /\ outcome' = [outcome EXCEPT ![r] = m.res]
      BY <1>1, <3>1, ReturnCases
    <3>5. \A h \in Gateways : r \notin cpending'[h] /\ cpending'[h] \subseteq cpending[h]
      BY <1>1, <3>1, <3>2 DEF RouteInv, NoOrphans, CallTypeOK
    <3>6. \A q \in Calls \ {r} : target'[q] = target[q]
      BY <1>1, <3>1 DEF CallTypeOK
    <3> HIDE DEF r, g
    <3> QED
      BY <1>1, <2>1, <3>2, <3>3, <3>4, <3>5, <3>6, RouteReturn
  <2> QED
    BY <2>2, <2>3
<1>4. CASE ReceiveCancel(m) \/ LoseMessage(m)
  BY <1>4, RouteFewer DEF ReceiveCancel, LoseMessage, tokenVars, callVars, handlerVars
<1> QED
  BY <1>2, <1>3, <1>4 DEF MessageStep

\* A tool_result and unregister put into a pending entry's channel only a
\* success of the call's own workspace, or an error.
LEMMA ConnRoute ==
    ASSUME CallTypeOK, RouteInv, NEW c \in Conns,
           Unregister(c) \/ \E r \in Calls : ToolResult(c, r)
    PROVE  RouteInv'
<1>1. HomeOf[c] \in Gateways
  BY ConnAssumption
<1>2. UNCHANGED <<cpc, attempt, outcome, target, cpending, hpc, net>>
  BY DEF Unregister, ToolResult, callVars
<1>3. /\ pending \in [Gateways -> SUBSET Calls]
      /\ result \in [Gateways -> [Calls -> Results \cup {None}]]
  BY DEF CallTypeOK
<1>4. /\ \A g \in Gateways : pending'[g] \subseteq pending[g]
      /\ \A g \in Gateways, q \in Calls :
            \/ result'[g][q] = result[g][q]
            \/ result'[g][q] = Err("offline")
            \/ result'[g][q] = Ok(c) /\ KeyOf[c] = CallKey[q]
  <2>1. CASE Unregister(c)
    <3>1. \E failed \in SUBSET Calls :
            /\ pending' = [pending EXCEPT ![HomeOf[c]] = @ \ failed]
            /\ result' = [result EXCEPT ![HomeOf[c]] = [r \in Calls |->
                    IF r \in failed /\ @[r] = None THEN Err("offline") ELSE @[r]]]
      <4>1. {r \in pending[HomeOf[c]] : CallKey[r] = KeyOf[c]} \in SUBSET Calls
        BY <1>1, <1>3
      <4> QED
        BY <2>1, <4>1 DEF Unregister
    <3> QED
      BY <1>1, <1>3, <3>1
  <2>2. ASSUME NEW r \in Calls, ToolResult(c, r) PROVE <1>4!1 /\ <1>4!2
    <3>1. \/ UNCHANGED <<pending, result>>
          \/ /\ CallKey[r] = KeyOf[c]
             /\ pending' = [pending EXCEPT ![HomeOf[c]] = @ \ {r}]
             /\ result' = [result EXCEPT ![HomeOf[c]][r] = IF @ = None THEN Ok(c) ELSE @]
      BY <2>2 DEF ToolResult, Matches
    <3> QED
      BY <1>1, <1>3, <3>1
  <2> QED
    BY <2>1, <2>2
<1>5. CallerAlone'
  BY <1>2 DEF RouteInv, CallerAlone, Routes
<1>6. OneToken'
  BY <1>2 DEF RouteInv, OneToken, Routes
<1>7. Addressed'
  BY <1>2 DEF RouteInv, Addressed
<1>8. NoOrphans'
  BY <1>2, <1>4 DEF RouteInv, NoOrphans
<1>9. OwnResults'
  <2>1. \A d \in Conns : Err("offline") # Ok(d)
    BY ErrFields DEF Codes
  <2>2. \A d \in Conns : Ok(c) = Ok(d) => c = d
    BY DEF Ok
  <2> QED
    BY <1>2, <1>4, <2>1, <2>2 DEF RouteInv, OwnResults
<1> QED
  BY <1>5, <1>6, <1>7, <1>8, <1>9 DEF RouteInv

\* A replica that dies takes the tokens it holds with it, and drops no other.
LEMMA CrashRoute ==
    ASSUME CallTypeOK, RouteInv, NEW g \in Gateways, CrashCalls(g)
    PROVE  RouteInv'
<1> DEFINE mine == {r \in Calls : SourceOf[r] = g /\ cpc[r] \notin {"idle", "done"}}
<1>1. /\ cpc' = [r \in Calls |-> IF r \in mine THEN "done" ELSE cpc[r]]
      /\ outcome' = [r \in Calls |-> IF r \in mine THEN Err("crashed") ELSE outcome[r]]
      /\ target' = [r \in Calls |-> IF r \in mine THEN None ELSE target[r]]
      /\ cpending' = [cpending EXCEPT ![g] = {}]
      /\ hpc' = [hpc EXCEPT ![g] = [r \in Calls |-> "none"]]
      /\ pending' = [pending EXCEPT ![g] = {}]
      /\ result' = [result EXCEPT ![g] = [r \in Calls |-> None]]
      /\ net' = {m \in net : m.to # g}
      /\ UNCHANGED attempt
  BY DEF CrashCalls
<1>2. \A h \in Gateways, q \in Calls :
         /\ hpc'[h][q] \in {hpc[h][q], "none"}
         /\ h # g => hpc'[h][q] = hpc[h][q]
         /\ hpc'[g][q] = "none"
         /\ result'[h][q] \in {result[h][q], None}
  BY <1>1 DEF CallTypeOK
<1>3. \A h \in Gateways :
         /\ cpending'[h] = IF h = g THEN {} ELSE cpending[h]
         /\ pending'[h] = IF h = g THEN {} ELSE pending[h]
  BY <1>1 DEF CallTypeOK
<1>4. \A q \in Calls :
         /\ cpc'[q] \in {cpc[q], "done"}
         /\ SourceOf[q] # g => cpc'[q] = cpc[q]
         /\ cpc'[q] # "done" => target'[q] = target[q]
         /\ outcome'[q] \in {outcome[q], Err("crashed")}
  BY <1>1
<1>5. net' \subseteq net
  BY <1>1
<1> HIDE DEF mine
<1>6. CallerAlone'
  BY <1>1, <1>2, <1>4, <1>5 DEF RouteInv, CallerAlone, Routes
<1>7. OneToken'
  BY <1>2, <1>5 DEF RouteInv, OneToken, Routes
<1>8. Addressed'
  <2>1. ASSUME NEW q \in Calls, hpc'[SourceOf[q]][q] # "none" PROVE cpc'[q] = "direct"
    BY <1>2, <1>4, <2>1, CallAssumption DEF RouteInv, Addressed
  <2>2. ASSUME NEW q \in Calls, cpc'[q] = "routed" PROVE target'[q] \in Gateways
    BY <1>4, <2>2 DEF RouteInv, Addressed
  <2> QED
    BY <1>5, <2>1, <2>2 DEF RouteInv, Addressed
<1>9. NoOrphans'
  <2>1. \A h \in Gateways : pending[h] \subseteq Calls /\ cpending[h] \subseteq Calls
    BY DEF CallTypeOK
  <2>2. ASSUME NEW h \in Gateways, NEW q \in pending'[h] PROVE hpc'[h][q] \in {"send", "wait"}
    BY <1>2, <1>3, <2>1, <2>2 DEF RouteInv, NoOrphans
  <2>3. ASSUME NEW h \in Gateways, NEW q \in cpending'[h]
        PROVE  cpc'[q] = "routed" /\ SourceOf[q] = h
    BY <1>3, <1>4, <2>1, <2>3 DEF RouteInv, NoOrphans
  <2> QED
    BY <2>2, <2>3 DEF NoOrphans
<1>10. OwnResults'
  <2>1. \A c \in Conns : Err("crashed") # Ok(c) /\ None # Ok(c)
    BY ErrFields, ResultAssumption DEF Codes, Results
  <2> QED
    BY <1>2, <1>4, <1>5, <2>1 DEF RouteInv, OwnResults
<1> QED
  BY <1>6, <1>7, <1>8, <1>9, <1>10 DEF RouteInv

\* RouteInv is inductive relative to the types.
LEMMA RouteStep ==
    ASSUME CallTypeOK, RouteInv, [Next]_vars
    PROVE  RouteInv'
<1>1. CASE LeaseStep /\ UNCHANGED <<callVars, handlerVars, net, wire, faults>>
  BY <1>1, RouteFewer DEF tokenVars, callVars, handlerVars
<1>2. CASE LeaseFault /\ Spend /\ UNCHANGED <<callVars, handlerVars, net, wire>>
  BY <1>2, RouteFewer DEF tokenVars, callVars, handlerVars
<1>3. CASE UNCHANGED vars
  BY <1>3, RouteFewer DEF vars, tokenVars, callVars, handlerVars
<1> QED
  BY <1>1, <1>2, <1>3, CallerRoute, HandlerRoute, MessageRoute, ConnRoute, CrashRoute DEF Next

\* Before the first call nothing is in flight.
LEMMA RouteInit == Init => CallTypeOK /\ RouteInv
<1> SUFFICES ASSUME Init PROVE CallTypeOK /\ RouteInv
  OBVIOUS
<1>1. CallTypeOK
  <2>1. LeaseTypeOK
    BY LeaseInitType DEF Init
  <2> QED
    BY <2>1, CallAssumption DEF Init, CallTypeOK
<1>2. CallerAlone /\ OneToken
  BY DEF Init, CallerAlone, OneToken
<1>3. Addressed
  BY CallAssumption DEF Init, Addressed
<1>4. NoOrphans
  BY DEF Init, NoOrphans
<1>5. OwnResults
  <2>1. \A c \in Conns : None # Ok(c)
    BY ResultAssumption DEF Results
  <2> QED
    BY <2>1 DEF Init, OwnResults
<1> QED
  BY <1>1, <1>2, <1>3, <1>4, <1>5 DEF RouteInv

-----------------------------------------------------------------------------
(* The theorems.                                                            *)

\* The maps of Hub and Coordinator, the messages and the calls keep their
\* types, and the token of a request id is in one place, in every behaviour.
THEOREM RoutingInvariant == Spec => [](CallTypeOK /\ RouteInv)
<1>1. Init => CallTypeOK /\ RouteInv
  BY RouteInit
<1>2. (CallTypeOK /\ RouteInv) /\ [Next]_vars => (CallTypeOK /\ RouteInv)'
  BY CallNextType, RouteStep
<1> QED
  BY <1>1, <1>2, PTL DEF Spec

\* A request id is never handled on two replicas, nor on one while it is
\* still on its way to another, although callOperation sends it twice.
THEOREM HandledOnce == Spec => []SingleHandler
<1>1. CallTypeOK /\ RouteInv => SingleHandler
  BY DEF RouteInv, OneToken, Routes, SingleHandler
<1> QED
  BY <1>1, RoutingInvariant, PTL

\* Hub.pending and Coordinator.pending hold only calls that are still waited
\* for.
THEOREM NothingOrphaned == Spec => []NoOrphans
<1>1. CallTypeOK /\ RouteInv => NoOrphans
  BY DEF RouteInv
<1> QED
  BY <1>1, RoutingInvariant, PTL

\* A successful answer comes from a connection of the call's own workspace.
THEOREM OwnWorkspaceAnswers == Spec => []ResultFromOwnWorkspace
<1>1. CallTypeOK /\ RouteInv => ResultFromOwnWorkspace
  BY DEF RouteInv, OwnResults, ResultFromOwnWorkspace
<1> QED
  BY <1>1, RoutingInvariant, PTL

-----------------------------------------------------------------------------
(* The refinement: every step moves a call as RoutedCall allows, or moves   *)
(* none.                                                                    *)

View == [r \in Calls |-> CallOf(r)]

\* WorkOf, of any messages and handlers.
Places(N, H, r) ==
    [sent |-> {m.to : m \in {n \in N : n.type = "req" /\ n.id = r}},
     on |-> {g \in Gateways : H[g][r] # "none"},
     back |-> {m.res : m \in {n \in N : n.type = "resp" /\ n.id = r}}]

LEMMA WorkPlaces ==
    ASSUME NEW r \in Calls
    PROVE  /\ WorkOf(r) = Places(net, hpc, r)
           /\ WorkOf(r)' = Places(net', hpc', r)
BY DEF WorkOf, Places, Carried

\* A published call or answer of r among any messages.
Carries(m, r) == m.id = r /\ m.type \in {"req", "resp"}

\* The call is nowhere, with a handler alone, or in a message alone.
IsNowhere(N, H, r) == (\A g \in Gateways : H[g][r] = "none") /\ (\A m \in N : ~Carries(m, r))
IsOn(N, H, r, g) ==
    /\ H[g][r] # "none" /\ \A h \in Gateways : H[h][r] # "none" => h = g
    /\ \A m \in N : ~Carries(m, r)
IsIn(N, H, r, m) ==
    /\ m \in N /\ Carries(m, r)
    /\ \A n \in N : Carries(n, r) => n = m
    /\ \A h \in Gateways : H[h][r] = "none"

LEMMA PlacesNowhere ==
    ASSUME NEW N, NEW H, NEW r, IsNowhere(N, H, r)
    PROVE  Places(N, H, r) = [sent |-> {}, on |-> {}, back |-> {}]
<1>1. {n \in N : n.type = "req" /\ n.id = r} = {} /\ {n \in N : n.type = "resp" /\ n.id = r} = {}
  BY DEF Carries, IsNowhere, IsOn, IsIn
<1>2. {g \in Gateways : H[g][r] # "none"} = {}
  BY DEF IsNowhere, IsOn, IsIn
<1> QED BY <1>1, <1>2 DEF Places

LEMMA PlacesOn ==
    ASSUME NEW N, NEW H, NEW r, NEW g \in Gateways, IsOn(N, H, r, g)
    PROVE  Places(N, H, r) = [sent |-> {}, on |-> {g}, back |-> {}]
<1>1. {n \in N : n.type = "req" /\ n.id = r} = {} /\ {n \in N : n.type = "resp" /\ n.id = r} = {}
  BY DEF Carries, IsNowhere, IsOn, IsIn
<1>2. {h \in Gateways : H[h][r] # "none"} = {g}
  BY DEF IsOn
<1> QED BY <1>1, <1>2 DEF Places

LEMMA PlacesSent ==
    ASSUME NEW N, NEW H, NEW r, NEW m, IsIn(N, H, r, m), m.type = "req"
    PROVE  Places(N, H, r) = [sent |-> {m.to}, on |-> {}, back |-> {}]
<1>1. {n \in N : n.type = "req" /\ n.id = r} = {m} /\ {n \in N : n.type = "resp" /\ n.id = r} = {}
  BY DEF Carries, IsNowhere, IsOn, IsIn
<1>2. {h \in Gateways : H[h][r] # "none"} = {}
  BY DEF IsNowhere, IsOn, IsIn
<1>3. {n.to : n \in {m}} = {m.to}
  OBVIOUS
<1> QED BY <1>1, <1>2, <1>3 DEF Places

LEMMA PlacesBack ==
    ASSUME NEW N, NEW H, NEW r, NEW m, IsIn(N, H, r, m), m.type = "resp"
    PROVE  Places(N, H, r) = [sent |-> {}, on |-> {}, back |-> {m.res}]
<1>1. {n \in N : n.type = "req" /\ n.id = r} = {} /\ {n \in N : n.type = "resp" /\ n.id = r} = {m}
  BY DEF Carries, IsNowhere, IsOn, IsIn
<1>2. {h \in Gateways : H[h][r] # "none"} = {}
  BY DEF IsNowhere, IsOn, IsIn
<1>3. {n.res : n \in {m}} = {m.res}
  OBVIOUS
<1> QED BY <1>1, <1>2, <1>3 DEF Places

\* The places of a call change only with its messages and its handlers.
LEMMA PlacesSame ==
    ASSUME NEW N, NEW M, NEW H, NEW G, NEW r,
           \A g \in Gateways : G[g][r] = "none" <=> H[g][r] = "none",
           \A m : Carries(m, r) => (m \in N <=> m \in M)
    PROVE  Places(M, G, r) = Places(N, H, r)
<1>1. /\ {n \in N : n.type = "req" /\ n.id = r} = {n \in M : n.type = "req" /\ n.id = r}
      /\ {n \in N : n.type = "resp" /\ n.id = r} = {n \in M : n.type = "resp" /\ n.id = r}
  BY DEF Carries
<1>2. {g \in Gateways : H[g][r] # "none"} = {g \in Gateways : G[g][r] # "none"}
  OBVIOUS
<1> QED BY <1>1, <1>2 DEF Places

LEMMA SameCall ==
    ASSUME NEW r \in Calls, Phase(cpc'[r]) = Phase(cpc[r]), outcome'[r] = outcome[r],
           attempt'[r] = attempt[r],
           \A g \in Gateways : hpc'[g][r] = "none" <=> hpc[g][r] = "none",
           \A m : Carries(m, r) => (m \in net <=> m \in net')
    PROVE  CallOf(r)' = CallOf(r)
<1>1. WorkOf(r)' = WorkOf(r)
  BY WorkPlaces, PlacesSame
<1> QED BY <1>1 DEF CallOf

\* One call moves.
LEMMA OneCall ==
    ASSUME NEW r \in Calls, NEW new, CallOf(r)' = new,
           \A q \in Calls : q # r => CallOf(q)' = CallOf(q)
    PROVE  Routed!Becomes(r, new)
<1>1. View' = [View EXCEPT ![r] = new]
  BY DEF View
<1> QED BY <1>1 DEF Routed!Becomes, View

LEMMA PhaseFacts ==
    /\ Phase("idle") = "new"
    /\ Phase("bind") = "asking" /\ Phase("dispatch") = "asking"
    /\ Phase("direct") = "waiting" /\ Phase("routed") = "waiting"
    /\ Phase("done") = "returned"
BY DEF Phase

\* A step of a call is a step of RoutedCall or changes no call.
LEMMA CallMoves ==
    ASSUME NEW r \in Calls, Routed!CallerNext(r) \/ Routed!WorkNext(r)
    PROVE  [Routed!RoutedNext]_View
<1>1. CASE View' = View
  BY <1>1
<1>2. CASE View' # View
  BY <1>2 DEF Routed!RoutedNext, View
<1> QED BY <1>1, <1>2

\* The record of a call.
LEMMA CallFields ==
    ASSUME NEW r \in Calls
    PROVE  /\ View[r].phase = Phase(cpc[r])
           /\ View[r].result = outcome[r]
           /\ View[r].sends = attempt[r]
           /\ View[r].work = WorkOf(r)
BY DEF View, CallOf

LEMMA OthersSame ==
    ASSUME NEW r \in Calls,
           \A q \in Calls \ {r} :
               /\ cpc'[q] = cpc[q] /\ outcome'[q] = outcome[q] /\ attempt'[q] = attempt[q]
               /\ \A g \in Gateways : hpc'[g][q] = hpc[g][q],
           \A m : ~Carries(m, r) /\ m.type \in {"req", "resp"} => (m \in net <=> m \in net')
    PROVE  \A q \in Calls : q # r => CallOf(q)' = CallOf(q)
<1> SUFFICES ASSUME NEW q \in Calls, q # r PROVE CallOf(q)' = CallOf(q)
  OBVIOUS
<1>1. \A m : Carries(m, q) => (m \in net <=> m \in net')
  BY DEF Carries
<1> QED BY <1>1, SameCall

\* The steps that change nothing RoutedCall sees.
LEMMA NoCallMoves ==
    ASSUME \A r \in Calls :
               /\ Phase(cpc'[r]) = Phase(cpc[r]) /\ outcome'[r] = outcome[r]
               /\ attempt'[r] = attempt[r]
               /\ \A g \in Gateways : hpc'[g][r] = "none" <=> hpc[g][r] = "none",
           \A m : m.type \in {"req", "resp"} => (m \in net <=> m \in net')
    PROVE  [Routed!RoutedNext]_View
<1>1. \A r \in Calls : CallOf(r)' = CallOf(r)
  BY SameCall DEF Carries
<1>2. View' = View
  BY <1>1 DEF View
<1> QED BY <1>2

\* A caller that has not dispatched has no work anywhere.
LEMMA AloneNowhere ==
    ASSUME RouteInv, NEW r \in Calls, cpc[r] \in {"idle", "bind", "dispatch"}
    PROVE  WorkOf(r) = [sent |-> {}, on |-> {}, back |-> {}]
<1>1. IsNowhere(net, hpc, r)
  BY DEF RouteInv, CallerAlone, Routes, Carries, IsNowhere
<1> QED BY <1>1, WorkPlaces, PlacesNowhere

\* A Hub.Call that has returned, with nothing left of it.
LEMMA ReturnRefines ==
    ASSUME CallTypeOK, NEW r \in Calls, NEW res \in Results, NEW n, Return(r, res, n),
           attempt'[r] = n,
           WorkOf(r)' = [sent |-> {}, on |-> {}, back |-> {}],
           \A q \in Calls : q # r => CallOf(q)' = CallOf(q)
    PROVE  Routed!Returns(r, res, n)
<1> DEFINE none == [sent |-> {}, on |-> {}, back |-> {}]
<1>1. CASE Transient(res) /\ n = 1 /\ r \in Retryable
  <2>1. cpc'[r] = "bind" /\ outcome'[r] = outcome[r]
    BY <1>1 DEF Return, CallTypeOK
  <2>2. CallOf(r)' = [phase |-> "asking", result |-> outcome[r], sends |-> n, work |-> none]
    BY <2>1, PhaseFacts DEF CallOf
  <2>3. Routed!Becomes(r, [phase |-> "asking", result |-> View[r].result, sends |-> n, work |-> none])
    BY <2>2, OneCall, CallFields
  <2> QED BY <1>1, <2>3 DEF Routed!Returns, Routed!State, Routed!Nowhere, Transient, View
<1>2. CASE ~(Transient(res) /\ n = 1 /\ r \in Retryable)
  <2>1. cpc'[r] = "done" /\ outcome'[r] = res
    BY <1>2 DEF Return, CallTypeOK
  <2>2. CallOf(r)' = [phase |-> "returned", result |-> res, sends |-> n, work |-> none]
    BY <2>1, PhaseFacts DEF CallOf
  <2>3. Routed!Becomes(r, [phase |-> "returned", result |-> res, sends |-> n, work |-> none])
    BY <2>2, OneCall
  <2> QED BY <1>2, <2>3 DEF Routed!Returns, Routed!State, Routed!Nowhere, Transient
<1> QED BY <1>1, <1>2

LEMMA ErrorIsError == \A e \in Codes : Err(e) \in Errors
BY DEF Errors

\* The steps of callOperation before it has dispatched.
LEMMA RefineAsk ==
    ASSUME CallTypeOK, RouteInv, NEW r \in Calls, StartCall(r) \/ Bind(r) \/ BindFail(r)
    PROVE  [Routed!RoutedNext]_View
<1>0. UNCHANGED <<attempt, hpc, net>>
  BY DEF StartCall, Bind, BindFail, handlerVars
<1>w. WorkOf(r)' = WorkOf(r)
  BY <1>0 DEF WorkOf, Carried
<1>1. CASE StartCall(r)
  <2>1. cpc[r] = "idle" /\ cpc' = [cpc EXCEPT ![r] = "bind"] /\ outcome' = outcome
    BY <1>1 DEF StartCall
  <2>2. CallOf(r)' = [phase |-> "asking", result |-> outcome[r], sends |-> attempt[r], work |-> WorkOf(r)]
    BY <1>0, <1>w, <2>1, PhaseFacts DEF CallOf, CallTypeOK
  <2>3. \A q \in Calls : q # r => CallOf(q)' = CallOf(q)
    BY <1>0, <2>1, OthersSame DEF CallTypeOK
  <2>4. Routed!Becomes(r, [phase |-> "asking", result |-> View[r].result, sends |-> View[r].sends,
                           work |-> View[r].work])
    BY <2>2, <2>3, OneCall, CallFields
  <2>5. Routed!Ask(r)
    BY <2>1, <2>4, CallFields, PhaseFacts DEF Routed!Ask, Routed!State, View
  <2> QED BY <2>5, CallMoves DEF Routed!CallerNext
<1>2. CASE Bind(r)
  <2>1. cpc[r] = "bind" /\ cpc' = [cpc EXCEPT ![r] = "dispatch"] /\ outcome' = outcome
    BY <1>2 DEF Bind
  <2>2. \A q \in Calls : Phase(cpc'[q]) = Phase(cpc[q])
    BY <2>1, PhaseFacts DEF CallTypeOK
  <2> QED BY <1>0, <2>1, <2>2, NoCallMoves
<1>3. CASE BindFail(r)
  <2>1. /\ cpc[r] = "bind" /\ cpc' = [cpc EXCEPT ![r] = "done"]
        /\ outcome' = [outcome EXCEPT ![r] = Err("unavailable")]
    BY <1>3 DEF BindFail
  <2>2. CallOf(r)' = [phase |-> "returned", result |-> Err("unavailable"), sends |-> attempt[r],
                      work |-> WorkOf(r)]
    BY <1>0, <1>w, <2>1, PhaseFacts DEF CallOf, CallTypeOK
  <2>3. \A q \in Calls : q # r => CallOf(q)' = CallOf(q)
    BY <1>0, <2>1, OthersSame DEF CallTypeOK
  <2>4. Routed!Becomes(r, [phase |-> "returned", result |-> Err("unavailable"), sends |-> View[r].sends,
                           work |-> View[r].work])
    BY <2>2, <2>3, OneCall, CallFields
  <2>5. View[r].work # [sent |-> {}, on |-> {SourceOf[r]}, back |-> {}]
    BY <2>1, AloneNowhere, CallFields
  <2>6. Routed!GivesUp(r, Err("unavailable"))
    BY <2>1, <2>4, <2>5, CallFields, PhaseFacts DEF Routed!GivesUp, Routed!State, Routed!On, View
  <2>7. Err("unavailable") \in Errors
    BY ErrorIsError DEF Codes
  <2> QED BY <2>6, <2>7, CallMoves DEF Routed!CallerNext
<1> QED BY <1>1, <1>2, <1>3

\* Hub.Call dispatches in place, to the replica that has the lease, or fails.
LEMMA RefineDispatch ==
    ASSUME CallTypeOK, RouteInv, NEW r \in Calls,
           DispatchDirect(r) \/ DispatchRouted(r) \/ DispatchFail(r)
    PROVE  [Routed!RoutedNext]_View
<1>0. /\ cpc[r] = "dispatch"
      /\ attempt' = [attempt EXCEPT ![r] = @ + 1]
      /\ SourceOf[r] \in Gateways
  BY CallAssumption DEF DispatchDirect, DispatchRouted, DispatchFail
<1>a. attempt'[r] = attempt[r] + 1 /\ \A q \in Calls \ {r} : attempt'[q] = attempt[q]
  BY <1>0 DEF CallTypeOK
<1>b. /\ \A g \in Gateways : hpc[g][r] = "none"
      /\ \A m \in net : ~Carries(m, r)
  BY <1>0 DEF RouteInv, CallerAlone, Routes, Carries
<1>c. /\ View[r].phase = "asking"
      /\ View[r].work = [sent |-> {}, on |-> {}, back |-> {}]
      /\ View[r].sends = attempt[r] /\ View[r].result = outcome[r]
  BY <1>0, AloneNowhere, CallFields, PhaseFacts
<1>1. CASE DispatchDirect(r)
  <2>1. /\ cpc' = [cpc EXCEPT ![r] = "direct"] /\ outcome' = outcome /\ net' = net
        /\ hpc' = [hpc EXCEPT ![SourceOf[r]][r] = "lookup"]
    BY <1>1 DEF DispatchDirect, StartHandler
  <2>2. \A g \in Gateways, q \in Calls :
           hpc'[g][q] = IF g = SourceOf[r] /\ q = r THEN "lookup" ELSE hpc[g][q]
    BY <1>0, <2>1 DEF CallTypeOK
  <2>3. WorkOf(r)' = [sent |-> {}, on |-> {SourceOf[r]}, back |-> {}]
    <3>1. IsOn(net', hpc', r, SourceOf[r])
      BY <1>0, <1>b, <2>1, <2>2 DEF IsOn
    <3> QED BY <1>0, <3>1, WorkPlaces, PlacesOn
  <2>4. CallOf(r)' = [phase |-> "waiting", result |-> outcome[r], sends |-> attempt[r] + 1,
                      work |-> [sent |-> {}, on |-> {SourceOf[r]}, back |-> {}]]
    BY <1>a, <2>1, <2>3, PhaseFacts DEF CallOf, CallTypeOK
  <2>5. \A q \in Calls : q # r => CallOf(q)' = CallOf(q)
    <3>1. \A q \in Calls \ {r} :
             /\ cpc'[q] = cpc[q] /\ outcome'[q] = outcome[q] /\ attempt'[q] = attempt[q]
             /\ \A g \in Gateways : hpc'[g][q] = hpc[g][q]
      BY <1>a, <2>1, <2>2 DEF CallTypeOK
    <3> QED BY <2>1, <3>1, OthersSame
  <2>6. Routed!Becomes(r, [phase |-> "waiting", result |-> View[r].result, sends |-> View[r].sends + 1,
                           work |-> [sent |-> {}, on |-> {SourceOf[r]}, back |-> {}]])
    BY <1>c, <2>4, <2>5, OneCall
  <2>7. Routed!Send(r, Routed!On(SourceOf[r]))
    BY <1>c, <2>6 DEF Routed!Send, Routed!State, Routed!Nowhere, Routed!On, View
  <2> QED BY <2>7, CallMoves DEF Routed!CallerNext
<1>2. CASE DispatchRouted(r)
  <2> DEFINE o == owner[CallKey[r]]
             req == [type |-> "req", to |-> o, id |-> r, res |-> None]
  <2>1. /\ cpc' = [cpc EXCEPT ![r] = "routed"] /\ outcome' = outcome /\ hpc' = hpc
        /\ net' = net \cup {req}
        /\ o \notin {SourceOf[r], None}
    BY <1>2 DEF DispatchRouted, handlerVars
  <2>2. o \in Gateways \ {SourceOf[r]}
    BY <2>1, CallAssumption DEF CallTypeOK, LeaseTypeOK
  <2>3. req.id = r /\ req.type = "req" /\ req.to = o /\ req \in net'
    BY <2>1
  <2> HIDE DEF o, req
  <2>4. \A n \in net' : Carries(n, r) => n = req
    BY <1>b, <2>1
  <2>5. WorkOf(r)' = [sent |-> {o}, on |-> {}, back |-> {}]
    <3>1. IsIn(net', hpc', r, req)
      BY <1>b, <2>1, <2>3, <2>4 DEF IsIn, Carries
    <3> QED BY <2>3, <3>1, WorkPlaces, PlacesSent
  <2>6. CallOf(r)' = [phase |-> "waiting", result |-> outcome[r], sends |-> attempt[r] + 1,
                      work |-> [sent |-> {o}, on |-> {}, back |-> {}]]
    BY <1>a, <2>1, <2>5, PhaseFacts DEF CallOf, CallTypeOK
  <2>7. \A m : ~Carries(m, r) /\ m.type \in {"req", "resp"} => (m \in net <=> m \in net')
    BY <2>1, <2>3 DEF Carries
  <2>8. \A q \in Calls : q # r => CallOf(q)' = CallOf(q)
    BY <1>a, <2>1, <2>7, OthersSame DEF CallTypeOK
  <2>9. Routed!Becomes(r, [phase |-> "waiting", result |-> View[r].result, sends |-> View[r].sends + 1,
                           work |-> [sent |-> {o}, on |-> {}, back |-> {}]])
    BY <1>c, <2>6, <2>8, OneCall
  <2>10. Routed!Send(r, Routed!Sent(o))
    BY <1>c, <2>9 DEF Routed!Send, Routed!State, Routed!Nowhere, Routed!Sent, View
  <2> QED BY <2>2, <2>10, CallMoves DEF Routed!CallerNext
<1>3. CASE DispatchFail(r)
  <2>1. hpc' = hpc /\ net' = net
    BY <1>3 DEF DispatchFail, handlerVars
  <2>2. PICK res \in {Err("noOwner"), Err("redisError")} : Return(r, res, attempt[r] + 1)
    BY <1>3 DEF DispatchFail
  <2>3. res \in Results /\ res \in Errors
    BY ErrFields, ErrorIsError DEF Codes
  <2>4. WorkOf(r)' = [sent |-> {}, on |-> {}, back |-> {}]
    <3>1. IsNowhere(net', hpc', r)
      BY <1>b, <2>1 DEF IsNowhere
    <3> QED BY <3>1, WorkPlaces, PlacesNowhere
  <2>5. \A q \in Calls \ {r} : cpc'[q] = cpc[q] /\ outcome'[q] = outcome[q]
    BY <2>2 DEF Return, CallTypeOK
  <2>6. \A q \in Calls : q # r => CallOf(q)' = CallOf(q)
    BY <1>a, <2>1, <2>5, OthersSame
  <2>7. Routed!Returns(r, res, attempt[r] + 1)
    BY <1>a, <2>2, <2>3, <2>4, <2>6, ReturnRefines
  <2>8. Routed!Returns(r, res, View[r].sends + 1)
    BY <1>c, <2>7
  <2>9. Routed!Refused(r, res)
    BY <1>c, <2>8 DEF Routed!Refused, Routed!Nowhere, View
  <2> QED BY <2>3, <2>9, CallMoves DEF Routed!CallerNext
<1> QED BY <1>1, <1>2, <1>3

\* The caller's context ends: it returns while the work goes on elsewhere.
LEMMA RefineTimeout ==
    ASSUME CallTypeOK, RouteInv, NEW r \in Calls, RoutedTimeout(r)
    PROVE  [Routed!RoutedNext]_View
<1> DEFINE cancel == [type |-> "cancel", to |-> target[r], id |-> r, res |-> None]
<1>1. /\ cpc[r] = "routed" /\ net' = net \cup {cancel}
      /\ Return(r, Err("timeout"), attempt[r]) /\ UNCHANGED <<attempt, hpc>>
  BY DEF RoutedTimeout, handlerVars
<1>2. ~Transient(Err("timeout"))
  BY DEF Transient, Err
<1>3. cpc' = [cpc EXCEPT ![r] = "done"] /\ outcome' = [outcome EXCEPT ![r] = Err("timeout")]
  BY <1>1, <1>2, ReturnCases
<1>4. \A m : m.type \in {"req", "resp"} => (m \in net <=> m \in net')
  BY <1>1
<1>5. WorkOf(r)' = WorkOf(r)
  BY <1>1, <1>4, WorkPlaces, PlacesSame DEF Carries
<1>6. CallOf(r)' = [phase |-> "returned", result |-> Err("timeout"), sends |-> attempt[r], work |-> WorkOf(r)]
  BY <1>1, <1>3, <1>5, PhaseFacts DEF CallOf, CallTypeOK
<1>7. \A q \in Calls : q # r => CallOf(q)' = CallOf(q)
  <2>1. \A q \in Calls \ {r} : cpc'[q] = cpc[q] /\ outcome'[q] = outcome[q]
    BY <1>3 DEF CallTypeOK
  <2> QED BY <1>1, <1>4, <2>1, OthersSame
<1>8. Routed!Becomes(r, [phase |-> "returned", result |-> Err("timeout"), sends |-> View[r].sends,
                         work |-> View[r].work])
  BY <1>6, <1>7, OneCall, CallFields
<1>9. View[r].work # [sent |-> {}, on |-> {SourceOf[r]}, back |-> {}]
  <2>1. hpc[SourceOf[r]][r] = "none"
    BY <1>1 DEF RouteInv, Addressed
  <2>2. SourceOf[r] \notin WorkOf(r).on
    BY <2>1 DEF WorkOf
  <2> QED BY <2>2, CallFields
<1>10. Routed!GivesUp(r, Err("timeout"))
  BY <1>1, <1>8, <1>9, CallFields, PhaseFacts DEF Routed!GivesUp, Routed!State, Routed!On, View
<1>11. Err("timeout") \in Errors
  BY ErrorIsError DEF Codes
<1> QED BY <1>10, <1>11, CallMoves DEF Routed!CallerNext

LEMMA AnswerAllowed ==
    ASSUME NEW r \in Calls, NEW res \in Results,
           \A c \in Conns : KeyOf[c] # CallKey[r] => res # Ok(c)
    PROVE  res \in AnswersTo(r)
BY DEF Results, AnswersTo, Errors, Err

\* HandleRouted answers: to the caller, or to the network.
LEMMA RefineAnswer ==
    ASSUME CallTypeOK, RouteInv, NEW g \in Gateways, NEW r \in Calls,
           hpc[g][r] # "none", NEW res \in Results,
           \A c \in Conns : KeyOf[c] # CallKey[r] => res # Ok(c),
           Answer(g, r, res)
    PROVE  [Routed!RoutedNext]_View
<1>0. hpc' = [hpc EXCEPT ![g][r] = "none"] /\ attempt' = attempt
  BY DEF Answer
<1>1. IsOn(net, hpc, r, g)
  BY DEF RouteInv, OneToken, Routes, IsOn, Carries
<1>w. WorkOf(r) = [sent |-> {}, on |-> {g}, back |-> {}]
  BY <1>1, WorkPlaces, PlacesOn
<1>2. View[r].work = [sent |-> {}, on |-> {g}, back |-> {}]
  BY <1>w, CallFields
<1>3. \A h \in Gateways, q \in Calls : hpc'[h][q] = IF h = g /\ q = r THEN "none" ELSE hpc[h][q]
  BY <1>0 DEF CallTypeOK
<1>4. \A h \in Gateways : hpc'[h][r] = "none"
  BY <1>1, <1>3 DEF IsOn
<1>5. res \in AnswersTo(r)
  BY AnswerAllowed
<1>6. CASE Remote(g, r)
  <2> DEFINE resp == [type |-> "resp", to |-> SourceOf[r], id |-> r, res |-> res]
  <2>1. net' = net \cup {resp} /\ UNCHANGED <<cpc, outcome>> /\ g # SourceOf[r]
    BY <1>6 DEF Answer, Remote
  <2>2. resp.type = "resp" /\ resp.id = r /\ resp.res = res
    OBVIOUS
  <2> HIDE DEF resp
  <2>3. IsIn(net', hpc', r, resp)
    BY <1>1, <1>4, <2>1, <2>2 DEF IsIn, IsOn, Carries
  <2>4. WorkOf(r)' = [sent |-> {}, on |-> {}, back |-> {res}]
    BY <2>2, <2>3, WorkPlaces, PlacesBack
  <2>5. CallOf(r)' = [phase |-> View[r].phase, result |-> View[r].result, sends |-> View[r].sends,
                      work |-> [sent |-> {}, on |-> {}, back |-> {res}]]
    BY <1>0, <2>1, <2>4, CallFields DEF CallOf
  <2>6. \A m : ~Carries(m, r) /\ m.type \in {"req", "resp"} => (m \in net <=> m \in net')
    BY <2>1, <2>2 DEF Carries
  <2>7. \A q \in Calls : q # r => CallOf(q)' = CallOf(q)
    BY <1>0, <1>3, <2>1, <2>6, OthersSame
  <2>8. Routed!Replies(r, g, res)
    <3>1. Routed!Becomes(r, [phase |-> View[r].phase, result |-> View[r].result, sends |-> View[r].sends,
                             work |-> [sent |-> {}, on |-> {}, back |-> {res}]])
      BY <2>5, <2>7, OneCall
    <3> QED BY <1>2, <2>1, <3>1 DEF Routed!Replies, Routed!Moves, Routed!State, Routed!On, Routed!Back, View
  <2> QED BY <1>5, <2>8, CallMoves DEF Routed!WorkNext
<1>7. CASE ~Remote(g, r)
  <2>1. Return(r, res, attempt[r]) /\ net' = net /\ g = SourceOf[r]
    BY <1>7 DEF Answer, Remote
  <2>2. cpc[r] = "direct"
    BY <2>1 DEF RouteInv, Addressed
  <2>3. IsNowhere(net', hpc', r)
    BY <1>1, <1>4, <2>1 DEF IsNowhere, IsOn
  <2>4. WorkOf(r)' = [sent |-> {}, on |-> {}, back |-> {}]
    BY <2>3, WorkPlaces, PlacesNowhere
  <2>5. \A q \in Calls \ {r} : cpc'[q] = cpc[q] /\ outcome'[q] = outcome[q]
    BY <2>1 DEF Return, CallTypeOK
  <2>6. \A q \in Calls : q # r => CallOf(q)' = CallOf(q)
    BY <1>0, <1>3, <2>1, <2>5, OthersSame
  <2>7. Routed!Returns(r, res, attempt[r])
    BY <1>0, <2>1, <2>4, <2>6, ReturnRefines
  <2>8. Routed!Returns(r, res, View[r].sends) /\ View[r].phase = "waiting"
    BY <2>2, <2>7, CallFields, PhaseFacts
  <2>9. Routed!Answered(r, res)
    BY <1>2, <2>1, <2>8 DEF Routed!Answered, Routed!On, View
  <2> QED BY <1>5, <2>9, CallMoves DEF Routed!CallerNext
<1> QED BY <1>6, <1>7

\* The steps of HandleRouted and callLocal.
LEMMA RefineHandler ==
    ASSUME CallTypeOK, RouteInv, NEW g \in Gateways, NEW r \in Calls, HandlerStep(g, r)
    PROVE  [Routed!RoutedNext]_View
<1>1. ASSUME NEW s \in {"miss", "pend", "send", "wait"}, hpc[g][r] # "none",
             hpc' = [hpc EXCEPT ![g][r] = s],
             UNCHANGED <<cpc, attempt, outcome, net>>
      PROVE  [Routed!RoutedNext]_View
  <2>1. \A h \in Gateways, q \in Calls : hpc'[h][q] = "none" <=> hpc[h][q] = "none"
    BY <1>1 DEF CallTypeOK
  <2> QED BY <1>1, <2>1, NoCallMoves
<1>2. CASE HandleLookup(g, r)
  <2>1. PICK s \in {"miss", "pend"} : hpc' = [hpc EXCEPT ![g][r] = s]
    BY <1>2 DEF HandleLookup
  <2> QED BY <1>1, <1>2, <2>1 DEF HandleLookup, callVars
<1>3. CASE HandleMiss(g, r)
  <2>1. Err("offline") \in Results /\ \A c \in Conns : Err("offline") # Ok(c)
    BY ErrFields DEF Codes
  <2> QED BY <1>3, <2>1, RefineAnswer DEF HandleMiss
<1>4. CASE FilePending(g, r)
  <2>1. r \notin pending[g] /\ hpc[g][r] = "pend"
    BY <1>4 DEF FilePending, RouteInv, NoOrphans
  <2> QED BY <1>1, <1>4, <2>1 DEF FilePending, callVars
<1>5. CASE SendCall(g, r)
  BY <1>1, <1>5 DEF SendCall, callVars
<1>6. CASE SendFail(g, r)
  <2>1. Err("sendError") \in Results /\ \A c \in Conns : Err("sendError") # Ok(c)
    BY ErrFields DEF Codes
  <2> QED BY <1>6, <2>1, RefineAnswer DEF SendFail, Finish
<1>7. CASE WaitResult(g, r)
  <2>1. /\ result[g][r] \in Results
        /\ \A c \in Conns : KeyOf[c] # CallKey[r] => result[g][r] # Ok(c)
    BY <1>7 DEF WaitResult, CallTypeOK, RouteInv, OwnResults
  <2> QED BY <1>7, <2>1, RefineAnswer DEF WaitResult, Finish
<1>8. CASE WaitCtxDone(g, r)
  <2>1. Err("timeout") \in Results /\ \A c \in Conns : Err("timeout") # Ok(c)
    BY ErrFields DEF Codes
  <2> QED BY <1>8, <2>1, RefineAnswer DEF WaitCtxDone, Finish
<1>9. CASE WaitClosed(g, r)
  <2>1. Err("dropped") \in Results /\ \A c \in Conns : Err("dropped") # Ok(c)
    BY ErrFields DEF Codes
  <2> QED BY <1>9, <2>1, RefineAnswer DEF WaitClosed, Finish
<1>10. CASE RemoteCleanup(g, r)
  BY <1>10, NoCallMoves DEF RemoteCleanup, callVars
<1> QED
  BY <1>2, <1>3, <1>4, <1>5, <1>6, <1>7, <1>8, <1>9, <1>10 DEF HandlerStep

\* The one message of a call.
LEMMA MessageAlone ==
    ASSUME RouteInv, NEW m \in net, m.id \in Calls, Carries(m, m.id)
    PROVE  IsIn(net, hpc, m.id, m)
BY DEF RouteInv, OneToken, Routes, IsIn, Carries

\* What is left of a call when its one message is gone.
LEMMA MessageGone ==
    ASSUME RouteInv, NEW m \in net, m.id \in Calls, Carries(m, m.id),
           hpc' = hpc, net' = net \ {m}
    PROVE  /\ WorkOf(m.id)' = [sent |-> {}, on |-> {}, back |-> {}]
           /\ WorkOf(m.id).on = {}
<1>1. IsNowhere(net', hpc', m.id)
  BY MessageAlone DEF IsNowhere, IsIn
<1>2. WorkOf(m.id).on = {}
  BY MessageAlone DEF WorkOf, IsIn
<1> QED BY <1>1, <1>2, WorkPlaces, PlacesNowhere

LEMMA OtherMessages ==
    ASSUME NEW r, NEW m, m.id = r, net' = net \ {m}
    PROVE  \A n : ~Carries(n, r) /\ n.type \in {"req", "resp"} => (n \in net <=> n \in net')
BY DEF Carries

\* A message is dropped.
LEMMA RefineDrop ==
    ASSUME RouteInv, NEW m \in net, m.id \in Calls, m.type \in {"req", "resp", "cancel"},
           net' = net \ {m}, UNCHANGED <<cpc, attempt, outcome, hpc>>
    PROVE  [Routed!RoutedNext]_View
<1>1. CASE m.type = "cancel"
  <2>1. \A n : n.type \in {"req", "resp"} => (n \in net <=> n \in net')
    BY <1>1
  <2> QED BY <2>1, NoCallMoves
<1>2. CASE m.type \in {"req", "resp"}
  <2>1. PICK r \in Calls : r = m.id
    OBVIOUS
  <2>2. /\ WorkOf(r)' = [sent |-> {}, on |-> {}, back |-> {}]
        /\ View[r].work.on = {}
    BY <1>2, <2>1, MessageGone, CallFields DEF Carries
  <2>3. CallOf(r)' = [phase |-> View[r].phase, result |-> View[r].result, sends |-> View[r].sends,
                      work |-> [sent |-> {}, on |-> {}, back |-> {}]]
    BY <2>2, CallFields DEF CallOf
  <2>4. \A q \in Calls : q # r => CallOf(q)' = CallOf(q)
    BY <2>1, OtherMessages, OthersSame
  <2>5. Routed!Becomes(r, [phase |-> View[r].phase, result |-> View[r].result, sends |-> View[r].sends,
                           work |-> [sent |-> {}, on |-> {}, back |-> {}]])
    BY <2>3, <2>4, OneCall
  <2>6. Routed!Lost(r)
    BY <2>2, <2>5 DEF Routed!Lost, Routed!Moves, Routed!State, Routed!Nowhere, View
  <2> QED BY <2>6, CallMoves DEF Routed!WorkNext
<1> QED BY <1>1, <1>2

\* A call arrives at the replica it was published to.
LEMMA RefineArrive ==
    ASSUME CallTypeOK, RouteInv, NEW m \in net, ReceiveRequest(m)
    PROVE  [Routed!RoutedNext]_View
<1>1. PICK r \in Calls, g \in Gateways : r = m.id /\ g = m.to
  BY MsgFields
<1>2. /\ m.type = "req" /\ net' = net \ {m} /\ hpc' = [hpc EXCEPT ![g][r] = "lookup"]
      /\ UNCHANGED <<cpc, attempt, outcome>>
  BY <1>1 DEF ReceiveRequest, StartHandler, callVars
<1>3. IsIn(net, hpc, r, m)
  BY <1>1, <1>2, MessageAlone DEF Carries
<1>w. WorkOf(r) = [sent |-> {g}, on |-> {}, back |-> {}]
  <2>1. Places(net, hpc, r) = [sent |-> {m.to}, on |-> {}, back |-> {}]
    BY <1>2, <1>3, PlacesSent
  <2> QED BY <1>1, <2>1, WorkPlaces
<1>4. View[r].work = [sent |-> {g}, on |-> {}, back |-> {}]
  BY <1>w, CallFields
<1>5. \A h \in Gateways, q \in Calls : hpc'[h][q] = IF h = g /\ q = r THEN "lookup" ELSE hpc[h][q]
  BY <1>2 DEF CallTypeOK
<1>6. IsOn(net', hpc', r, g)
  BY <1>2, <1>3, <1>5 DEF IsOn, IsIn
<1>7. WorkOf(r)' = [sent |-> {}, on |-> {g}, back |-> {}]
  BY <1>6, WorkPlaces, PlacesOn
<1>8. CallOf(r)' = [phase |-> View[r].phase, result |-> View[r].result, sends |-> View[r].sends,
                    work |-> [sent |-> {}, on |-> {g}, back |-> {}]]
  BY <1>2, <1>7, CallFields DEF CallOf
<1>9. \A q \in Calls : q # r => CallOf(q)' = CallOf(q)
  BY <1>1, <1>2, <1>5, OtherMessages, OthersSame
<1>10. Routed!Becomes(r, [phase |-> View[r].phase, result |-> View[r].result, sends |-> View[r].sends,
                          work |-> [sent |-> {}, on |-> {g}, back |-> {}]])
  BY <1>8, <1>9, OneCall
<1>11. Routed!Arrives(r, g)
  BY <1>4, <1>10 DEF Routed!Arrives, Routed!Moves, Routed!State, Routed!Sent, Routed!On, View
<1> QED BY <1>11, CallMoves DEF Routed!WorkNext

\* An answer arrives: at the caller that waits for it, or at nobody.
LEMMA RefineReceive ==
    ASSUME CallTypeOK, RouteInv, NEW m \in net, ReceiveResponse(m)
    PROVE  [Routed!RoutedNext]_View
<1>1. PICK r \in Calls, g \in Gateways : r = m.id /\ g = m.to /\ m.res \in Results
  BY MsgFields DEF ReceiveResponse
<1>2. /\ m.type = "resp" /\ net' = net \ {m}
      /\ UNCHANGED <<attempt, hpc>>
  BY <1>1 DEF ReceiveResponse, handlerVars
<1>3. CASE r \notin cpending[g]
  BY <1>1, <1>2, <1>3, RefineDrop DEF ReceiveResponse
<1>4. CASE r \in cpending[g]
  <2>1. Return(r, m.res, attempt[r])
    BY <1>1, <1>4 DEF ReceiveResponse
  <2>2. cpc[r] = "routed"
    BY <1>4 DEF RouteInv, NoOrphans
  <2>3. IsIn(net, hpc, r, m)
    BY <1>1, <1>2, MessageAlone DEF Carries
  <2>w. WorkOf(r) = [sent |-> {}, on |-> {}, back |-> {m.res}]
    BY <1>2, <2>3, WorkPlaces, PlacesBack
  <2>4. View[r].work = [sent |-> {}, on |-> {}, back |-> {m.res}]
    BY <2>w, CallFields
  <2>5. WorkOf(r)' = [sent |-> {}, on |-> {}, back |-> {}]
    BY <1>1, <1>2, MessageGone DEF Carries
  <2>6. \A q \in Calls \ {r} : cpc'[q] = cpc[q] /\ outcome'[q] = outcome[q]
    BY <2>1 DEF Return, CallTypeOK
  <2>7. \A q \in Calls : q # r => CallOf(q)' = CallOf(q)
    BY <1>1, <1>2, <2>6, OtherMessages, OthersSame
  <2>8. Routed!Returns(r, m.res, attempt[r])
    BY <1>1, <1>2, <2>1, <2>5, <2>7, ReturnRefines
  <2>9. Routed!Returns(r, m.res, View[r].sends) /\ View[r].phase = "waiting"
    BY <2>2, <2>8, CallFields, PhaseFacts
  <2>10. Routed!Answered(r, m.res)
    BY <2>4, <2>9 DEF Routed!Answered, Routed!Back, View
  <2>11. m.res \in AnswersTo(r)
    BY <1>1, <1>2, AnswerAllowed DEF RouteInv, OwnResults
  <2> QED BY <2>10, <2>11, CallMoves DEF Routed!CallerNext
<1> QED BY <1>3, <1>4

LEMMA RefineMessage ==
    ASSUME CallTypeOK, RouteInv, NEW m \in net, MessageStep(m)
    PROVE  [Routed!RoutedNext]_View
<1>1. CASE ReceiveCancel(m) \/ LoseMessage(m)
  BY <1>1, MsgFields, RefineDrop DEF ReceiveCancel, LoseMessage, callVars, handlerVars
<1> QED
  BY <1>1, RefineArrive, RefineReceive DEF MessageStep

\* A replica dies: the calls, handlers and messages that were there or on their
\* way there are gone, and nothing else is.
LEMMA RefineCrash ==
    ASSUME CallTypeOK, RouteInv, NEW g \in Gateways, CrashCalls(g)
    PROVE  [Routed!RoutedNext]_View
<1> DEFINE mine == {r \in Calls : SourceOf[r] = g /\ cpc[r] \notin {"idle", "done"}}
           none == [sent |-> {}, on |-> {}, back |-> {}]
           Mine(r) == SourceOf[r] = g /\ View[r].phase \in {"asking", "waiting"}
           Gone(r) == \/ g \in View[r].work.sent \cup View[r].work.on
                      \/ SourceOf[r] = g /\ View[r].work.back # {}
<1>1. /\ cpc' = [r \in Calls |-> IF r \in mine THEN "done" ELSE cpc[r]]
      /\ outcome' = [r \in Calls |-> IF r \in mine THEN Err("crashed") ELSE outcome[r]]
      /\ hpc' = [hpc EXCEPT ![g] = [r \in Calls |-> "none"]]
      /\ net' = {m \in net : m.to # g}
      /\ attempt' = attempt
  BY DEF CrashCalls
<1>2. \A h \in Gateways, r \in Calls : hpc'[h][r] = IF h = g THEN "none" ELSE hpc[h][r]
  BY <1>1 DEF CallTypeOK
<1>3. ASSUME NEW r \in Calls
      PROVE  /\ Phase(cpc'[r]) = IF Mine(r) THEN "returned" ELSE View[r].phase
             /\ outcome'[r] = IF Mine(r) THEN Err("crashed") ELSE View[r].result
  <2>1. cpc[r] \in {"idle", "bind", "dispatch", "direct", "routed", "done"}
    BY DEF CallTypeOK
  <2>2. r \in mine <=> Mine(r)
    BY <2>1, CallFields, PhaseFacts
  <2> HIDE DEF Mine, mine
  <2> QED BY <1>1, <2>2, CallFields, PhaseFacts
<1>4. ASSUME NEW r \in Calls
      PROVE  /\ View[r].work.sent = {m.to : m \in {n \in net : n.type = "req" /\ n.id = r}}
             /\ View[r].work.on = {h \in Gateways : hpc[h][r] # "none"}
             /\ View[r].work.back = {m.res : m \in {n \in net : n.type = "resp" /\ n.id = r}}
  <2>1. View[r].work = WorkOf(r)
    BY CallFields
  <2> QED BY <2>1 DEF WorkOf, Carried
<1>5. ASSUME NEW r \in Calls PROVE WorkOf(r)' = IF Gone(r) THEN none ELSE View[r].work
  <2>1. CASE ~Gone(r)
    <3>1. hpc[g][r] = "none"
      BY <1>4, <2>1
    <3>2. ASSUME NEW m \in net, Carries(m, r) PROVE m.to # g
      <4>1. CASE m.type = "req"
        BY <1>4, <2>1, <3>2, <4>1 DEF Carries
      <4>2. CASE m.type = "resp"
        <5>1. m.res \in View[r].work.back
          BY <1>4, <3>2, <4>2 DEF Carries
        <5>2. m.to = SourceOf[r]
          BY <3>2, <4>2 DEF RouteInv, Addressed, Carries
        <5> QED BY <2>1, <5>1, <5>2
      <4> QED BY <3>2, <4>1, <4>2 DEF Carries
    <3>3. \A m : Carries(m, r) => (m \in net <=> m \in net')
      BY <1>1, <3>2
    <3>4. \A h \in Gateways : hpc'[h][r] = "none" <=> hpc[h][r] = "none"
      BY <1>2, <3>1
    <3>5. WorkOf(r)' = WorkOf(r)
      BY <3>3, <3>4, WorkPlaces, PlacesSame
    <3> HIDE DEF Gone
    <3> QED BY <2>1, <3>5, CallFields
  <2>2. CASE Gone(r)
    <3>1. ASSUME g \in View[r].work.sent PROVE IsNowhere(net', hpc', r)
      <4>1. PICK m \in net : m.type = "req" /\ m.id = r /\ m.to = g
        BY <1>4, <3>1
      <4>2. IsIn(net, hpc, r, m)
        BY <4>1, MessageAlone DEF Carries
      <4> QED BY <1>1, <1>2, <4>1, <4>2 DEF IsIn, IsNowhere
    <3>2. ASSUME g \in View[r].work.on PROVE IsNowhere(net', hpc', r)
      <4>1. hpc[g][r] # "none"
        BY <1>4, <3>2
      <4>2. IsOn(net, hpc, r, g)
        BY <4>1 DEF RouteInv, OneToken, Routes, IsOn, Carries
      <4> QED BY <1>1, <1>2, <4>2 DEF IsOn, IsNowhere
    <3>3. ASSUME SourceOf[r] = g /\ View[r].work.back # {} PROVE IsNowhere(net', hpc', r)
      <4>1. PICK m \in net : m.type = "resp" /\ m.id = r
        BY <1>4, <3>3
      <4>2. IsIn(net, hpc, r, m) /\ m.to = g
        BY <3>3, <4>1, MessageAlone DEF Carries, RouteInv, Addressed
      <4> QED BY <1>1, <1>2, <4>2 DEF IsIn, IsNowhere
    <3>4. IsNowhere(net', hpc', r)
      BY <2>2, <3>1, <3>2, <3>3
    <3> HIDE DEF Gone
    <3> QED BY <2>2, <3>4, WorkPlaces, PlacesNowhere
  <2> QED BY <2>1, <2>2
<1> HIDE DEF Gone, Mine
<1>6. \A r \in Calls :
        CallOf(r)' = [phase |-> IF Mine(r) THEN "returned" ELSE View[r].phase,
                      result |-> IF Mine(r) THEN Err("crashed") ELSE View[r].result,
                      sends |-> View[r].sends,
                      work |-> IF Gone(r) THEN none ELSE View[r].work]
  BY <1>1, <1>3, <1>5, CallFields DEF CallOf
<1>7. View' = [r \in Calls |->
        [phase |-> IF Mine(r) THEN "returned" ELSE View[r].phase,
         result |-> IF Mine(r) THEN Err("crashed") ELSE View[r].result,
         sends |-> View[r].sends,
         work |-> IF Gone(r) THEN none ELSE View[r].work]]
  BY <1>6 DEF View
<1>8. Routed!Dies(g)
  BY <1>7 DEF Routed!Dies, Routed!State, Routed!Nowhere, Mine, Gone, View
<1>9. CASE View' = View
  BY <1>9
<1>10. CASE View' # View
  BY <1>8, <1>10 DEF Routed!RoutedNext, View
<1> QED BY <1>9, <1>10

LEMMA RefineRoute ==
    CallTypeOK /\ RouteInv /\ [Next]_vars => [Routed!RoutedNext]_View
<1> SUFFICES ASSUME CallTypeOK, RouteInv, [Next]_vars PROVE [Routed!RoutedNext]_View
  OBVIOUS
<1>1. CASE UNCHANGED <<cpc, attempt, outcome, hpc, net>>
  BY <1>1, NoCallMoves
<1>2. ASSUME NEW r \in Calls, CallerStep(r) PROVE [Routed!RoutedNext]_View
  <2>1. CASE HangUp(r) \/ Deadline(r)
    BY <1>1, <2>1 DEF HangUp, Deadline, handlerVars
  <2> QED BY <1>2, <2>1, RefineAsk, RefineDispatch, RefineTimeout DEF CallerStep
<1>3. CASE LeaseStep /\ UNCHANGED <<callVars, handlerVars, net, wire, faults>>
  BY <1>1, <1>3 DEF callVars, handlerVars
<1>4. CASE LeaseFault /\ Spend /\ UNCHANGED <<callVars, handlerVars, net, wire>>
  BY <1>1, <1>4 DEF callVars, handlerVars
<1>5. CASE UNCHANGED vars
  BY <1>1, <1>5 DEF vars, callVars, handlerVars
<1>6. ASSUME NEW c \in Conns, Unregister(c) \/ \E r \in Calls : ToolResult(c, r)
      PROVE  [Routed!RoutedNext]_View
  BY <1>1, <1>6 DEF Unregister, ToolResult, callVars
<1> QED
  BY <1>2, <1>3, <1>4, <1>5, <1>6, RefineHandler, RefineMessage, RefineCrash DEF Next

\* Routing implements RoutedCall (callOperation, Hub.Call, Coordinator.Call,
\* handleRemote, HandleRouted and callLocal), for any calls, replicas,
\* workspaces and connections, and any number of lost messages, broken
\* connections and crashed replicas: a call is worked on in one place at a time,
\* is sent again only after an answer that the route was lost, and returns the
\* answer of its own workspace to the last send, or an error.
THEOREM RoutingImplementsCall == Spec => OnePlaceAtATime
<1>1. Init => Routed!RoutedInit
  <2>1. ASSUME Init, NEW r \in Calls
        PROVE  CallOf(r) = [phase |-> "new", result |-> None, sends |-> 0,
                            work |-> [sent |-> {}, on |-> {}, back |-> {}]]
    <3>1. IsNowhere(net, hpc, r)
      BY <2>1 DEF Init, IsNowhere
    <3>2. WorkOf(r) = [sent |-> {}, on |-> {}, back |-> {}]
      BY <3>1, WorkPlaces, PlacesNowhere
    <3> QED BY <2>1, <3>2, PhaseFacts DEF Init, CallOf
  <2> QED BY <2>1 DEF Routed!RoutedInit, Routed!State, Routed!Nowhere
<1>2. [Routed!RoutedNext]_View => [Routed!RoutedNext]_([r \in Calls |-> CallOf(r)])
  BY DEF View
<1> QED
  BY <1>1, <1>2, RefineRoute, RoutingInvariant, PTL DEF Spec, OnePlaceAtATime, Routed!RoutedSpec
=============================================================================
