---------------------------- MODULE CallRouting ----------------------------
(***************************************************************************)
(* One tool call from the MCP service to the workspace that runs it.       *)
(*                                                                         *)
(* Service.callOperation (internal/mcpgateway/server.go) activates the     *)
(* workspace, calls Hub.Call, and repeats both once, with the same request *)
(* id, when the route was lost.  Hub.Call runs HandleRouted in place when  *)
(* this replica has the WebSocket; otherwise Coordinator.Call publishes    *)
(* the call to the replica that holds the lease and waits for its answer.  *)
(* HandleRouted and callLocal send the call on a connection and wait for   *)
(* its tool_result, for the end of their context, or for the end of the    *)
(* connection.                                                             *)
(*                                                                         *)
(* Redis pub/sub delivers a message at most once and in no order that the  *)
(* code may rely on.  The runtime on the device is external here: it       *)
(* answers the calls it was sent, and only those of its own connection.    *)
(***************************************************************************)
EXTENDS OwnerLease

CONSTANTS
    Calls,      \* request ids
    CallKey,    \* the workspace key a call is for
    SourceOf,   \* the replica whose callOperation makes it
    Retryable,  \* the calls routeRetryAllowed lets through
    MaxFaults   \* bound on faults: broken sockets, lost leases and messages,
                \* failed writes, crashes

ASSUME CallAssumption ==
    /\ CallKey \in [Calls -> Keys]
    /\ SourceOf \in [Calls -> Gateways]
    /\ Retryable \subseteq Calls
    /\ MaxFaults \in Nat

VARIABLES
    cpc,        \* where callOperation is
    attempt,    \* calls of Hub.Call so far
    outcome,    \* what callOperation returned
    ctx,        \* the caller's context, which has no deadline
    overdue,    \* the deadline that the last send carries has passed
    target,     \* the replica Coordinator.Call published to
    cpending,   \* Coordinator.pending of the source replica
    hpc,        \* where HandleRouted is, for a call on a replica
    hconn,      \* the connection it picked
    pending,    \* Hub.pending of every replica
    result,     \* the buffered channel of a pending entry
    active,     \* Coordinator.active: cancel functions of remote handlers
    cleanup,    \* a remote handler has answered, its deferred delete is next
    cancelled,  \* the remote handler's context was cancelled
    net,        \* Redis messages in flight
    faults,     \* faults so far
    wire        \* calls a runtime has received on a connection and not answered

callVars == <<cpc, attempt, outcome, ctx, overdue, target, cpending>>
handlerVars == <<hpc, hconn, pending, result, active, cleanup, cancelled>>
vars == <<leaseVars, callVars, handlerVars, net, wire, faults>>

\* What callOperation and HandleRouted tell apart.  ok carries its producer so
\* that a property can ask for it.
Ok(c) == <<"ok", c>>
Codes == {"offline",      \* errorCode CLIENT_OFFLINE
          "dropped",      \* TOOL_FAILED: client disconnected during tool call
          "noOwner",      \* error: workspace is offline
          "sendError",    \* TOOL_FAILED: the write failed
          "duplicate",    \* TOOL_FAILED: duplicate requestId
          "timeout",      \* the context ended
          "redisError",   \* Owner or Publish failed
          "unavailable",  \* Activate failed
          "crashed"}      \* the source replica died
Results == {Ok(c) : c \in Conns} \cup {<<e, None>> : e \in Codes}
Err(e) == <<e, None>>

\* An empty channel holds no result.
ASSUME ResultAssumption == None \notin Results

Msgs == [type : {"req", "cancel"}, to : Gateways, id : Calls, res : {None}]
          \cup [type : {"resp"}, to : Gateways, id : Calls, res : Results]

CallTypeOK ==
    /\ LeaseTypeOK
    /\ cpc \in [Calls -> {"idle", "bind", "dispatch", "direct", "routed", "done"}]
    /\ attempt \in [Calls -> 0..2]
    /\ outcome \in [Calls -> Results \cup {None}]
    /\ ctx \in [Calls -> {"live", "hungup"}]
    /\ overdue \subseteq Calls
    /\ target \in [Calls -> Gateways \cup {None}]
    /\ cpending \in [Gateways -> SUBSET Calls]
    /\ hpc \in [Gateways -> [Calls -> {"none", "lookup", "miss", "pend", "send", "wait"}]]
    /\ hconn \in [Gateways -> [Calls -> Conns \cup {None}]]
    /\ pending \in [Gateways -> SUBSET Calls]
    /\ result \in [Gateways -> [Calls -> Results \cup {None}]]
    /\ active \in [Gateways -> SUBSET Calls]
    /\ cleanup \in [Gateways -> SUBSET Calls]
    /\ cancelled \in [Gateways -> SUBSET Calls]
    /\ net \subseteq Msgs
    /\ wire \in [Conns -> SUBSET Calls]
    /\ faults \in 0..MaxFaults

Init ==
    /\ LeaseInit
    /\ cpc = [r \in Calls |-> "idle"]
    /\ attempt = [r \in Calls |-> 0]
    /\ outcome = [r \in Calls |-> None]
    /\ ctx = [r \in Calls |-> "live"]
    /\ overdue = {}
    /\ target = [r \in Calls |-> None]
    /\ cpending = [g \in Gateways |-> {}]
    /\ hpc = [g \in Gateways |-> [r \in Calls |-> "none"]]
    /\ hconn = [g \in Gateways |-> [r \in Calls |-> None]]
    /\ pending = [g \in Gateways |-> {}]
    /\ result = [g \in Gateways |-> [r \in Calls |-> None]]
    /\ active = [g \in Gateways |-> {}]
    /\ cleanup = [g \in Gateways |-> {}]
    /\ cancelled = [g \in Gateways |-> {}]
    /\ net = {}
    /\ wire = [c \in Conns |-> {}]
    /\ faults = 0

-----------------------------------------------------------------------------
(* Service.callOperation.                                                   *)

\* Mutant of Transient: a call whose context ended is sent again.
TransientTimeout(res) == res \in {Err("offline"), Err("noOwner"), Err("timeout")}

\* classifyGatewayFailure as transientRouteFailure calls it: the error code of
\* a routed result, or the text of an error of Hub.Call.  HandleRouted turns
\* callLocal's "client disconnected" error into a result with code
\* TOOL_FAILED and a nil error, which is not transient.
Transient(res) == res \in {Err("offline"), Err("noOwner")}

\* Mutant of Return: every lost route is retried, not the first alone.
ReturnAgain(r, res, n) ==
    IF Transient(res) /\ r \in Retryable
    THEN /\ cpc' = [cpc EXCEPT ![r] = "bind"]
         /\ UNCHANGED outcome
    ELSE /\ cpc' = [cpc EXCEPT ![r] = "done"]
         /\ outcome' = [outcome EXCEPT ![r] = res]

\* The n-th Hub.Call of callOperation returned res.
Return(r, res, n) ==
    IF Transient(res) /\ n = 1 /\ r \in Retryable
    THEN /\ cpc' = [cpc EXCEPT ![r] = "bind"]
         /\ UNCHANGED outcome
    ELSE /\ cpc' = [cpc EXCEPT ![r] = "done"]
         /\ outcome' = [outcome EXCEPT ![r] = res]

StartCall(r) ==
    /\ cpc[r] = "idle"
    /\ cpc' = [cpc EXCEPT ![r] = "bind"]
    /\ UNCHANGED <<leaseVars, attempt, outcome, ctx, overdue, target, cpending, handlerVars, net, wire, faults>>

\* WorkspaceService.Activate succeeds: this replica has the connection, or a
\* lease is advertised (at once, or after waitForActivation).
Bind(r) ==
    /\ cpc[r] = "bind"
    /\ LocalClient(SourceOf[r], CallKey[r]) # None \/ owner[CallKey[r]] # None
    /\ cpc' = [cpc EXCEPT ![r] = "dispatch"]
    /\ UNCHANGED <<leaseVars, attempt, outcome, ctx, overdue, target, cpending, handlerVars, net, wire, faults>>

\* Activate fails: device offline, activation refused or timed out.
BindFail(r) ==
    /\ cpc[r] = "bind"
    /\ cpc' = [cpc EXCEPT ![r] = "done"]
    /\ outcome' = [outcome EXCEPT ![r] = Err("unavailable")]
    /\ UNCHANGED <<leaseVars, attempt, ctx, overdue, target, cpending, handlerVars, net, wire, faults>>

-----------------------------------------------------------------------------
(* Hub.Call and Coordinator.Call.                                           *)

\* HandleRouted starts on g.
StartHandler(g, r) ==
    /\ hpc' = [hpc EXCEPT ![g][r] = "lookup"]
    /\ UNCHANGED <<hconn, result, pending, cleanup>>

DispatchDirect(r) ==
    LET g == SourceOf[r] IN
    /\ cpc[r] = "dispatch"
    /\ LocalClient(g, CallKey[r]) # None \/ owner[CallKey[r]] = g
    /\ StartHandler(g, r)
    /\ cpc' = [cpc EXCEPT ![r] = "direct"]
    /\ attempt' = [attempt EXCEPT ![r] = @ + 1]
    /\ UNCHANGED <<leaseVars, outcome, ctx, overdue, target, cpending, active, cancelled,
                   net, wire, faults>>

\* Coordinator.Call reads the lease, files a waiter and publishes the call with
\* the deadline Hub.Call computed for it.
DispatchRouted(r) ==
    LET g == SourceOf[r]
        o == owner[CallKey[r]] IN
    /\ cpc[r] = "dispatch"
    /\ LocalClient(g, CallKey[r]) = None
    /\ o \notin {g, None}
    /\ cpending' = [cpending EXCEPT ![g] = @ \cup {r}]
    /\ net' = net \cup {[type |-> "req", to |-> o, id |-> r, res |-> None]}
    /\ cpc' = [cpc EXCEPT ![r] = "routed"]
    /\ target' = [target EXCEPT ![r] = o]
    /\ attempt' = [attempt EXCEPT ![r] = @ + 1]
    /\ overdue' = overdue \ {r}
    /\ UNCHANGED <<leaseVars, outcome, ctx, handlerVars, wire, faults>>

\* No lease, or Redis fails on Owner or on Publish (whose waiter is removed).
DispatchFail(r) ==
    LET g == SourceOf[r] IN
    /\ cpc[r] = "dispatch"
    /\ LocalClient(g, CallKey[r]) = None
    /\ attempt' = [attempt EXCEPT ![r] = @ + 1]
    /\ \E res \in {Err("noOwner"), Err("redisError")} :
          /\ res = Err("noOwner") => owner[CallKey[r]] = None
          /\ Return(r, res, attempt[r] + 1)
    /\ UNCHANGED <<leaseVars, ctx, overdue, target, cpending, handlerVars, net, wire, faults>>

\* Coordinator.listen hands an answer to the waiter that is filed for its id.
ReceiveResponse(m) ==
    LET r == m.id
        g == m.to IN
    /\ m \in net /\ m.type = "resp"
    /\ net' = net \ {m}
    /\ IF r \in cpending[g]
       THEN /\ cpending' = [cpending EXCEPT ![g] = @ \ {r}]
            /\ target' = [target EXCEPT ![r] = None]
            /\ Return(r, m.res, attempt[r])
       ELSE UNCHANGED <<cpending, target, cpc, outcome>>
    /\ UNCHANGED <<leaseVars, attempt, ctx, overdue, handlerVars, wire, faults>>

\* Mutant of RoutedTimeout: the select waits for the answer alone.
RoutedTimeoutNever(r) == FALSE /\ UNCHANGED vars

\* The caller's context ends first: the waiter is removed and a cancellation
\* published to the replica the call went to.
RoutedTimeout(r) ==
    LET g == SourceOf[r] IN
    /\ cpc[r] = "routed"
    /\ ctx[r] = "hungup"
    /\ cpending' = [cpending EXCEPT ![g] = @ \ {r}]
    /\ target' = [target EXCEPT ![r] = None]
    /\ net' = net \cup {[type |-> "cancel", to |-> target[r], id |-> r, res |-> None]}
    /\ Return(r, Err("timeout"), attempt[r])
    /\ UNCHANGED <<leaseVars, attempt, ctx, overdue, handlerVars, wire, faults>>

-----------------------------------------------------------------------------
(* Coordinator.listen and handleRemote on the replica that was asked.       *)

ReceiveRequest(m) ==
    LET r == m.id
        g == m.to IN
    /\ m \in net /\ m.type = "req"
    /\ net' = net \ {m}
    /\ StartHandler(g, r)
    /\ active' = [active EXCEPT ![g] = @ \cup {r}]
    /\ UNCHANGED <<leaseVars, callVars, cancelled, wire, faults>>

\* A cancellation finds the handler through Coordinator.active or is dropped.
ReceiveCancel(m) ==
    LET r == m.id
        g == m.to IN
    /\ m \in net /\ m.type = "cancel"
    /\ net' = net \ {m}
    /\ cancelled' = IF r \in active[g] /\ hpc[g][r] # "none"
                    THEN [cancelled EXCEPT ![g] = @ \cup {r}]
                    ELSE cancelled
    /\ UNCHANGED <<leaseVars, callVars, hpc, hconn, pending, result, active,
                   cleanup, wire, faults>>

\* handleRemote's deferred delete: by request id, whoever filed the entry.
RemoteCleanup(g, r) ==
    /\ r \in cleanup[g]
    /\ cleanup' = [cleanup EXCEPT ![g] = @ \ {r}]
    /\ active' = [active EXCEPT ![g] = @ \ {r}]
    /\ UNCHANGED <<leaseVars, callVars, hpc, hconn, pending, result, cancelled,
                   net, wire, faults>>

\* An environment step that uses up one fault.
Spend == faults < MaxFaults /\ faults' = faults + 1

LoseMessage(m) ==
    /\ m \in net
    /\ net' = net \ {m}
    /\ Spend
    /\ UNCHANGED <<leaseVars, callVars, handlerVars, wire>>

-----------------------------------------------------------------------------
(* Hub.HandleRouted and Hub.callLocal.                                      *)

Remote(g, r) == g # SourceOf[r]

\* In place the handler runs under the caller's context; handleRemote gives it
\* a context with the call's deadline that a cancellation may end earlier.
CtxDone(g, r) ==
    IF Remote(g, r) THEN r \in cancelled[g] \cup overdue ELSE ctx[r] = "hungup"

\* HandleRouted returns: to callOperation, or as a published answer.
Answer(g, r, res) ==
    /\ hpc' = [hpc EXCEPT ![g][r] = "none"]
    /\ hconn' = [hconn EXCEPT ![g][r] = None]
    /\ result' = [result EXCEPT ![g][r] = None]
    /\ cancelled' = [cancelled EXCEPT ![g] = @ \ {r}]
    /\ IF Remote(g, r)
       THEN /\ net' = net \cup {[type |-> "resp", to |-> SourceOf[r], id |-> r, res |-> res]}
            /\ cleanup' = [cleanup EXCEPT ![g] = @ \cup {r}]
            /\ UNCHANGED <<cpc, outcome>>
       ELSE /\ Return(r, res, attempt[r])
            /\ UNCHANGED <<net, cleanup>>
    /\ UNCHANGED <<attempt, ctx, overdue, target, cpending, active>>

HandleLookup(g, r) ==
    LET c == LocalClient(g, CallKey[r]) IN
    /\ hpc[g][r] = "lookup"
    /\ hpc' = [hpc EXCEPT ![g][r] = IF c = None THEN "miss" ELSE "pend"]
    /\ hconn' = [hconn EXCEPT ![g][r] = c]
    /\ UNCHANGED <<leaseVars, callVars, pending, result, active, cleanup,
                   cancelled, net, wire, faults>>

\* No connection here: release this replica's own lease and say so.
HandleMiss(g, r) ==
    /\ hpc[g][r] = "miss"
    /\ ReleaseOwner(g, CallKey[r])
    /\ Answer(g, r, Err("offline"))
    /\ UNCHANGED <<pc, sock, peer, fresh, clients, claiming, replaced, pending, wire, faults>>

FilePending(g, r) ==
    /\ hpc[g][r] = "pend"
    /\ IF r \in pending[g]
       THEN Answer(g, r, Err("duplicate")) /\ UNCHANGED pending
       ELSE /\ pending' = [pending EXCEPT ![g] = @ \cup {r}]
            /\ hpc' = [hpc EXCEPT ![g][r] = "send"]
            /\ UNCHANGED <<callVars, hconn, result, active, cleanup, cancelled, net>>
    /\ UNCHANGED <<leaseVars, wire, faults>>

SendCall(g, r) ==
    LET c == hconn[g][r] IN
    /\ hpc[g][r] = "send"
    /\ sock[c]
    /\ hpc' = [hpc EXCEPT ![g][r] = "wait"]
    /\ wire' = IF peer[c] THEN [wire EXCEPT ![c] = @ \cup {r}] ELSE wire
    /\ UNCHANGED <<leaseVars, callVars, hconn, pending, result, active, cleanup,
                   cancelled, net, faults>>

\* Mutant of Finish: the deferred delete is missing.
FinishKeepsPending(g, r, res) == UNCHANGED pending /\ Answer(g, r, res)

\* callLocal returns res; its deferred delete removes the pending entry.
Finish(g, r, res) ==
    /\ pending' = [pending EXCEPT ![g] = @ \ {r}]
    /\ Answer(g, r, res)

\* The write fails: the socket is closed or broken, or the context ended; the
\* WebSocket library closes a connection it could not write to.
SendFail(g, r) ==
    LET c == hconn[g][r] IN
    /\ hpc[g][r] = "send"
    /\ ~sock[c] \/ ~peer[c] \/ CtxDone(g, r)
    /\ Finish(g, r, Err("sendError"))
    /\ sock' = [sock EXCEPT ![c] = FALSE]
    /\ UNCHANGED <<pc, peer, fresh, clients, owner, claiming, replaced, wire, faults>>

\* The three arms of callLocal's select.  When several are ready, any is taken.
WaitResult(g, r) ==
    /\ hpc[g][r] = "wait"
    /\ result[g][r] # None
    /\ Finish(g, r, result[g][r])
    /\ UNCHANGED <<leaseVars, wire, faults>>

\* Mutant of WaitCtxDone: callLocal does not watch its context.
WaitCtxDoneNever(g, r) == FALSE /\ UNCHANGED vars

\* The runtime is sent tool_cancel; an answer it still gives finds no entry.
WaitCtxDone(g, r) ==
    /\ hpc[g][r] = "wait"
    /\ CtxDone(g, r)
    /\ Finish(g, r, Err("timeout"))
    /\ wire' = [wire EXCEPT ![hconn[g][r]] = @ \ {r}]
    /\ UNCHANGED <<leaseVars, faults>>

Closed(c) == pc[c] \in {"releasing", "gone"}

WaitClosed(g, r) ==
    /\ hpc[g][r] = "wait"
    /\ Closed(hconn[g][r])
    /\ Finish(g, r, Err("dropped"))
    /\ UNCHANGED <<leaseVars, wire, faults>>

-----------------------------------------------------------------------------
(* The read loop of ServeHTTP, and unregister's critical section.           *)

\* Mutant of Matches: a result is matched by request id alone.
MatchesAnyKey(c, r) == r \in pending[HomeOf[c]]

\* The pending entry a tool_result is for: same request id, same client key.
Matches(c, r) == r \in pending[HomeOf[c]] /\ CallKey[r] = KeyOf[c]

\* A tool_result for r arrives on c: from the runtime that was sent the call,
\* or with the id of another workspace's call.
ToolResult(c, r) ==
    LET g == HomeOf[c] IN
    /\ pc[c] = "serving" /\ sock[c] /\ peer[c]
    /\ r \in wire[c] \/ KeyOf[c] # CallKey[r]
    /\ wire' = [wire EXCEPT ![c] = @ \ {r}]
    /\ IF Matches(c, r)
       THEN /\ pending' = [pending EXCEPT ![g] = @ \ {r}]
            /\ result' = [result EXCEPT ![g][r] = IF @ = None THEN Ok(c) ELSE @]
       ELSE UNCHANGED <<pending, result>>
    /\ UNCHANGED <<leaseVars, callVars, hpc, hconn, active, cleanup, cancelled, net, faults>>

\* unregister fails every pending call of the connection's key on this replica.
Unregister(c) ==
    LET g == HomeOf[c]
        failed == {r \in pending[g] : CallKey[r] = KeyOf[c]} IN
    /\ UnregisterStep(c)
    /\ pending' = [pending EXCEPT ![g] = @ \ failed]
    /\ result' = [result EXCEPT ![g] = [r \in Calls |->
                    IF r \in failed /\ @[r] = None THEN Err("offline") ELSE @[r]]]
    /\ wire' = [wire EXCEPT ![c] = {}]
    /\ UNCHANGED <<callVars, hpc, hconn, active, cleanup, cancelled, net, faults>>

\* A replica dies: with it the calls it made and the handlers it ran.
CrashCalls(g) ==
    LET mine == {r \in Calls : SourceOf[r] = g /\ cpc[r] \notin {"idle", "done"}} IN
    /\ Crash(g)
    /\ Spend
    /\ cpc' = [r \in Calls |-> IF r \in mine THEN "done" ELSE cpc[r]]
    /\ outcome' = [r \in Calls |-> IF r \in mine THEN Err("crashed") ELSE outcome[r]]
    /\ cpending' = [cpending EXCEPT ![g] = {}]
    /\ hpc' = [hpc EXCEPT ![g] = [r \in Calls |-> "none"]]
    /\ hconn' = [hconn EXCEPT ![g] = [r \in Calls |-> None]]
    /\ pending' = [pending EXCEPT ![g] = {}]
    /\ result' = [result EXCEPT ![g] = [r \in Calls |-> None]]
    /\ active' = [active EXCEPT ![g] = {}]
    /\ cleanup' = [cleanup EXCEPT ![g] = {}]
    /\ cancelled' = [cancelled EXCEPT ![g] = {}]
    /\ net' = {m \in net : m.to # g}
    /\ wire' = [c \in Conns |-> IF HomeOf[c] = g THEN {} ELSE wire[c]]
    /\ target' = [r \in Calls |-> IF r \in mine THEN None ELSE target[r]]
    /\ UNCHANGED <<attempt, ctx, overdue>>

-----------------------------------------------------------------------------
(* The caller's context ends when the MCP client hangs up; the deadline is    *)
(* that of the routed call.                                                   *)

HangUp(r) ==
    /\ cpc[r] \notin {"idle", "done"}
    /\ ctx[r] = "live"
    /\ ctx' = [ctx EXCEPT ![r] = "hungup"]
    /\ UNCHANGED <<leaseVars, cpc, attempt, outcome, overdue, target, cpending,
                   handlerVars, net, wire, faults>>

\* The deadline matters from the send until the remote handler has answered.
Deadline(r) ==
    /\ r \notin overdue
    /\ \/ cpc[r] = "routed"
       \/ \E g \in Gateways : Remote(g, r) /\ hpc[g][r] # "none"
    /\ overdue' = overdue \cup {r}
    /\ UNCHANGED <<leaseVars, cpc, attempt, outcome, ctx, target, cpending,
                   handlerVars, net, wire, faults>>

CallerStep(r) ==
    \/ StartCall(r) \/ Bind(r) \/ BindFail(r)
    \/ DispatchDirect(r) \/ DispatchRouted(r) \/ DispatchFail(r)
    \/ RoutedTimeout(r) \/ HangUp(r) \/ Deadline(r)

HandlerStep(g, r) ==
    \/ HandleLookup(g, r) \/ HandleMiss(g, r) \/ FilePending(g, r)
    \/ SendCall(g, r) \/ SendFail(g, r)
    \/ WaitResult(g, r) \/ WaitCtxDone(g, r) \/ WaitClosed(g, r)
    \/ RemoteCleanup(g, r)

MessageStep(m) ==
    \/ ReceiveRequest(m) \/ ReceiveResponse(m) \/ ReceiveCancel(m)
    \/ LoseMessage(m)

Next ==
    \/ LeaseStep /\ UNCHANGED <<callVars, handlerVars, net, wire, faults>>
    \/ LeaseFault /\ Spend /\ UNCHANGED <<callVars, handlerVars, net, wire>>
    \/ \E r \in Calls : CallerStep(r)
    \/ \E g \in Gateways, r \in Calls : HandlerStep(g, r)
    \/ \E m \in net : MessageStep(m)
    \/ \E c \in Conns, r \in Calls : ToolResult(c, r)
    \/ \E c \in Conns : Unregister(c)
    \/ \E g \in Gateways : CrashCalls(g)

\* Goroutines that can step do, the deadline of a send passes, the heartbeat
\* closes the connections that went silent, and Redis delivers a message unless
\* it loses it.  Nothing is assumed of the runtime's answers or of the MCP
\* client.
Fairness ==
    /\ \A r \in Calls :
          /\ WF_vars(Bind(r) \/ BindFail(r))
          /\ WF_vars(DispatchDirect(r) \/ DispatchRouted(r) \/ DispatchFail(r))
          /\ WF_vars(RoutedTimeout(r))
          /\ WF_vars(Deadline(r))
          /\ WF_vars(\E m \in net : m.id = r /\ m.type # "cancel" /\ MessageStep(m))
    /\ \A g \in Gateways, r \in Calls : WF_vars(HandlerStep(g, r))
    /\ \A c \in Conns :
          /\ WF_vars(Unregister(c) /\ ~sock[c])
          /\ WF_vars(/\ CloseReplaced(c) \/ RegisterClaim(c) \/ CloseStale(c) \/ FallSilent(c)
                     /\ UNCHANGED <<callVars, handlerVars, net, wire, faults>>)

Spec == Init /\ [][Next]_vars
FairSpec == Spec /\ Fairness

-----------------------------------------------------------------------------
(* Properties.                                                              *)

\* A request id is handled on at most one replica at a time, although it is
\* sent twice when its route is lost: the second Hub.Call starts only after
\* the first handler has answered, so no two connections work on one id.
SingleHandler ==
    \A r \in Calls : \A g1, g2 \in Gateways :
        /\ hpc[g1][r] # "none" /\ hpc[g2][r] # "none" => g1 = g2
        /\ ~(hpc[g1][r] # "none" /\ \E m \in net : m.type = "req" /\ m.id = r)

\* Nothing outlives its call, however messages, connections and replicas are
\* lost: Hub.pending holds only calls that callLocal still waits for (an entry
\* that stays would make a retry with the same id a duplicate), and
\* Coordinator.pending only calls that still wait for another replica.
NoOrphans ==
    \A g \in Gateways :
        /\ \A r \in pending[g] : hpc[g][r] \in {"send", "wait"}
        /\ \A r \in cpending[g] : cpc[r] = "routed" /\ SourceOf[r] = g

\* A successful answer was produced by a connection of the call's own
\* workspace, whatever results other workspaces' connections send.
ResultFromOwnWorkspace ==
    \A r \in Calls, c \in Conns : outcome[r] = Ok(c) => KeyOf[c] = CallKey[r]

\* A call as RoutedCall sees it.
Phase(at) ==
    CASE at = "idle" -> "new"
      [] at \in {"bind", "dispatch"} -> "asking"
      [] at \in {"direct", "routed"} -> "waiting"
      [] at = "done" -> "returned"

Carried(r, type) == {m \in net : m.type = type /\ m.id = r}

WorkOf(r) ==
    [sent |-> {m.to : m \in Carried(r, "req")},
     on |-> {g \in Gateways : hpc[g][r] # "none"},
     back |-> {m.res : m \in Carried(r, "resp")}]

CallOf(r) == [phase |-> Phase(cpc[r]), result |-> outcome[r], sends |-> attempt[r], work |-> WorkOf(r)]

\* The errors of the route, and the answers of a connection of its workspace.
Errors == {Err(e) : e \in Codes}
AnswersTo(r) == Errors \cup {Ok(c) : c \in {d \in Conns : KeyOf[d] = CallKey[r]}}

Routed == INSTANCE RoutedCall WITH
    call <- [r \in Calls |-> CallOf(r)],
    Replicas <- Gateways, Caller <- SourceOf,
    Answers <- [r \in Calls |-> AnswersTo(r)],
    Failures <- Errors, Crashed <- Err("crashed"), Again <- {Err("offline"), Err("noOwner")}

\* Routing is transparent: however the workspace moves between replicas and
\* messages, connections and replicas are lost, a call is worked on in one place
\* at a time, is sent again only after the first send was answered with a lost
\* route, once, and if it may be; and it returns the answer of its own workspace
\* to the last send, or an error.  Work that outlives its caller is never taken
\* for that of another send.
OnePlaceAtATime == Routed!RoutedSpec

\* A call that another replica has, or had, and that nothing works on: the
\* request or the answer was lost, or the replica died.
Stranded(r) == cpc[r] = "routed" /\ WorkOf(r) = Routed!Nowhere

\* A call sent on a connection that is up at both ends, or whose registration
\* failed, so that no unregister will end its calls.
Unanswered(r) ==
    LET g == SourceOf[r] IN
    /\ cpc[r] = "direct" /\ hpc[g][r] = "wait"
    /\ \/ pc[hconn[g][r]] = "failed"
       \/ pc[hconn[g][r]] = "serving" /\ sock[hconn[g][r]] /\ peer[hconn[g][r]]

\* The caller's wait has no deadline, so a call need not return; but there are
\* only two ways for it to wait for ever, both with an MCP client that waits as
\* long: the call is stranded between replicas, or unanswered on a connection of
\* its own replica that nothing closes.
CallReturns ==
    \A r \in Calls :
        \/ cpc[r] = "bind" ~> cpc[r] = "done"
        \/ <>[](ctx[r] = "live" /\ (Stranded(r) \/ Unanswered(r)))

\* A remote handler ends even when its caller is gone and the cancellation was
\* lost: it runs under the deadline of the send.
HandlerEnds ==
    \A g \in Gateways, r \in Calls :
        Remote(g, r) => (hpc[g][r] = "wait" ~> hpc[g][r] # "wait")
=============================================================================
