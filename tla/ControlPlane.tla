---------------------------- MODULE ControlPlane ----------------------------
(***************************************************************************)
(* Waking and revoking a workspace of a device.                            *)
(*                                                                         *)
(* WorkspaceService.Activate and Revoke (internal/gateway/workspaces.go)   *)
(* push a request on a Redis list of the device and wait for its answer.   *)
(* ActivationStore (internal/cloud/activation.go) keeps the lists, the     *)
(* pending revocation, the answers, and the waiters that a signal wakes.   *)
(* Each control connection of the device (runtimeRealtime in               *)
(* internal/cloudserver/runtime_ws.go) has a goroutine that pops requests, *)
(* one that writes them to the socket, and one that reads the device's     *)
(* messages.  The runtime (internal/runtime/realtime.go) handles one       *)
(* request after the other, and reports its registry by POST and on the    *)
(* socket.                                                                 *)
(*                                                                         *)
(* One device, one workspace.  An old connection of the device may live on *)
(* in a gateway after the device has opened the next one.                  *)
(***************************************************************************)
EXTENDS Naturals, Sequences

CONSTANTS
    Revs,       \* revocation request ids
    Acts,       \* activation request ids
    Conns,      \* control connections, each used once
    MaxFaults,  \* bound: broken connections, failed writes, local changes
    None

Requests == Revs \cup Acts

ASSUME ControlAssumption ==
    /\ Revs \cap Acts = {}
    /\ None \notin Requests \cup Conns
    /\ MaxFaults \in Nat

VARIABLES
    \* Redis and the catalog
    revq, actq,     \* the lists of the device
    pend,           \* the pending revocation of the workspace
    acks,           \* revocation requests whose acknowledgement is stored
    results,        \* the stored result of an activation request
    authz,          \* the workspace is in the device's authorized set
    owned,          \* a gateway holds the owner lease of the workspace
    catalog,        \* the workspace has a row in the catalog
    \* a control connection in its gateway
    cst, pop, hand, buf, waiters, sig, reader,
    wire, up,       \* the two directions of the socket
    \* the device
    dev,            \* its control connection
    dpc, dreq,      \* where its loop is, and the request it handles
    snap, items,    \* the registry it is reporting, and the last it reported
    registry,       \* the workspace is in the registry file
    worker,         \* its WorkspaceWorker; doomed: it serves, and a goroutine
                    \* that will Stop it was started
    post,           \* the revocation that a POST is about to acknowledge
    \* callers of Activate and Revoke
    wpc, told, outcome,
    spoiled,        \* the registry refused a change, or the user made one
    faults

redisVars == <<revq, actq, pend, acks, results, authz, owned, catalog>>
popVars == <<pop, hand, buf, waiters, sig>>
connVars == <<cst, popVars, reader, wire, up>>
devVars == <<dev, dpc, dreq, snap, items, registry, worker, post>>
callerVars == <<wpc, told, outcome>>
vars == <<redisVars, connVars, devVars, callerVars, spoiled, faults>>

Message == ({"sync"} \X BOOLEAN) \cup ({"ack"} \X Revs) \cup ({"ok", "fail"} \X Acts)

ControlTypeOK ==
    /\ revq \in Seq(Revs) /\ actq \in Seq(Acts)
    /\ pend \in Revs \cup {None} /\ post \in Revs \cup {None}
    /\ acks \subseteq Revs
    /\ results \in [Acts -> {"none", "ok", "fail"}]
    /\ {authz, owned, catalog, snap, items, registry, spoiled} \subseteq BOOLEAN
    /\ cst \in [Conns -> {"new", "open", "closed"}]
    /\ pop \in [Conns -> {"start", "rev", "act", "sleep", "authorize", "hand"}]
    /\ hand \in [Conns -> Requests \cup {None}]
    /\ buf \in [Conns -> Requests \cup {None}]
    /\ waiters \subseteq Conns /\ sig \subseteq Conns
    /\ reader \in [Conns -> Revs \cup {None}]
    /\ wire \in [Conns -> Seq(Requests)]
    /\ up \in [Conns -> Seq(Message)]
    /\ dev \in Conns \cup {None}
    /\ dpc \in {"idle", "start", "list", "post", "answer", "synced", "unsynced", "ack"}
    /\ dreq \in Requests \cup {None}
    /\ worker \in {"none", "live", "doomed", "stopping"}
    /\ wpc \in [Requests -> {"idle", "check", "subscribe", "again", "wait", "done"}]
    /\ told \subseteq Requests
    /\ outcome \in [Requests -> {"none", "ok", "fail", "timeout"}]
    /\ faults \in 0..MaxFaults

Init ==
    /\ revq = <<>> /\ actq = <<>>
    /\ pend = None /\ post = None
    /\ acks = {}
    /\ results = [a \in Acts |-> "none"]
    /\ authz = FALSE /\ owned = FALSE /\ catalog = FALSE
    /\ snap = FALSE /\ items = FALSE /\ registry = TRUE /\ spoiled = FALSE
    /\ cst = [c \in Conns |-> "new"]
    /\ pop = [c \in Conns |-> "start"]
    /\ hand = [c \in Conns |-> None]
    /\ buf = [c \in Conns |-> None]
    /\ waiters = {} /\ sig = {}
    /\ reader = [c \in Conns |-> None]
    /\ wire = [c \in Conns |-> <<>>]
    /\ up = [c \in Conns |-> <<>>]
    /\ dev = None /\ dpc = "idle" /\ dreq = None
    /\ worker = "none"
    /\ wpc = [r \in Requests |-> "idle"]
    /\ told = {}
    /\ outcome = [r \in Requests |-> "none"]
    /\ faults = 0

Spend == faults < MaxFaults /\ faults' = faults + 1

-----------------------------------------------------------------------------
(* ActivationStore: requests and acknowledgements.                          *)

\* The publication that follows a push, on its way to the gateways.
Signal == sig' = {c \in Conns : cst[c] = "open"}

\* RequestRevocation: the list, the pending key, then the signal.
RequestRevocation(v) ==
    /\ revq' = Append(revq, v)
    /\ pend' = v
    /\ Signal
    /\ UNCHANGED actq

\* Request: the list, then the signal.
Request(a) ==
    /\ actq' = Append(actq, a)
    /\ Signal
    /\ UNCHANGED <<revq, pend>>

\* The first half of AcknowledgeRevocation: the pending key is read; an empty
\* id stands for whatever is pending.  The request to acknowledge, or None.
Expected(v) == IF v = None \/ v = pend THEN pend ELSE None

\* A publication reaches the callers that have subscribed.
Publish(r) == told' = IF wpc[r] \in {"again", "wait"} THEN told \cup {r} ELSE told

\* The second half: the answer is stored, the pending key deleted, whatever it
\* is by now, and the answer published.
Acknowledge(v) ==
    IF v = None THEN UNCHANGED <<acks, pend, told>>
    ELSE acks' = acks \cup {v} /\ pend' = None /\ Publish(v)

-----------------------------------------------------------------------------
(* The callers.                                                             *)

Revoke(v) ==
    /\ wpc[v] = "idle"
    /\ \E c \in Conns : cst[c] # "new"      \* the device is online
    /\ RequestRevocation(v)
    /\ wpc' = [wpc EXCEPT ![v] = "check"]
    /\ UNCHANGED <<acks, results, authz, owned, catalog, cst, pop, hand, buf, waiters,
                   reader, wire, up, devVars, told, outcome,
                   spoiled, faults>>

\* Activate of a workspace that nobody owns, and that the device has listed.
Activate(a) ==
    /\ wpc[a] = "idle"
    /\ ~owned /\ catalog /\ authz
    /\ \E c \in Conns : cst[c] # "new"
    /\ Request(a)
    /\ wpc' = [wpc EXCEPT ![a] = "check"]
    /\ UNCHANGED <<acks, results, authz, owned, catalog, cst, pop, hand, buf, waiters,
                   reader, wire, up, devVars, told, outcome,
                   spoiled, faults>>

Stored(r) == IF r \in Revs THEN r \in acks ELSE results[r] # "none"

\* Activate or Revoke returns; its watchers end with its context.
Return(r, res) ==
    /\ outcome' = [outcome EXCEPT ![r] = res]
    /\ wpc' = [wpc EXCEPT ![r] = "done"]
    /\ told' = told \ {r}

\* The answer is there.  A revocation is done; an activation goes on waiting
\* for an owner, unless the answer is a failure.
Heard(r) ==
    IF r \in Acts /\ results[r] = "ok"
    THEN wpc' = [wpc EXCEPT ![r] = "done"] /\ UNCHANGED <<told, outcome>>
    ELSE Return(r, IF r \in Revs THEN "ok" ELSE "fail")

\* WaitForRevocationAck and WaitForActivationResult: look, subscribe, look
\* again, wait.
Look(r) ==
    /\ wpc[r] \in {"check", "again"}
    /\ \/ Stored(r) /\ Heard(r)
       \/ /\ ~Stored(r)
          /\ wpc' = [wpc EXCEPT ![r] = IF @ = "check" THEN "subscribe" ELSE "wait"]
          /\ UNCHANGED <<told, outcome>>
    /\ UNCHANGED <<redisVars, connVars, devVars, spoiled, faults>>

\* Mutant of Subscribe: what was stored before the subscription is not looked
\* for again.
SubscribeAndWait(r) ==
    /\ wpc[r] = "subscribe"
    /\ wpc' = [wpc EXCEPT ![r] = "wait"]
    /\ UNCHANGED <<redisVars, connVars, devVars, told, outcome,
                   spoiled, faults>>

Subscribe(r) ==
    /\ wpc[r] = "subscribe"
    /\ wpc' = [wpc EXCEPT ![r] = "again"]
    /\ UNCHANGED <<redisVars, connVars, devVars, told, outcome,
                   spoiled, faults>>

Told(r) ==
    /\ wpc[r] = "wait"
    /\ r \in told
    /\ Heard(r)
    /\ UNCHANGED <<redisVars, connVars, devVars, spoiled, faults>>

\* The 8 s of a revocation's wait, or the 30 s of an activation, are over; the
\* goroutines of an activation have reached their waits by then.
TimeUp(r) ==
    /\ outcome[r] = "none"
    /\ IF r \in Revs THEN wpc[r] = "wait"
       ELSE wpc[r] \in {"wait", "done"}
    /\ Return(r, "timeout")
    /\ UNCHANGED <<redisVars, connVars, devVars, spoiled, faults>>

\* Coordinator.WaitOwner returns the owner.
OwnerFound(a) ==
    /\ wpc[a] # "idle" /\ outcome[a] = "none"
    /\ owned
    /\ Return(a, "ok")
    /\ UNCHANGED <<redisVars, connVars, devVars, spoiled, faults>>

-----------------------------------------------------------------------------
(* WaitForNext, in the popping goroutine of a connection.                   *)

NewWaiter(c) ==
    /\ cst[c] = "open" /\ pop[c] = "start"
    /\ pop' = [pop EXCEPT ![c] = "rev"]
    /\ waiters' = waiters \cup {c}
    /\ UNCHANGED <<redisVars, cst, hand, buf, sig, reader, wire, up, devVars,
                   callerVars, spoiled, faults>>

\* Revocations first.
PopRev(c) ==
    /\ cst[c] = "open" /\ pop[c] = "rev"
    /\ \/ /\ revq = <<>>
          /\ pop' = [pop EXCEPT ![c] = "act"]
          /\ UNCHANGED <<revq, hand, waiters>>
       \/ /\ revq # <<>>
          /\ revq' = Tail(revq)
          /\ hand' = [hand EXCEPT ![c] = Head(revq)]
          /\ pop' = [pop EXCEPT ![c] = "hand"]
          /\ waiters' = waiters \ {c}
    /\ UNCHANGED <<actq, pend, acks, results, authz, owned, catalog, cst, buf, sig,
                   reader, wire, up, devVars, callerVars, spoiled, faults>>

\* Mutant of PopAct: the waiter is filed once both lists were found empty.
PopActThenFile(c) ==
    /\ cst[c] = "open" /\ pop[c] = "act"
    /\ \/ /\ actq = <<>>
          /\ pop' = [pop EXCEPT ![c] = "sleep"]
          /\ waiters' = waiters \cup {c}
          /\ UNCHANGED <<actq, hand>>
       \/ /\ actq # <<>>
          /\ actq' = Tail(actq)
          /\ hand' = [hand EXCEPT ![c] = Head(actq)]
          /\ pop' = [pop EXCEPT ![c] = "authorize"]
          /\ waiters' = waiters \ {c}
    /\ UNCHANGED <<revq, pend, acks, results, authz, owned, catalog, cst, buf, sig,
                   reader, wire, up, devVars, callerVars, spoiled, faults>>

\* Then activations.
PopAct(c) ==
    /\ cst[c] = "open" /\ pop[c] = "act"
    /\ \/ /\ actq = <<>>
          /\ pop' = [pop EXCEPT ![c] = "sleep"]
          /\ UNCHANGED <<actq, hand, waiters>>
       \/ /\ actq # <<>>
          /\ actq' = Tail(actq)
          /\ hand' = [hand EXCEPT ![c] = Head(actq)]
          /\ pop' = [pop EXCEPT ![c] = "authorize"]
          /\ waiters' = waiters \ {c}
    /\ UNCHANGED <<revq, pend, acks, results, authz, owned, catalog, cst, buf, sig,
                   reader, wire, up, devVars, callerVars, spoiled, faults>>

\* The goroutine drops an activation whose workspace is not authorized by now.
Authorize(c) ==
    /\ cst[c] = "open" /\ pop[c] = "authorize"
    /\ hand' = IF authz THEN hand ELSE [hand EXCEPT ![c] = None]
    /\ pop' = [pop EXCEPT ![c] = IF authz THEN "hand" ELSE "start"]
    /\ UNCHANGED <<redisVars, cst, buf, waiters, sig, reader, wire, up, devVars,
                   callerVars, spoiled, faults>>

\* The waiter was closed, or the 30 s of the wait are over.  A wake-up that
\* would find the lists empty goes back to sleep and is left out.
Wake(c) ==
    /\ cst[c] = "open" /\ pop[c] = "sleep"
    /\ c \notin waiters \/ revq # <<>> \/ actq # <<>>
    /\ pop' = [pop EXCEPT ![c] = "start"]
    /\ waiters' = waiters \ {c}
    /\ UNCHANGED <<redisVars, cst, hand, buf, sig, reader, wire, up, devVars,
                   callerVars, spoiled, faults>>

\* The signal arrives at the gateway of the connection: notify.
Notify(c) ==
    /\ c \in sig
    /\ sig' = sig \ {c}
    /\ waiters' = waiters \ {c}
    /\ UNCHANGED <<redisVars, cst, pop, hand, buf, reader, wire, up, devVars,
                   callerVars, spoiled, faults>>

\* The events channel has room for one.
Offer(c) ==
    /\ cst[c] = "open" /\ pop[c] = "hand"
    /\ buf[c] = None
    /\ buf' = [buf EXCEPT ![c] = hand[c]]
    /\ hand' = [hand EXCEPT ![c] = None]
    /\ pop' = [pop EXCEPT ![c] = "start"]
    /\ UNCHANGED <<redisVars, cst, waiters, sig, reader, wire, up, devVars,
                   callerVars, spoiled, faults>>

-----------------------------------------------------------------------------
(* The main loop of runtimeRealtime, and the end of a connection.           *)

\* The event is written.  Nobody reads what is written to a socket that the
\* device has left.
Write(c) ==
    /\ cst[c] = "open" /\ buf[c] # None
    /\ wire' = IF dev = c THEN [wire EXCEPT ![c] = Append(@, buf[c])] ELSE wire
    /\ buf' = [buf EXCEPT ![c] = None]
    /\ UNCHANGED <<redisVars, cst, pop, hand, waiters, sig, reader, up, devVars,
                   callerVars, spoiled, faults>>

\* The gateway's side of a connection ends: what its goroutines hold is lost.
Shut(c) ==
    /\ cst' = [cst EXCEPT ![c] = "closed"]
    /\ hand' = [hand EXCEPT ![c] = None]
    /\ buf' = [buf EXCEPT ![c] = None]
    /\ pop' = [pop EXCEPT ![c] = "start"]
    /\ waiters' = waiters \ {c}
    /\ reader' = [reader EXCEPT ![c] = None]
    /\ up' = [up EXCEPT ![c] = <<>>]

\* The write fails: the event is requeued as a new request, unless Redis fails
\* too, and the connection ends.
WriteFails(c) ==
    /\ cst[c] = "open" /\ buf[c] # None
    /\ Spend
    /\ \/ buf[c] \in Revs /\ RequestRevocation(buf[c])
       \/ buf[c] \in Acts /\ Request(buf[c])
       \/ UNCHANGED <<revq, actq, pend, sig>>
    /\ Shut(c)
    /\ UNCHANGED <<acks, results, authz, owned, catalog, wire, devVars, callerVars, spoiled>>

\* The gateway notices that the device has left, or ends the connection: the
\* device's reads fail, or a heartbeat, a pop or the replica did.
Close(c) ==
    /\ cst[c] = "open"
    /\ \/ dev # c /\ UNCHANGED faults
       \/ dev = c /\ Spend
    /\ Shut(c)
    /\ sig' = sig \ {c}
    /\ UNCHANGED <<redisVars, wire, devVars, callerVars, spoiled>>

\* The read loop: runtime_sync and runtime_pong carry a heartbeat.
ReadSync(c) ==
    /\ cst[c] = "open" /\ reader[c] = None
    /\ up[c] # <<>> /\ Head(up[c])[1] = "sync"
    /\ authz' = Head(up[c])[2]
    /\ up' = [up EXCEPT ![c] = Tail(@)]
    /\ UNCHANGED <<revq, actq, pend, acks, results, owned, catalog, cst, popVars, reader,
                   wire, devVars, callerVars, spoiled, faults>>

\* runtime_revocation_ack: AcknowledgeRevocation in two steps.
ReadAck(c) ==
    /\ cst[c] = "open" /\ reader[c] = None
    /\ up[c] # <<>> /\ Head(up[c])[1] = "ack"
    /\ reader' = [reader EXCEPT ![c] = Expected(Head(up[c])[2])]
    /\ up' = [up EXCEPT ![c] = Tail(@)]
    /\ UNCHANGED <<redisVars, cst, popVars, wire, devVars, callerVars, spoiled, faults>>

ReadAcked(c) ==
    /\ cst[c] = "open" /\ reader[c] # None
    /\ Acknowledge(reader[c])
    /\ reader' = [reader EXCEPT ![c] = None]
    /\ UNCHANGED <<revq, actq, results, authz, owned, catalog, cst, popVars, wire, up,
                   devVars, wpc, outcome, spoiled, faults>>

\* runtime_activation_result: AcknowledgeActivation.
ReadResult(c) ==
    LET m == Head(up[c]) IN
    /\ cst[c] = "open" /\ reader[c] = None
    /\ up[c] # <<>> /\ m[1] \in {"ok", "fail"}
    /\ results' = [results EXCEPT ![m[2]] = m[1]]
    /\ Publish(m[2])
    /\ up' = [up EXCEPT ![c] = Tail(@)]
    /\ UNCHANGED <<revq, actq, pend, acks, authz, owned, catalog, cst, popVars, reader,
                   wire, devVars, wpc, outcome, spoiled, faults>>

\* The TTLs of Redis.  The lists and the pending key outlast their callers; the
\* authorized set lasts 45 s without a heartbeat.
Expire ==
    /\ \/ /\ revq # <<>> \/ pend # None
          /\ \A v \in Revs : outcome[v] # "none" \/ wpc[v] = "idle"
          /\ revq' = <<>> /\ pend' = None
          /\ UNCHANGED <<actq, authz>>
       \/ /\ actq # <<>>
          /\ \A a \in Acts : outcome[a] # "none" \/ wpc[a] = "idle"
          /\ actq' = <<>>
          /\ UNCHANGED <<revq, pend, authz>>
       \/ /\ authz /\ dev = None
          /\ authz' = FALSE
          /\ UNCHANGED <<revq, actq, pend>>
    /\ UNCHANGED <<acks, results, owned, catalog, connVars, devVars, callerVars,
                   spoiled, faults>>

-----------------------------------------------------------------------------
(* The runtime on the device.                                               *)

Send(m) == up' = IF cst[dev] = "open" THEN [up EXCEPT ![dev] = Append(@, m)] ELSE up

\* Runtime.SyncRegistry: before a connection is opened, by the ticker, and after
\* a revocation.  For a worker whose workspace is gone a goroutine is started
\* that will Stop it; nobody waits for it.  The POST is left out when nothing
\* has changed, unless it is forced or due; a tick that changes nothing is no
\* step here.
DevList ==
    /\ \/ dpc = "list" /\ dpc' = "post"
       \/ dpc = "idle" /\ dpc' \in IF registry = items THEN {"post", "synced"} ELSE {"post"}
    /\ dpc = "idle" /\ dev # None =>
          \/ registry # items \/ catalog # registry \/ authz # registry
          \/ worker = "live" /\ ~registry
    /\ snap' = registry
    /\ worker' = IF worker = "live" /\ ~registry THEN "doomed" ELSE worker
    /\ UNCHANGED <<redisVars, connVars, dev, dreq, items, registry, post, callerVars,
                   spoiled, faults>>

\* Mutant of PostReconcile: every workspace that is absent or present counts as
\* removed.
PostReconcileAll ==
    /\ dpc = "post"
    /\ catalog' = (snap /\ (catalog \/ ~owned))
    /\ post' = Expected(None)
    /\ dpc' = "answer"
    /\ UNCHANGED <<revq, actq, pend, acks, results, authz, owned, connVars, dev, dreq, snap,
                   items, registry, worker, callerVars, spoiled, faults>>

\* The sync handler: rows are written and removed, and a removed workspace
\* acknowledges whatever revocation is pending for it.
PostReconcile ==
    /\ dpc = "post"
    /\ catalog' = (snap /\ (catalog \/ ~owned))
    /\ post' = IF catalog /\ ~snap THEN Expected(None) ELSE None
    /\ dpc' = "answer"
    /\ UNCHANGED <<revq, actq, pend, acks, results, authz, owned, connVars, dev, dreq, snap,
                   items, registry, worker, callerVars, spoiled, faults>>

PostAnswer ==
    /\ dpc = "answer"
    /\ Acknowledge(post)
    /\ authz' = snap
    /\ post' = None
    /\ dpc' = "synced"
    /\ UNCHANGED <<revq, actq, results, owned, catalog, connVars, dev, dreq, snap, items,
                   registry, worker, wpc, outcome, spoiled, faults>>

\* The request or its answer is lost.
PostFails ==
    /\ dpc \in {"post", "answer", "synced"}
    /\ Spend
    /\ post' = None
    /\ dpc' = "unsynced"
    /\ UNCHANGED <<redisVars, connVars, dev, dreq, snap, items, registry, worker,
                   callerVars, spoiled>>

\* dialRuntimeControl and the registration of the connection.
Connect(c) ==
    /\ dev = None /\ dpc \in {"synced", "unsynced"}
    /\ cst[c] = "new"
    /\ cst' = [cst EXCEPT ![c] = "open"]
    /\ dev' = c
    /\ items' = IF dpc = "synced" THEN snap ELSE registry
    /\ authz' = items'
    /\ dpc' = "idle"
    /\ UNCHANGED <<revq, actq, pend, acks, results, owned, catalog, popVars, reader, wire, up,
                   dreq, snap, registry, worker, post, callerVars, spoiled, faults>>

\* The registry was synced, or not, while a connection is served: the new list
\* goes to the gateway too, and a revocation to its acknowledgement.
DevSynced ==
    /\ dev # None /\ dpc \in {"synced", "unsynced"}
    /\ IF dpc = "synced" /\ (snap # items \/ dreq # None)
       THEN items' = snap /\ Send(<<"sync", snap>>)
       ELSE UNCHANGED <<items, up>>
    /\ dpc' = IF dreq = None THEN "idle" ELSE "ack"
    /\ UNCHANGED <<redisVars, cst, popVars, reader, wire, dev, dreq, snap, registry, worker,
                   post, callerVars, spoiled, faults>>

\* The heartbeat, when it has something to tell.
DevHeartbeat ==
    /\ dev # None /\ dpc = "idle"
    /\ up[dev] = <<>> /\ authz # items
    /\ Send(<<"sync", items>>)
    /\ UNCHANGED <<redisVars, cst, popVars, reader, wire, devVars, callerVars, spoiled, faults>>

Take(r) ==
    /\ dev # None /\ dpc = "idle"
    /\ wire[dev] # <<>> /\ r = Head(wire[dev])
    /\ wire' = [wire EXCEPT ![dev] = Tail(@)]

\* handleRuntimeRevocation: the registry, then the worker.  A registry that
\* fails is only logged; `removed` tells whether the list is synced first.
TakeRevocation(v) ==
    /\ Take(v)
    /\ \/ /\ registry' = FALSE
          /\ dpc' = IF registry THEN "list" ELSE "ack"
          /\ UNCHANGED <<spoiled, faults>>
       \/ /\ Spend
          /\ spoiled' = (spoiled \/ registry)
          /\ dpc' \in IF registry THEN {"list", "ack"} ELSE {"ack"}
          /\ UNCHANGED registry
    /\ worker' = "none"
    /\ dreq' = v
    /\ UNCHANGED <<redisVars, cst, popVars, reader, up, dev, snap, items, post, callerVars>>

DevAck ==
    /\ dpc = "ack"
    /\ Send(<<"ack", dreq>>)
    /\ dpc' = "idle"
    /\ dreq' = None
    /\ UNCHANGED <<redisVars, cst, popVars, reader, wire, dev, snap, items, registry, worker,
                   post, callerVars, spoiled, faults>>

\* Runtime.Activate: a worker that is there, though it be stopping, will do; a
\* workspace that is not registered is refused.
TakeActivation(a) ==
    /\ Take(a)
    /\ \/ worker # "none" /\ Send(<<"ok", a>>) /\ UNCHANGED <<dpc, dreq>>
       \/ worker = "none" /\ ~registry /\ Send(<<"fail", a>>) /\ UNCHANGED <<dpc, dreq>>
       \/ worker = "none" /\ registry /\ dpc' = "start" /\ dreq' = a /\ UNCHANGED up
    /\ UNCHANGED <<redisVars, cst, popVars, reader, dev, snap, items, registry, worker, post,
                   callerVars, spoiled, faults>>

\* The worker registers with a gateway, which writes its row and claims the
\* lease before it answers; or it fails to.
DevStart ==
    /\ dpc = "start"
    /\ \/ /\ worker' = "live"
          /\ owned' = TRUE /\ catalog' = TRUE
          /\ Send(<<"ok", dreq>>)
          /\ UNCHANGED faults
       \/ /\ Spend
          /\ Send(<<"fail", dreq>>)
          /\ UNCHANGED <<worker, owned, catalog>>
    /\ dpc' = "idle" /\ dreq' = None
    /\ UNCHANGED <<revq, actq, pend, acks, results, authz, cst, popVars, reader, wire, dev,
                   snap, items, registry, post, callerVars, spoiled>>

\* The worker's calls and its WebSocket go on until Stop cancels them.
Serves == worker \in {"live", "doomed"}

\* The connection ends for the device, or its process does: the context of the
\* workers ends with it.
DevDrop ==
    /\ dev # None
    /\ \/ cst[dev] = "closed" /\ dpc = "idle" /\ UNCHANGED faults
       \/ Spend
    /\ dev' = None
    /\ wire' = [wire EXCEPT ![dev] = <<>>]
    /\ dpc' = "idle" /\ dreq' = None /\ post' = None
    /\ worker' = IF Serves THEN "stopping" ELSE worker
    /\ UNCHANGED <<redisVars, cst, popVars, reader, up, snap, items, registry, callerVars,
                   spoiled>>

\* The goroutine that SyncRegistry started begins to Stop the worker.
StaleWorkerStop ==
    /\ worker = "doomed"
    /\ worker' = "stopping"
    /\ UNCHANGED <<redisVars, connVars, dev, dpc, dreq, snap, items, registry, post,
                   callerVars, spoiled, faults>>

\* A worker idles out or loses its socket.
WorkerEnds ==
    /\ worker = "live"
    /\ Spend
    /\ worker' = "stopping"
    /\ UNCHANGED <<redisVars, connVars, dev, dpc, dreq, snap, items, registry, post,
                   callerVars, spoiled>>

\* Stop removes the worker from the map as its last step.
WorkerStopped ==
    /\ worker = "stopping"
    /\ worker' = "none"
    /\ UNCHANGED <<redisVars, connVars, dev, dpc, dreq, snap, items, registry, post,
                   callerVars, spoiled, faults>>

\* The gateway releases the lease of a worker that left (OwnerLease).
OwnerGone ==
    /\ owned /\ ~Serves
    /\ owned' = FALSE
    /\ UNCHANGED <<revq, actq, pend, acks, results, authz, catalog, connVars, devVars,
                   callerVars, spoiled, faults>>

\* The user removes or adds the workspace on the device.
LocalChange ==
    /\ Spend
    /\ registry' = ~registry
    /\ spoiled' = (spoiled \/ registry')
    /\ UNCHANGED <<redisVars, connVars, dev, dpc, dreq, snap, items, worker, post, callerVars>>

-----------------------------------------------------------------------------
Caller ==
    \/ \E v \in Revs : Revoke(v)
    \/ \E a \in Acts : Activate(a) \/ OwnerFound(a)
    \/ \E r \in Requests : Look(r) \/ Subscribe(r) \/ Told(r) \/ TimeUp(r)

Gateway(c) ==
    \/ NewWaiter(c) \/ PopRev(c) \/ PopAct(c) \/ Authorize(c) \/ Wake(c) \/ Notify(c) \/ Offer(c)
    \/ Write(c) \/ WriteFails(c) \/ Close(c)
    \/ ReadSync(c) \/ ReadAck(c) \/ ReadAcked(c) \/ ReadResult(c)

Device ==
    \/ DevList \/ PostReconcile \/ PostAnswer \/ PostFails
    \/ DevSynced \/ DevHeartbeat \/ DevAck \/ DevStart \/ DevDrop
    \/ \E c \in Conns : Connect(c)
    \/ \E v \in Revs : TakeRevocation(v)
    \/ \E a \in Acts : TakeActivation(a)
    \/ StaleWorkerStop \/ WorkerEnds \/ WorkerStopped \/ LocalChange

Next ==
    \/ Caller
    \/ \E c \in Conns : Gateway(c)
    \/ Device
    \/ OwnerGone \/ Expire

Spec == Init /\ [][Next]_vars

-----------------------------------------------------------------------------
(* Properties.                                                              *)

\* When Revoke has returned without an error, the workspace is out of the
\* device's registry, no worker of it is started again, and one that is still
\* there has been told to stop: it is stopping, or the goroutine that will Stop
\* it was started.  That one may still serve: the sync's POST is not held back
\* for it.  So it is whatever else is queued, requeued or popped by an old
\* connection, and whichever of the two acknowledgements it was, as long as the
\* registry file could be written and the user has not added the workspace again.
RevokedGone ==
    \A v \in Revs : outcome[v] = "ok" /\ ~spoiled => ~registry /\ worker # "live"

\* "Race-safe": a caller that waits for its publication while the answer is
\* stored has been sent it.
AnswerReaches ==
    \A r \in Requests : wpc[r] = "wait" /\ Stored(r) => r \in told

\* A goroutine that sleeps in WaitForNext while a request is queued is about
\* to be woken: the signal is on its way or has closed the waiter.
NoLostWakeup ==
    \A c \in Conns : cst[c] = "open" /\ pop[c] = "sleep" /\ (revq # <<>> \/ actq # <<>>)
                        => c \in sig \/ c \notin waiters
=============================================================================
