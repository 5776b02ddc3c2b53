--------------------------- MODULE ToolExecution ---------------------------
(***************************************************************************)
(* Side-effecting tool calls on the user's machine.                        *)
(*                                                                         *)
(* The runtime (internal/runtime/runtime.go) keeps one WorkspaceWorker per *)
(* workspace, which lives as long as its WebSocket.  Each tool_call it     *)
(* reads is a goroutine (handleCall) that takes the worker's sideMu and    *)
(* calls handleTool: automation tools run at once, all others go through   *)
(* Engine.Handle (internal/localclient/engine.go), which consults the      *)
(* idempotency journal (internal/idempotency/journal.go) before and after. *)
(*                                                                         *)
(* A worker has an engine, and an engine a Journal, of its own: the file   *)
(* is read once, on the journal's first use, and rewritten as a whole by   *)
(* every change.  Stop does not wait for handlers, so the handlers of an   *)
(* old worker overlap with those of its successor.                         *)
(*                                                                         *)
(* The gateway sends a request id at most twice (CallRouting, Return).     *)
(***************************************************************************)
EXTENDS Naturals, FiniteSets

CONSTANTS
    Requests,       \* request ids; the gateway sends them as idempotency keys
    Retryable,      \* those routeRetryAllowed lets the gateway send again
    Automation,     \* those whose tool is a browser_ or a computer_ tool
    Workers,        \* WorkspaceWorkers of one workspace, each used once
    MaxEntries,     \* Journal.maxEntries
    MaxStops,       \* bound: workers stopped while the process lives on
    MaxErrors,      \* bound: failed reads and writes of the journal file
    None            \* no worker, no delivery

Deliveries == (Requests \X {1}) \cup (Retryable \X {2})

ASSUME ToolAssumption ==
    /\ IsFiniteSet(Requests)
    /\ Retryable \subseteq Requests
    /\ Automation \subseteq Requests
    /\ MaxEntries \in Nat \ {0}
    /\ MaxStops \in Nat
    /\ MaxErrors \in Nat
    /\ None \notin Workers \cup Deliveries

VARIABLES
    wst,        \* a worker's life
    current,    \* Runtime.workers of the workspace
    pc,         \* where the handler of a delivery is
    host,       \* the worker that read it
    reply,      \* what it answers
    ran,        \* deliveries whose tool did what was asked and said so
    sideMu,     \* the holder of a worker's sideMu
    calls,      \* WorkspaceWorker.calls: the delivery a cancel would reach
    cancelled,  \* deliveries whose context was cancelled
    loaded,     \* Journal.loaded of a worker's engine
    mem,        \* Journal.entries of a worker's engine
    disk,       \* the journal file
    clock,      \* StartedAt of the last Start; starts have distinct times
    stops, errors

workerVars == <<wst, current, stops>>
callVars == <<host, calls, cancelled>>
journalVars == <<loaded, mem, disk, clock, errors>>
vars == <<workerVars, callVars, journalVars, pc, reply, ran, sideMu>>

Request(d) == d[1]
Worker(d) == host[d]

\* spawned: `go w.handleCall`; received: registered in calls; locked: holds
\* sideMu; checked: Get found nothing that stops it; running: inside handle;
\* ok, err, deferred: handle returned a result, an error, or a result whose
\* status is approval_required or blocked; answer: Handle returned; sent: the
\* answer was written and sideMu released.
Outcomes == {"ok", "err", "deferred"}
PC == {"idle", "spawned", "received", "locked", "checked", "running"}
        \cup Outcomes \cup {"answer", "sent", "done", "dead"}

Entries == [st : {"none", "started", "completed", "failed"}, at : Nat]
NoEntry == [st |-> "none", at |-> 0]

ToolTypeOK ==
    /\ wst \in [Workers -> {"new", "live", "stopping", "stopped", "dead"}]
    /\ current \in Workers \cup {None}
    /\ pc \in [Deliveries -> PC]
    /\ host \in [Deliveries -> Workers \cup {None}]
    /\ reply \in [Deliveries -> Outcomes \cup {"none"}]
    /\ ran \subseteq Deliveries
    /\ sideMu \in [Workers -> Deliveries \cup {None}]
    /\ calls \in [Workers -> [Requests -> Deliveries \cup {None}]]
    /\ cancelled \subseteq Deliveries
    /\ loaded \in [Workers -> BOOLEAN]
    /\ mem \in [Workers -> [Requests -> Entries]]
    /\ disk \in [Requests -> Entries]
    /\ clock \in Nat
    /\ stops \in 0..MaxStops
    /\ errors \in 0..MaxErrors

Init ==
    /\ wst = [w \in Workers |-> "new"]
    /\ current = None
    /\ pc = [d \in Deliveries |-> "idle"]
    /\ host = [d \in Deliveries |-> None]
    /\ reply = [d \in Deliveries |-> "none"]
    /\ ran = {}
    /\ sideMu = [w \in Workers |-> None]
    /\ calls = [w \in Workers |-> [r \in Requests |-> None]]
    /\ cancelled = {}
    /\ loaded = [w \in Workers |-> FALSE]
    /\ mem = [w \in Workers |-> [r \in Requests |-> NoEntry]]
    /\ disk = [r \in Requests |-> NoEntry]
    /\ clock = 0
    /\ stops = 0
    /\ errors = 0

-----------------------------------------------------------------------------
(* The worker's life.                                                       *)

\* Runtime.Activate when the map has no worker.  A worker whose Start fails
\* reads no call and leaves the map again: the same as none.
Activate(w) ==
    /\ wst[w] = "new"
    /\ current = None
    /\ wst' = [wst EXCEPT ![w] = "live"]
    /\ current' = w
    /\ UNCHANGED <<stops, callVars, journalVars, pc, reply, ran, sideMu>>

\* Stop, after the connection ended or idled: contexts are cancelled, the
\* calls map is emptied, the socket and the engine are closed.
StopWorker(w) ==
    /\ wst[w] = "live"
    /\ stops < MaxStops
    /\ stops' = stops + 1
    /\ wst' = [wst EXCEPT ![w] = "stopping"]
    /\ cancelled' = cancelled \cup {d \in Deliveries : host[d] = w}
    /\ calls' = [calls EXCEPT ![w] = [r \in Requests |-> None]]
    /\ UNCHANGED <<current, host, journalVars, pc, reply, ran, sideMu>>

\* Stop's last critical section.
StopUnmap(w) ==
    /\ wst[w] = "stopping"
    /\ wst' = [wst EXCEPT ![w] = "stopped"]
    /\ current' = IF current = w THEN None ELSE current
    /\ UNCHANGED <<stops, callVars, journalVars, pc, reply, ran, sideMu>>

\* The runtime process dies: every worker and handler with it.  The file was
\* replaced by rename, so it is what the last flush left.
Crash ==
    /\ current # None
    /\ wst' = [w \in Workers |-> IF wst[w] = "new" THEN "new" ELSE "dead"]
    /\ current' = None
    /\ pc' = [d \in Deliveries |-> IF pc[d] \in {"idle", "done"} THEN pc[d] ELSE "dead"]
    /\ sideMu' = [w \in Workers |-> None]
    /\ UNCHANGED <<stops, callVars, journalVars, reply, ran>>

-----------------------------------------------------------------------------
(* handleCall.                                                              *)

\* The read loop spawns a handler.  The gateway's second attempt comes after
\* the first, to whichever connection is then registered.
Deliver(d) ==
    /\ pc[d] = "idle"
    /\ d[2] = 2 => pc[<<Request(d), 1>>] # "idle"
    /\ current # None
    /\ wst[current] = "live"
    /\ pc' = [pc EXCEPT ![d] = "spawned"]
    /\ host' = [host EXCEPT ![d] = current]
    /\ UNCHANGED <<workerVars, calls, cancelled, journalVars, reply, ran, sideMu>>

\* The cancel function is filed under the request id; one that is there is
\* called and replaced.
Register(d) ==
    LET w == Worker(d)  old == calls[w][Request(d)] IN
    /\ pc[d] = "spawned"
    /\ pc' = [pc EXCEPT ![d] = "received"]
    /\ cancelled' = cancelled \cup ({old} \ {None})
    /\ calls' = [calls EXCEPT ![w][Request(d)] = d]
    /\ UNCHANGED <<workerVars, host, journalVars, reply, ran, sideMu>>

\* tool_cancel: the function filed under the request id is called.
ToolCancel(w, r) ==
    /\ wst[w] = "live"
    /\ calls[w][r] # None
    /\ cancelled' = cancelled \cup {calls[w][r]}
    /\ UNCHANGED <<workerVars, host, calls, journalVars, pc, reply, ran, sideMu>>

\* Mutant of Lock: sideMu is not taken.
LockFree(d) ==
    /\ pc[d] = "received"
    /\ pc' = [pc EXCEPT ![d] = IF Request(d) \in Automation THEN "running" ELSE "locked"]
    /\ UNCHANGED <<workerVars, callVars, journalVars, reply, ran, sideMu>>

\* sideMu, then handleTool: automation tools do not go through Handle.
Lock(d) ==
    /\ pc[d] = "received"
    /\ sideMu[Worker(d)] = None
    /\ sideMu' = [sideMu EXCEPT ![Worker(d)] = d]
    /\ pc' = [pc EXCEPT ![d] = IF Request(d) \in Automation THEN "running" ELSE "locked"]
    /\ UNCHANGED <<workerVars, callVars, journalVars, reply, ran>>

Reply(d, out) ==
    /\ pc' = [pc EXCEPT ![d] = "answer"]
    /\ reply' = [reply EXCEPT ![d] = out]

-----------------------------------------------------------------------------
(* The journal.                                                             *)

\* flushLocked keeps the newest maxEntries entries by StartedAt.
Kept(m) ==
    LET dom == {r \in Requests : m[r] # NoEntry} IN
    IF Cardinality(dom) <= MaxEntries THEN {dom}
    ELSE {K \in SUBSET dom : /\ Cardinality(K) = MaxEntries
                             /\ \A a \in K, b \in dom \ K : m[a].at >= m[b].at}

\* flushLocked of worker w with entries m.  An error of WriteJSONAtomic leaves
\* the file as it was, or replaced when only the last chmod failed.
Flush(w, m, ok) ==
    \E K \in Kept(m) :
        LET t == [r \in Requests |-> IF r \in K THEN m[r] ELSE NoEntry] IN
        /\ mem' = [mem EXCEPT ![w] = t]
        /\ \/ /\ ok
              /\ disk' = t
              /\ UNCHANGED errors
           \/ /\ ~ok
              /\ errors < MaxErrors
              /\ disk' \in {disk, t}
              /\ errors' = errors + 1

\* loadLocked: what the journal of w holds once it is loaded.
Loaded(w) == IF loaded[w] THEN mem[w] ELSE disk

\* Journal.Get, and what Handle makes of the entry.
JournalGet(d) ==
    LET w == Worker(d)  st == Loaded(w)[Request(d)].st IN
    /\ pc[d] = "locked"
    /\ loaded' = [loaded EXCEPT ![w] = TRUE]
    /\ mem' = [mem EXCEPT ![w] = Loaded(w)]
    /\ \/ /\ st = "completed"
          /\ Reply(d, "ok")
       \/ /\ st = "started"
          /\ Reply(d, "err")
       \/ /\ st \in {"none", "failed"}
          /\ pc' = [pc EXCEPT ![d] = "checked"]
          /\ UNCHANGED reply
    /\ UNCHANGED <<workerVars, callVars, disk, clock, errors, ran, sideMu>>

\* The file cannot be read.
JournalGetFail(d) ==
    /\ pc[d] = "locked"
    /\ ~loaded[Worker(d)]
    /\ errors < MaxErrors
    /\ errors' = errors + 1
    /\ Reply(d, "err")
    /\ UNCHANGED <<workerVars, callVars, loaded, mem, disk, clock, ran, sideMu>>

\* Mutant of JournalStart: the entry is kept in memory only.
JournalStartUnflushed(d) ==
    LET w == Worker(d) IN
    /\ pc[d] = "checked"
    /\ clock' = clock + 1
    /\ mem' = [mem EXCEPT ![w][Request(d)] = [st |-> "started", at |-> clock + 1]]
    /\ pc' = [pc EXCEPT ![d] = "running"]
    /\ UNCHANGED <<workerVars, callVars, loaded, disk, errors, reply, ran, sideMu>>

\* Journal.Start.  An entry that is not Failed is returned as it is, and
\* Handle goes on; a failed flush leaves the entry in memory and ends Handle.
JournalStart(d) ==
    LET w == Worker(d)  r == Request(d) IN
    /\ pc[d] = "checked"
    /\ \/ /\ mem[w][r].st \notin {"none", "failed"}
          /\ pc' = [pc EXCEPT ![d] = "running"]
          /\ UNCHANGED <<mem, disk, clock, errors, reply>>
       \/ /\ mem[w][r].st \in {"none", "failed"}
          /\ clock' = clock + 1
          /\ \E ok \in BOOLEAN :
                /\ Flush(w, [mem[w] EXCEPT ![r] = [st |-> "started", at |-> clock + 1]], ok)
                /\ \/ ok /\ pc' = [pc EXCEPT ![d] = "running"] /\ UNCHANGED reply
                   \/ ~ok /\ Reply(d, "err")
    /\ UNCHANGED <<workerVars, callVars, loaded, ran, sideMu>>

\* handle returns.  An error says nothing of what the tool did before it.
HandleReturn(d, out) ==
    /\ pc[d] = "running"
    /\ ran' = IF out = "ok" THEN ran \cup {d} ELSE ran
    /\ \/ /\ Request(d) \in Automation
          /\ Reply(d, out)
       \/ /\ Request(d) \notin Automation
          /\ pc' = [pc EXCEPT ![d] = out]
          /\ UNCHANGED reply
    /\ UNCHANGED <<workerVars, callVars, journalVars, sideMu>>

\* Mutant of Recorded: an answer that asks for approval is kept for replay.
RecordedDeferred(e, out) ==
    [e EXCEPT !.st = IF out = "err" THEN "failed" ELSE "completed"]

\* The entry Complete, Fail or Abandon leaves.
Recorded(e, out) ==
    CASE out = "ok"       -> [e EXCEPT !.st = "completed"]
      [] out = "err"      -> [e EXCEPT !.st = "failed"]
      [] out = "deferred" -> NoEntry

\* Complete, Fail and Abandon do nothing when the entry was trimmed away.
\* Only Complete's error changes what Handle returns.
JournalRecord(d) ==
    LET w == Worker(d)  r == Request(d)  out == pc[d] IN
    /\ out \in Outcomes
    /\ \/ /\ mem[w][r] = NoEntry
          /\ Reply(d, out)
          /\ UNCHANGED <<mem, disk, errors>>
       \/ /\ mem[w][r] # NoEntry
          /\ \E ok \in BOOLEAN :
                /\ Flush(w, [mem[w] EXCEPT ![r] = Recorded(@, out)], ok)
                /\ Reply(d, IF out = "ok" /\ ~ok THEN "err" ELSE out)
    /\ UNCHANGED <<workerVars, callVars, loaded, clock, ran, sideMu>>

\* Mutant of Answer: sideMu is not released.
AnswerKeepsLock(d) ==
    /\ pc[d] = "answer"
    /\ pc' = [pc EXCEPT ![d] = "sent"]
    /\ UNCHANGED <<workerVars, callVars, journalVars, reply, ran, sideMu>>

\* The result is written to the socket (lost when it is closed) and the
\* deferred sideMu.Unlock runs.
Answer(d) ==
    /\ pc[d] = "answer"
    /\ pc' = [pc EXCEPT ![d] = "sent"]
    /\ sideMu' = [sideMu EXCEPT ![Worker(d)] = None]
    /\ UNCHANGED <<workerVars, callVars, journalVars, reply, ran>>

\* The other deferred function: the request id is deleted from calls.
Forget(d) ==
    /\ pc[d] = "sent"
    /\ pc' = [pc EXCEPT ![d] = "done"]
    /\ cancelled' = cancelled \cup {d}
    /\ calls' = [calls EXCEPT ![Worker(d)][Request(d)] = None]
    /\ UNCHANGED <<workerVars, host, journalVars, reply, ran, sideMu>>

-----------------------------------------------------------------------------
Handler(d) ==
    \/ Register(d) \/ Lock(d)
    \/ JournalGet(d) \/ JournalGetFail(d) \/ JournalStart(d)
    \/ \E out \in Outcomes : HandleReturn(d, out)
    \/ JournalRecord(d) \/ Answer(d) \/ Forget(d)

Next ==
    \/ \E w \in Workers : Activate(w) \/ StopWorker(w) \/ StopUnmap(w)
    \/ Crash
    \/ \E w \in Workers, r \in Requests : ToolCancel(w, r)
    \/ \E d \in Deliveries : Deliver(d) \/ Handler(d)

Spec == Init /\ [][Next]_vars

\* Goroutines run, and a tool returns: its context has the call's deadline.
FairSpec == Spec /\ \A d \in Deliveries : WF_vars(Handler(d))

-----------------------------------------------------------------------------
(* Properties.                                                              *)

\* A retried request is not carried out a second time.
AtMostOnce == \A r \in Retryable : ~({<<r, 1>>, <<r, 2>>} \subseteq ran)

\* Unless a worker is stopped while the process lives on, a journaled request
\* is not carried out again as long as the journal has room, whatever happened
\* to the first delivery: cancelled, failed, cut by a crash between the tool's
\* success and the journal's Complete, or answered from the journal.
OnceWithoutStop ==
    stops = 0 /\ Cardinality(Requests) <= MaxEntries =>
        \A r \in Retryable \ Automation : ~({<<r, 1>>, <<r, 2>>} \subseteq ran)

\* On one worker a journaled request is carried out once, as long as the
\* journal has room: also while journal writes fail, the worker stops under
\* its handlers, and the two deliveries run at the same time.
SameWorkerOnce ==
    Cardinality(Requests) <= MaxEntries =>
        \A r \in Retryable \ Automation :
            host[<<r, 1>>] = host[<<r, 2>>] => ~({<<r, 1>>, <<r, 2>>} \subseteq ran)

\* No answer and no journal entry claims a success that did not happen: a
\* replayed result is that of a delivery that was carried out, and an answer
\* that asks for approval is never replayed as a result.
OkMeansRan ==
    \A r \in Requests :
        (\A d \in Deliveries : Request(d) = r => d \notin ran) =>
            /\ disk[r].st # "completed"
            /\ \A w \in Workers : mem[w][r].st # "completed"
            /\ \A d \in Deliveries : Request(d) = r => reply[d] # "ok"

\* Every delivery is answered, or dies with the process: no handler waits for
\* sideMu for ever.
DeliveryEnds ==
    \A d \in Deliveries : pc[d] = "spawned" ~> pc[d] \in {"done", "dead"}
=============================================================================
