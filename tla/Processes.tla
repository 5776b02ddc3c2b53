------------------------------ MODULE Processes ------------------------------
(***************************************************************************)
(* The background processes of an engine (internal/process/manager.go,     *)
(* pty_unix.go): their records, the children of the operating system, the  *)
(* requests that started them, and who may end them.                       *)
(*                                                                         *)
(* Start files a record, starts the child without the lock and only then   *)
(* stores the handle that signals go through; a goroutine per child waits  *)
(* for it or for its timeout.  Cancel changes the status before it sends   *)
(* the signal.  A child ends when it likes.  Output, its buffers and the   *)
(* input of a child are left out, and every process has a request id.      *)
(***************************************************************************)
EXTENDS Naturals, FiniteSets

CONSTANTS
    ProcRequests,   \* request ids that processes are started for
    MaxProcesses,   \* Manager.maxProcesses
    MaxProcs,       \* bound: processes, named in the order of their StartedAt
    MaxStopAlls     \* bound: calls of StopAll

ASSUME ProcessesAssumption ==
    /\ MaxProcesses \in Nat \ {0}
    /\ {MaxProcs, MaxStopAlls} \subseteq Nat

Procs == 1..MaxProcs

VARIABLES
    records,    \* Manager.records
    requestToProcess,   \* 0 for none
    procStatus, \* Record.Status
    requestOf,  \* Record.RequestID
    timed,      \* the process has a timeout
    launch,     \* where Start is: it has filed the record, or started the child
    child,      \* of the operating system
    handle,     \* Record.cmd or Record.pty is set
    waiter,     \* where the goroutine that waits for the child is
    told,       \* children that were sent a signal
    toSignal,   \* Cancel: the status is changed, the signal is not sent
    toStop,     \* StopAll: processes that it has yet to cancel
    missed,     \* signals of Cancel that found no handle
    stopAlls

recordVars == <<records, requestToProcess, procStatus, requestOf, timed>>
childVars == <<launch, child, handle, waiter, told>>
endVars == <<toSignal, toStop, missed, stopAlls>>
procVars == <<recordVars, childVars, endVars>>

ProcessesTypeOK ==
    /\ records \subseteq Procs
    /\ requestToProcess \in [ProcRequests -> {0} \cup Procs]
    /\ procStatus \in [Procs -> {"none", "running", "exited", "cancelled", "failed"}]
    /\ requestOf \in [Procs -> ProcRequests \cup {"none"}]
    /\ timed \in [Procs -> BOOLEAN]
    /\ launch \in [Procs -> {"none", "filed", "started", "unsettled", "done"}]
    /\ child \in [Procs -> {"none", "alive", "gone"}]
    /\ handle \in [Procs -> BOOLEAN]
    /\ waiter \in [Procs -> {"none", "select", "terminate", "reap", "settle", "done"}]
    /\ told \subseteq Procs
    /\ toSignal \subseteq Procs
    /\ toStop \subseteq Procs
    /\ missed \subseteq Procs
    /\ stopAlls \in 0..MaxStopAlls

ProcessesInit ==
    /\ records = {}
    /\ requestToProcess = [r \in ProcRequests |-> 0]
    /\ procStatus = [p \in Procs |-> "none"]
    /\ requestOf = [p \in Procs |-> "none"]
    /\ timed = [p \in Procs |-> FALSE]
    /\ launch = [p \in Procs |-> "none"]
    /\ child = [p \in Procs |-> "none"]
    /\ handle = [p \in Procs |-> FALSE]
    /\ waiter = [p \in Procs |-> "none"]
    /\ told = {}
    /\ toSignal = {}
    /\ toStop = {}
    /\ missed = {}
    /\ stopAlls = 0

-----------------------------------------------------------------------------
(* Start.                                                                   *)

\* Mutant of Prunable: the oldest record goes, whatever its status.
PrunableAny == records

\* Records that pruneLocked may delete.
Prunable == {p \in records : procStatus[p] # "running"}

\* pruneLocked makes room when there is none: the oldest of them goes, and when
\* there is none the Start fails.
Roomy(room) ==
    \/ Cardinality(records) < MaxProcesses /\ room = records
    \/ /\ Cardinality(records) >= MaxProcesses
       /\ \E p \in Prunable : (\A q \in Prunable : p <= q) /\ room = records \ {p}

\* Start up to the end of its critical section.
FileRecord(p, r, t) ==
    /\ \A q \in Procs : launch[q] = "none" <=> q >= p
    /\ \E room \in SUBSET records : Roomy(room) /\ records' = room \cup {p}
    /\ requestToProcess' = [requestToProcess EXCEPT ![r] = p]
    /\ procStatus' = [procStatus EXCEPT ![p] = "running"]
    /\ requestOf' = [requestOf EXCEPT ![p] = r]
    /\ timed' = [timed EXCEPT ![p] = t]
    /\ launch' = [launch EXCEPT ![p] = "filed"]
    /\ UNCHANGED <<child, handle, waiter, told, endVars>>

\* startPTY or cmd.Start: the child runs.
Launch(p) ==
    /\ launch[p] = "filed"
    /\ launch' = [launch EXCEPT ![p] = "started"]
    /\ child' = [child EXCEPT ![p] = "alive"]
    /\ UNCHANGED <<recordVars, handle, waiter, told, endVars>>

\* The handle is stored, without the lock, and the child is waited for.
Publish(p) ==
    /\ launch[p] = "started"
    /\ launch' = [launch EXCEPT ![p] = "done"]
    /\ handle' = [handle EXCEPT ![p] = TRUE]
    /\ waiter' = [waiter EXCEPT ![p] = "select"]
    /\ UNCHANGED <<recordVars, child, told, endVars>>

\* failStart: the status is failed, also when it was cancelled.
FailStart(p) ==
    /\ launch[p] = "filed"
    /\ launch' = [launch EXCEPT ![p] = "unsettled"]
    /\ procStatus' = [procStatus EXCEPT ![p] = "failed"]
    /\ UNCHANGED <<records, requestToProcess, requestOf, timed, child, handle, waiter, told, endVars>>

-----------------------------------------------------------------------------
(* The end of a process.                                                    *)

ChildExits(p) ==
    /\ child[p] = "alive"
    /\ child' = [child EXCEPT ![p] = "gone"]
    /\ UNCHANGED <<recordVars, launch, handle, waiter, told, endVars>>

\* wait: the timeout comes first.
WaitTimeout(p) ==
    /\ waiter[p] = "select"
    /\ timed[p]
    /\ procStatus' = [procStatus EXCEPT ![p] = IF @ = "running" THEN "cancelled" ELSE @]
    /\ waiter' = [waiter EXCEPT ![p] = "terminate"]
    /\ UNCHANGED <<records, requestToProcess, requestOf, timed, launch, child, handle, told, endVars>>

\* terminateProcess
Terminate(p) ==
    /\ waiter[p] = "terminate"
    /\ waiter' = [waiter EXCEPT ![p] = "reap"]
    /\ told' = told \cup {p}
    /\ UNCHANGED <<recordVars, launch, child, handle, endVars>>

\* wait: cmd.Wait returned, with the exit of the child or with another error.
WaitDone(p, st) ==
    /\ waiter[p] \in {"select", "reap"}
    /\ child[p] = "gone"
    /\ procStatus' = [procStatus EXCEPT ![p] = IF @ = "running" THEN st ELSE @]
    /\ waiter' = [waiter EXCEPT ![p] = "settle"]
    /\ UNCHANGED <<records, requestToProcess, requestOf, timed, launch, child, handle, told, endVars>>

\* Mutant of FreeRequest: the request is freed whoever it belongs to by now.
FreeRequestAnyway(p) == requestToProcess' = [requestToProcess EXCEPT ![requestOf[p]] = 0]

\* A process that has ended gives its request free, unless a later one has it.
FreeRequest(p) ==
    requestToProcess' = [requestToProcess EXCEPT ![requestOf[p]] = IF @ = p THEN 0 ELSE @]

\* settled, after wait or failStart.  The context is cancelled, which nobody
\* waits for any more.
Settled(p) ==
    /\ \/ /\ waiter[p] = "settle"
          /\ waiter' = [waiter EXCEPT ![p] = "done"]
          /\ UNCHANGED launch
       \/ /\ launch[p] = "unsettled"
          /\ launch' = [launch EXCEPT ![p] = "done"]
          /\ UNCHANGED waiter
    /\ FreeRequest(p)
    /\ UNCHANGED <<records, procStatus, requestOf, timed, child, handle, told, endVars>>

-----------------------------------------------------------------------------
(* Signals.                                                                 *)

\* Signal goes to a running process; its status stays.
SignalCall(p) ==
    /\ p \in records
    /\ procStatus[p] = "running"
    /\ handle[p]
    /\ told' = told \cup {p}
    /\ UNCHANGED <<recordVars, launch, child, handle, waiter, endVars>>

\* Cancel up to the end of its critical section.
MarkCancelled(p) ==
    /\ procStatus' = [procStatus EXCEPT ![p] = IF @ = "running" THEN "cancelled" ELSE @]
    /\ toSignal' = IF procStatus[p] \in {"running", "cancelled"} THEN toSignal \cup {p} ELSE toSignal
    /\ UNCHANGED <<records, requestToProcess, requestOf, timed, childVars, missed, stopAlls>>

\* Cancel by name.
Cancel(p) ==
    /\ p \in records
    /\ MarkCancelled(p)
    /\ UNCHANGED toStop

\* CancelRequest.  When the record has left the table meanwhile, Cancel fails.
CancelRequest(r) ==
    /\ requestToProcess[r] \in records
    /\ MarkCancelled(requestToProcess[r])
    /\ UNCHANGED toStop

\* Cancel: signalProcess, whose error is dropped.
SendSignal(p) ==
    /\ p \in toSignal
    /\ toSignal' = toSignal \ {p}
    /\ told' = IF handle[p] THEN told \cup {p} ELSE told
    /\ missed' = IF handle[p] THEN missed ELSE missed \cup {p}
    /\ UNCHANGED <<recordVars, launch, child, handle, waiter, toStop, stopAlls>>

\* StopAll lists the running processes and forgets all requests.
StopAll ==
    /\ stopAlls < MaxStopAlls
    /\ stopAlls' = stopAlls + 1
    /\ toStop' = toStop \cup {p \in records : procStatus[p] = "running"}
    /\ requestToProcess' = [r \in ProcRequests |-> 0]
    /\ UNCHANGED <<records, procStatus, requestOf, timed, childVars, toSignal, missed>>

\* And cancels them one by one; one that has left the table is passed over.
StopNext(p) ==
    /\ p \in toStop
    /\ toStop' = toStop \ {p}
    /\ IF p \in records THEN MarkCancelled(p)
       ELSE UNCHANGED <<recordVars, childVars, toSignal, missed, stopAlls>>

ProcessesNext ==
    \/ StopAll
    \/ \E r \in ProcRequests : CancelRequest(r)
    \/ \E p \in Procs :
        \/ \E r \in ProcRequests, t \in BOOLEAN : FileRecord(p, r, t)
        \/ Launch(p)
        \/ Publish(p)
        \/ FailStart(p)
        \/ ChildExits(p)
        \/ WaitTimeout(p)
        \/ Terminate(p)
        \/ \E st \in {"exited", "failed"} : WaitDone(p, st)
        \/ Settled(p)
        \/ SignalCall(p)
        \/ Cancel(p)
        \/ SendSignal(p)
        \/ StopNext(p)

ProcessesSpec == ProcessesInit /\ [][ProcessesNext]_procVars

-----------------------------------------------------------------------------
(* Properties.                                                              *)

\* A child that runs is known as running (RunningWithin keeps its directory),
\* or it was told to end or is about to be told: no record is pruned and no
\* status changed under a child that nobody has asked to end.  The exception:
\* Cancel came before Start had stored the handle, its signal went nowhere, and
\* the child runs on.
ForgottenAreTold ==
    \A p \in Procs : child[p] = "alive" =>
        \/ p \in records /\ procStatus[p] = "running"
        \/ p \in told \cup toSignal \cup missed
        \/ waiter[p] = "terminate"

\* The request that started a process can cancel it while it runs, though an
\* earlier process of the same request ends late: a retry of the request may
\* have started a second one.  StopAll cancels those whose requests it forgets.
RequestCancels ==
    \A p \in Procs :
        procStatus[p] = "running" /\ (\A q \in Procs : q > p /\ launch[q] # "none" => requestOf[q] # requestOf[p]) =>
            requestToProcess[requestOf[p]] = p \/ p \in toStop
=============================================================================
