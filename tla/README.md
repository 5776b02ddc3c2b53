# CodeLocal: TLA+ models, checks and proofs

This directory models the parts of CodeLocal in which several processes have to
agree: cloud gateway replicas, the runtime on the user's machine, Redis and
Postgres between them; and the parts of the runtime that have to survive failed
writes, crashes and each other: agent teams and their event logs, leases, patches,
worktrees, child processes, shared connections. `PROJECT.json` ties every definition to the source lines it
stands for, every property to the run that checks it and to a change of the code's
logic that breaks it, and every theorem to its module.

Run a model with `tlc -workers 2 -config X.cfg MCModule`, the proofs with
`tlapm XProofs.tla`.

## 1. The system

An MCP client (an AI assistant) calls tools on a user's workspace. The call arrives
at one of several **gateway replicas** in the cloud; the workspace is connected by
WebSocket to one replica, possibly another one. On the user's machine one
**runtime** process keeps a control connection to the cloud and starts a **worker**
with a WebSocket of its own for every active workspace; the worker carries out the
tools. Replicas share Redis (leases, pub/sub, lists with a TTL) and Postgres.

```
 MCP client -> mcpgateway.Service -> gateway.Hub --------- WebSocket --> runtime worker -> Engine -> tools
                                   |  (this replica)                          |              |
                                   +-> Coordinator == Redis pub/sub ==> Hub   |          journal file
 dashboard  -> WorkspaceService -> ActivationStore == Redis lists ==> control connection --> Runtime
 knowledge  -> Store.Enqueue... -> Postgres outbox --> one worker per replica
```

### Inventory

| Component (source under `src/internal`) | State it keeps | Operations | What is hard | What makes it correct |
|---|---|---|---|---|
| Connection registry and owner lease (`gateway/hub.go`, `gateway/coordinator.go`) | `Hub.clients`, socket ends, the Redis key of the owner with a TTL | register, unregister, heartbeat, refresh, disconnect, close | the lease is refreshed by GET then SET; release is a compare on the replica's name; a replaced socket is closed after the lock, and read until then; half-open sockets; a replica dies | one socket per workspace and replica is kept, any other is about to be closed; the lease returns to the replica that has the connection |
| Call routing (`gateway`, `mcpgateway/server.go`) | `Hub.pending`, `Coordinator.pending` and `active`, messages | call, rebind once, route, answer, cancel, time out | pub/sub loses messages; the retry reuses the request id; a connection ends between two looks at it; the caller's wait has no deadline | handlers end, calls return unless their request or answer is lost, nothing outlives its call, results do not cross workspaces |
| Workers and idempotency journal (`runtime/runtime.go`, `localclient/engine.go`, `idempotency/journal.go`) | worker map, `calls`, `sideMu`, one in-memory journal per engine, one file | activate, stop, deliver, cancel, get/start/complete/fail/abandon | stop does not wait for handlers; each engine reads the file once; writes fail; the journal trims itself; crashes | a retried request is not carried out twice; no answer claims a success that did not happen |
| Durable outbox (`cloud/outbox.go`) | rows with status, attempts, availability, lease, owner | enqueue, claim a batch, process, succeed, retry with backoff, die, purge | one lease for a batch that is processed item by item; late workers; crashes | a settled row stays settled; a claim is held by one replica; every row is settled |
| Activation and revocation (`cloud/activation.go`, `gateway/workspaces.go`, `cloudserver/runtime_ws.go`, `runtime/realtime.go`) | two lists and a pending key per device, answers, waiters, the authorized set, the registry file | activate, revoke, pop, notify, acknowledge, sync, reconnect | answer stored before the subscription; request pushed while the lists are looked at; an old connection pops requests; two ways to acknowledge; a worker is stopped by a goroutine that nobody waits for | a reported revocation is in force, or its worker was told to stop; stored answers reach their callers; nobody sleeps through a request |
| Task execution (`taskexecution`, `localclient/task_execution_routing.go`) | bundle files with a persisted lease, an in-memory checkout lease, worktrees and their archive | ensure, claim, release, archive, remove | two leases that can part, and end under a slow tool; tools that ask for no lease, and commands that outlive their tool; one engine beside its successor; the limit on worktrees; restarts lose one of the leases | one owner of a checkout at a time, as long as the leases last; no work is removed that is due and not archived |
| Agent teams (`orchestration/agent_os*.go`, `runtime_v2.go`, `taskdag.go`, `verification_runtime.go`, `agentruntime`) | agent graph, activations, task DAG, verification gate, all rebuilt from an event log | prepare, execute in waves, cancel, settle, verify, finalize | appends that fail after they wrote; a crash between two records; a second execution beside the first | what is reported complete is complete after a restart; a node is worked on once |
| Usage ledger (`usage/reservations.go`) | committed and reserved usage | reserve, settle, release | estimate against actual | what is reported complete is settled |
| Coding kernel and recovery ledger (`orchestration/coding_kernel.go`, `failure_intelligence.go`) | the stage of the work, attempts by failure | advance, handle a failure, resume, complete | two events for one failure, and a crash between them | retries stay within their budget; complete stays complete |
| Task mailbox (`orchestration/mailbox.go`) | messages, rebuilt from the log | queue, deliver, acknowledge | one append per message, and one of them fails | presented once; acknowledged stays so |
| Durable runtime events (`runtimeevents/store.go`) | one file per task | append once per key, list | failures after the write, a torn line, keys that say too little | replay gives the state before the crash |
| Capability leases (`security/capability_lease.go`, `capability_lending.go`) | one file per token and status | issue, lend, authorize, revoke, expire | rename races between processes, identifiers issued twice | used at most once, and never after a revocation |
| OAuth token families (`oauth/token_family.go`, `cloud/user_security.go`) | current and previous id of a family, a cached security version | exchange, rotate, retry, revoke, change the password | a retry in the grace period against a replay; keys that expire; a stale cache | one live chain per family; a replay ends it; an old token soon stops to work |
| Savepoints and patch sets (`editing`) | file snapshots, hashes | capture, apply, roll back, seal, rewind | one file of several fails; the user edits in between | all or nothing; the user's text is kept |
| Approvals (`approval/broker.go`) | pending approvals, fingerprints | preflight, consume, prune | expiry against consumption, reissue | one approval, one use, of what was approved |
| Background processes (`process/manager.go`) | a table of records, the process of each request, children | start, signal, cancel, stop all, time out, settle | the handle is stored after the child was started; a retried request; a full table | a child that is forgotten was told to end; a request can cancel what it started |
| Local MCP hub (`mcphub/hub.go`, `managed_penpot.go`) | sessions by name, connects under way, a registry file that all hubs rewrite, a shared server with a count of its users | call, probe, add, remove, change the credential, sweep, close | connecting takes long and is done without the lock; four reasons to drop a session; the registry has no lock; a killed server answers for a while | no session is lost; none of an old configuration is used; the server lives as long as its users |
| Tool programs, task state (`toolprogram`, `taskstate`) | steps and their budget; a record per task | run, update | parallel steps | within the budget |

The rest (pages and APIs, stores of text, ranking and prompts, browser and desktop
automation, policy patterns, integrations, commands, the web dashboard) is listed in
`PROJECT.json` with the reason it is not modelled: it is I/O, formatting, or a pure
function of text.

How the modelled components meet: `callOperation` calls `WorkspaceService.Activate`
(ControlPlane) before it routes (CallRouting); routing reads the registry and the
lease (OwnerLease, which CallRouting extends); the routed call reaches a worker
(ToolExecution) that `Runtime.Activate` started (ControlPlane). The retry of
CallRouting is the second delivery of ToolExecution. A tool that changes files asks
TaskLease for the place to do so, under the mutex of its engine (`sideMu` of
ToolExecution). AgentOS, CodingKernel and Mailbox keep their records in the same kind
of log (EventLog). A tool may start processes under its request id (Processes) or call a
tool of another server (McpHub), for which a managed server is started (SharedBackend).

## 2. Modules

| Module | Models | Extended by |
|---|---|---|
| `OwnerLease` | registry and lease, every connection as one run of `ServeHTTP` | `CallRouting`, `MCOwnerLease`, `OwnerLeaseProofs` |
| `CallRouting` | composition: calls over the registry and the lease | `MCCallRouting`, `CallRoutingProofs` |
| `ToolExecution` | workers, handlers and journals of one runtime | `MCToolExecution`, `MCMachine`, `ToolExecutionProofs` |
| `TaskLease` | bundles, checkout leases and the worktree limit | `MCMachine`, `ToolExecutionProofs` |
| `RoutedCall` | abstract specification: a call that is worked on in one place at a time | instantiated by `CallRouting` |
| `Outbox` | rows, one worker per replica, time in ticks | `MCOutbox`, `OutboxProofs` |
| `WorkQueue` | abstract specification: a queue whose items are taken under claims that lapse | instantiated by `Outbox` |
| `ControlPlane` | one device and one workspace: callers, Redis, gateways, runtime | `MCControlPlane`, `ControlPlaneProofs` |
| `EventLog` | what an append may do to the log of a task | `AgentOS`, `CodingKernel`, `Mailbox` |
| `AgentOS` | a team: graph, activations, DAG, gate, ledger, and the executor over them | `AgentRuntime` |
| `CodingKernel` | the kernel of a task and its recovery ledger | `AgentRuntime` |
| `Mailbox` | the mailbox of one agent | `AgentRuntime` |
| `CapabilityLease` | the files of the lease store and its clients | `AgentRuntime`, `CapabilityLeaseProofs` |
| `OneShot` | abstract specification: a token that one client may take | instantiated by `CapabilityLease` |
| `Editing` | a patch set and its savepoint beside a user | `AgentRuntime` |
| `Processes` | the process table of an engine and its children | `AgentRuntime` |
| `AgentRuntime` | composition: the six parts above, from `AgentOS` on | `MCAgents`, `AgentRuntimeProofs` |
| `TokenFamily` | the refresh tokens of one login | `MCSessions`, `SessionsProofs` |
| `McpHub` | the sessions of a workspace with MCP servers | `MCSessions`, `SessionsProofs` |
| `SharedBackend` | the Penpot server that hubs share | `MCSessions`, `SessionsProofs` |

`AgentRuntime`, `MCMachine` and `MCSessions` hold several parts that share no state. Which part a behaviour
exercises is chosen in the first state (`part`), so the number of states is the sum of those
of the parts, and nothing is lost: no action of one part reads the variables of another.

Definitions whose name extends that of another (`InstallKeepsNew`, `LockFree`,
`PopActThenFile`...) are the changed versions used to test the properties; no
next-state relation mentions them.

### OwnerLease
A connection has two ends (`sock` at the gateway, `peer` at the device), so a
half-open one is a state. `pc` follows `ServeHTTP`: `installed` after the entry was
put in `Hub.clients`, `serving` after `ClaimOwner`, `releasing` between the mutex of
`unregister` and `ReleaseOwner`, `failed` after a registration error (the deferred
unregister does not exist then). `RefreshOwner` is `RefreshRead` and `RefreshClaim`,
because the GET and the SET are two round trips. `Install` swaps the entry of the map under the mutex; the
socket it replaced is closed after it, by `CloseReplaced`, and is open and read in between (`replaced` remembers it). `Crash` ends a replica with its
connections, the lease stays. The handshake before `register` is left out: a
connection enters the model once it is authenticated.

### CallRouting
Adds the caller (`cpc`: bind, dispatch, routed, done), the handler of each replica
(`hpc`), both pending maps, and the pub/sub as a set of messages that may be lost and
arrive in any order. `Transient` decides on the single rebind. `WaitResult`,
`WaitCtxDone` and `WaitClosed` are the arms of the select in `callLocal`, taken in
any order when several are ready. A caller waits on its own context, which has no deadline: only `HangUp`, the end of the MCP client's request, ends it. `Deadline` is that of the
`RoutedCall` and ends the context of the handler at the other replica. The cancellation of a call is a message that may be lost or come too early.
`RoutedCall` is what the client of a tool call relies on: a call is asked, sent, worked on at one replica and answered, and what it returns is the answer to
its last send or an error. `Routed == INSTANCE RoutedCall WITH call <- ...` maps the caller's position, its attempts, and the place of the request (messages under way, the handlers at
work, replies under way); `OnePlaceAtATime` says that every step of the routing is a step of that call or none.

### ToolExecution
A delivery is a request and the number of its attempt. Handlers are goroutines that
outlive the worker that started them. Each worker has `mem` (its journal) and `loaded`;
`disk` is the file. `Flush` may fail after memory was changed, and trims to
`MaxEntries`. `Engine.handle` is external: it succeeds, fails, or asks for approval.
Calls without side effects take neither lock nor journal and are left out.

### Outbox
Time passes in ticks and all times are countdowns, so that the state space is finite
without a cap on the clock. `Claim` takes any non-empty set of at most `BatchSize`
claimable rows: `SKIP LOCKED` makes any of them possible while another replica holds
row locks. `hold` is a history variable: how long this replica's claim still counts.
`attempts` is capped at `MaxAttempts`, beyond which the code makes no difference.
`WorkQueue` is the promise to those who enqueue: an item is taken under a claim that lapses with time, is taken again only when nobody counts on it, and once
settled stays so until it is purged. `Queue == INSTANCE WorkQueue WITH job <- ...` maps a row to its stage, its attempts, the owner it names and the
replicas whose claim still counts (`hold`); `LapsingClaims` says that the outbox implements it.

### ControlPlane
`revq`, `actq`, `pend`, `acks`, `results`, `authz` are the Redis keys, `catalog` the row of
the workspace, `owned` the lease (its own life is in OwnerLease). A connection has the
popping goroutine (`pop`, `hand`), the events channel of one place (`buf`), the reader,
and the two directions of the socket. The device opens the next connection when it
likes; the old one lives on in its gateway, pops requests and writes them to nobody.
`DevList`, `PostReconcile`, `PostAnswer`, `DevSynced` are the steps of one `SyncRegistry`. `DevList` starts a goroutine that will
stop the worker and goes on; until `StaleWorkerStop` the worker is `doomed` and serves (`Serves`).
Pipelines of Redis commands are taken as one step. A POST whose client has given up
is not completed by the server (its context ends with the request).
`spoiled` remembers that the registry file refused a removal, or that the user added
the workspace again.

### EventLog
`AppendOutcomes` is what `Store.Append` may do: write the event once per idempotency key
and succeed; fail before the write; fail after it, so that the line is there although the
caller was told otherwise; or leave a part of a line, after which the whole file cannot be read. Each
kind of record is rebuilt from its own events, so the models keep a sequence per record.

### AgentOS
A member of the plan is its agent, its node of the DAG and its activation. `PrepareAgentOS`
reserves the budget and writes the records one by one; `ExecutePreparedAgentOS` runs waves of
at most `Parallel` runnable nodes, with a goroutine each that activates, starts the engine's
session (external: it succeeds, fails, or is cancelled), settles and writes what
came of it. Another execution may be called while one runs and after a restart, which
rebuilds every record from the log.

### CodingKernel
The stages and the moves between them are those of `coding_kernel.go`. A failure is decided
by the ledger (an event of its own) and then moves the kernel (another one); the process may die between the
two. `granted` holds the occurrences that were told to try again. `late` holds those whose decision was written by an append that
failed: the caller is told of an error, and memory does not count the attempt.

### Mailbox
`Deliver` holds the lock and appends one event per queued message, in order; at the first
failure it returns those it has moved so far. Expiry is decided by the time of the call, so the
clock does not move while `Deliver` works.

### CapabilityLease and OneShot
A client's call is a read, a decision, a rename and a record; only the rename is atomic, and there is no
lock. `Issue` looks for an unused identifier and then creates the file exclusively, so two
clients may see the same identifier unused, and a spent one may be written again: every file written is a
token of its own, `<<identifier, number>>`. `OneShot` is what callers rely on: a token is live, then
taken by one client or gone, and granted to the client that took it or to nobody.
`Tokened == INSTANCE OneShot WITH place <- ...` maps the files, the calls under way and the answers given
to the place of a token, and `OneShotTokens` says that every step of the store is one of the
abstract steps or none.

### Editing
A file has two regions, each with the original text, the agent's or the user's: enough for a
three-way merge that is clean, one that conflicts in one place and one that conflicts in two. `ApplyPatchSet`
validates all files, looks at each a second time as it writes it, and rolls back from its
backups. `unseen`, `userOwns`, `crossed` and `overwritten` are history variables about the user's edits: `userOwns` holds the regions with
text of the user's that the agent has not seen, or does not mean to change. A user who restores exactly the text that the proposed
patch was made for has restored text that the agent means to change, and no comparison of hashes can tell the two apart.

### TaskLease
`Manager.Ensure` is followed step by step for a new and for an existing bundle: lease, checkout lease,
worktree, write of the bundle (with the lease as it was read or claimed), and what an error gives back. `ReconcileLimit` lists, archives (a push that is
refused when the task has been archived before) and removes. Engines share the files; each has its own `retentionMu` and its own limit.

A tool that has asked works in the repository it got (`Return`), and nothing ends with it: a lease ends by its two minutes, at any time and whatever is at
work (`ExpireBundle`, `ExpireCheckout`), since a call may take longer and a `git push` has no timeout. `UseUnasked` is a tool that makes no call of Ensure: git
in the place of a bundle that has the repository, and a command in the root of a workspace in live mode. `Background` turns the tool into a process that goes on after the
tool has returned; the limit sees the processes of its own engine (`bundleIsRunning`), but not one that was started while it was already removing the worktree ("late"), nor
those that outlive their runtime ("orphan").

`due` is work in a worktree that the limit has to respect and that is not archived yet; `lost` holds worktrees that were removed with such work; `ended` holds checkout leases that
ended and were not taken again; `raced` says that calls of two engines overlapped.

### TokenFamily
A request verifies, learns the security version from the cache or the database, and
runs the rotation script; the script is one step, as Redis runs it. Tokens are numbers in the order of their minting, so the successor
of a token is the next number. A token is older than the password by the rule of `validateTokenAgainstSecurityState`: by its version,
or, if it has none, by the time it was issued. `known` holds those whose answer reached the client; only these are
presented. All times are on one clock.

### Processes
`launch` follows `Start`: the record is filed under the lock, the child started and its handle stored
without it. `waiter` follows `wait` and `settled`. `Cancel` is two steps, the status and the signal, and so is `StopAll`: the list and
the cancels. Processes are numbered in the order of `StartedAt`, which pruning goes by. `told` holds the children that were sent a signal, `missed` those whose signal
found no handle; whether a child obeys is its own affair.

### McpHub
A call resolves its server, looks the tool up in the catalog (found or not, which is left open), probes if needed, and connects. `connect`
is followed from lock to lock: credential, reuse or wait, dial, store, and the deferred end that wakes those who wait and begin again.
A configuration and a credential are versions, and `made` says which one a session was made with: the code knows that of credentials only. `Add`, `Remove` and a new
credential reference write first and disconnect later (`admin`). The registry is a file of all hubs that is read whole and written whole without a lock: `Add` and `Remove` keep
the copy they have read (`admin.file`), and other hubs read and write back theirs at any time (`elsewhere`). Two history variables: `behind`, sessions that were filed with a version
that was no longer the current one, and `undone`, sessions whose configuration somebody changed by writing the file for another server or from another hub.

### SharedBackend
`refs` and `server` are under one lock, `penpot` of each hub under another, and `ensureManagedPenpot` goes from one to the other; `holder` is the hub
that waits for a new child with the first lock held. `ReleaseRef` sends Kill and returns: the child is `killed` and answers until it ends (`KilledEnds`), so a hub that
looks in between finds a server that is about to go. `misled` holds the hubs for which that was the last look (`Found`); `twice` is a history variable too.

## 3. What the runs check

| Run | Instance | States | Shows |
|---|---|---|---|
| `lease` | 1 workspace, 2 connections to one replica and 1 to another | 24k | `OneSocketKept`, between the swap of the entry and the close of the replaced socket too; `LeaseReturns` although an older connection releases the lease of a newer one, or a half-open or failed entry stays on the old replica |
| `route_two_replicas` | 1 retryable call, a workspace that moves, 2 faults | 1.2M | `SingleHandler`, `NoOrphans`, `OnePlaceAtATime` |
| `route_liveness` | a routed call of a workspace that moves, a second workspace whose connection stays, 1 fault | 149k | `CallReturns`, `HandlerEnds`, `ResultFromOwnWorkspace` |
| `tool_worker` | one retried request, 2 workers, stops, crashes, journal errors | 115k | `SameWorkerOnce`, `OnceWithoutStop`, `DeliveryEnds` |
| `machine` | two of three requests, room for one entry, overlapping workers; two engines, two tasks, two repositories, a limit of one worktree, three tools or settings of the limit, a failed step and a crash | 2.2M | `OkMeansRan`; `CheckoutExclusive`, `NoWorkLost` |
| `outbox` | 2 rows, 2 replicas, a batch as long as its lease, a fault, a purge | 190k | `LeaseExclusive`, `RetryDelay`, `LapsingClaims`, `Settles` |
| `control` | 1 revocation, 1 activation, 2 connections, 1 fault | 2.6M | `RevokedGone`, `AnswerReaches`, `NoLostWakeup` |
| `agents` | a team of three, a kernel with three failures, two messages, two leases and two clients, three files and two edits of the user, two processes of one request in a table of one; a failed append and a crash each | 778k | `CompleteIsDurable`, `SessionOnce`, `DependenciesFirst`; `RetryBudget`, `CompletedStays`; `PresentedOnce`, `AcknowledgedStays`; `AllOrNothing`, `UserKept`; `ForgottenAreTold`, `RequestCancels`; `OneShotTokens` |
| `sessions` | 2 requests at a time, 4 tokens, 4 ticks, a password change; 2 calls, 2 servers, 2 sessions, a change of the registry, a copy of it in another hub; 2 hubs, 2 children, a death | 2.8M | `OneSuccessor`, `ReplayEnds`, `PasswordEnds`; `NoSessionLost`, `StaleOnlyByRace`; `ServerKept` |
| `hot_path` (violated) | as `lease` | | see findings |
| `tool_overlap` (violated) | as `tool_worker` | | see findings |
| `outbox_overlap` (violated) | a batch of three, a lease of three ticks | | see findings |

Why the bounds are enough. Two replicas, two connections and two deliveries are what
the races are between: old against new. A fault is a lost message, a broken
connection, a failed write or a crash; the bounds on faults say how many happen, and one
suffices to start a retry, a reconnect or a second execution, two (in `route_two_replicas`) to disturb the
retry as well. A lease of two ticks and a batch of two one-tick items is the smallest
instance in which a late item is lost to another replica. Two overlapping revocations
(`Revs = {v1, v2}`) keep the same invariants with 3.8M states; the run uses one of each
kind because the two lists and their order of popping matter more. A team of three has a member that
others wait for and two that run in parallel; budgets of 6 and 7 are just what the team reserves and one
more. Three ensures are one that takes a place, one that
wants it, and one more call of the first owner; unasked tools and settings of the limit count with them. `machine` takes TaskLease in two parts: "live", where everybody works in
checkouts, and "tree", where the first task is in safe mode; a behaviour of "tree" ends when calls of two engines overlap, since `NoWorkLost` says nothing from then on.
`sessions` lets another hub write the registry ("file") in behaviours of their own, without the sweeper and `Close`. Four tokens allow a rotation, a lost answer, a retry in the grace
period and a replay from before; four ticks, twice the life of a token, let keys expire. Two processes in a table of one make
the second prune the first (three of them: 13.9M states, the same result); two sessions let one replace another; three hubs over the shared server (1.9M states) show nothing that
two do not. The proofs remove the bounds for the
properties they cover. Deadlock is not checked where the system may rest (all calls done,
no device connected); it is checked for the outbox, whose clock always ticks.

The table leaves out type invariants. `AgentsTypeOK` is checked by its run; the others (`LeaseTypeOK`, `CallTypeOK`, `ToolTypeOK`, `OutboxTypeOK`, `ControlTypeOK`,
`McpHubTypeOK`, `SharedBackendTypeOK`) hold in the same instances and can be added to the configurations. All of them are theorems (section 4). The types of
TaskLease and TokenFamily are part of their inductive invariants (`TaskTypes`, `TokenTypes`).

Properties with an exception name it. `RetryBudget` leaves out decisions written by an append that failed;
`CheckoutExclusive` speaks of tools that asked, and leaves out
those whose lease has ended by its time, by a later call that failed, or with the process; `NoWorkLost` leaves out what somebody without a live lease writes while the worktree is being removed, and everything after calls of two
engines that overlapped; `CallReturns` a call whose client waits while its request or answer is lost, or while its connection is up and silent for good; `RevokedGone` lets a worker that was told to stop serve a little longer;
`OneSuccessor` and `ReplayEnds` a request that verified its token in the last moment of its
life (`overdue`); `UserKept` an edit after the check of a file and before its write or rollback (`crossed`), or between the capture
and the agent's look; `ForgottenAreTold` a signal that came before the handle was stored; `StaleOnlyByRace` a connection that was under way during the
change, and a registry written by somebody whose copy was older (`undone`); `ServerKept` a server that died, a hub that closed while it made sure of the server, and one that found only a killed child. Without the exception TLC finds each of them violated.

### Fairness
- OwnerLease: goroutines that can step do (register, unregister, heartbeat). Strong
  fairness of `RefreshClaim`: the SET after a GET is prevented only while something else
  happens to the connection, and one that is refreshed on every tick and every pong gets through.
  A lease expires when nobody refreshes it. Nothing is assumed of devices, connections or crashes.
- CallRouting: goroutines step; a message is delivered or lost; the heartbeat closes a connection that went silent; and the deadline of a `RoutedCall` passes, which bounds the handler at the
  other replica (coordinator.go:150-158) and nobody else. Nothing is assumed of the MCP client or of the runtime's answers. In particular nothing ends the caller's wait:
  `CallReturns` says that a call returns, or else waits for ever in one of two named ways.
- ToolExecution: every handler goroutine makes progress, and `sync.Mutex` serves its waiters.
- Outbox: the clock ticks and the worker of a live replica steps.
- ControlPlane has no liveness property: nothing in the code promises that a popped
  request is delivered. AgentOS, CodingKernel, Mailbox, CapabilityLease, Editing, TaskLease, TokenFamily, Processes, McpHub and SharedBackend have
  none either: they step when somebody calls them, and nothing retries what failed.

### Findings
1. **`hot_path`**: when `UpsertWorkspace` or `ClaimOwner` fails, `ServeHTTP` returns before the
   deferred `unregister` exists (hub.go:335-339) and the entry stays in `Hub.clients`. The comment at hub.go:633 says
   the hot path is for a gateway that "already owns the WebSocket".
2. **`tool_overlap`**: `Stop` does not wait for handlers and every worker has a journal of its own, so a
   delivery that is queued on the stopped worker and its retry on the next one both run;
   `docs/operations/PRODUCTION_PLAN.md` asks that retries cause no duplicate writes. `OnceWithoutStop` in `tool_worker` shows
   that this needs a stopped worker: with restarts alone the journal does its work, as long as it has room.
3. **`outbox_overlap`**: one lease covers a whole batch, although the comment at outbox.go:341 reasons about
   one item. `LeaseExclusive` and `LapsingClaims` show what the fencing by `worker_id` still guarantees.

### What the code does that no property forbids
Gateway and runtime:
- The late `unregister` of a replaced connection fails calls that were sent on the connection that replaced it (hub.go:486).
- Whether a call whose connection ended is rebound depends on the arm that the select takes (hub.go:608).
- A retried automation call bypasses the journal and is carried out twice (automation.go:86).
- The end of one handler deletes the cancel function of a second delivery with the same id (runtime.go:774).
- Two revocations of one workspace share one pending key: the first caller times out although the workspace is gone (activation.go:295).
- `handleRuntimeRevocation` acknowledges a revocation that the registry refused (realtime.go:187); `RevokedGone` excludes this by `~spoiled`.
- A call can wait for ever: `callOperation` gives its context no deadline, `Hub.Call` writes its 180 seconds into the `RoutedCall` only (hub.go:616-619), and the wait of `Coordinator.Call` ends with a message or
  with the client. A lost request, a lost answer or the death of the other replica is enough.
- `Revoke` may answer OK while a worker still serves the workspace: the sync only starts `go worker.Stop` before it posts (runtime.go:384-386).
- A replaced socket is open, and its results are taken, until `register` closes it after its unlock (hub.go:451-452).
- `Runtime.Activate` reports success for a worker that is about to leave the map.
- A row whose processing kills its replica is claimed for ever: only a returned failure compares the attempts with the maximum (outbox.go:58).

Agents. Two definitions state what comments say and no run checks, because the code does not keep them:
- `AgentOS!EvidenceIsDurable`: the key of a verification event has no status (verification_runtime.go:146), so a second verdict on the same
  evidence is taken for the first and not written (runtimeevents/store.go:142-147). `ReadyToFinalize` goes by memory, although its comment
  (runtime_v2.go:143) says that all required evidence must be durable and passing.
- `CodingKernel!KernelReplays`: two moves with the same revision, one of them after an append that failed late, leave a log that the next
  start refuses.
- Other keys are as short: a DAG update has only the revision, a mailbox update has no status, so a message can be expired in
  memory and delivered in the log.
- The executor ignores the decision of `Settle`, which its comment (reservations.go:94-96) says prevents further dispatch. Errors before the
  engine starts, or after its session, return without release or settlement.
- A `PrepareAgentOS` that died after it had spawned an agent cannot be repeated: `Spawn` refuses the agent that exists.

Files and leases:
- `Editing!RewindKeepsUser` is violated: an edit between the capture and the agent's read is in the sealed content, and the rewind takes it back.
- `git merge-file` exits with the number of conflicts, so two of them are reported as a failing tool and not as a conflict. A crash in the
  middle of `ApplyPatchSet` leaves the patch half applied; a rollback overwrites what the user wrote after the write.
- With two engines, the limit of one works from a list in which the lease that the other has just taken is missing, and may remove the leased worktree: `NoWorkLost` needs its exception `raced`.
- Leases are for two minutes and are renewed only by the next `Ensure`: a slow command or push, and every background process, works on in a checkout that another task may have by then.
- Git tools in the place of a bundle and commands in the root of a live workspace take no lease at all, so they work in a checkout whoever has it.
- A later `Ensure` of the same task and owner that fails gives up the leases of the first (manager.go:292, 301, 317, 324). A task
  that was archived once cannot be archived again, and keeps its slot. `Put` overwrites a lease that another engine claimed.
- Revoking a capability lease leaves those that were lent from it active.

Tokens: a family key that Redis evicted is made again with whatever token is presented first; an old-version token works for as long as a
cached state and two requests last after the password change.

Processes and MCP servers:
- A process that is cancelled between its record and its handle runs on, until its timeout if it has one, or until it is cancelled once more by
  name. The table may forget a cancelled child that still runs, and `RunningWithin` says then that its directory is free.
- `StopAll` misses a process whose `Start` files its record after the list was made.
- The comment at manager.go:389 says that not running is a completion barrier for the output. It is for a child that exits; after `Cancel` the status
  changes at once, and with a PTY nobody waits for the reader.
- Two hubs that change the registry at a time lose a change: the file is read and rewritten without a lock. A session can go on with the configuration that the other hub has replaced, and an
  unrelated `Add` can bring a removed server back.
- The last hub that gives the Penpot server up does not wait for the end of the child it killed. A hub that looks in between is counted on a server that is going away, and finds it gone at its next look.
- A session that was being made during `Add` or `Remove` is filed after their disconnect, and calls of the new configuration use it until it is idle.
  One that is made after `Close` is never closed.
- After the death of the Penpot server its count starts at zero although hubs still rely on it: the next hub that closes kills the new
  server under them. A hub that is closed while it makes sure of the server gives it up twice, or keeps it for ever.

## 4. What is proved

All proofs are for any sets of replicas, connections, requests, rows, messages and files, and any bounds. Every invariant, action
property and refinement that a run of section 3 passes is a theorem. The inductive invariants were checked by TLC before they were proved.

| Theorems (module) | State that always | Inductive invariant |
|---|---|---|
| `LeaseTypeCorrect`, `OneSocketKeptHolds` (OwnerLeaseProofs) | `LeaseTypeOK`, `OneSocketKept` | `RegistryInv`, the property and the types |
| `RoutingInvariant`, `HandledOnce`, `NothingOrphaned`, `OwnWorkspaceAnswers` (CallRoutingProofs) | `CallTypeOK`, `SingleHandler`, `NoOrphans`, `ResultFromOwnWorkspace` | `RouteInv` |
| `RoutingImplementsCall` (CallRoutingProofs) | `OnePlaceAtATime` | `RouteInv` |
| `ToolTypeCorrect`, `SameWorkerOnceHolds`, `OkMeansRanHolds`, `OnceWithoutStopHolds` (ToolExecutionProofs) | `ToolTypeOK`, `SameWorkerOnce`, `OkMeansRan`, `OnceWithoutStop` | `OnceInv`, `OkInv`, `OneLive` and `Durable` |
| `TaskInvariant`, `NoWorkLostHolds`, `CheckoutExclusiveHolds` (ToolExecutionProofs) | `NoWorkLost`, `CheckoutExclusive` | `TaskInv` |
| `LeaseExclusiveHolds`, `FinalHolds`, `OutboxInvariant`, `RetryDelayHolds` (OutboxProofs) | `LeaseExclusive`, `Final`, `OutboxTypeOK`, `RetryDelay` | `ClaimInv`, `CountInv` |
| `OutboxImplementsQueue` (OutboxProofs) | `LapsingClaims` | `QueueInv` |
| `AnswerReachesHolds`, `NoLostWakeupHolds`, `RevokedGoneHolds` (ControlPlaneProofs) | `AnswerReaches`, `NoLostWakeup`, `RevokedGone` | `AnswerInv`, `WakeInv`, `RevokeInv` |
| `ControlTypeCorrect` (ControlPlaneProofs) | `ControlTypeOK` | the three above, `FlowTypes`, `FlagTypes` |
| `CapabilityTypeCorrect`, `StoreRefinesOneShot` (CapabilityLeaseProofs) | `CapabilityTypeOK`, `OneShotTokens` | `CapabilityInv` |
| `HubInvariant`, `NoSessionLostHolds`, `StaleOnlyByRaceHolds` (SessionsProofs) | `NoSessionLost`, `StaleOnlyByRace` | `HubInv` |
| `OnePlaceHolds`, `HubTypeCorrect` (SessionsProofs) | `OnePlace`, `McpHubTypeOK` | `HubInv`, `OnePlace` |
| `BackendInvariant`, `ServerKeptHolds`, `BackendTypeCorrect` (SessionsProofs) | `ServerKept`, `SharedBackendTypeOK` | `BackendInv`, `ChildTypes` |
| `FamilyInvariant`, `OneSuccessorHolds`, `ReplayEndsHolds`, `PasswordEndsHolds` (SessionsProofs) | `OneSuccessor`, `ReplayEnds`, `PasswordEnds` | `FamilyInv` |
| `ProcessInvariant`, `ForgottenAreToldHolds`, `RequestCancelsHolds` (AgentRuntimeProofs) | `ForgottenAreTold`, `RequestCancels` | `ProcessInv` |
| `MailInvariant`, `PresentedOnceHolds`, `AcknowledgedStaysHolds` (AgentRuntimeProofs) | `PresentedOnce`, `AcknowledgedStays` | `MailInv` |
| `KernelInvariant`, `CompletedStaysHolds`, `RetryBudgetHolds` (AgentRuntimeProofs) | `CompletedStays`, `RetryBudget` | `RuntimeInv` |
| `EditInvariant`, `AllOrNothingHolds`, `UserKeptHolds` (AgentRuntimeProofs) | `AllOrNothing`, `UserKept` | `EditInv` |
| `TeamInvariant`, `SessionOnceHolds`, `DependenciesFirstHolds`, `CompleteIsDurableHolds` (AgentRuntimeProofs) | `SessionOnce`, `DependenciesFirst`, `CompleteIsDurable` | `OSInv` |
| `AgentsTypeCorrect`, `AgentsPromise` (AgentRuntimeProofs) | `AgentsTypeOK`, and every property of a part, in the composition | those of the parts, `KernelBounds` |

### The arguments

**OneSocketKept**: only `Install` takes the entry from a connection that is registering or serving, and it remembers that connection as the one to close; `unregister` takes away only the
entry of its own connection, which is no longer serving then. That no registration is about to close the entry needs `RegistryInv`: what is in `Hub.clients`, or is to be closed, has
registered before, at the same replica, so a connection that is installed is nobody's replaced one.

**CallRouting.** The request id is a token, which is in one place: with `callOperation` before it dispatches (`CallerAlone`), in one message, or with one
handler (`OneToken`). `Addressed` says which replica a message or handler may be at. A rebind takes the token back only when the first attempt has none
left: `Transient` errors are those of a call that was never published or whose handler has answered. This is why a routed timeout may not be
retried, and the mutant that retries it is caught. `OwnResults` follows a success from the connection that produced it, over the pending entry, the handler and the
message, to the caller.

**RoutingImplementsCall**: the same token is what the abstract call moves about. `OneToken` and `CallerAlone` make the place of the work empty or a single one, so that
every step of a caller, a handler or the pub/sub is one abstract step: a publication `Send`s, a delivery `Arrives`, a handler's end `Replies`, the arms of the
caller's select answer or give up, and a cancellation that comes early or late changes nothing. The only step that moves several calls at once is the death of a
replica (`Dies`), for which the work of each call is followed by itself.

**SameWorkerOnce** is not inductive: that the second delivery does not run follows from what the
journal holds and from who holds `sideMu`. The invariant `OnceInv` adds: a handler
between lock and answer holds the mutex of its worker (`Holds`); automation calls never reach the journal
(`Journaled`); a handler past its check has found no entry or a failed one, and one that is running has an entry `started`
in its worker's memory (`Known`); a delivery that ran is about to be recorded, is recorded as completed, or died with the
process (`RanRecorded`). `OnlyOne` then follows step by step.
The journal having room (`Cardinality(Requests) <= MaxEntries`) is needed, since trimming forgets entries: `machine`
has no such room, and the property there is the weaker `OkMeansRan`.
**OnceWithoutStop** goes over the lives of the process: a process that has stopped no worker has one living worker (`OneLive`); while a tool runs
the file says `started`, and once it ran, neither the file nor the journal in memory forgets it (`Durable`), so that what the next process
loads refuses the second delivery.

**TaskLease.** For checkouts: a tool that asked, the processes it left, and a call that will let one work, have the lease, or the lease has ended (`Has`, `Leased`); a
lease that somebody else takes has not ended by that, so two that are at work need two holders. For worktrees: as long as no calls overlapped, one engine is at work (`Alone`), and what it has
listed differs from the bundles by leases that ended (`AsListed`). What it is about to remove has no live lease from the look at the bundle on (`Loose`), since only a call of Ensure makes
one; a process that the engine knows of is not in a worktree that the engine removes (`Seen`). So nothing that is done there is due, and after the archive nothing else is (`Limited`).

**Outbox.** `Backed`: a claim that still counts is written in the row with this replica as owner and the same time left; two claims would need two owners.
`Counts`: as long as a row names a replica, the attempts that replica took with its claim are those of the row. `RetryDelay` then needs
what the loop of `durableOutboxBackoff` computes: `BackoffFacts` proves that its value is `Base * 2^(n - 1)`, cut off at `Maximum`, for every n. The prover has no
induction over data; these lemmas take the least number at which the statement fails (`WFMin` of WellFoundedInduction) and refute it.
**OutboxImplementsQueue** maps each row by itself and needs two facts more (`QueueInv`): a row that is not in the table has had no claims (`Fresh`), and a replica counts
only on claims of items it has in hand (`InHand`), so that by claiming a batch it lets go of none. A claim of a batch is `Take` of all its rows at once, a tick of the clock `Lapse`s those claims whose time is over,
and an update by a replica whose claim was taken over changes no row, because it is fenced by `worker_id`.

**NoLostWakeup** is strengthened to `SignalFollows`: from the moment a goroutine has found the first list
empty, and not only once it sleeps, a request on that list means that a signal is on its way or
its waiter is closed. It is the order in `WaitForNext`, file the waiter before looking, that makes the steps go through.
**AnswerReaches** is inductive with the types of what it reads: a caller gets to its wait only by a look
that found nothing, and whoever stores an answer sends it to the callers that have subscribed by then.
**RevokedGone**: `Evidence` is everything that leads to an acknowledgement or follows from one: the device has taken the revocation, or lists a registry without the
workspace; an acknowledgement is on a socket, with the reader, in a POST, stored, published or returned. While the registry file has refused nothing and the
user has not added the workspace again, evidence means that the workspace is out (`Out`): not in the registry, no worker that was not told to stop, and none about to be started. A doomed worker can only go on to be stopped:
an activation may be told that it is there, which starts nothing.
**ControlTypeCorrect** follows the requests from the lists over goroutines, channels and sockets to the device (`FlowTypes`), and reads the rest off the three invariants.

**StoreRefinesOneShot** is the refinement of OneShot. The map from files to places needs an invariant, `CapabilityInv`: the active
file of an identifier is the last one written for it (`LastIsActive`); a client holds a file exactly while it has the record of a use to write (`HoldersRecord`); a file has one holder and is then not active (`HeldOnce`); a use was allowed to one client,
and to nobody while the file is active or held by another (`AllowedOnce`). Then every action is one abstract step: the exclusive write is `Issued`, the rename `Taken` (of whatever file
is there by then, which need not be the one that was read), the record `Allowed` or `Gone`, and
reading changes no place.

**McpHub**: one goroutine connects to a server, and only while there is no session (`OneConnects`); what it files was made with the version it had
read (`MadeAsRead`). `OnePlace` says where an open session is: in the map under one name, about to be closed, or in the hands of the one call that will file it or
close it; what `disconnect` takes from the map is therefore nobody else's. `StaleOnlyByRace` is inductive with these: `Written` is the one operator by which the file changes, and it puts every
session whose version it changes into `undone`, unless the writer is about to disconnect it. **SharedBackend**: as long as no child died and no hub gave the server up twice, `refs` is the number of hubs that use it and of those
whose `Close` has yet to give theirs up (`Counted`), which needs the cardinality of the two sets at every change; a child that answers is the server or was killed (`Watched`); and a hub that uses the
server without having been misled has one (`Told`). **TokenFamily**: the code is redeemed
once (`OneLogin`); the family key outlives its tokens and its current id is that of the last token minted (`Chain`); what a request or the cache holds of the
security version is no older than the request and the cache's life allow (`RequestOK`, `CacheOK`), from which `PasswordEnds` gets its bound.

**Processes**: how far `Start`, the child and the goroutine that waits for it may be apart (`Started`); a child that runs is in the table as running, or was told, is about to be told, or was
missed (`Minded`). **Mailbox**: the log of a message holds its revisions in order, and memory has the last one or the one before it, because an
append may fail after it wrote; what `Deliver` has handed out is past "queued" in both. **CodingKernel**: the same of the kernel (`KernelInMemory`), a
reported completion being the highest revision of the log (`KernelFinished`); of the ledger, that attempts in memory count every decision whose append
worked (`LedgerInMemory`) and that no two such decisions have the same attempt (`LedgerLogged`), so that the granted ones can be counted by their attempts.

**Editing**: a file that was checked and not written since is what the patch expects (`Unwritten`); regions of the user hold the user's text (`Owned`); the patch, and the way back,
change only the agent's regions of a file that is as the agent saw it (`MeansWell`, `RewindsOwn`). **AgentOS**: for every member, what log and memory may say of its
activation, its node, its agent and its reservation at each point of its goroutine and of the executor (`MemberOK`); an engine starts after its dependencies (`Ordered`); the nodes
that a preparation has passed are new (`Prepared`). Completion is durable because `NodeOK` lets memory say "completed" only when the log does.

**AgentsTypeCorrect**: most types are part of the invariants above. What they lacked are the bounds of the kernel's revision: `HandleFailure` writes two events, and between them the revision
must leave room for the second (`KernelBounds`). `AgentsPromise` puts the parts together: a step of the composition is a step of one part and leaves the variables of the
others alone (`PartsBehave`), so that what holds of a part by itself holds of `AgentsSpec`.

### Assumptions
Only those on the constants (`ConnAssumption`, `ControlAssumption` and the like), which TLC evaluates in every run. Those that are more than types: a
cached security state lives for some time (`CacheTTL > 0`); "none" is not an owner, as `Store.Claim` refuses an empty one; `None` is not a
result; a kernel has room for the revision 1 that it is initialised with (`MaxRevision > 0`); a patch and a plan name each file and member once; failures that go to the user have no retries.

### What the proofs changed in the models
- `UserKept` was false beyond the bounds of the run: a user who edits a file back and forth restores what the check compares with. `userOwns` now
  says whose text a region is in that case, and the rollback of a file that the user wrote in between is named as an exception.
- `PasswordEnds` was false for a token without a version that was issued in the tick of the change, with a long refresh life; "older" is now the rule of the code.
- `OnceWithoutStop` needs room in the journal, which the run had and the statement did not say.
- `NoWorkLost` was false of a process that is started in a worktree that is being removed, which the limit has no more look at: "late" tells it from one that the limit saw.
- Worktrees and archives are kept per task and repository, as in the code; the cases of a rewind are disjoint.
- `KernelTypeOK` is false of a kernel without room for its first revision; the assumption now asks for it.

### Only model-checked
- Liveness (`LeaseReturns`, `CallReturns`, `HandlerEnds`, `DeliveryEnds`, `Settles`): fairness is out of the prover's reach.
- The three violated properties of section 3.

## 5. Plan

Done, in this order: OwnerLease, CallRouting, ToolExecution, Outbox, ControlPlane (a call that is lost, doubled or sent to the wrong
place is the worst the system can do); then TaskLease, CapabilityLease with OneShot, AgentOS, CodingKernel and Mailbox over EventLog,
TokenFamily, Editing, Processes, McpHub, SharedBackend.

Next modules, by weight:
1. `Approval`: preflight, consume, expiry and reissue. `ConsumeScoped` accepts another session with the same action, although
   the comment at broker.go:172 says otherwise: the property to state.
2. The task state and tool programs; the catalog and the global scope of the MCP hub.
3. Idempotency across restarts as an abstract specification: a request that is carried out at most once until it is forgotten, which `ToolExecution`
   would implement where `OnceWithoutStop` holds.

Further proofs: the composition theorem of the agent runtime for the two other compositions (`MCMachine`, `MCSessions`), whose parts are proved one by one.

### Not modelled
Approvals, task state and tool programs are planned (above). The rest is out of
reach or has nothing to check: handlers of pages and APIs and the SQL of the store are one transaction each; knowledge, memory, skills, planning
and prompts are ranking and text; browser and desktop automation, language servers, configuration and integrations are I/O
with other programs; policy patterns and signatures are pure functions of text and cryptography; the web
dashboard and the former TypeScript runtime are clients, or are replaced. `PROJECT.json` names each with its sources.
