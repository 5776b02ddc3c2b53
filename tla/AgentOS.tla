------------------------------- MODULE AgentOS -------------------------------
(***************************************************************************)
(* A team of agents works on one task (internal/orchestration/agent_os.go, *)
(* agent_os_executor.go, runtime_v2.go) over the durable agent graph       *)
(* (internal/agentruntime/graph.go, graph_cas.go, identity.go), activation *)
(* manager (activation_manager.go), task DAG (orchestration/taskdag.go)    *)
(* and verification gate (verification_runtime.go), with a usage ledger in *)
(* memory (internal/usage/reservations.go).                                *)
(*                                                                         *)
(* PrepareAgentOS admits the team and writes its agents and nodes;         *)
(* ExecutePreparedAgentOS runs waves of runnable nodes, a goroutine each.  *)
(* Every change is appended to the log before the record in memory is      *)
(* replaced; appends fail, and the process dies and starts over.           *)
(*                                                                         *)
(* A member of the team stands for its agent, its node and its activation. *)
(* A node runs at most once here, so an agent has one activation.          *)
(***************************************************************************)
EXTENDS EventLog, FiniteSets

LOCAL INSTANCE FiniteSetsExt

CONSTANTS
    Plan,           \* the team's members in order; the first is the lead
    DependsOn,      \* TeamMemberPlan.DependsOn
    Parallel,       \* TeamPlan.Parallelism
    TokenBudget,    \* TeamMemberPlan.TokenBudget
    Budgets,        \* values of Budget.MaxInputTokens, 0 for none
    Actuals,        \* what sessions may report to have used
    MaxFaults,      \* bound: failed appends
    MaxCrashes,     \* bound: deaths of the process
    MaxExecutions   \* bound: calls of ExecutePreparedAgentOS

Members == {Plan[i] : i \in DOMAIN Plan}
Lead == Plan[1]

ASSUME AgentOSAssumption ==
    /\ Plan \in Seq(Members)
    /\ Len(Plan) > 0
    /\ \A i, j \in DOMAIN Plan : Plan[i] = Plan[j] => i = j
    /\ DependsOn \in [Members -> SUBSET Members]
    /\ Parallel \in Nat \ {0}
    /\ TokenBudget \in [Members -> Nat]
    /\ {MaxFaults, MaxCrashes, MaxExecutions} \subseteq Nat
    /\ Budgets \subseteq Nat
    /\ Actuals \subseteq Nat

\* Records that are rebuilt from the log.
Agent(m) == <<"agent", m>>
Act(m) == <<"activation", m>>
Node(m) == <<"node", m>>
Gate == <<"verification", Lead>>
Records == ({"agent", "activation", "node"} \X Members) \cup {Gate}

VARIABLES
    log,        \* the events of each record
    torn,       \* a line of the log is broken
    hot,        \* what the runtime in memory holds
    phase,      \* where the one goroutine that prepares and executes is
    step,       \* how many of PrepareSteps are done
    npc,        \* executePreparedNode of each member
    res,        \* Ledger.reservations
    committed,  \* Ledger.committed
    sessions,   \* engine sessions started for each member, ever
    done,       \* members whose session ended without an error, ever
    osFaults, crashes, executions

logVars == <<log, torn, hot, osFaults>>
ledgerVars == <<res, committed>>
sessionVars == <<sessions, done>>
boundVars == <<crashes, executions>>
osVars == <<logVars, ledgerVars, sessionVars, boundVars, phase, step, npc>>

NoEvent == [st |-> "none", rev |-> 0, key |-> <<>>]
LastOf(s) == IF s = <<>> THEN NoEvent ELSE s[Len(s)]
Status(r) == hot[r].st

FinalAgent == {"completed", "failed", "cancelled"}
FinalActivation == {"completed", "failed"}

Phases == {"idle", "reserved", "building", "prepared", "wave",
           "verify", "finalize", "completed", "stopped", "refused"}
NodePC == {"off", "agent", "start", "running", "check", "node", "engine",
           "wait", "actDone", "agentDone", "nodeDone", "markAct", "markAgent",
           "markNode", "settle", "release", "settleBad", "ok", "err"}

OSTypeOK ==
    /\ DOMAIN log = Records
    /\ torn \in BOOLEAN
    /\ DOMAIN hot = Records
    /\ \A r \in Records : hot[r].rev \in Nat
    /\ phase \in Phases
    /\ step \in 0..(2 * Len(Plan))
    /\ npc \in [Members -> NodePC]
    /\ res \in [Members -> {"none", "open", "settled", "released"}]
    /\ committed \in Nat
    /\ sessions \in [Members -> Nat]
    /\ done \subseteq Members
    /\ osFaults \in 0..MaxFaults
    /\ crashes \in 0..MaxCrashes
    /\ executions \in 0..MaxExecutions

OSInit ==
    /\ log = [r \in Records |-> <<>>]
    /\ torn = FALSE
    /\ hot = [r \in Records |-> NoEvent]
    /\ phase = "idle"
    /\ step = 0
    /\ npc = [m \in Members |-> "off"]
    /\ res = [m \in Members |-> "none"]
    /\ committed = 0
    /\ sessions = [m \in Members |-> 0]
    /\ done = {}
    /\ osFaults = 0
    /\ crashes = 0
    /\ executions = 0

-----------------------------------------------------------------------------
(* Appends.                                                                 *)

\* Mutant of Persist: memory is changed before the append.
PersistHotFirst(r, e, ok) ==
    \E o \in AppendOutcomes(log[r], torn, e) :
        /\ o.ok = ok
        /\ log' = [log EXCEPT ![r] = o.log]
        /\ torn' = o.torn
        /\ hot' = [hot EXCEPT ![r] = e]
        /\ IF ok \/ torn THEN UNCHANGED osFaults
           ELSE osFaults < MaxFaults /\ osFaults' = osFaults + 1

\* appendLocked, and the record in memory when it worked.
Persist(r, e, ok) ==
    \E o \in AppendOutcomes(log[r], torn, e) :
        /\ o.ok = ok
        /\ log' = [log EXCEPT ![r] = o.log]
        /\ torn' = o.torn
        /\ hot' = IF ok THEN [hot EXCEPT ![r] = e] ELSE hot
        /\ IF ok \/ torn THEN UNCHANGED osFaults
           ELSE osFaults < MaxFaults /\ osFaults' = osFaults + 1

\* The events, with the keys that the components give them.
Created(r, st, op) == [st |-> st, rev |-> 1, key |-> <<op>>]
AgentMoves(m, st) == [st |-> st, rev |-> hot[Agent(m)].rev + 1,
                      key |-> <<"status", st, hot[Agent(m)].rev + 1>>]
RecordMoves(r, st) == [st |-> st, rev |-> hot[r].rev + 1,
                       key |-> <<"update", hot[r].rev + 1>>]

\* agentTransitionAllowed, activationTransitionAllowed and
\* taskNodeTransitionAllowed, for the statuses that occur.
AgentMay(m, st) ==
    \/ Status(Agent(m)) = "created" /\ st \in {"active", "failed", "cancelled"}
    \/ Status(Agent(m)) = "active" /\ st \in {"completed", "failed", "cancelled"}
    \/ Status(Agent(m)) = st /\ st # "none"
ActMay(m, st) ==
    \/ Status(Act(m)) = "starting" /\ st \in {"running", "failed"}
    \/ Status(Act(m)) = "running" /\ st \in {"completed", "failed"}
    \/ Status(Act(m)) = st /\ st # "none"
NodeMay(m, st) ==
    \/ Status(Node(m)) = "pending" /\ st = "running"
    \/ Status(Node(m)) = "running" /\ st \in {"completed", "failed"}
    \/ Status(Node(m)) = st /\ st # "none"

\* Mutant of Unblocked: a node that has failed blocks no other.
UnblockedWhenOver(m) == \A d \in DependsOn[m] : Status(Node(d)) \in {"completed", "failed"}

\* unblockedLocked, and Runnable.
Unblocked(m) == \A d \in DependsOn[m] : Status(Node(d)) = "completed"
Runnable == {m \in Members : Status(Node(m)) = "pending" /\ Unblocked(m)}

-----------------------------------------------------------------------------
(* The ledger.                                                              *)

\* What the first n members of the team are estimated to use.
Estimate(n) == MapThenSumSet(LAMBDA i : TokenBudget[Plan[i]], 1..n)

\* EvaluateBudget: the limit is reached, not only passed.
Hard(limit, tokens) == limit > 0 /\ tokens >= limit

\* releaseReservations: those that are open.
ReleaseAll == [m \in Members |-> IF res[m] = "open" THEN "released" ELSE res[m]]

-----------------------------------------------------------------------------
(* PrepareAgentOS.                                                          *)

\* ReserveTeamBudget on a new ledger, member by member.  When one does not
\* fit, what was reserved for those before it is released again.
ReserveTeam(limit) ==
    LET fits == {n \in 1..Len(Plan) : ~Hard(limit, Estimate(n))}
        before == {Plan[n] : n \in fits} IN
    /\ phase = "idle"
    /\ committed' = 0
    /\ IF before = Members
         THEN /\ phase' = "reserved"
              /\ res' = [m \in Members |-> "open"]
         ELSE /\ phase' = "refused"
              /\ res' = [m \in Members |-> IF m \in before THEN "released" ELSE "none"]
    /\ UNCHANGED <<logVars, sessionVars, boundVars, step, npc>>

\* applyReplayLocked accepts what the log says of an activation.
ReplaysActivation(s) ==
    \A i \in DOMAIN s :
        /\ s[i].rev = i
        /\ i = 1 => s[i].st = "starting"
        /\ i > 1 => \/ s[i].st = s[i - 1].st
                    \/ s[i - 1].st = "starting" /\ s[i].st \in {"running", "failed"}
                    \/ s[i - 1].st = "running" /\ s[i].st \in {"completed", "failed"}

\* Mutant of Replay: a runtime starts anew.
ReplayNothing(r) == NoEvent

Replay(r) == LastOf(log[r])

\* NewShadowRuntime, or an engine that no probe offers (ok is FALSE): the
\* records are rebuilt from the log, and the verification plan is written
\* when there is none.
NewRuntime(ok) ==
    /\ phase = "reserved"
    /\ \/ /\ ok
          /\ ~torn
          /\ \A m \in Members : ReplaysActivation(log[Act(m)])
          /\ LET plan == Created(Gate, "planned", "plan") IN
             IF log[Gate] # <<>>
               THEN /\ hot' = [r \in Records |-> Replay(r)]
                    /\ UNCHANGED <<log, torn, osFaults>>
               ELSE /\ hot' = [[r \in Records |-> Replay(r)] EXCEPT ![Gate] = plan]
                    /\ log' = [log EXCEPT ![Gate] = <<plan>>]
                    /\ UNCHANGED <<torn, osFaults>>
          /\ phase' = "building"
          /\ UNCHANGED res
       \/ /\ ~ok
          /\ phase' = "refused"
          /\ res' = ReleaseAll
          /\ IF torn \/ log[Gate] # <<>> THEN UNCHANGED <<log, torn, osFaults>>
             ELSE \/ UNCHANGED <<log, torn, osFaults>>
                  \/ \E o \in AppendOutcomes(<<>>, FALSE, Created(Gate, "planned", "plan")) :
                        /\ ~o.ok
                        /\ log' = [log EXCEPT ![Gate] = o.log]
                        /\ torn' = o.torn
                        /\ osFaults < MaxFaults
                        /\ osFaults' = osFaults + 1
          /\ UNCHANGED hot
    /\ step' = 0
    /\ UNCHANGED <<committed, sessionVars, boundVars, npc>>

\* Register of the lead or Spawn of another member, then Add of its node.  An
\* identical lead and identical nodes may be there from an earlier attempt;
\* an agent to be spawned may not.
StepMember == Plan[(step \div 2) + 1]
StepRecord == IF step % 2 = 0 THEN Agent(StepMember) ELSE Node(StepMember)
StepEvent ==
    IF step % 2 = 0
      THEN Created(StepRecord, "created", IF StepMember = Lead THEN "register" ELSE "spawn")
      ELSE Created(StepRecord, "pending", "add")
AlreadyThere == (step % 2 = 1 \/ StepMember = Lead) /\ hot[StepRecord] = StepEvent

PrepareStep ==
    /\ phase = "building"
    /\ step < 2 * Len(Plan)
    /\ \E ok \in BOOLEAN :
          /\ \/ ok /\ AlreadyThere /\ UNCHANGED logVars
             \/ ~ok /\ ~AlreadyThere /\ hot[StepRecord] # NoEvent /\ UNCHANGED logVars
             \/ /\ hot[StepRecord] = NoEvent
                /\ step % 2 = 1 => \A d \in DependsOn[StepMember] : hot[Node(d)] # NoEvent
                /\ Persist(StepRecord, StepEvent, ok)
          /\ phase' = IF ok THEN "building" ELSE "refused"
          /\ step' = IF ok THEN step + 1 ELSE step
          /\ res' = IF ok THEN res ELSE ReleaseAll
    /\ UNCHANGED <<committed, sessionVars, boundVars, npc>>

\* The coding kernel and the evidence store are opened (CodingKernel).
PrepareEnd(ok) ==
    /\ phase = "building"
    /\ step = 2 * Len(Plan)
    /\ phase' = IF ok THEN "prepared" ELSE "refused"
    /\ res' = IF ok THEN res ELSE ReleaseAll
    /\ UNCHANGED <<logVars, committed, sessionVars, boundVars, step, npc>>

-----------------------------------------------------------------------------
(* ExecutePreparedAgentOS.                                                  *)

\* The first members of the runnable ones, in the order of their names.
FirstRunnable ==
    IF Cardinality(Runnable) <= Parallel THEN {Runnable}
    ELSE {W \in SUBSET Runnable : Cardinality(W) = Parallel}

\* The loop looks for runnable nodes: at the start, and after a wave in which
\* every goroutine returned without an error.
LookForWork ==
    IF Runnable # {}
      THEN /\ phase' = "wave"
           /\ \E W \in FirstRunnable :
                 npc' = [m \in Members |-> IF m \in W THEN "agent" ELSE "off"]
      ELSE /\ phase' = IF \A m \in Members : Status(Node(m)) = "completed"
                         THEN "verify" ELSE "stopped"
           /\ npc' = [m \in Members |-> "off"]

Execute ==
    /\ phase \in {"prepared", "stopped"}
    /\ executions < MaxExecutions
    /\ executions' = executions + 1
    /\ LookForWork
    /\ UNCHANGED <<logVars, ledgerVars, sessionVars, crashes, step>>

\* wg.Wait, and the first error ends the execution.
WaveEnd ==
    /\ phase = "wave"
    /\ \A m \in Members : npc[m] \in {"off", "ok", "err"}
    /\ \/ /\ \E m \in Members : npc[m] = "err"
          /\ phase' = "stopped"
          /\ npc' = [m \in Members |-> "off"]
       \/ /\ \A m \in Members : npc[m] # "err"
          /\ LookForWork
    /\ UNCHANGED <<logVars, ledgerVars, sessionVars, boundVars, step>>

\* A goroutine goes from one place to the next, or returns an error.
Goes(m, next) == npc' = [npc EXCEPT ![m] = next]
MovesTo(m, r, e, next) ==
    \E ok \in BOOLEAN : Persist(r, e, ok) /\ Goes(m, IF ok THEN next ELSE "err")
OnlyLog == UNCHANGED <<ledgerVars, sessionVars, boundVars, phase, step>>

\* The agent becomes active; one that is neither new nor active blocks.
NodeAgent(m) ==
    /\ npc[m] = "agent"
    /\ \/ Status(Agent(m)) = "created" /\ MovesTo(m, Agent(m), AgentMoves(m, "active"), "start")
       \/ Status(Agent(m)) = "active" /\ Goes(m, "start") /\ UNCHANGED logVars
       \/ Status(Agent(m)) \in FinalAgent /\ Goes(m, "err") /\ UNCHANGED logVars
    /\ OnlyLog

\* ActivationManager.Start: the agent must not be final, its last activation
\* must be over.
NodeStart(m) ==
    /\ npc[m] = "start"
    /\ \/ /\ Status(Agent(m)) \notin FinalAgent
          /\ Status(Act(m)) = "none"
          /\ MovesTo(m, Act(m), Created(Act(m), "starting", "start"), "running")
       \/ /\ Status(Agent(m)) \in FinalAgent \/ Status(Act(m)) # "none"
          /\ Goes(m, "err")
          /\ UNCHANGED logVars
    /\ OnlyLog

NodeRunning(m) ==
    /\ npc[m] = "running"
    /\ ActMay(m, "running")
    /\ MovesTo(m, Act(m), RecordMoves(Act(m), "running"), "check")
    /\ OnlyLog

\* StartNode looks at the agent, and then moves the node.
NodeCheck(m) ==
    /\ npc[m] = "check"
    /\ Goes(m, IF Status(Agent(m)) = "active" THEN "node" ELSE "err")
    /\ UNCHANGED logVars
    /\ OnlyLog

NodeNode(m) ==
    /\ npc[m] = "node"
    /\ IF Unblocked(m) /\ NodeMay(m, "running")
         THEN MovesTo(m, Node(m), RecordMoves(Node(m), "running"), "engine")
         ELSE Goes(m, "err") /\ UNCHANGED logVars
    /\ OnlyLog

\* engines.Start.
EngineStart(m, ok) ==
    /\ npc[m] = "engine"
    /\ sessions' = IF ok THEN [sessions EXCEPT ![m] = @ + 1] ELSE sessions
    /\ Goes(m, IF ok THEN "wait" ELSE "markAct")
    /\ UNCHANGED <<logVars, ledgerVars, done, boundVars, phase, step>>

\* session.Wait.
EngineWait(m, ok) ==
    /\ npc[m] = "wait"
    /\ done' = IF ok THEN done \cup {m} ELSE done
    /\ Goes(m, IF ok THEN "actDone" ELSE "markAct")
    /\ UNCHANGED <<logVars, ledgerVars, sessions, boundVars, phase, step>>

\* The activation is completed; an error is ignored.
NodeActDone(m) ==
    /\ npc[m] = "actDone"
    /\ ActMay(m, "completed")
    /\ \E ok \in BOOLEAN : Persist(Act(m), RecordMoves(Act(m), "completed"), ok)
    /\ Goes(m, "agentDone")
    /\ OnlyLog

NodeAgentDone(m) ==
    /\ npc[m] = "agentDone"
    /\ IF AgentMay(m, "completed")
         THEN MovesTo(m, Agent(m), AgentMoves(m, "completed"), "nodeDone")
         ELSE Goes(m, "err") /\ UNCHANGED logVars
    /\ OnlyLog

\* CompleteNode, for an agent that is completed.
NodeDone(m) ==
    /\ npc[m] = "nodeDone"
    /\ IF Status(Agent(m)) = "completed" /\ NodeMay(m, "completed")
         THEN MovesTo(m, Node(m), RecordMoves(Node(m), "completed"), "settle")
         ELSE Goes(m, "err") /\ UNCHANGED logVars
    /\ OnlyLog

\* markPreparedFailure: activation, agent and node, whatever each append says.
Mark(m, at, r, e, may, next) ==
    /\ npc[m] = at
    /\ IF may THEN \E ok \in BOOLEAN : Persist(r, e, ok) ELSE UNCHANGED logVars
    /\ Goes(m, next)
    /\ OnlyLog

MarkFailure(m) ==
    \/ Mark(m, "markAct", Act(m), RecordMoves(Act(m), "failed"), ActMay(m, "failed"), "markAgent")
    \/ Mark(m, "markAgent", Agent(m), AgentMoves(m, "failed"),
            AgentMay(m, "failed") /\ Status(Agent(m)) # "failed", "markNode")
    \/ Mark(m, "markNode", Node(m), RecordMoves(Node(m), "failed"),
            NodeMay(m, "failed") /\ Status(Node(m)) # "failed",
            IF sessions[m] > 0 THEN "settleBad" ELSE "release")

\* settleReservation: the usage that the result reports, or the estimate.
Settle(m, actual) ==
    /\ npc[m] \in {"settle", "settleBad"}
    /\ res' = [res EXCEPT ![m] = IF @ = "open" THEN "settled" ELSE @]
    /\ committed' = IF res[m] = "open" THEN committed + actual ELSE committed
    /\ Goes(m, IF npc[m] = "settle" THEN "ok" ELSE "err")
    /\ UNCHANGED <<logVars, sessionVars, boundVars, phase, step>>

\* releaseReservation, after a session that could not be started.
Release(m) ==
    /\ npc[m] = "release"
    /\ res' = [res EXCEPT ![m] = IF @ = "open" THEN "released" ELSE @]
    /\ Goes(m, "err")
    /\ UNCHANGED <<logVars, committed, sessionVars, boundVars, phase, step>>

\* req.Verify and Record of its evidence; Verify may fail.
Verified(out) ==
    /\ phase = "verify"
    /\ \/ out = "error" /\ phase' = "stopped" /\ UNCHANGED logVars
       \/ /\ out = "none"
          /\ phase' = "finalize"
          /\ UNCHANGED logVars
       \/ /\ out \in {"passed", "failed"}
          /\ IF Status(Gate) = "passed" /\ out = "failed"
               THEN phase' = "stopped" /\ UNCHANGED logVars
               ELSE \E ok \in BOOLEAN :
                       /\ Persist(Gate, [st |-> out, rev |-> hot[Gate].rev + 1,
                                         key |-> <<"result", hot[Gate].rev + 1>>], ok)
                       /\ phase' = IF ok THEN "finalize" ELSE "stopped"
    /\ UNCHANGED <<ledgerVars, sessionVars, boundVars, step, npc>>

\* CanComplete and FinalizeLead with ReadyToFinalize.  The lead has a node of
\* its own, so it is completed when all nodes are.
Finalize ==
    /\ phase = "finalize"
    /\ phase' = IF /\ Status(Gate) = "passed"
                   /\ \A m \in Members : /\ Status(Node(m)) = "completed"
                                         /\ Status(Agent(m)) = "completed"
                  THEN "completed" ELSE "stopped"
    /\ UNCHANGED <<logVars, ledgerVars, sessionVars, boundVars, step, npc>>

-----------------------------------------------------------------------------
(* Around them.                                                             *)

\* CancelSubtree: the lead's descendants are the whole team.  All agents that
\* are not final change with one event, whose key holds the time.
CancelSubtree(root) ==
    LET live == {m \in IF root = Lead THEN Members ELSE {root} :
                    Status(Agent(m)) \notin FinalAgent \cup {"none"}}
        Hit(r) == r[1] = "agent" /\ r[2] \in live
        Cancelled(r) == [st |-> "cancelled", rev |-> hot[r].rev + 1,
                         key |-> <<"cancel", Len(log[r])>>] IN
    /\ phase \in {"prepared", "wave", "verify", "finalize", "stopped"}
    /\ live # {}
    /\ \E o \in AppendOutcomes(<<>>, torn, [key |-> "cancel"]) :
          /\ log' = [r \in Records |-> IF Hit(r) /\ o.log # <<>>
                                         THEN Append(log[r], Cancelled(r)) ELSE log[r]]
          /\ hot' = [r \in Records |-> IF Hit(r) /\ o.ok THEN Cancelled(r) ELSE hot[r]]
          /\ torn' = o.torn
          /\ IF o.ok \/ torn THEN UNCHANGED osFaults
             ELSE osFaults < MaxFaults /\ osFaults' = osFaults + 1
    /\ UNCHANGED <<ledgerVars, sessionVars, boundVars, phase, step, npc>>

\* The process dies: the log is left, the ledger and the runtime are gone.
OSCrash ==
    /\ crashes < MaxCrashes
    /\ crashes' = crashes + 1
    /\ phase' = "idle"
    /\ step' = 0
    /\ npc' = [m \in Members |-> "off"]
    /\ hot' = [r \in Records |-> NoEvent]
    /\ res' = [m \in Members |-> "none"]
    /\ committed' = 0
    /\ UNCHANGED <<log, torn, osFaults, sessionVars, executions>>

Goroutine(m) ==
    \/ NodeAgent(m) \/ NodeStart(m) \/ NodeRunning(m) \/ NodeCheck(m) \/ NodeNode(m)
    \/ \E ok \in BOOLEAN : EngineStart(m, ok) \/ EngineWait(m, ok)
    \/ NodeActDone(m) \/ NodeAgentDone(m) \/ NodeDone(m)
    \/ MarkFailure(m)
    \/ \E a \in Actuals : Settle(m, a)
    \/ Release(m)

OSNext ==
    \/ \E limit \in Budgets : ReserveTeam(limit)
    \/ \E ok \in BOOLEAN : NewRuntime(ok) \/ PrepareEnd(ok)
    \/ PrepareStep
    \/ Execute
    \/ \E m \in Members : Goroutine(m)
    \/ WaveEnd
    \/ \E out \in {"passed", "failed", "none", "error"} : Verified(out)
    \/ Finalize
    \/ \E m \in Members : CancelSubtree(m)
    \/ OSCrash

OSSpec == OSInit /\ [][OSNext]_osVars

-----------------------------------------------------------------------------
(* Properties.                                                              *)

\* A task is reported complete only when a restart would find its work done:
\* the log says of every node and every agent that they are completed, though
\* appends failed, agents were cancelled and executions were repeated.  By then
\* what every session used is settled.
CompleteIsDurable ==
    phase = "completed" =>
        \A m \in Members : /\ LastOf(log[Node(m)]).st = "completed"
                           /\ LastOf(log[Agent(m)]).st = "completed"
                           /\ res[m] = "settled"

\* And it is verified in the log as well: ReadyToFinalize says that "all
\* required verification evidence must be durable and passing".
EvidenceIsDurable == phase = "completed" => LastOf(log[Gate]).st = "passed"

\* An engine works on a node at most once, whatever fails, however often the
\* execution is called again and the process starts over.
SessionOnce == \A m \in Members : sessions[m] <= 1

\* No engine starts on a node before those it depends on have succeeded.
DependenciesFirst ==
    \A m \in Members : sessions[m] > 0 => DependsOn[m] \subseteq done
=============================================================================
