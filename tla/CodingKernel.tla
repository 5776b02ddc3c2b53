---------------------------- MODULE CodingKernel ----------------------------
(***************************************************************************)
(* The coding kernel of a task (internal/orchestration/coding_kernel.go)   *)
(* and the recovery ledger it asks about failures                          *)
(* (internal/orchestration/failure_intelligence.go), both rebuilt from the *)
(* event log.                                                              *)
(*                                                                         *)
(* The kernel walks through the stages of the work.  A failure is first    *)
(* decided by the ledger, with an event of its own, and then moves the     *)
(* kernel; the process may die between the two.  Callers that pass another *)
(* revision than the current one are turned away and left out.             *)
(***************************************************************************)
EXTENDS EventLog, FiniteSets

LOCAL INSTANCE FiniteSetsExt

CONSTANTS
    Occurrences,    \* failures that callers report
    SignatureOf,    \* failureSignature of each
    Action,         \* RecoveryAction that classifyFailureSignal gives a signature
    MaxAttempts,    \* and how often it may be retried
    MaxRevision,    \* bound: kernel revisions
    MaxKernelFaults,    \* bound: failed appends
    MaxKernelCrashes    \* bound: deaths of the process

Signatures == {SignatureOf[o] : o \in Occurrences}

ASSUME KernelAssumption ==
    /\ Action \in [Signatures -> {"repair_code", "reconcile_patch", "reobserve",
                                  "compact_context", "retry_provider", "switch_engine",
                                  "request_user", "escalate"}]
    /\ MaxAttempts \in [Signatures -> Nat]
    /\ \A s \in Signatures : Action[s] \in {"request_user", "escalate"} => MaxAttempts[s] = 0
    /\ MaxRevision \in Nat \ {0}
    /\ {MaxKernelFaults, MaxKernelCrashes} \subseteq Nat

Active == {"understand", "locate", "plan", "act", "observe", "verify", "reflect"}
Stages == Active \cup {"repair", "blocked", "failed", "complete"}

VARIABLES
    klog,       \* events of the kernel
    rlog,       \* decisions of the ledger
    ktorn,      \* a line of the log is broken
    up,         \* the runtime is open
    kernel,     \* CodingKernel.state
    attempts,   \* RecoveryLedger.attempts
    occurrences,    \* RecoveryLedger.occurrences
    decided,    \* HandleFailure, between its two events: <<decision>>
    ready,      \* ReadyToFinalize
    granted,    \* occurrences that were answered with a retry, ever
    finished,   \* Complete has reported success
    late,       \* occurrences whose decision was written by an append that failed
    kFaults, kCrashes

kLogVars == <<klog, rlog, ktorn, late, kFaults>>
kMemory == <<up, kernel, attempts, occurrences, decided>>
kGhosts == <<ready, granted, finished>>
kernelVars == <<kLogVars, kMemory, kGhosts, kCrashes>>

NoSnapshot == [rev |-> 0, stage |-> "none", failed |-> "none", action |-> "none", key |-> <<>>]
Undecided == [occ |-> "none"]

KernelTypeOK ==
    /\ kernel.rev \in 0..MaxRevision
    /\ kernel.stage \in Stages \cup {"none"}
    /\ kernel.failed \in Active \cup {"none"}
    /\ {ktorn, up, ready, finished} \subseteq BOOLEAN
    /\ attempts \in [Signatures -> Nat]
    /\ DOMAIN occurrences = Occurrences
    /\ Len(decided) <= 1
    /\ granted \subseteq Occurrences
    /\ late \subseteq Occurrences
    /\ kFaults \in 0..MaxKernelFaults
    /\ kCrashes \in 0..MaxKernelCrashes

KernelInit ==
    /\ klog = <<>>
    /\ rlog = <<>>
    /\ ktorn = FALSE
    /\ up = FALSE
    /\ kernel = NoSnapshot
    /\ attempts = [s \in Signatures |-> 0]
    /\ occurrences = [o \in Occurrences |-> Undecided]
    /\ decided = <<>>
    /\ ready = FALSE
    /\ granted = {}
    /\ finished = FALSE
    /\ late = {}
    /\ kFaults = 0
    /\ kCrashes = 0

\* The bookkeeping of an append's outcome o.
Noted(o) ==
    /\ ktorn' = o.torn
    /\ IF o.ok \/ ktorn THEN UNCHANGED kFaults
       ELSE kFaults < MaxKernelFaults /\ kFaults' = kFaults + 1

-----------------------------------------------------------------------------
(* Opening.                                                                 *)

\* NewCodingKernel takes the last event, and refuses a log whose revisions do
\* not increase.
Replays(s) == \A i \in 2..Len(s) : s[i].rev > s[i - 1].rev

\* NewRecoveryLedger: the decision of each occurrence, the highest attempt of
\* each signature.
DecisionIn(o) ==
    LET mine == {i \in DOMAIN rlog : rlog[i].occ = o} IN
    IF mine = {} THEN Undecided ELSE rlog[Max(mine)]

\* Mutant of AttemptsIn: attempts are not counted again after a restart.
AttemptsInMemory(s) == 0

AttemptsIn(s) == Max({0} \cup {rlog[i].attempt : i \in {j \in DOMAIN rlog : rlog[j].sig = s}})

Initialized ==
    [rev |-> 1, stage |-> "understand", failed |-> "none", action |-> "none", key |-> <<"init">>]

OpenKernel ==
    /\ ~up
    /\ ~ktorn
    /\ Replays(klog)
    /\ attempts' = [s \in Signatures |-> AttemptsIn(s)]
    /\ occurrences' = [o \in Occurrences |-> DecisionIn(o)]
    /\ \/ /\ klog # <<>>
          /\ up' = TRUE
          /\ kernel' = klog[Len(klog)]
          /\ UNCHANGED kLogVars
       \/ /\ klog = <<>>
          /\ \E o \in AppendOutcomes(klog, ktorn, Initialized) :
                /\ klog' = o.log
                /\ Noted(o)
                /\ up' = o.ok
                /\ kernel' = IF o.ok THEN Initialized ELSE kernel
          /\ UNCHANGED <<rlog, late>>
    /\ UNCHANGED <<decided, kGhosts, kCrashes>>

-----------------------------------------------------------------------------
(* Moves of the kernel.                                                     *)

\* Mutant of PersistSnapshot: the state in memory does not wait for the event.
PersistSnapshotHotFirst(e) ==
    /\ \E o \in AppendOutcomes(klog, ktorn, e) : klog' = o.log /\ Noted(o)
    /\ kernel' = e
    /\ finished' = (finished \/ e.stage = "complete")
    /\ UNCHANGED <<rlog, late>>

\* persistSnapshot, and the state in memory when it worked.
PersistSnapshot(e) ==
    /\ \E o \in AppendOutcomes(klog, ktorn, e) :
          /\ klog' = o.log
          /\ Noted(o)
          /\ kernel' = IF o.ok THEN e ELSE kernel
          /\ finished' = (finished \/ (o.ok /\ e.stage = "complete"))
    /\ UNCHANGED <<rlog, late>>

Callable == up /\ decided = <<>> /\ kernel.rev < MaxRevision
NextRev == kernel.rev + 1

\* normalKernelTransitionAllowed.
NextStage ==
    [understand |-> "locate", locate |-> "plan", plan |-> "act",
     act |-> "observe", observe |-> "verify", verify |-> "reflect"]

Advance ==
    /\ Callable
    /\ kernel.stage \in DOMAIN NextStage
    /\ PersistSnapshot([kernel EXCEPT !.rev = NextRev, !.stage = NextStage[@],
                                      !.key = <<"transition", NextRev>>])
    /\ UNCHANGED <<up, attempts, occurrences, decided, ready, granted, kCrashes>>

\* Decide: an occurrence that is known keeps its decision; another takes the
\* next attempt of its signature, and is retried while attempts are left.
NewDecision(o) ==
    LET s == SignatureOf[o]
        n == attempts[s] + 1
        left == n <= MaxAttempts[s] IN
    [occ |-> o, sig |-> s, attempt |-> n, retry |-> left,
     action |-> IF left \/ MaxAttempts[s] = 0 THEN Action[s] ELSE "escalate",
     key |-> <<"decision", o>>]

\* The decision is remembered and its attempt is counted.
Remember(o, d) ==
    /\ occurrences' = [occurrences EXCEPT ![o] = d]
    /\ attempts' = [attempts EXCEPT ![d.sig] = Max({@, d.attempt})]
    /\ decided' = <<d>>

\* Mutant of Decide: a failure is taken in any stage.
DecideAnyStage(o) ==
    /\ Callable
    /\ \E out \in AppendOutcomes(rlog, ktorn, NewDecision(o)) :
          /\ rlog' = out.log
          /\ Noted(out)
          /\ out.ok
          /\ Remember(o, NewDecision(o))
    /\ UNCHANGED <<klog, late, up, kernel, kGhosts, kCrashes>>

\* HandleFailure up to the decision.
Decide(o) ==
    /\ Callable
    /\ kernel.stage \in Active
    /\ IF occurrences[o] # Undecided
         THEN /\ decided' = <<occurrences[o]>>
              /\ UNCHANGED <<kLogVars, attempts, occurrences>>
         ELSE /\ \E out \in AppendOutcomes(rlog, ktorn, NewDecision(o)) :
                    /\ rlog' = out.log
                    /\ Noted(out)
                    /\ late' = IF ~out.ok /\ out.log # rlog THEN late \cup {o} ELSE late
                    /\ IF out.ok
                         THEN Remember(o, CHOOSE e \in {out.log[i] : i \in DOMAIN out.log} : e.occ = o)
                         ELSE UNCHANGED <<occurrences, attempts, decided>>
              /\ UNCHANGED klog
    /\ UNCHANGED <<up, kernel, kGhosts, kCrashes>>

\* HandleFailure from the decision on.
HandleFailure ==
    LET d == decided[1]
        stage == IF d.action = "request_user" THEN "blocked"
                 ELSE IF d.retry THEN "repair" ELSE "failed" IN
    /\ decided # <<>>
    /\ PersistSnapshot([rev |-> NextRev, stage |-> stage, failed |-> kernel.stage,
                        action |-> d.action, key |-> <<"failure", d.occ, NextRev>>])
    /\ granted' = IF kernel'.stage = "repair" THEN granted \cup {d.occ} ELSE granted
    /\ decided' = <<>>
    /\ UNCHANGED <<up, attempts, occurrences, ready, kCrashes>>

\* recoveryResumeStage.
ResumeStage ==
    CASE kernel.action = "reobserve" -> "observe"
      [] kernel.action = "compact_context" -> "plan"
      [] kernel.action \in {"repair_code", "reconcile_patch"} -> "act"
      [] OTHER -> kernel.failed

ResumeRecovery ==
    /\ Callable
    /\ kernel.stage = "repair"
    /\ PersistSnapshot([kernel EXCEPT !.rev = NextRev, !.stage = ResumeStage,
                                      !.key = <<"resume-recovery", NextRev>>])
    /\ UNCHANGED <<up, attempts, occurrences, decided, ready, granted, kCrashes>>

ResumeBlocked ==
    /\ Callable
    /\ kernel.stage = "blocked"
    /\ kernel.action = "request_user"
    /\ PersistSnapshot([kernel EXCEPT !.rev = NextRev, !.stage = kernel.failed,
                                      !.key = <<"resume-blocked", NextRev>>])
    /\ UNCHANGED <<up, attempts, occurrences, decided, ready, granted, kCrashes>>

\* Complete: FinalizeLead changes nothing for a lead that is completed.
Complete ==
    /\ Callable
    /\ kernel.stage = "reflect"
    /\ ready
    /\ PersistSnapshot([kernel EXCEPT !.rev = NextRev, !.stage = "complete",
                                      !.key = <<"complete", NextRev>>])
    /\ UNCHANGED <<up, attempts, occurrences, decided, ready, granted, kCrashes>>

-----------------------------------------------------------------------------
(* Around them.                                                             *)

\* The nodes, agents and checks of the task are through (AgentOS).
RuntimeReady ==
    /\ ~ready
    /\ ready' = TRUE
    /\ UNCHANGED <<kLogVars, kMemory, granted, finished, kCrashes>>

\* The process dies; the next NewCodingKernel starts from the log.
KernelCrash ==
    /\ up
    /\ kCrashes < MaxKernelCrashes
    /\ kCrashes' = kCrashes + 1
    /\ up' = FALSE
    /\ kernel' = NoSnapshot
    /\ attempts' = [s \in Signatures |-> 0]
    /\ occurrences' = [o \in Occurrences |-> Undecided]
    /\ decided' = <<>>
    /\ UNCHANGED <<kLogVars, kGhosts>>

KernelNext ==
    \/ OpenKernel
    \/ Advance
    \/ \E o \in Occurrences : Decide(o)
    \/ HandleFailure
    \/ ResumeRecovery
    \/ ResumeBlocked
    \/ Complete
    \/ RuntimeReady
    \/ KernelCrash

KernelSpec == KernelInit /\ [][KernelNext]_kernelVars

-----------------------------------------------------------------------------
(* Properties.                                                              *)

\* Failures of one kind are retried no more often than their budget, over
\* restarts and over deaths between the decision and the move: only a decision
\* whose append failed after its write gives one retry away.
RetryBudget ==
    \A s \in Signatures :
        Cardinality({o \in granted \ late : SignatureOf[o] = s}) <= MaxAttempts[s]

\* A kernel that has reported completion is complete for every runtime that
\* is opened later.
CompletedStays == finished /\ up => kernel.stage = "complete"

\* The log can be replayed: "hot state may be reconstructed after restart".
KernelReplays == ktorn \/ Replays(klog)
=============================================================================
