------------------------------ MODULE TaskLease ------------------------------
(***************************************************************************)
(* Where a task does its work: the bundle of a task, its lease, the lease  *)
(* of a checkout and the limit on worktrees (internal/taskexecution:       *)
(* manager.go, store.go, worktree_retention.go, local_worktree.go,         *)
(* active_checkout.go), and the tools that work there                      *)
(* (internal/localclient/task_execution_routing.go, task_execution_git.go, *)
(* engine.go).                                                             *)
(*                                                                         *)
(* Every engine has a Manager of its own, whose retentionMu lets one       *)
(* Ensure or ReconcileLimit run at a time; bundles are files that the      *)
(* managers share, and checkout leases are a map of the process.  The      *)
(* tools of an engine run one at a time (ToolExecution, sideMu); a worker  *)
(* that is replaced leaves its engine at work beside the next one.  A tool *)
(* asks for one repository, works there and gives nothing back: the leases *)
(* end by their time, under the tool's hands when it is slow.  Some tools  *)
(* ask for nothing, and a command goes on as a process of its own when its *)
(* tool has returned.                                                      *)
(***************************************************************************)
EXTENDS Naturals, FiniteSets, Sequences

CONSTANTS
    Engines,        \* engines of the process that serve the workspace
    Tasks, Owners, Repos,
    Asked,          \* what may be asked for: [task, owner, repo, prov]
    Limits,         \* values of maxWorktrees
    MaxEnsures,     \* bound: calls of Ensure, and tools that make none
    MaxWorkFaults,  \* bound: failed git commands and writes
    MaxWorkCrashes  \* bound: deaths of the process

Nothing == [kind |-> "none"]

ASSUME TaskLeaseAssumption ==
    /\ Asked \subseteq [task : Tasks, owner : Owners, repo : Repos,
                        prov : {"worktree", "checkout"}]
    /\ "none" \notin Owners
    /\ Limits \subseteq Nat \ {0}
    /\ {MaxEnsures, MaxWorkFaults, MaxWorkCrashes} \subseteq Nat

VARIABLES
    bundle,     \* the stored bundle of each task
    order,      \* stored tasks, oldest first
    checkout,   \* activeCheckoutLeases of each repository's checkout
    ended,      \* checkout leases that ended and were not taken again: they
                \* ran out, a failed call gave them up, or the process died
    tree,       \* the worktree of each task in each repository
    archive,    \* archive branch of each: "none", "ours" (work of the worktree
                \* that is there) or "old" (work of one that was removed)
    limit,      \* Manager.maxWorktrees of each engine
    eng,        \* Ensure of each engine
    using,      \* tools and processes at work
    lost,       \* worktrees that were removed with work that was due
    raced,      \* calls of two engines have overlapped
    ensures, workFaults, workCrashes

storeVars == <<bundle, order>>
gitVars == <<tree, archive, lost>>
leaseVars == <<checkout, ended>>
workBounds == <<limit, ensures, workFaults, workCrashes>>
workVars == <<storeVars, gitVars, leaseVars, eng, using, raced, workBounds>>

\* work: it holds work; due: some of it, done under a lease or by a process
\* that the limit looks for, is not in the archive.
NoTree == [on |-> FALSE, work |-> FALSE, due |-> FALSE]
Idle == [pc |-> "idle"]

BundleOf(q) ==
    [kind |-> "bundle", prov |-> q.prov, repos |-> {q.repo}, owner |-> "none", live |-> FALSE]

\* A process starts, where an earlier one has left at most one bundle.
TaskLeaseInit ==
    /\ \E left \in SUBSET Asked :
          /\ Cardinality(left) <= 1
          /\ bundle = [t \in Tasks |-> IF \E q \in left : q.task = t
                                         THEN BundleOf(CHOOSE q \in left : TRUE) ELSE Nothing]
          /\ order = IF left = {} THEN <<>> ELSE <<(CHOOSE q \in left : TRUE).task>>
          /\ tree = [x \in Tasks \X Repos |->
                        IF \E q \in left : <<q.task, q.repo>> = x /\ q.prov = "worktree"
                          THEN [on |-> TRUE, work |-> TRUE, due |-> TRUE] ELSE NoTree]
    /\ checkout = [r \in Repos |-> Nothing]
    /\ ended = {}
    /\ archive = [x \in Tasks \X Repos |-> "none"]
    /\ limit \in [Engines -> Limits]
    /\ eng = [e \in Engines |-> Idle]
    /\ using = {}
    /\ lost = {}
    /\ raced = FALSE
    /\ ensures = 0
    /\ workFaults = 0
    /\ workCrashes = 0

Fault == workFaults < MaxWorkFaults /\ workFaults' = workFaults + 1

Goto(e, r) == eng' = [eng EXCEPT ![e] = r]
At(e, pc) == eng[e].pc = pc

\* A call fails: the engine is free for the next.
Fail(e) == Goto(e, Idle)

-----------------------------------------------------------------------------
(* Leases.                                                                  *)

Mine(q) == [kind |-> "held", task |-> q.task, owner |-> q.owner]

\* Mutant of MayAcquire: one free checkout is enough for all.
MayAcquireSome(rs, q) == rs # {} => \E r \in rs : checkout[r] \in {Nothing, Mine(q)}

\* acquireActiveCheckoutLease: all or nothing.
MayAcquire(rs, q) == \A r \in rs : checkout[r] \in {Nothing, Mine(q)}
Acquired(rs, q) == [r \in Repos |-> IF r \in rs THEN Mine(q) ELSE checkout[r]]

\* releaseActiveCheckoutLease: every checkout that the owner has.
Released(q) == [r \in Repos |-> IF checkout[r] = Mine(q) THEN Nothing ELSE checkout[r]]

\* The leases are c from now on.  One that is gone has ended, and one that is
\* there has not; one that another task or owner has taken is not excused.
Leases(c) == {<<r, c[r]>> : r \in {s \in Repos : c[s] # Nothing}}
Checkouts(c) ==
    /\ checkout' = c
    /\ ended' = (ended \cup {l \in Leases(checkout) : c[l[1]] = Nothing}) \ Leases(c)

\* A call fails and gives its leases up, and with them those that earlier
\* calls of the same task and owner rely on.
FailAndRelease(e) ==
    /\ Fail(e)
    /\ IF eng[e].prov = "checkout" THEN Checkouts(Released(eng[e].q)) ELSE UNCHANGED leaseVars

\* Store.Claim, for a bundle b.
Claimed(b, q) == [b EXCEPT !.owner = q.owner, !.live = TRUE]
MayClaim(b, q) == b # Nothing /\ (b.owner \in {"none", q.owner} \/ ~b.live)

\* Whether the lease of a bundle that was read as b, and the time it runs out,
\* is live by now: as the stored one is, unless other engines wrote since then.
StillLive(t, b) ==
    IF bundle[t] \in {b, [b EXCEPT !.live = FALSE]} THEN {bundle[t].live} ELSE {b.live, FALSE}

\* Store.Put: a new bundle is the youngest.
Stored(t, b) ==
    /\ bundle' = [bundle EXCEPT ![t] = b]
    /\ order' = IF bundle[t] = Nothing THEN Append(order, t) ELSE order

\* A call begins beside one of another engine.
Begins(e) ==
    /\ eng[e] = Idle
    /\ ensures < MaxEnsures
    /\ ensures' = ensures + 1
    /\ raced' = (raced \/ \E f \in Engines \ {e} : eng[f] # Idle)

-----------------------------------------------------------------------------
(* Ensure.                                                                  *)

\* A tool of engine e at work in a repository.  It becomes a process when it
\* starts a command: one that its engine knows of, "process", or "late" when
\* its worktree was being removed already; "orphan" when the engine has died.
Tool(e, q, prov, asked) ==
    [engine |-> e, task |-> q.task, owner |-> q.owner, repo |-> q.repo, prov |-> prov,
     asked |-> asked, by |-> "tool"]

\* sideMu is taken by a tool that works.
Busy(e) == \E u \in using : u.engine = e /\ u.by = "tool"

\* validateBindings.
Available(t, b) == b.prov = "worktree" => \A r \in b.repos : tree[<<t, r>>].on

\* Store.Get, and the checkouts of a new or a known bundle.
EnsureStart(e, q) ==
    LET b == bundle[q.task]
        known == b # Nothing
        prov == IF known THEN b.prov ELSE q.prov
        paths == IF prov = "worktree" THEN {} ELSE IF known THEN b.repos ELSE {q.repo} IN
    /\ Begins(e)
    /\ ~Busy(e)
    /\ known => Available(q.task, b)
    /\ MayAcquire(paths, q)
    /\ Checkouts(Acquired(paths, q))
    /\ Goto(e, [pc |-> IF known THEN "claim"
                       ELSE IF prov = "worktree" THEN "list" ELSE "prepare",
                q |-> q, old |-> b, prov |-> prov])
    /\ UNCHANGED <<storeVars, gitVars, using, limit, workFaults, workCrashes>>

\* The call returns: the tool works in the repository.
Return(e) ==
    /\ Goto(e, Idle)
    /\ using' = using \cup {Tool(e, eng[e].q, eng[e].prov, TRUE)}

\* Claim of a known bundle.
EnsureClaim(e) ==
    LET q == eng[e].q
        b == bundle[q.task] IN
    /\ At(e, "claim")
    /\ \/ /\ ~MayClaim(b, q)
          /\ FailAndRelease(e)
          /\ UNCHANGED <<storeVars, using>>
       \/ /\ MayClaim(b, q)
          /\ Stored(q.task, Claimed(b, q))
          /\ IF q.repo \in eng[e].old.repos THEN Return(e)
             ELSE Goto(e, [eng[e] EXCEPT !.pc = "expand", !.old = Claimed(b, q)]) /\ UNCHANGED using
          /\ UNCHANGED leaseVars
    /\ UNCHANGED <<gitVars, raced, workBounds>>

\* FailAndRelease for a call that has claimed a known bundle: it gives up the
\* lease of the bundle too (Store.Release).
GiveBack(e) ==
    LET t == eng[e].q.task IN
    /\ Fail(e)
    /\ IF eng[e].prov = "checkout" THEN Checkouts(Released(eng[e].q)) ELSE UNCHANGED leaseVars
    /\ IF bundle[t] # Nothing /\ bundle[t].owner \in {"none", eng[e].q.owner}
         THEN Stored(t, [bundle[t] EXCEPT !.owner = "none", !.live = FALSE])
         ELSE UNCHANGED storeVars

\* A repository more: a slot for its worktree, or its checkout.
EnsureExpand(e) ==
    LET q == eng[e].q IN
    /\ At(e, "expand")
    /\ \/ /\ eng[e].prov = "worktree"
          /\ Goto(e, [eng[e] EXCEPT !.pc = "list"])
          /\ UNCHANGED <<storeVars, leaseVars>>
       \/ /\ eng[e].prov = "checkout"
          /\ MayAcquire({q.repo}, q)
          /\ Checkouts(Acquired({q.repo}, q))
          /\ Goto(e, [eng[e] EXCEPT !.pc = "prepare"])
          /\ UNCHANGED storeVars
       \/ /\ eng[e].prov = "checkout"
          /\ ~MayAcquire({q.repo}, q)
          /\ GiveBack(e)
    /\ UNCHANGED <<gitVars, using, raced, workBounds>>

\* Prepare: the worktree is added unless it is there.
EnsurePrepare(e) ==
    LET q == eng[e].q IN
    /\ At(e, "prepare")
    /\ \/ /\ tree' = IF eng[e].prov = "worktree" /\ ~tree[<<q.task, q.repo>>].on
                       THEN [tree EXCEPT ![<<q.task, q.repo>>] = [on |-> TRUE, work |-> FALSE, due |-> FALSE]]
                       ELSE tree
          /\ Goto(e, [eng[e] EXCEPT !.pc = "put"])
          /\ UNCHANGED <<storeVars, leaseVars, workFaults>>
       \/ /\ Fault
          /\ IF eng[e].old = Nothing THEN FailAndRelease(e) /\ UNCHANGED storeVars ELSE GiveBack(e)
          /\ UNCHANGED tree
    /\ UNCHANGED <<archive, lost, using, raced, limit, ensures, workCrashes>>

\* Put of the new bundle, or of the claimed one with a binding more: an
\* unconditional write of what was read before.
EnsurePut(e) ==
    LET q == eng[e].q
        old == eng[e].old IN
    /\ At(e, "put")
    /\ \/ /\ IF old = Nothing
               THEN /\ Stored(q.task, BundleOf(q))
                    /\ Goto(e, [eng[e] EXCEPT !.pc = "claimNew"])
                    /\ UNCHANGED using
               ELSE /\ \E live \in StillLive(q.task, old) :
                          Stored(q.task, [old EXCEPT !.repos = @ \cup {q.repo}, !.live = live])
                    /\ Return(e)
          /\ UNCHANGED <<leaseVars, workFaults>>
       \/ /\ Fault
          /\ FailAndRelease(e)
          /\ UNCHANGED <<storeVars, using>>
    /\ UNCHANGED <<gitVars, raced, limit, ensures, workCrashes>>

EnsureClaimNew(e) ==
    LET q == eng[e].q
        b == bundle[q.task] IN
    /\ At(e, "claimNew")
    /\ IF ~MayClaim(b, q)
         THEN FailAndRelease(e) /\ UNCHANGED <<storeVars, using>>
         ELSE Stored(q.task, Claimed(b, q)) /\ Return(e) /\ UNCHANGED leaseVars
    /\ UNCHANGED <<gitVars, raced, workBounds>>

-----------------------------------------------------------------------------
(* enforceWorktreeLimit.                                                    *)

\* existingBindingCount.
OnDisk(t, b) == {r \in b.repos : tree[<<t, r>>].on}
Trees == {t \in Tasks : bundle[t] # Nothing /\ bundle[t].prov = "worktree"}
Current == Cardinality({x \in Trees \X Repos : x[2] \in OnDisk(x[1], bundle[x[1]])})

\* ReconcileLimit asks for no slot and protects no task; Ensure asks for one.
Target(e) == IF eng[e].q = Nothing THEN limit[e] ELSE limit[e] - 1

\* A new setting: SetMaxWorktrees, and then ReconcileLimit.
ReconcileLimit(e, n) ==
    /\ Begins(e)
    /\ limit' = [limit EXCEPT ![e] = n]
    /\ Goto(e, [pc |-> "list", q |-> Nothing, old |-> Nothing, prov |-> "worktree"])
    /\ UNCHANGED <<storeVars, gitVars, leaseVars, using, workFaults, workCrashes>>

\* The limit is kept: Ensure goes on.
Enough(e) ==
    Goto(e, IF eng[e].q = Nothing THEN Idle
            ELSE [pc |-> "prepare", q |-> eng[e].q, old |-> eng[e].old, prov |-> eng[e].prov])

\* The bundles are listed once; what is read of their leases may be stale
\* later on.
LimitList(e) ==
    /\ At(e, "list")
    /\ IF Current <= Target(e) THEN Enough(e)
       ELSE Goto(e, [pc |-> "evict", q |-> eng[e].q, old |-> eng[e].old, prov |-> eng[e].prov,
                     left |-> order, listed |-> bundle, current |-> Current])
    /\ UNCHANGED <<storeVars, gitVars, leaseVars, using, raced, workBounds>>

\* The loop over the bundles that were listed goes on.
Evicting(e, pc, left, current) ==
    Goto(e, [pc |-> pc, q |-> eng[e].q, old |-> eng[e].old, prov |-> eng[e].prov,
             left |-> left, listed |-> eng[e].listed, current |-> current])
Stay(e, pc) == Evicting(e, pc, eng[e].left, eng[e].current)
Skip(e) == Evicting(e, "evict", Tail(eng[e].left), eng[e].current)
Deleted(t) == bundle' = [bundle EXCEPT ![t] = Nothing] /\ order' = SelectSeq(order, LAMBDA x : x # t)

\* A bundle that is not the task's own.
Others(e, t) ==
    /\ eng[e].listed[t].prov = "worktree"
    /\ eng[e].q # Nothing => t # eng[e].q.task

\* bundleIsLeased, when the lease of b is still live or not, and bundleIsRunning.
IsLeased(b, live) == b.owner # "none" /\ live
IsRunning(e, t, b) ==
    \E u \in using : /\ u.engine = e
                     /\ u.by \in {"process", "late"}
                     /\ u.prov = "worktree"
                     /\ u.task = t
                     /\ u.repo \in b.repos

\* There is no slot: the call fails.
NoSlot(e) == IF eng[e].old = Nothing THEN Fail(e) /\ UNCHANGED <<storeVars, leaseVars>> ELSE GiveBack(e)

\* The loop looks at the next oldest bundle.
LimitNext(e) ==
    LET t == Head(eng[e].left)
        b == eng[e].listed[t] IN
    /\ At(e, "evict")
    /\ \/ /\ eng[e].current <= Target(e)
          /\ Enough(e)
          /\ UNCHANGED <<storeVars, leaseVars, workFaults>>
       \/ /\ eng[e].current > Target(e)
          /\ eng[e].left = <<>>
          /\ NoSlot(e)
          /\ UNCHANGED workFaults
       \/ /\ eng[e].current > Target(e)
          /\ eng[e].left # <<>>
          /\ \/ ~Others(e, t) /\ Skip(e) /\ UNCHANGED <<storeVars, workFaults>>
             \/ /\ Others(e, t)
                /\ OnDisk(t, b) = {}
                /\ Skip(e)
                /\ \/ Deleted(t) /\ UNCHANGED workFaults
                   \/ Fault /\ UNCHANGED storeVars
             \/ /\ Others(e, t)
                /\ OnDisk(t, b) # {}
                /\ \E live \in StillLive(t, b) :
                      IF IsLeased(b, live) \/ IsRunning(e, t, b) THEN Skip(e) ELSE Stay(e, "archive")
                /\ UNCHANGED <<storeVars, workFaults>>
          /\ UNCHANGED leaseVars
    /\ UNCHANGED <<gitVars, using, raced, limit, ensures, workCrashes>>

\* archive: everything is committed and pushed to the task's archive branch,
\* repository by repository.  The push is not forced: it is refused when the
\* branch has work that this worktree does not descend from.
Saved(t, rs) ==
    /\ tree' = [x \in DOMAIN tree |-> IF x[1] = t /\ x[2] \in rs
                                        THEN [tree[x] EXCEPT !.due = FALSE] ELSE tree[x]]
    /\ archive' = [x \in DOMAIN archive |-> IF x[1] = t /\ x[2] \in rs /\ tree[x].work
                                              THEN "ours" ELSE archive[x]]

\* Mutant of LimitArchive: a push that failed does not keep the worktree.
LimitArchiveAnyway(e) ==
    LET t == Head(eng[e].left) IN
    /\ At(e, "archive")
    /\ \E rs \in SUBSET OnDisk(t, eng[e].listed[t]) : Saved(t, rs)
    /\ Stay(e, "remove")
    /\ UNCHANGED <<storeVars, lost, leaseVars, using, raced, workBounds>>

LimitArchive(e) ==
    LET t == Head(eng[e].left)
        todo == OnDisk(t, eng[e].listed[t])
        refused == {r \in todo : archive[<<t, r>>] = "old"} IN
    /\ At(e, "archive")
    /\ \/ /\ refused = {}
          /\ Saved(t, todo)
          /\ Stay(e, "remove")
          /\ UNCHANGED workFaults
       \/ /\ \E rs \in SUBSET (todo \ refused) : rs # todo /\ Saved(t, rs)
          /\ IF refused = {} THEN Fault ELSE UNCHANGED workFaults
          /\ Skip(e)
    /\ UNCHANGED <<storeVars, lost, leaseVars, using, raced, limit, ensures, workCrashes>>

\* removeArchived, by force; what was due is lost.
Removed(t, rs) ==
    /\ tree' = [x \in DOMAIN tree |-> IF x[1] = t /\ x[2] \in rs THEN NoTree ELSE tree[x]]
    /\ archive' = [x \in DOMAIN archive |->
                      IF x[1] = t /\ x[2] \in rs /\ archive[x] = "ours" THEN "old" ELSE archive[x]]
    /\ lost' = lost \cup {x \in DOMAIN tree : x[1] = t /\ x[2] \in rs /\ tree[x].due}

\* A removal that fails keeps the bundle for another time; a bundle that
\* cannot be deleted ends the call.
LimitRemove(e) ==
    LET t == Head(eng[e].left)
        todo == OnDisk(t, eng[e].listed[t]) IN
    /\ At(e, "remove")
    /\ \/ /\ Removed(t, todo)
          /\ Deleted(t)
          /\ Evicting(e, "evict", Tail(eng[e].left), eng[e].current - Cardinality(todo))
          /\ UNCHANGED <<leaseVars, workFaults>>
       \/ /\ Fault
          /\ \E rs \in SUBSET todo : Removed(t, rs)
          /\ Skip(e)
          /\ UNCHANGED <<storeVars, leaseVars>>
       \/ /\ Fault
          /\ Removed(t, todo)
          /\ NoSlot(e)
    /\ UNCHANGED <<using, raced, limit, ensures, workCrashes>>

-----------------------------------------------------------------------------
(* Tools, time and the process.                                             *)

\* Where a tool works that makes no call of Ensure: in the place of a bundle
\* that has the repository, or, in the root of a workspace in live mode,
\* wherever it likes.
Unasked(q) ==
    (IF bundle[q.task] # Nothing /\ q.repo \in bundle[q.task].repos THEN {bundle[q.task].prov} ELSE {})
        \cup ({q.prov} \cap {"checkout"})

\* Git in a bundle's place, or a command in the workspace's root.
UseUnasked(e, q) ==
    /\ eng[e] # Idle => eng[e].q = Nothing
    /\ ~Busy(e)
    /\ ensures < MaxEnsures
    /\ ensures' = ensures + 1
    /\ \E prov \in Unasked(q) : using' = using \cup {Tool(e, q, prov, FALSE)}
    /\ UNCHANGED <<storeVars, gitVars, leaseVars, eng, raced, limit, workFaults, workCrashes>>

\* Engine e removes the worktree that u works in.
Removing(e, u) ==
    /\ eng[e].pc \in {"archive", "remove"}
    /\ Head(eng[e].left) = u.task
    /\ u.prov = "worktree"
    /\ u.repo \in eng[e].listed[u.task].repos

\* The tool has started a command: it is a process, which goes on when the
\* tool returns.
Background(u) ==
    /\ u.by = "tool"
    /\ using' = (using \ {u})
                   \cup {[u EXCEPT !.by = IF Removing(u.engine, u) THEN "late" ELSE "process"]}
    /\ UNCHANGED <<storeVars, gitVars, leaseVars, eng, raced, workBounds>>

\* What the limit has to respect: the owner's lease of the bundle, and the
\* processes of the engine itself that ran when it looked at the bundle.
Covered(u) ==
    LET b == bundle[u.task] IN
    b # Nothing /\ b.owner = u.owner /\ b.live /\ u.repo \in b.repos
Protected(u) ==
    \/ Covered(u)
    \/ \A e \in Engines :
          At(e, "remove") /\ Removing(e, u) => u.engine = e /\ u.by = "process"

\* A file is changed, unless the worktree is gone.
Work(u) ==
    LET x == <<u.task, u.repo>> IN
    /\ u.prov = "worktree"
    /\ tree[x].on
    /\ tree' = [tree EXCEPT ![x] = [on |-> TRUE, work |-> TRUE, due |-> tree[x].due \/ Protected(u)]]
    /\ UNCHANGED <<storeVars, archive, lost, leaseVars, eng, using, raced, workBounds>>

EndWork(u) ==
    /\ using' = using \ {u}
    /\ UNCHANGED <<storeVars, gitVars, leaseVars, eng, raced, workBounds>>

\* Two minutes after the last Ensure, whatever is at work by then.
ExpireBundle(t) ==
    /\ bundle[t] # Nothing
    /\ bundle[t].live
    /\ bundle' = [bundle EXCEPT ![t].live = FALSE]
    /\ UNCHANGED <<order, gitVars, leaseVars, eng, using, raced, workBounds>>

ExpireCheckout(r) ==
    /\ checkout[r] # Nothing
    /\ Checkouts([checkout EXCEPT ![r] = Nothing])
    /\ UNCHANGED <<storeVars, gitVars, eng, using, raced, workBounds>>

\* The processes of a runtime that dies may live on, where nobody knows them.
WorkCrash ==
    /\ workCrashes < MaxWorkCrashes
    /\ workCrashes' = workCrashes + 1
    /\ Checkouts([r \in Repos |-> Nothing])
    /\ eng' = [e \in Engines |-> Idle]
    /\ \E left \in SUBSET {u \in using : u.by # "tool"} :
          using' = {[u EXCEPT !.by = "orphan"] : u \in left}
    /\ UNCHANGED <<storeVars, gitVars, raced, limit, ensures, workFaults>>

TaskLeaseNext ==
    \/ \E e \in Engines :
          \/ \E q \in Asked : EnsureStart(e, q) \/ UseUnasked(e, q)
          \/ EnsureClaim(e) \/ EnsureExpand(e) \/ EnsurePrepare(e) \/ EnsurePut(e) \/ EnsureClaimNew(e)
          \/ \E n \in Limits : ReconcileLimit(e, n)
          \/ LimitList(e) \/ LimitNext(e) \/ LimitArchive(e) \/ LimitRemove(e)
    \/ \E u \in using : Background(u) \/ Work(u) \/ EndWork(u)
    \/ \E t \in Tasks : ExpireBundle(t)
    \/ \E r \in Repos : ExpireCheckout(r)
    \/ WorkCrash

TaskLeaseSpec == TaskLeaseInit /\ [][TaskLeaseNext]_workVars

-----------------------------------------------------------------------------
(* Properties.                                                              *)

\* A worktree is removed only when what is due in it is in the archive: the
\* work left by an earlier process, and whatever was done under a live lease of
\* its bundle or, while nobody was removing the worktree, without one.  A
\* failed or refused push keeps the worktree.  What somebody without a live
\* lease does between the archive's commit and the removal may be lost, unless
\* it is a process that the removing engine saw; and so may anything once the
\* calls of two engines have overlapped, so that one works from a list of
\* bundles that the other changes.
NoWorkLost == lost # {} => raced

\* Two tasks or owners whose tools asked for one checkout are never at work in
\* it together, in their tools or in the processes those have left, as long as
\* neither's lease has ended: by its time, by a later call that failed and gave
\* it up, or with the process that had it.
CheckoutExclusive ==
    \A u, v \in using :
        u.asked /\ v.asked /\ u.prov = "checkout" /\ v.prov = "checkout" /\ u.repo = v.repo =>
            \/ Mine(u) = Mine(v)
            \/ {<<u.repo, Mine(u)>>, <<v.repo, Mine(v)>>} \cap ended # {}
=============================================================================
