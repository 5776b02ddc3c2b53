------------------------------- MODULE Editing -------------------------------
(***************************************************************************)
(* An agent's patch set and its savepoint (internal/editing: savepoint.go, *)
(* savepoint_rewind.go, patchset.go, editing.go, reconcile.go), while the  *)
(* user edits the same files.                                              *)
(*                                                                         *)
(* The agent captures the files, applies a patch set, seals what it left   *)
(* behind, and later plans the way back and applies that as a patch set    *)
(* again.  Files are read and written one after the other, nothing is      *)
(* locked, and writes fail.                                                *)
(*                                                                         *)
(* The content of a file is what its two regions hold: the original text,  *)
(* the agent's or the user's.  A file that is absent is empty.  The hash   *)
(* stands for the content.                                                 *)
(***************************************************************************)
EXTENDS Naturals, Sequences, FiniteSets

LOCAL INSTANCE FiniteSetsExt

CONSTANTS
    Order,          \* the files, in the order of their paths
    Present,        \* those that exist at first
    MaxUserEdits,   \* bound: changes by the user
    MaxWriteFaults  \* bound: writes that fail

Paths == {Order[i] : i \in DOMAIN Order}

ASSUME EditingAssumption ==
    /\ Order \in Seq(Paths)
    /\ \A i, j \in DOMAIN Order : Order[i] = Order[j] => i = j
    /\ Present \subseteq Paths
    /\ {MaxUserEdits, MaxWriteFaults} \subseteq Nat

Absent == <<>>
Texts == {"original", "agent", "user"}
Contents == {Absent} \cup (Texts \X Texts)
Kinds == {"none", "edit", "create", "delete"}
NoChange == [kind |-> "none", expected |-> Absent, content |-> Absent]

VARIABLES
    file,       \* the workspace
    stage,      \* what the agent is doing
    back,       \* where it is when an ApplyPatchSet has failed
    left,       \* positions in Order that its loop has yet to visit
    before,     \* SavepointEntry.Before...
    after,      \* SavepointEntry.After..., from the patch that was applied
    patch,      \* the patch set: what it expects and what it writes
    written,    \* files that this ApplyPatchSet has changed
    userOwns,   \* <<path, region>> that the user wrote and the agent did not mean to change
    unseen,     \* files that the user changed between the capture and the agent's look
    crossed,      \* files that the user changed since this ApplyPatchSet checked them
    overwritten,       \* what the agent overwrote of userOwns in files outside crossed
    stuck,      \* a write of a rollback failed
    userEdits, writeFaults

editVars == <<file, stage, back, left, before, after, patch, written,
              userOwns, unseen, crossed, overwritten, stuck, userEdits, writeFaults>>

userVars == <<file, userOwns, overwritten>>

\* No content, in a file or in a plan, has conflict markers.
EditingTypeOK ==
    /\ file \in [Paths -> Contents]
    /\ before \in [Paths -> Contents]
    /\ after \in [Paths -> Contents]
    /\ patch \in [Paths -> [kind : Kinds, expected : Contents, content : Contents]]
    /\ left \subseteq DOMAIN Order
    /\ written \subseteq Paths
    /\ userOwns \cup overwritten \subseteq Paths \X (1..2)
    /\ unseen \cup crossed \subseteq Paths

EditingInit ==
    /\ file = [p \in Paths |-> IF p \in Present THEN <<"original", "original">> ELSE Absent]
    /\ stage = "capture"
    /\ back = "capture"
    /\ left = DOMAIN Order
    /\ before = [p \in Paths |-> Absent]
    /\ after = [p \in Paths |-> Absent]
    /\ patch = [p \in Paths |-> NoChange]
    /\ written = {}
    /\ userOwns = {}
    /\ unseen = {}
    /\ crossed = {}
    /\ overwritten = {}
    /\ stuck = FALSE
    /\ userEdits = 0
    /\ writeFaults = 0

\* The loops over the files.
Next1 == Order[Min(left)]
Visited == left' = left \ {Min(left)}
Enters(s) == stage' = s /\ left' = DOMAIN Order
Of(kind) == {i \in DOMAIN Order : patch[Order[i]].kind = kind}

FaultIf(ok) ==
    IF ok THEN UNCHANGED writeFaults
    ELSE writeFaults < MaxWriteFaults /\ writeFaults' = writeFaults + 1

-----------------------------------------------------------------------------
(* Capture, and the agent's patch.                                          *)

CaptureFile ==
    /\ stage = "capture"
    /\ left # {}
    /\ before' = [before EXCEPT ![Next1] = file[Next1]]
    /\ Visited
    /\ UNCHANGED <<file, stage, back, after, patch, written, userOwns, unseen, crossed,
                   overwritten, stuck, userEdits, writeFaults>>

\* The agent reads the files and proposes to change the first region of those
\* that exist and to create the others.
Propose ==
    /\ stage \in {"capture", "captured"}
    /\ left = {}
    /\ patch' = [p \in Paths |->
          IF file[p] = Absent
            THEN [kind |-> "create", expected |-> Absent, content |-> <<"agent", "agent">>]
            ELSE [kind |-> "edit", expected |-> file[p], content |-> <<"agent", file[p][2]>>]]
    /\ after' = [p \in Paths |-> patch'[p].content]
    /\ back' = "captured"
    /\ Enters("check")
    /\ written' = {}
    /\ crossed' = {}
    /\ userOwns' = {x \in userOwns : /\ patch'[x[1]].content # Absent
                                     /\ patch'[x[1]].content[x[2]] = "user"}
    /\ unseen' = {p \in Paths : file[p] # before[p]}
    /\ stuck' = FALSE
    /\ UNCHANGED <<file, before, overwritten, userEdits, writeFaults>>

\* Between capture and seal the agent may also remove a file with a command.
AgentRemoves(p) ==
    /\ stage = "applied"
    /\ left = DOMAIN Order
    /\ before[p] # Absent
    /\ file[p] = after[p]
    /\ file[p] # Absent
    /\ file' = [file EXCEPT ![p] = Absent]
    /\ after' = [after EXCEPT ![p] = Absent]
    /\ userOwns' = {x \in userOwns : x[1] # p}
    /\ UNCHANGED <<stage, back, left, before, patch, written, unseen, crossed,
                   overwritten, stuck, userEdits, writeFaults>>

-----------------------------------------------------------------------------
(* ApplyPatchSet.                                                           *)

\* Mutant of CheckFile: the content is not compared.
CheckFileExists ==
    /\ stage = "check"
    /\ IF left = {}
         THEN stage' = "write" /\ left' = Of("edit")
         ELSE LET c == patch[Next1] IN
              IF (c.kind = "edit" /\ file[Next1] = Absent) \/ (c.kind = "create" /\ file[Next1] # Absent)
                THEN stage' = back /\ left' = {}
                ELSE Visited /\ UNCHANGED stage
    /\ UNCHANGED <<file, back, before, after, patch, written, userOwns, unseen, crossed,
                   overwritten, stuck, userEdits, writeFaults>>

\* ValidatePatchSet, the reading of the backups and the checks of Apply, which
\* all compare a file with what the patch expects.
CheckFile ==
    /\ stage = "check"
    /\ IF left = {}
         THEN stage' = "write" /\ left' = Of("edit")
         ELSE LET c == patch[Next1] IN
              IF c.kind \in {"edit", "create"} /\ file[Next1] # c.expected
                THEN stage' = back /\ left' = {}
                ELSE Visited /\ UNCHANGED stage
    /\ UNCHANGED <<file, back, before, after, patch, written, userOwns, unseen, crossed,
                   overwritten, stuck, userEdits, writeFaults>>

\* Content c replaces that of p, and takes the user's text where it has none.
Puts(p, c) ==
    LET gone == {x \in userOwns : x[1] = p /\ (c = Absent \/ c[x[2]] # "user")} IN
    /\ file' = [file EXCEPT ![p] = c]
    /\ userOwns' = userOwns \ gone
    /\ overwritten' = IF p \in crossed THEN overwritten ELSE overwritten \cup gone

\* Mutant of WriteFile: the files written before the failure stay.
WriteFileKeeps(ok) ==
    /\ stage = "write"
    /\ FaultIf(ok)
    /\ IF left = {}
         THEN ok /\ stage' = "create" /\ left' = Of("create") /\ UNCHANGED <<userVars, written>>
         ELSE IF ok
           THEN /\ Puts(Next1, patch[Next1].content)
                /\ written' = written \cup {Next1}
                /\ Visited
                /\ UNCHANGED stage
           ELSE /\ stage' = "undo"
                /\ left' = {}
                /\ written' = {}
                /\ UNCHANGED userVars
    /\ UNCHANGED <<back, before, after, patch, unseen, crossed, stuck, userEdits>>

\* Apply: the files that exist.
WriteFile(ok) ==
    /\ stage = "write"
    /\ FaultIf(ok)
    /\ IF left = {}
         THEN ok /\ stage' = "create" /\ left' = Of("create") /\ UNCHANGED <<userVars, written>>
         ELSE IF ok
           THEN /\ Puts(Next1, patch[Next1].content)
                /\ written' = written \cup {Next1}
                /\ Visited
                /\ UNCHANGED stage
           ELSE /\ stage' = "undo"
                /\ left' = {}
                /\ UNCHANGED <<userVars, written>>
    /\ UNCHANGED <<back, before, after, patch, unseen, crossed, stuck, userEdits>>

\* writeNewExclusive: a file that has appeared ends the patch.
CreateFile(ok) ==
    /\ stage = "create"
    /\ FaultIf(ok)
    /\ IF left = {}
         THEN /\ ok
              /\ Enters(IF back = "captured" THEN "applied" ELSE "rewound")
              /\ UNCHANGED <<userVars, written>>
         ELSE IF ok /\ file[Next1] = Absent
           THEN /\ Puts(Next1, patch[Next1].content)
                /\ written' = written \cup {Next1}
                /\ Visited
                /\ UNCHANGED stage
           ELSE /\ stage' = "undo"
                /\ left' = {}
                /\ UNCHANGED <<userVars, written>>
    /\ UNCHANGED <<back, before, after, patch, unseen, crossed, stuck, userEdits>>

\* The rollback, last file first, whatever becomes of each.
LastWritten ==
    LET new == {i \in Of("create") : Order[i] \in written}
        old == {i \in Of("edit") : Order[i] \in written} IN
    Order[IF new # {} THEN Max(new) ELSE Max(old)]

Undo(ok) ==
    /\ stage = "undo"
    /\ FaultIf(ok)
    /\ IF written = {}
         THEN ok /\ stage' = "failed" /\ UNCHANGED <<userVars, written, stuck>>
         ELSE /\ IF ok THEN Puts(LastWritten, patch[LastWritten].expected)
                 ELSE UNCHANGED userVars
              /\ stuck' = (stuck \/ ~ok)
              /\ written' = written \ {LastWritten}
              /\ UNCHANGED stage
    /\ UNCHANGED <<back, left, before, after, patch, unseen, crossed, userEdits>>

\* The error is returned.
Failed ==
    /\ stage = "failed"
    /\ stage' = back
    /\ UNCHANGED <<file, back, left, before, after, patch, written, userOwns, unseen,
                   crossed, overwritten, stuck, userEdits, writeFaults>>

-----------------------------------------------------------------------------
(* Seal and PlanRewind.                                                     *)

\* Seal: every file must be as the agent left it.
SealFile ==
    /\ stage = "applied"
    /\ IF left = {} THEN stage' = "sealed" /\ UNCHANGED left
       ELSE /\ UNCHANGED stage
            /\ IF file[Next1] = after[Next1] THEN Visited ELSE left' = DOMAIN Order
    /\ UNCHANGED <<file, back, before, after, patch, written, userOwns, unseen, crossed,
                   overwritten, stuck, userEdits, writeFaults>>

StartPlan ==
    /\ stage = "sealed"
    /\ Enters("plan")
    /\ patch' = [p \in Paths |-> NoChange]
    /\ UNCHANGED <<file, back, before, after, written, userOwns, unseen, crossed, overwritten,
                   stuck, userEdits, writeFaults>>

\* Reconcile: the regions that differ from the base on both sides, where git
\* merge-file leaves conflict markers, and what it makes of the others.
Clashes(base, latest, mine) ==
    {r \in 1..2 : latest[r] # base[r] /\ mine[r] # base[r] /\ latest[r] # mine[r]}
Merged(base, latest, mine) ==
    [r \in 1..2 |-> IF r \in Clashes(base, latest, mine) THEN "markers"
                    ELSE IF latest[r] # base[r] THEN latest[r] ELSE mine[r]]

\* The entry of the plan for p.
Rewound(p) ==
    LET b == before[p]
        a == after[p]
        now == file[p]
        merged == Merged(a, now, b) IN
    CASE b # a /\ b # Absent /\ a # Absent /\ now # Absent ->
            IF now = b \/ merged = now THEN NoChange
            ELSE [kind |-> "edit", expected |-> now, content |-> merged]
      [] b # Absent /\ a = Absent /\ now = Absent ->
            [kind |-> "create", expected |-> Absent, content |-> b]
      [] b # a /\ b = Absent /\ now = a -> [kind |-> "delete", expected |-> now, content |-> Absent]
      [] OTHER -> NoChange

\* A conflict, or an error of the merge, for p: nothing is planned.
Conflicts(p) ==
    LET b == before[p]
        a == after[p]
        now == file[p] IN
    /\ b # a
    /\ \/ b # Absent /\ a # Absent /\ now = Absent
       \/ b # Absent /\ a # Absent /\ now \notin {Absent, b} /\ Clashes(a, now, b) # {}
       \/ b # Absent /\ a = Absent /\ now \notin {Absent, b}
       \/ b = Absent /\ now \notin {Absent, a}

PlanFile ==
    /\ stage = "plan"
    /\ left # {}
    /\ IF Conflicts(Next1)
         THEN stage' = "sealed" /\ left' = {} /\ UNCHANGED patch
         ELSE /\ patch' = [patch EXCEPT ![Next1] = Rewound(Next1)]
              /\ Visited
              /\ UNCHANGED stage
    /\ UNCHANGED <<file, back, before, after, written, userOwns, unseen, crossed, overwritten,
                   stuck, userEdits, writeFaults>>

\* The plan is applied; the deletes in it are left to the caller.
ApplyRewind ==
    /\ stage = "plan"
    /\ left = {}
    /\ Of("edit") \cup Of("create") # {}
    /\ Enters("check")
    /\ back' = "sealed"
    /\ written' = {}
    /\ crossed' = {}
    /\ stuck' = FALSE
    /\ UNCHANGED <<file, before, after, patch, userOwns, unseen, overwritten, userEdits, writeFaults>>

-----------------------------------------------------------------------------
(* The user.                                                                *)

\* ApplyPatchSet has checked p.
IsChecked(p) ==
    \/ stage \in {"write", "create", "undo", "failed"}
    \/ stage = "check" /\ \E i \in DOMAIN Order \ left : Order[i] = p

\* What the user writes is the user's, but for the text that the patch under
\* way has seen: when it is there again, the agent means to change it.
UserWrites(p, c) ==
    LET new == {r \in DOMAIN c : file[p] = Absent \/ c[r] # file[p][r]}
        meant == {r \in DOMAIN c : /\ stage = "check" /\ back = "captured"
                                   /\ patch[p].kind = "edit"
                                   /\ patch[p].expected = c
                                   /\ patch[p].content[r] # "user"} IN
    /\ userEdits < MaxUserEdits
    /\ userEdits' = userEdits + 1
    /\ c # file[p]
    /\ file' = [file EXCEPT ![p] = c]
    /\ userOwns' = ({x \in userOwns : x[1] # p \/ c # Absent} \cup {<<p, r>> : r \in new})
                     \ {<<p, r>> : r \in meant}
    /\ overwritten' = overwritten \ {<<p, r>> : r \in 1..2}
    /\ crossed' = IF IsChecked(p) THEN crossed \cup {p} ELSE crossed
    /\ UNCHANGED <<stage, back, left, before, after, patch, written, unseen, stuck, writeFaults>>

\* A region is edited, or the file is removed or created.
UserEdit ==
    \E p \in Paths :
        \/ file[p] = Absent /\ UserWrites(p, <<"user", "user">>)
        \/ file[p] # Absent /\ \/ UserWrites(p, Absent)
                               \/ \E r \in 1..2 : UserWrites(p, [file[p] EXCEPT ![r] = "user"])

EditingNext ==
    \/ CaptureFile \/ Propose
    \/ \E p \in Paths : AgentRemoves(p)
    \/ CheckFile
    \/ \E ok \in BOOLEAN : WriteFile(ok) \/ CreateFile(ok) \/ Undo(ok)
    \/ Failed
    \/ SealFile \/ StartPlan \/ PlanFile \/ ApplyRewind
    \/ UserEdit

EditingSpec == EditingInit /\ [][EditingNext]_editVars

-----------------------------------------------------------------------------
(* Properties.                                                              *)

\* What the user writes is never overwritten, by the patch or by its rewind,
\* unless it came after the check of the file in the same ApplyPatchSet, before
\* the write or before a rollback, or between the capture and the agent's look
\* at the file: "Any overlap becomes structured conflict instead of overwrite".
UserKept == \A x \in overwritten : x[1] \in unseen

\* The same for what the user wrote between the capture and the agent's look at
\* the file.  It does not hold: it is in the sealed content, and the rewind
\* takes it for a change of the agent's.
RewindKeepsUser == overwritten = {}

\* A patch set that failed has changed nothing in the files that only the agent
\* touched, as long as no write of the rollback failed.
AllOrNothing ==
    stage = "failed" /\ ~stuck =>
        \A i \in Of("edit") \cup Of("create") :
            Order[i] \notin crossed => file[Order[i]] = patch[Order[i]].expected
=============================================================================
