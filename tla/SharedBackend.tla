---------------------------- MODULE SharedBackend ----------------------------
(***************************************************************************)
(* The local Penpot server that all hubs of the process share              *)
(* (internal/mcphub/managed_penpot.go): a child process with a count of    *)
(* the hubs that use it.  The first one starts it, the last one kills it.  *)
(*                                                                         *)
(* A hub makes sure of the server whenever it connects (one connect at a   *)
(* time, see McpHub), and gives it up when it is closed.  The count is     *)
(* under a lock of its own, which acquireManagedPenpot keeps while it      *)
(* waits for a new child; what a hub remembers is under the lock of the    *)
(* hub.  A child that runs answers, a killed one until it has ended, which *)
(* releaseManagedPenpotRuntime does not wait for; a server that somebody   *)
(* else started is left out.                                               *)
(***************************************************************************)
EXTENDS Naturals, FiniteSets

CONSTANTS
    Hubs,
    MaxChildren,    \* bound: children that are started
    MaxDeaths       \* bound: children that die by themselves

ASSUME SharedBackendAssumption == {MaxChildren, MaxDeaths} \subseteq Nat

Children == 1..MaxChildren

VARIABLES
    server,     \* penpotRuntimeState.cmd, 0 for none
    refs,       \* penpotRuntimeState.refs
    holder,     \* of the lock, while it waits for a new child: <<hub>>
    serving,    \* children that run
    killed,     \* those among them that were sent Kill
    unnoticed,  \* dead children that watchManagedPenpot has yet to notice
    started,    \* children started so far
    penpot,     \* Hub.penpot
    ensuring,   \* where ensureManagedPenpot of each hub is
    ending,     \* where Close of each hub is
    misled,     \* hubs that last found the server there in a killed child
    twice,      \* a hub has given the server up in Close and once more
    deaths

children == <<serving, killed, unnoticed, started>>
history == <<misled, twice, deaths>>
backendVars == <<server, refs, holder, children, penpot, ensuring, ending, history>>

SharedBackendTypeOK ==
    /\ server \in 0..MaxChildren
    /\ refs \in Nat
    /\ holder \in {<<>>} \cup {<<h>> : h \in Hubs}
    /\ serving \subseteq Children
    /\ killed \subseteq serving
    /\ unnoticed \subseteq Children
    /\ started \in 0..MaxChildren
    /\ penpot \in [Hubs -> BOOLEAN]
    /\ ensuring \in [Hubs -> {"idle", "check", "release", "clear", "acquire", "wait", "mark"}]
    /\ ending \in [Hubs -> {"no", "release", "done"}]
    /\ misled \subseteq Hubs
    /\ twice \in BOOLEAN
    /\ deaths \in 0..MaxDeaths

SharedBackendInit ==
    /\ server = 0
    /\ refs = 0
    /\ holder = <<>>
    /\ serving = {}
    /\ killed = {}
    /\ unnoticed = {}
    /\ started = 0
    /\ penpot = [h \in Hubs |-> FALSE]
    /\ ensuring = [h \in Hubs |-> "idle"]
    /\ ending = [h \in Hubs |-> "no"]
    /\ misled = {}
    /\ twice = FALSE
    /\ deaths = 0

\* managedPenpotEndpointReady
Ready == serving # {}

\* Hubs that were told that the server is there.
Relying == {h \in Hubs : ensuring[h] = "mark" \/ (penpot[h] /\ ensuring[h] \in {"idle", "check"})}

\* h finds the server there: nothing but killed children may have answered.
Found(h) == misled' = IF serving \subseteq killed THEN misled \cup {h} ELSE misled \ {h}

-----------------------------------------------------------------------------
(* ensureManagedPenpot.                                                     *)

Ensure(h) ==
    /\ ensuring[h] = "idle"
    /\ ensuring' = [ensuring EXCEPT ![h] = IF penpot[h] THEN "check" ELSE "acquire"]
    /\ UNCHANGED <<server, refs, holder, children, penpot, ending, history>>

\* A hub that has acquired the server and finds it there is done.
EnsureCheck(h) ==
    /\ ensuring[h] = "check"
    /\ ensuring' = [ensuring EXCEPT ![h] = IF Ready THEN "idle" ELSE "release"]
    /\ IF Ready THEN Found(h) ELSE UNCHANGED misled
    /\ UNCHANGED <<server, refs, holder, children, penpot, ending, twice, deaths>>

\* Mutant of ReleaseRef: the child is killed by the first that gives it up.
ReleaseRefFirst(h) ==
    /\ holder = <<>>
    /\ refs' = IF refs > 0 THEN refs - 1 ELSE 0
    /\ server' = 0
    /\ killed' = killed \cup (serving \cap {server})

\* releaseManagedPenpotRuntime: one user less, and without users the child is
\* sent Kill.  The lock is given back before the child has ended.
ReleaseRef(h) ==
    LET n == IF refs > 0 THEN refs - 1 ELSE 0 IN
    /\ holder = <<>>
    /\ refs' = n
    /\ server' = IF n = 0 THEN 0 ELSE server
    /\ killed' = IF n = 0 THEN killed \cup (serving \cap {server}) ELSE killed

\* The server was there and is not: it is given up before it is acquired again.
EnsureRelease(h) ==
    /\ ensuring[h] = "release"
    /\ ReleaseRef(h)
    /\ ensuring' = [ensuring EXCEPT ![h] = "clear"]
    /\ twice' = (twice \/ ~penpot[h])
    /\ UNCHANGED <<holder, serving, unnoticed, started, penpot, ending, misled, deaths>>

EnsureClear(h) ==
    /\ ensuring[h] = "clear"
    /\ penpot' = [penpot EXCEPT ![h] = FALSE]
    /\ ensuring' = [ensuring EXCEPT ![h] = "acquire"]
    /\ UNCHANGED <<server, refs, holder, children, ending, history>>

\* acquireManagedPenpot: a server that is there has one user more.
AcquireReady(h) ==
    /\ ensuring[h] = "acquire"
    /\ holder = <<>>
    /\ Ready
    /\ Found(h)
    /\ refs' = refs + 1
    /\ ensuring' = [ensuring EXCEPT ![h] = "mark"]
    /\ UNCHANGED <<server, holder, children, penpot, ending, twice, deaths>>

\* Otherwise a child is started, and waited for under the lock.
AcquireStart(h) ==
    /\ ensuring[h] = "acquire"
    /\ holder = <<>>
    /\ ~Ready
    /\ started < MaxChildren
    /\ started' = started + 1
    /\ holder' = <<h>>
    /\ ensuring' = [ensuring EXCEPT ![h] = "wait"]
    /\ UNCHANGED <<server, refs, serving, killed, unnoticed, penpot, ending, history>>

\* It answers.
AcquireUp(h) ==
    /\ ensuring[h] = "wait"
    /\ server' = started
    /\ serving' = serving \cup {started}
    /\ misled' = misled \ {h}
    /\ refs' = refs + 1
    /\ holder' = <<>>
    /\ ensuring' = [ensuring EXCEPT ![h] = "mark"]
    /\ UNCHANGED <<killed, unnoticed, started, penpot, ending, twice, deaths>>

\* It cannot be started, exits, or does not answer in time: it is killed.
AcquireFails(h) ==
    /\ ensuring[h] \in {"acquire", "wait"}
    /\ ensuring[h] = "wait" \/ (holder = <<>> /\ ~Ready)
    /\ holder' = <<>>
    /\ ensuring' = [ensuring EXCEPT ![h] = "idle"]
    /\ UNCHANGED <<server, refs, children, penpot, ending, history>>

EnsureMark(h) ==
    /\ ensuring[h] = "mark"
    /\ penpot' = [penpot EXCEPT ![h] = TRUE]
    /\ ensuring' = [ensuring EXCEPT ![h] = "idle"]
    /\ UNCHANGED <<server, refs, holder, children, ending, history>>

-----------------------------------------------------------------------------
(* Ends.                                                                    *)

\* releaseManagedPenpot of a hub that is closed: what it remembers first.
CloseBackend(h) ==
    /\ ending[h] = "no"
    /\ ending' = [ending EXCEPT ![h] = IF penpot[h] THEN "release" ELSE "done"]
    /\ penpot' = [penpot EXCEPT ![h] = FALSE]
    /\ twice' = (twice \/ (ensuring[h] = "clear" /\ penpot[h]))
    /\ UNCHANGED <<server, refs, holder, children, ensuring, misled, deaths>>

CloseRelease(h) ==
    /\ ending[h] = "release"
    /\ ReleaseRef(h)
    /\ ending' = [ending EXCEPT ![h] = "done"]
    /\ UNCHANGED <<holder, serving, unnoticed, started, penpot, ensuring, history>>

\* A killed child ends.  watchManagedPenpot finds that it is no longer the
\* server.
KilledEnds(x) ==
    /\ x \in killed
    /\ killed' = killed \ {x}
    /\ serving' = serving \ {x}
    /\ UNCHANGED <<server, refs, holder, unnoticed, started, penpot, ensuring, ending, history>>

\* The child dies, and is noticed later.
ChildDies(x) ==
    /\ x \in serving \ killed
    /\ deaths < MaxDeaths
    /\ deaths' = deaths + 1
    /\ serving' = serving \ {x}
    /\ unnoticed' = unnoticed \cup {x}
    /\ UNCHANGED <<server, refs, holder, killed, started, penpot, ensuring, ending, misled, twice>>

\* watchManagedPenpot
Watch(x) ==
    /\ x \in unnoticed
    /\ holder = <<>>
    /\ unnoticed' = unnoticed \ {x}
    /\ server' = IF server = x THEN 0 ELSE server
    /\ refs' = IF server = x THEN 0 ELSE refs
    /\ UNCHANGED <<holder, serving, killed, started, penpot, ensuring, ending, history>>

SharedBackendNext ==
    \/ \E h \in Hubs :
        \/ Ensure(h) \/ EnsureCheck(h) \/ EnsureRelease(h) \/ EnsureClear(h) \/ EnsureMark(h)
        \/ AcquireReady(h) \/ AcquireStart(h) \/ AcquireUp(h) \/ AcquireFails(h)
        \/ CloseBackend(h) \/ CloseRelease(h)
    \/ \E x \in Children : KilledEnds(x) \/ ChildDies(x) \/ Watch(x)

SharedBackendSpec == SharedBackendInit /\ [][SharedBackendNext]_backendVars

-----------------------------------------------------------------------------
(* Properties.                                                              *)

\* A hub that was told that the server is there has one that nobody kills, though
\* hubs acquire it, give it up and close at the same time.  The exceptions: a
\* server that died, when watchManagedPenpot sets the count to zero and hubs
\* that find the next one running are not counted again; a hub that is closed
\* while it makes sure of the server, and gives it up twice; and a hub that found
\* the server there when the last user had just killed it, since the child is not
\* waited for and answers until it ends: that hub has lost it when it looks again.
ServerKept ==
    deaths = 0 /\ ~twice => \A h \in Relying \ misled : server \in serving \ killed
=============================================================================
