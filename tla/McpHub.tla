------------------------------- MODULE McpHub -------------------------------
(***************************************************************************)
(* The connections of one workspace to local MCP servers                   *)
(* (internal/mcphub/hub.go): sessions that calls share, made on demand,    *)
(* dropped when the configuration or the credential changes, when they are *)
(* idle, and when the hub is closed.                                       *)
(*                                                                         *)
(* A server has a configuration in the registry file, or is the managed    *)
(* one, whose configuration is fixed and whose credential changes (that of *)
(* its remote endpoint; the local one, which has none, is in               *)
(* SharedBackend).  Both are versions.  The file belongs to all hubs of    *)
(* all workspaces, and every change reads it whole and writes it whole,    *)
(* with no lock.  A session is known by its name in the map; the code      *)
(* never compares the configuration it was made with.  The guard, the      *)
(* transports and what a tool does are external: a connection or a call    *)
(* works or fails.  Left out: what the catalog of tools holds.             *)
(***************************************************************************)
EXTENDS Naturals, FiniteSets

CONSTANTS
    Callers,        \* goroutines, each with one Call or Probe
    Servers,        \* names
    ManagedServers, \* the managed ones among them
    MaxSessions,    \* bound: sessions that are made
    MaxChanges,     \* bound: changes of configurations and credentials
    MaxCopies       \* bound: copies of the file that other hubs have at a time

ASSUME McpHubAssumption ==
    /\ ManagedServers \subseteq Servers
    /\ {MaxSessions, MaxChanges, MaxCopies} \subseteq Nat

Sessions == 1..MaxSessions
Versions == 0..MaxChanges + 1
Registered == Servers \ ManagedServers
Files == [Registered -> Versions]

VARIABLES
    config,     \* version of each server: its configuration or its credential,
                \* 0 when there is none
    admin,      \* Add, Remove or a new credential of each server, under way
    elsewhere,  \* registry files that other hubs have read and may write back
    sessionOf,  \* Hub.sessions, 0 for none
    made,       \* the version that each session was made with
    opened,     \* sessions that are open
    closing,    \* those that left the map and are about to be closed
    connecting, \* Hub.connecting
    caller,     \* the call of each goroutine
    sweeping,   \* servers that the sweeper is about to disconnect
    dropping,   \* servers that Close is about to disconnect
    closed,     \* Close was called
    behind,     \* sessions that were filed with a version that is not current
    undone,     \* sessions that were in the map when the file was written with
                \* another version than theirs, and not by Add or Remove of the name
    changes

fileVars == <<config, admin, elsewhere, undone, changes>>
mapVars == <<sessionOf, opened, closing>>
hubEnds == <<sweeping, dropping, closed>>
hubVars == <<fileVars, mapVars, made, behind, connecting, caller, hubEnds>>

NoAdmin == [pc |-> "idle"]
Dropping == [pc |-> "drop"]
Admins == {NoAdmin, Dropping} \cup [pc : {"write"}, file : Files]

NoCall == [pc |-> "idle"]
Over == [pc |-> "over"]

ActiveCalls ==
    [pc : {"look", "probe", "connect", "enter", "drop", "reclose", "wait", "dial", "store",
           "end", "use"},
     server : Servers, what : {"call", "probe"}, probing : BOOLEAN, known : Versions,
     ver : Versions, ses : {0} \cup Sessions]
Calls == {NoCall, Over} \cup ActiveCalls

McpHubTypeOK ==
    /\ config \in [Servers -> Versions]
    /\ admin \in [Servers -> Admins]
    /\ elsewhere \subseteq Files
    /\ sessionOf \in [Servers -> {0} \cup Sessions]
    /\ made \in [Sessions -> Versions]
    /\ opened \subseteq Sessions
    /\ closing \subseteq opened
    /\ connecting \subseteq Servers
    /\ caller \in [Callers -> Calls]
    /\ sweeping \subseteq Servers
    /\ dropping \subseteq Servers
    /\ closed \in BOOLEAN
    /\ behind \subseteq Sessions
    /\ undone \subseteq Sessions
    /\ changes \in 0..MaxChanges

McpHubInit ==
    /\ config = [s \in Servers |-> 1]
    /\ admin = [s \in Servers |-> NoAdmin]
    /\ elsewhere = {}
    /\ sessionOf = [s \in Servers |-> 0]
    /\ made = [x \in Sessions |-> 0]
    /\ opened = {}
    /\ closing = {}
    /\ connecting = {}
    /\ caller = [c \in Callers |-> NoCall]
    /\ sweeping = {}
    /\ dropping = {}
    /\ closed = FALSE
    /\ behind = {}
    /\ undone = {}
    /\ changes = 0

\* A step of caller c.
Move(c, pc) == caller' = [caller EXCEPT ![c].pc = pc]
Leave(c) == caller' = [caller EXCEPT ![c] = Over]
CallerAt(c, pc) == caller[c].pc = pc
\* connect reads the credential of a managed server first.
ConnectPc(s) == IF s \in ManagedServers THEN "connect" ELSE "enter"
FreshSessions == {x \in Sessions : made[x] = 0}

-----------------------------------------------------------------------------
(* Call and Probe.                                                          *)

\* resolve reads the registry; the managed server is always there.
Installed(s) == config[s] # 0 \/ s \in ManagedServers
VersionOf(s) == IF s \in ManagedServers THEN 0 ELSE config[s]

\* A call or a probe begins with it, and fails when the server is not there.
BeginCall(c, s, what) ==
    /\ CallerAt(c, "idle")
    /\ Installed(s)
    /\ caller' = [caller EXCEPT ![c] =
         [pc |-> IF what = "call" THEN "look" ELSE ConnectPc(s), server |-> s, what |-> what,
          probing |-> what = "probe", known |-> VersionOf(s), ver |-> VersionOf(s), ses |-> 0]]
    /\ UNCHANGED <<fileVars, mapVars, made, behind, connecting, hubEnds>>

\* The Probe of a ToolInfo resolves the name again.
BeginProbe(c) ==
    LET k == caller[c] IN
    /\ k.pc = "probe"
    /\ IF Installed(k.server)
         THEN caller' = [caller EXCEPT ![c] =
                [k EXCEPT !.pc = ConnectPc(k.server), !.probing = TRUE, !.ver = VersionOf(k.server)]]
         ELSE Leave(c)
    /\ UNCHANGED <<fileVars, mapVars, made, behind, connecting, hubEnds>>

\* ToolInfo finds the tool in the catalog, or it does not: then Probe fetches
\* the catalog and ToolInfo looks once more.
LookUp(c) ==
    LET k == caller[c] IN
    /\ k.pc = "look"
    /\ \/ caller' = [caller EXCEPT ![c] =
            [k EXCEPT !.pc = ConnectPc(k.server), !.probing = FALSE, !.ver = k.known]]
       \/ k.probing /\ Leave(c)
       \/ ~k.probing /\ Move(c, "probe")
    /\ UNCHANGED <<fileVars, mapVars, made, behind, connecting, hubEnds>>

\* The request on the session.  It fails when the session is closed, or when it
\* carries a credential that is no longer the current one (headerTransport).
\* After the Probe of a ToolInfo the call goes on, otherwise it is over.
Use(c) ==
    LET k == caller[c]
        fit == k.ses \in opened /\ (k.server \in ManagedServers => config[k.server] = made[k.ses]) IN
    /\ k.pc = "use"
    /\ \/ Leave(c)
       \/ fit /\ k.probing /\ k.what = "call" /\ Move(c, "look")
    /\ UNCHANGED <<fileVars, mapVars, made, behind, connecting, hubEnds>>

-----------------------------------------------------------------------------
(* connect.                                                                 *)

\* The credential of the managed server is read before the lock is taken;
\* without one the session is dropped and the call fails.
Credential(c) ==
    LET k == caller[c] IN
    /\ k.pc = "connect"
    /\ caller' = [caller EXCEPT ![c] = IF config[k.server] = 0 THEN [k EXCEPT !.pc = "drop"]
                                       ELSE [k EXCEPT !.pc = "enter", !.ver = config[k.server]]]
    /\ UNCHANGED <<fileVars, mapVars, made, behind, connecting, hubEnds>>

\* A session of that name is there: it is taken, unless its credential is
\* another one, when it is closed and connect begins again.
Reuse(c) ==
    LET k == caller[c]
        x == sessionOf[k.server] IN
    /\ k.pc = "enter"
    /\ x # 0
    /\ IF k.server \in ManagedServers /\ made[x] # k.ver
         THEN /\ sessionOf' = [sessionOf EXCEPT ![k.server] = 0]
              /\ caller' = [caller EXCEPT ![c].pc = "reclose", ![c].ses = x]
         ELSE /\ caller' = [caller EXCEPT ![c].pc = "use", ![c].ses = x]
              /\ UNCHANGED sessionOf
    /\ UNCHANGED <<fileVars, opened, closing, made, behind, connecting, hubEnds>>

Reclose(c) ==
    /\ CallerAt(c, "reclose")
    /\ opened' = opened \ {caller[c].ses}
    /\ caller' = [caller EXCEPT ![c].pc = "connect", ![c].ses = 0]
    /\ UNCHANGED <<fileVars, sessionOf, closing, made, behind, connecting, hubEnds>>

\* Mutant of Enter: nobody waits for a connection that another one makes.
EnterAnyway(c) ==
    /\ CallerAt(c, "enter")
    /\ sessionOf[caller[c].server] = 0
    /\ connecting' = connecting \cup {caller[c].server}
    /\ Move(c, "dial")
    /\ UNCHANGED <<fileVars, mapVars, made, behind, hubEnds>>

\* There is none: one goroutine connects, the others wait for its channel.
Enter(c) ==
    /\ CallerAt(c, "enter")
    /\ sessionOf[caller[c].server] = 0
    /\ connecting' = connecting \cup {caller[c].server}
    /\ Move(c, IF caller[c].server \in connecting THEN "wait" ELSE "dial")
    /\ UNCHANGED <<fileVars, mapVars, made, behind, hubEnds>>

\* The context of a waiting call ends.
GiveUp(c) ==
    /\ CallerAt(c, "wait")
    /\ Leave(c)
    /\ UNCHANGED <<fileVars, mapVars, made, behind, connecting, hubEnds>>

\* client.Connect makes a session, or something before it fails.
Dial(c) ==
    LET k == caller[c] IN
    /\ k.pc = "dial"
    /\ \/ /\ Move(c, "end")
          /\ UNCHANGED <<opened, made>>
       \/ /\ k.server \in ManagedServers => config[k.server] = k.ver
          /\ \E x \in FreshSessions :
                /\ \A y \in FreshSessions : x <= y
                /\ opened' = opened \cup {x}
                /\ made' = [made EXCEPT ![x] = k.ver]
                /\ caller' = [caller EXCEPT ![c].pc = "store", ![c].ses = x]
    /\ UNCHANGED <<fileVars, sessionOf, closing, behind, connecting, hubEnds>>

Store(c) ==
    LET k == caller[c] IN
    /\ k.pc = "store"
    /\ sessionOf' = [sessionOf EXCEPT ![k.server] = k.ses]
    /\ behind' = IF k.ver = config[k.server] THEN behind ELSE behind \cup {k.ses}
    /\ Move(c, "end")
    /\ UNCHANGED <<fileVars, opened, closing, made, connecting, hubEnds>>

\* The deferred function closes the channel: those who wait begin again.
EndConnect(c) ==
    LET k == caller[c] IN
    /\ k.pc = "end"
    /\ connecting' = connecting \ {k.server}
    /\ caller' = [d \in Callers |->
         IF d = c THEN IF k.ses = 0 THEN Over ELSE [k EXCEPT !.pc = "use"]
         ELSE IF caller[d].pc = "wait" /\ caller[d].server = k.server
              THEN [caller[d] EXCEPT !.pc = ConnectPc(k.server)]
         ELSE caller[d]]
    /\ UNCHANGED <<fileVars, mapVars, made, behind, hubEnds>>

-----------------------------------------------------------------------------
(* Configuration, and the end of sessions.                                  *)

\* disconnect takes the session of that name out of the map; it is closed after
\* that.
Disconnect(s) ==
    /\ sessionOf' = [sessionOf EXCEPT ![s] = 0]
    /\ closing' = IF sessionOf[s] = 0 THEN closing ELSE closing \cup {sessionOf[s]}

CloseSession(x) ==
    /\ x \in closing
    /\ closing' = closing \ {x}
    /\ opened' = opened \ {x}
    /\ UNCHANGED <<fileVars, sessionOf, made, behind, connecting, caller, hubEnds>>

CallerDrops(c) ==
    /\ CallerAt(c, "drop")
    /\ Disconnect(caller[c].server)
    /\ Leave(c)
    /\ UNCHANGED <<fileVars, opened, made, behind, connecting, hubEnds>>

\* readRegistry
Registry == [s \in Registered |-> config[s]]

\* WriteJSONAtomic of the whole file, for a change of the servers in names.
Written(file, names) ==
    /\ config' = [s \in Servers |-> IF s \in Registered THEN file[s] ELSE config[s]]
    /\ undone' = undone \cup {sessionOf[s] : s \in
                     {x \in Registered \ names : sessionOf[x] # 0 /\ file[x] # config[x]}}

\* The file is read, and a server becomes another version in what was read.
Edit(s, next) ==
    /\ s \in Registered
    /\ admin[s] = NoAdmin
    /\ changes < MaxChanges
    /\ changes' = changes + 1
    /\ admin' = [admin EXCEPT ![s] = next]
    /\ UNCHANGED <<config, elsewhere, undone, mapVars, made, behind, connecting, caller, hubEnds>>

Writing(s, v) == [pc |-> "write", file |-> [Registry EXCEPT ![s] = v]]

\* add, and Remove, which writes nothing when there is nothing to remove.
Add(s) == Edit(s, Writing(s, changes + 2))
Remove(s) == Edit(s, IF config[s] = 0 THEN Dropping ELSE Writing(s, 0))

\* Mutant of AdminWrites: the session of the former configuration stays.
AdminWritesOnly(s) ==
    /\ admin[s].pc = "write"
    /\ Written(admin[s].file, {s})
    /\ admin' = [admin EXCEPT ![s] = NoAdmin]
    /\ UNCHANGED <<elsewhere, changes, mapVars, made, behind, connecting, caller, hubEnds>>

\* The file is written, and with it all that has been read; the name is
\* disconnected after that.  Or the change is refused, or cannot be written.
AdminWrites(s) ==
    /\ admin[s].pc = "write"
    /\ \/ Written(admin[s].file, {s}) /\ admin' = [admin EXCEPT ![s] = Dropping]
       \/ UNCHANGED <<config, undone>> /\ admin' = [admin EXCEPT ![s] = NoAdmin]
    /\ UNCHANGED <<elsewhere, changes, mapVars, made, behind, connecting, caller, hubEnds>>

\* Hubs of other workspaces do the same with servers of theirs, or of the global
\* scope; so does one of this workspace whose engine is replaced.  None of them
\* disconnects anything here.
OtherReads ==
    /\ Cardinality(elsewhere) < MaxCopies
    /\ elsewhere' = elsewhere \cup {Registry}
    /\ UNCHANGED <<config, admin, undone, changes, mapVars, made, behind, connecting, caller, hubEnds>>

OtherWrites(file) ==
    /\ file \in elsewhere
    /\ elsewhere' \in {elsewhere, elsewhere \ {file}}
    /\ \/ Written(file, {}) /\ UNCHANGED changes
       \/ /\ changes < MaxChanges
          /\ changes' = changes + 1
          /\ \E s \in Registered, v \in {0, changes + 2} : Written([file EXCEPT ![s] = v], {})
    /\ UNCHANGED <<admin, mapVars, made, behind, connecting, caller, hubEnds>>

\* SetManagedPenpotCredentialRef drops the session; a new value of the secret
\* behind the reference does not.
NewCredential(s, v, next) ==
    /\ s \in ManagedServers
    /\ v # config[s]
    /\ admin[s] = NoAdmin
    /\ changes < MaxChanges
    /\ changes' = changes + 1
    /\ config' = [config EXCEPT ![s] = v]
    /\ admin' = [admin EXCEPT ![s] = next]
    /\ UNCHANGED <<elsewhere, undone, mapVars, made, behind, connecting, caller, hubEnds>>

SetCredentialRef(s, v) == NewCredential(s, v, Dropping)
SecretChanges(s, v) == NewCredential(s, v, NoAdmin)

AdminDrops(s) ==
    /\ admin[s] = Dropping
    /\ Disconnect(s)
    /\ admin' = [admin EXCEPT ![s] = NoAdmin]
    /\ UNCHANGED <<config, elsewhere, undone, changes, opened, made, behind, connecting, caller, hubEnds>>

\* sweep lists the names of sessions that are idle (any may be) and disconnects
\* them after that.
SweepLook ==
    /\ ~closed
    /\ sweeping = {}
    /\ sweeping' \in SUBSET {s \in Servers : sessionOf[s] # 0}
    /\ UNCHANGED <<fileVars, mapVars, made, behind, connecting, caller, dropping, closed>>

SweepDrops(s) ==
    /\ s \in sweeping
    /\ sweeping' = sweeping \ {s}
    /\ Disconnect(s)
    /\ UNCHANGED <<fileVars, opened, made, behind, connecting, caller, dropping, closed>>

\* Close disconnects the sessions of the moment; calls go on.
CloseHub ==
    /\ ~closed
    /\ closed' = TRUE
    /\ dropping' = {s \in Servers : sessionOf[s] # 0}
    /\ UNCHANGED <<fileVars, mapVars, made, behind, connecting, caller, sweeping>>

CloseDrops(s) ==
    /\ s \in dropping
    /\ dropping' = dropping \ {s}
    /\ Disconnect(s)
    /\ UNCHANGED <<fileVars, opened, made, behind, connecting, caller, sweeping, closed>>

McpHubNext ==
    \/ SweepLook
    \/ CloseHub
    \/ OtherReads
    \/ \E file \in elsewhere : OtherWrites(file)
    \/ \E x \in Sessions : CloseSession(x)
    \/ \E s \in Servers :
        \/ Add(s) \/ Remove(s) \/ AdminWrites(s) \/ AdminDrops(s)
        \/ \E v \in {0, changes + 2} : SetCredentialRef(s, v) \/ SecretChanges(s, v)
        \/ SweepDrops(s) \/ CloseDrops(s)
    \/ \E c \in Callers :
        \/ \E s \in Servers, what \in {"call", "probe"} : BeginCall(c, s, what)
        \/ BeginProbe(c) \/ LookUp(c) \/ Use(c)
        \/ Credential(c) \/ Reuse(c) \/ Reclose(c) \/ Enter(c) \/ GiveUp(c)
        \/ Dial(c) \/ Store(c) \/ EndConnect(c) \/ CallerDrops(c)

McpHubSpec == McpHubInit /\ [][McpHubNext]_hubVars

-----------------------------------------------------------------------------
(* Properties.                                                              *)

\* No open session is lost: it is in the map, where Close and the sweeper find
\* it, or in the hands of somebody who will file it or close it, though calls
\* connect while sessions of the same name are dropped for four reasons.
NoSessionLost ==
    \A x \in opened :
        \/ \E s \in Servers : sessionOf[s] = x
        \/ x \in closing
        \/ \E c \in Callers : caller[c].pc \in {"store", "reclose"} /\ caller[c].ses = x

\* A session of a configuration that was replaced or removed is about to be
\* disconnected, though the file and the session change in steps of their own
\* and calls connect between them.  Two exceptions: its connection was begun
\* before the change and was filed after it; and the file was written by somebody
\* else, another hub or an Add or Remove of another name, whose copy of it was
\* older or had another version of the server: nothing is disconnected then.
StaleOnlyByRace ==
    \A s \in Registered : sessionOf[s] # 0 =>
        \/ made[sessionOf[s]] = config[s]
        \/ sessionOf[s] \in behind \cup undone
        \/ admin[s] = Dropping
=============================================================================
