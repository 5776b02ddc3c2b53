--------------------------- MODULE SessionsProofs ---------------------------
(***************************************************************************)
(* Sessions that several users share, for any number of users, servers and *)
(* changes.                                                                *)
(***************************************************************************)
EXTENDS TokenFamily, McpHub, SharedBackend, FiniteSetTheorems, TLAPS

-----------------------------------------------------------------------------
(* The sessions of a hub.                                                   *)

HubTypes ==
    /\ config \in [Servers -> Versions]
    /\ admin \in [Servers -> Admins]
    /\ elsewhere \subseteq Files /\ undone \subseteq Sessions
    /\ sessionOf \in [Servers -> {0} \cup Sessions]
    /\ made \in [Sessions -> Versions]
    /\ opened \subseteq Sessions
    /\ connecting \subseteq Servers
    /\ caller \in [Callers -> Calls]
    /\ changes \in 0..MaxChanges

\* A call knows the version of its server as soon as it needs it.
Informed(k) ==
    k.pc \notin {"idle", "over"} =>
        /\ k.server \notin ManagedServers => k.known # 0 /\ k.ver # 0
        /\ k.pc \in {"enter", "wait", "dial", "store"} => k.ver # 0

\* One goroutine connects to a server, while there is no session.
Connects(c) == caller[c].pc \in {"dial", "store", "end"}
OneConnects ==
    /\ \A c \in Callers : Connects(c) => caller[c].server \in connecting
    /\ \A c, d \in Callers : Connects(c) /\ Connects(d) /\ c # d => caller[c].server # caller[d].server
    /\ \A c \in Callers : caller[c].pc \in {"dial", "store"} => sessionOf[caller[c].server] = 0

\* Sessions were made with the version that their maker had read.
MadeAsRead ==
    /\ \A c \in Callers : Informed(caller[c])
    /\ \A c \in Callers : caller[c].pc = "store" =>
          caller[c].ses \in Sessions /\ made[caller[c].ses] = caller[c].ver
    /\ \A s \in Servers : sessionOf[s] # 0 => made[sessionOf[s]] # 0

HubInv == HubTypes /\ OneConnects /\ MadeAsRead /\ NoSessionLost /\ StaleOnlyByRace

LEMMA CallFields ==
    ASSUME NEW k \in Calls, k.pc \notin {"idle", "over"}
    PROVE  /\ k \in ActiveCalls /\ k.server \in Servers /\ k.ver \in Versions /\ k.known \in Versions
           /\ k.ses \in {0} \cup Sessions
<1>1. k \in ActiveCalls
  BY DEF Calls, NoCall, Over
<1> QED BY <1>1 DEF ActiveCalls

\* A step of one caller that neither connects nor closes, before or after it.
LEMMA CallerMoves ==
    ASSUME HubInv, NEW c \in Callers, NEW k \in Calls,
           caller' = [caller EXCEPT ![c] = k], Informed(k),
           caller[c].pc \notin {"dial", "store", "end", "reclose"},
           k.pc \notin {"dial", "store", "end", "reclose"},
           UNCHANGED <<config, admin, elsewhere, undone, changes, sessionOf, opened, closing, made, behind, connecting>>
    PROVE  HubInv'
<1>0. HubTypes /\ OneConnects /\ MadeAsRead /\ NoSessionLost /\ StaleOnlyByRace
      /\ caller \in [Callers -> Calls]
  BY DEF HubInv, HubTypes
<1>1. caller'[c] = k /\ \A d \in Callers : d # c => caller'[d] = caller[d]
  BY <1>0
<1>2. HubTypes'
  BY <1>0 DEF HubTypes
<1>3. OneConnects'
  BY <1>0, <1>1 DEF OneConnects, Connects
<1>4. MadeAsRead'
  BY <1>0, <1>1 DEF MadeAsRead, Informed
<1>5. NoSessionLost'
  BY <1>0, <1>1 DEF NoSessionLost
<1>6. StaleOnlyByRace'
  BY <1>0 DEF StaleOnlyByRace
<1> QED BY <1>2, <1>3, <1>4, <1>5, <1>6 DEF HubInv

\* Call and Probe, up to connect and after it.
LEMMA CallsKeep ==
    ASSUME HubInv, NEW c \in Callers,
           \/ \E s \in Servers, what \in {"call", "probe"} : BeginCall(c, s, what)
           \/ BeginProbe(c) \/ LookUp(c) \/ Use(c) \/ Credential(c) \/ GiveUp(c)
    PROVE  HubInv'
<1>0. /\ config \in [Servers -> Versions] /\ caller \in [Callers -> Calls] /\ caller[c] \in Calls
      /\ Informed(caller[c])
  BY DEF HubInv, HubTypes, MadeAsRead
<1>1. 0 \in Versions
  BY McpHubAssumption DEF Versions
<1>2. Over \in Calls /\ Over.pc = "over" /\ Informed(Over)
  BY DEF Over, Calls, Informed
<1>3. CASE \E s \in Servers, what \in {"call", "probe"} : BeginCall(c, s, what)
  <2>1. PICK s \in Servers, what \in {"call", "probe"} : BeginCall(c, s, what)
    BY <1>3
  <2> DEFINE k == [pc |-> IF what = "call" THEN "look" ELSE ConnectPc(s), server |-> s, what |-> what,
                   probing |-> what = "probe", known |-> VersionOf(s), ver |-> VersionOf(s), ses |-> 0]
  <2>2. /\ caller' = [caller EXCEPT ![c] = k] /\ caller[c].pc = "idle" /\ Installed(s)
        /\ UNCHANGED <<config, admin, elsewhere, undone, changes, sessionOf, opened, closing, made, behind, connecting>>
    BY <2>1 DEF BeginCall, CallerAt, fileVars, mapVars
  <2>3. VersionOf(s) \in Versions /\ (s \notin ManagedServers => VersionOf(s) # 0)
    BY <1>0, <1>1, <2>2 DEF VersionOf, Installed
  <2>4. k.pc \in {"look", "connect", "enter"} /\ (s \in ManagedServers => k.pc # "enter")
    BY DEF ConnectPc
  <2>5. k \in Calls
    <3>1. k \in ActiveCalls
      BY <1>1, <2>3, <2>4 DEF ActiveCalls
    <3> QED BY <3>1 DEF Calls
  <2>6. Informed(k)
    <3>1. k.server = s /\ k.known = VersionOf(s) /\ k.ver = VersionOf(s)
      OBVIOUS
    <3> QED BY <2>3, <2>4, <3>1 DEF Informed
  <2> HIDE DEF k
  <2> QED BY <2>2, <2>4, <2>5, <2>6, CallerMoves
<1>4. CASE BeginProbe(c)
  <2> DEFINE k == caller[c]
             n == [k EXCEPT !.pc = ConnectPc(k.server), !.probing = TRUE, !.ver = VersionOf(k.server)]
  <2>1. /\ k.pc = "probe"
        /\ \/ Installed(k.server) /\ caller' = [caller EXCEPT ![c] = n]
           \/ caller' = [caller EXCEPT ![c] = Over]
        /\ UNCHANGED <<config, admin, elsewhere, undone, changes, sessionOf, opened, closing, made, behind, connecting>>
    BY <1>4 DEF BeginProbe, Leave, fileVars, mapVars
  <2>2. k \in ActiveCalls /\ k.server \in Servers
    BY <1>0, <2>1, CallFields
  <2>3. CASE caller' = [caller EXCEPT ![c] = Over]
    BY <1>2, <2>1, <2>3, CallerMoves
  <2>4. CASE Installed(k.server) /\ caller' = [caller EXCEPT ![c] = n]
    <3>1. VersionOf(k.server) \in Versions /\ (k.server \notin ManagedServers => VersionOf(k.server) # 0)
      BY <1>0, <1>1, <2>2, <2>4 DEF VersionOf, Installed
    <3>2. ConnectPc(k.server) \in {"connect", "enter"}
          /\ (k.server \in ManagedServers => ConnectPc(k.server) # "enter")
      BY DEF ConnectPc
    <3>3. n \in ActiveCalls /\ n.server = k.server /\ n.ver = VersionOf(k.server) /\ n.known = k.known
          /\ n.pc = ConnectPc(k.server)
      BY <2>2, <3>1, <3>2 DEF ActiveCalls
    <3>4. Informed(n)
      BY <1>0, <2>1, <3>1, <3>2, <3>3 DEF Informed
    <3>5. n \in Calls
      BY <3>3 DEF Calls
    <3> HIDE DEF n
    <3> QED BY <2>1, <2>4, <3>2, <3>3, <3>4, <3>5, CallerMoves
  <2> QED BY <2>1, <2>3, <2>4
<1>5. CASE LookUp(c)
  <2> DEFINE k == caller[c]
             n == [k EXCEPT !.pc = ConnectPc(k.server), !.probing = FALSE, !.ver = k.known]
             m == [k EXCEPT !.pc = "probe"]
  <2>1. /\ k.pc = "look"
        /\ \/ caller' = [caller EXCEPT ![c] = n] \/ caller' = [caller EXCEPT ![c] = Over]
           \/ caller' = [caller EXCEPT ![c] = m]
        /\ UNCHANGED <<config, admin, elsewhere, undone, changes, sessionOf, opened, closing, made, behind, connecting>>
    BY <1>5 DEF LookUp, Leave, Move, fileVars, mapVars
  <2>2. k \in ActiveCalls /\ k.server \in Servers /\ k.known \in Versions
    BY <1>0, <2>1, CallFields
  <2>3. CASE caller' = [caller EXCEPT ![c] = Over]
    BY <1>2, <2>1, <2>3, CallerMoves
  <2>4. CASE caller' = [caller EXCEPT ![c] = n]
    <3>2. ConnectPc(k.server) \in {"connect", "enter"}
          /\ (k.server \in ManagedServers => ConnectPc(k.server) # "enter")
      BY DEF ConnectPc
    <3>3. n \in ActiveCalls /\ n.server = k.server /\ n.ver = k.known /\ n.known = k.known
          /\ n.pc = ConnectPc(k.server)
      BY <2>2, <3>2 DEF ActiveCalls
    <3>4. Informed(n)
      BY <1>0, <2>1, <3>2, <3>3 DEF Informed
    <3>5. n \in Calls
      BY <3>3 DEF Calls
    <3> HIDE DEF n
    <3> QED BY <2>1, <2>4, <3>2, <3>3, <3>4, <3>5, CallerMoves
  <2>5. CASE caller' = [caller EXCEPT ![c] = m]
    <3>1. m \in ActiveCalls /\ m.server = k.server /\ m.ver = k.ver /\ m.known = k.known /\ m.pc = "probe"
      BY <2>2 DEF ActiveCalls
    <3>2. Informed(m)
      BY <1>0, <2>1, <3>1 DEF Informed
    <3>3. m \in Calls
      BY <3>1 DEF Calls
    <3> HIDE DEF m
    <3> QED BY <2>1, <2>5, <3>1, <3>2, <3>3, CallerMoves
  <2> QED BY <2>1, <2>3, <2>4, <2>5
<1>6. CASE Use(c)
  <2> DEFINE k == caller[c]
             m == [k EXCEPT !.pc = "look"]
  <2>1. /\ k.pc = "use"
        /\ caller' = [caller EXCEPT ![c] = Over] \/ caller' = [caller EXCEPT ![c] = m]
        /\ UNCHANGED <<config, admin, elsewhere, undone, changes, sessionOf, opened, closing, made, behind, connecting>>
    BY <1>6 DEF Use, Leave, Move, fileVars, mapVars
  <2>2. k \in ActiveCalls
    BY <1>0, <2>1, CallFields
  <2>3. CASE caller' = [caller EXCEPT ![c] = Over]
    BY <1>2, <2>1, <2>3, CallerMoves
  <2>4. CASE caller' = [caller EXCEPT ![c] = m]
    <3>1. m \in ActiveCalls /\ m.server = k.server /\ m.ver = k.ver /\ m.known = k.known /\ m.pc = "look"
      BY <2>2 DEF ActiveCalls
    <3>2. Informed(m)
      BY <1>0, <2>1, <3>1 DEF Informed
    <3>3. m \in Calls
      BY <3>1 DEF Calls
    <3> HIDE DEF m
    <3> QED BY <2>1, <2>4, <3>1, <3>2, <3>3, CallerMoves
  <2> QED BY <2>1, <2>3, <2>4
<1>7. CASE Credential(c)
  <2> DEFINE k == caller[c]
             n == [k EXCEPT !.pc = "enter", !.ver = config[k.server]]
             m == [k EXCEPT !.pc = "drop"]
  <2>1. /\ k.pc = "connect"
        /\ \/ caller' = [caller EXCEPT ![c] = m]
           \/ config[k.server] # 0 /\ caller' = [caller EXCEPT ![c] = n]
        /\ UNCHANGED <<config, admin, elsewhere, undone, changes, sessionOf, opened, closing, made, behind, connecting>>
    BY <1>7 DEF Credential, fileVars, mapVars
  <2>2. k \in ActiveCalls /\ k.server \in Servers /\ config[k.server] \in Versions
    BY <1>0, <2>1, CallFields
  <2>3. CASE caller' = [caller EXCEPT ![c] = m]
    <3>1. m \in ActiveCalls /\ m.server = k.server /\ m.ver = k.ver /\ m.known = k.known /\ m.pc = "drop"
      BY <2>2 DEF ActiveCalls
    <3>2. Informed(m)
      BY <1>0, <2>1, <3>1 DEF Informed
    <3>3. m \in Calls
      BY <3>1 DEF Calls
    <3> HIDE DEF m
    <3> QED BY <2>1, <2>3, <3>1, <3>2, <3>3, CallerMoves
  <2>4. CASE config[k.server] # 0 /\ caller' = [caller EXCEPT ![c] = n]
    <3>1. n \in ActiveCalls /\ n.server = k.server /\ n.ver = config[k.server] /\ n.known = k.known
          /\ n.pc = "enter"
      BY <2>2 DEF ActiveCalls
    <3>2. Informed(n)
      BY <1>0, <2>1, <2>4, <3>1 DEF Informed
    <3>3. n \in Calls
      BY <3>1 DEF Calls
    <3> HIDE DEF n
    <3> QED BY <2>1, <2>4, <3>1, <3>2, <3>3, CallerMoves
  <2> QED BY <2>1, <2>3, <2>4
<1>8. CASE GiveUp(c)
  <2>1. /\ caller[c].pc = "wait" /\ caller' = [caller EXCEPT ![c] = Over]
        /\ UNCHANGED <<config, admin, elsewhere, undone, changes, sessionOf, opened, closing, made, behind, connecting>>
    BY <1>8 DEF GiveUp, CallerAt, Leave, fileVars, mapVars
  <2> QED BY <1>2, <2>1, CallerMoves
<1> QED BY <1>3, <1>4, <1>5, <1>6, <1>7, <1>8

\* A caller takes a session out of the map, and closes it.
LEMMA ReuseKeeps ==
    ASSUME HubInv, NEW c \in Callers, Reuse(c) \/ Reclose(c)
    PROVE  HubInv'
<1>0. /\ HubTypes /\ OneConnects /\ MadeAsRead /\ NoSessionLost /\ StaleOnlyByRace
      /\ caller \in [Callers -> Calls] /\ caller[c] \in Calls /\ Informed(caller[c])
      /\ sessionOf \in [Servers -> {0} \cup Sessions]
  BY DEF HubInv, HubTypes, MadeAsRead
<1> DEFINE k == caller[c]
<1>1. CASE Reuse(c)
  <2> DEFINE x == sessionOf[k.server]
             n == [k EXCEPT !.pc = "reclose", !.ses = x]
             m == [k EXCEPT !.pc = "use", !.ses = x]
  <2>1. /\ k.pc = "enter" /\ x # 0
        /\ \/ sessionOf' = [sessionOf EXCEPT ![k.server] = 0] /\ caller' = [caller EXCEPT ![c] = n]
           \/ sessionOf' = sessionOf /\ caller' = [caller EXCEPT ![c] = m]
        /\ UNCHANGED <<config, admin, elsewhere, undone, changes, opened, closing, made, behind, connecting>>
    BY <1>1 DEF Reuse, fileVars
  <2>2. k \in ActiveCalls /\ k.server \in Servers /\ x \in {0} \cup Sessions
    BY <1>0, <2>1, CallFields
  <2>3. CASE sessionOf' = sessionOf /\ caller' = [caller EXCEPT ![c] = m]
    <3>1. m \in ActiveCalls /\ m.server = k.server /\ m.ver = k.ver /\ m.known = k.known /\ m.pc = "use"
      BY <2>2 DEF ActiveCalls
    <3>2. Informed(m)
      BY <1>0, <2>1, <3>1 DEF Informed
    <3>3. m \in Calls
      BY <3>1 DEF Calls
    <3> HIDE DEF m
    <3> QED BY <2>1, <2>3, <3>1, <3>2, <3>3, CallerMoves
  <2>4. CASE sessionOf' = [sessionOf EXCEPT ![k.server] = 0] /\ caller' = [caller EXCEPT ![c] = n]
    <3>1. /\ n \in ActiveCalls /\ n.server = k.server /\ n.ver = k.ver /\ n.known = k.known
          /\ n.pc = "reclose" /\ n.ses = x
      BY <2>2 DEF ActiveCalls
    <3>2. Informed(n)
      BY <1>0, <2>1, <3>1 DEF Informed
    <3>3. n \in Calls
      BY <3>1 DEF Calls
    <3>4. caller'[c] = n /\ \A d \in Callers : d # c => caller'[d] = caller[d]
      BY <1>0, <2>4
    <3>5. sessionOf'[k.server] = 0 /\ \A s \in Servers : s # k.server => sessionOf'[s] = sessionOf[s]
      BY <1>0, <2>2, <2>4
    <3> HIDE DEF n
    <3>6. HubTypes'
      BY <1>0, <2>1, <2>2, <2>4, <3>3 DEF HubTypes
    <3>7. OneConnects'
      <4>1. ASSUME NEW d \in Callers, caller'[d].pc \in {"dial", "store"}
            PROVE  sessionOf'[caller'[d].server] = 0
        <5>1. d # c /\ caller'[d] = caller[d] /\ caller[d] \in Calls /\ sessionOf[caller[d].server] = 0
          BY <1>0, <3>1, <3>4, <4>1 DEF OneConnects
        <5>2. caller[d].server \in Servers
          BY <4>1, <5>1, CallFields
        <5> QED BY <3>5, <5>1, <5>2
      <4> QED BY <1>0, <2>1, <3>1, <3>4, <4>1 DEF OneConnects, Connects
    <3>8. MadeAsRead'
      BY <1>0, <2>1, <3>1, <3>2, <3>4, <3>5 DEF MadeAsRead, Informed
    <3>9. NoSessionLost'
      BY <1>0, <2>1, <2>2, <3>1, <3>4, <3>5 DEF NoSessionLost
    <3>10. StaleOnlyByRace'
      BY <1>0, <2>1, <3>5 DEF StaleOnlyByRace, Registered
    <3> QED BY <3>6, <3>7, <3>8, <3>9, <3>10 DEF HubInv
  <2> QED BY <2>1, <2>3, <2>4
<1>2. CASE Reclose(c)
  <2> DEFINE n == [k EXCEPT !.pc = "connect", !.ses = 0]
  <2>1. /\ k.pc = "reclose" /\ opened' = opened \ {k.ses} /\ caller' = [caller EXCEPT ![c] = n]
        /\ UNCHANGED <<config, admin, elsewhere, undone, changes, sessionOf, closing, made, behind, connecting>>
    BY <1>2 DEF Reclose, CallerAt, fileVars
  <2>2. k \in ActiveCalls
    BY <1>0, <2>1, CallFields
  <2>3. n \in ActiveCalls /\ n.server = k.server /\ n.ver = k.ver /\ n.known = k.known /\ n.pc = "connect"
    BY <2>2 DEF ActiveCalls
  <2>4. Informed(n)
    BY <1>0, <2>1, <2>3 DEF Informed
  <2>5. n \in Calls
    BY <2>3 DEF Calls
  <2>6. caller'[c] = n /\ \A d \in Callers : d # c => caller'[d] = caller[d]
    BY <1>0, <2>1
  <2> HIDE DEF n
  <2>7. HubTypes'
    BY <1>0, <2>1, <2>5 DEF HubTypes
  <2>8. OneConnects'
    BY <1>0, <2>1, <2>3, <2>6 DEF OneConnects, Connects
  <2>9. MadeAsRead'
    BY <1>0, <2>1, <2>3, <2>4, <2>6 DEF MadeAsRead, Informed
  <2>10. NoSessionLost'
    BY <1>0, <2>1, <2>6 DEF NoSessionLost
  <2>11. StaleOnlyByRace'
    BY <1>0, <2>1 DEF StaleOnlyByRace
  <2> QED BY <2>7, <2>8, <2>9, <2>10, <2>11 DEF HubInv
<1> QED BY <1>1, <1>2

\* A caller waits for a connection, makes it, and has failed to make it or
\* made a session.
LEMMA DialKeeps ==
    ASSUME HubInv, NEW c \in Callers, Enter(c) \/ Dial(c)
    PROVE  HubInv'
<1>0. /\ HubTypes /\ OneConnects /\ MadeAsRead /\ NoSessionLost /\ StaleOnlyByRace
      /\ caller \in [Callers -> Calls] /\ caller[c] \in Calls /\ Informed(caller[c])
      /\ sessionOf \in [Servers -> {0} \cup Sessions] /\ made \in [Sessions -> Versions]
  BY DEF HubInv, HubTypes, MadeAsRead
<1> DEFINE k == caller[c]
<1>1. CASE Enter(c)
  <2> DEFINE p == IF k.server \in connecting THEN "wait" ELSE "dial"
             n == [k EXCEPT !.pc = p]
  <2>1. /\ k.pc = "enter" /\ sessionOf[k.server] = 0
        /\ connecting' = connecting \cup {k.server} /\ caller' = [caller EXCEPT ![c] = n]
        /\ UNCHANGED <<config, admin, elsewhere, undone, changes, sessionOf, opened, closing, made, behind>>
    BY <1>1 DEF Enter, CallerAt, Move, fileVars, mapVars
  <2>2. k \in ActiveCalls /\ k.server \in Servers
    BY <1>0, <2>1, CallFields
  <2>3. n \in ActiveCalls /\ n.server = k.server /\ n.ver = k.ver /\ n.known = k.known /\ n.pc = p
    BY <2>2 DEF ActiveCalls
  <2>4. Informed(n) /\ n \in Calls
    BY <1>0, <2>1, <2>3 DEF Informed, Calls
  <2>5. caller'[c] = n /\ \A d \in Callers : d # c => caller'[d] = caller[d]
    BY <1>0, <2>1
  <2> HIDE DEF n
  <2>6. HubTypes'
    BY <1>0, <2>1, <2>2, <2>4 DEF HubTypes
  <2>7. OneConnects'
    BY <1>0, <2>1, <2>3, <2>5 DEF OneConnects, Connects
  <2>8. MadeAsRead'
    BY <1>0, <2>1, <2>3, <2>4, <2>5 DEF MadeAsRead, Informed
  <2>9. NoSessionLost'
    BY <1>0, <2>1, <2>5 DEF NoSessionLost
  <2>10. StaleOnlyByRace'
    BY <1>0, <2>1 DEF StaleOnlyByRace
  <2> QED BY <2>6, <2>7, <2>8, <2>9, <2>10 DEF HubInv
<1>2. CASE Dial(c)
  <2>1. /\ k.pc = "dial"
        /\ UNCHANGED <<config, admin, elsewhere, undone, changes, sessionOf, closing, behind, connecting>>
    BY <1>2 DEF Dial, fileVars
  <2>2. k \in ActiveCalls /\ k.server \in Servers /\ k.ver \in Versions /\ k.ver # 0
    BY <1>0, <2>1, CallFields DEF Informed
  <2>3. CASE caller' = [caller EXCEPT ![c].pc = "end"] /\ UNCHANGED <<opened, made>>
    <3> DEFINE n == [k EXCEPT !.pc = "end"]
    <3>1. caller' = [caller EXCEPT ![c] = n]
      BY <2>3
    <3>2. n \in ActiveCalls /\ n.server = k.server /\ n.ver = k.ver /\ n.known = k.known /\ n.pc = "end"
      BY <2>2 DEF ActiveCalls
    <3>3. Informed(n) /\ n \in Calls
      BY <1>0, <2>1, <3>2 DEF Informed, Calls
    <3>4. caller'[c] = n /\ \A d \in Callers : d # c => caller'[d] = caller[d]
      BY <1>0, <3>1
    <3> HIDE DEF n
    <3>5. HubTypes'
      BY <1>0, <2>1, <2>3, <3>1, <3>3 DEF HubTypes
    <3>6. OneConnects'
      BY <1>0, <2>1, <3>2, <3>4 DEF OneConnects, Connects
    <3>7. MadeAsRead'
      BY <1>0, <2>1, <2>3, <3>2, <3>3, <3>4 DEF MadeAsRead, Informed
    <3>8. NoSessionLost'
      BY <1>0, <2>1, <2>3, <3>4 DEF NoSessionLost
    <3>9. StaleOnlyByRace'
      BY <1>0, <2>1, <2>3 DEF StaleOnlyByRace
    <3> QED BY <3>5, <3>6, <3>7, <3>8, <3>9 DEF HubInv
  <2>4. ASSUME NEW x \in FreshSessions,
               opened' = opened \cup {x}, made' = [made EXCEPT ![x] = k.ver],
               caller' = [caller EXCEPT ![c].pc = "store", ![c].ses = x]
        PROVE  HubInv'
    <3> DEFINE n == [k EXCEPT !.pc = "store", !.ses = x]
    <3>0. x \in Sessions /\ made[x] = 0 /\ 0 \notin Sessions
      BY <1>0 DEF FreshSessions, Sessions
    <3>1. caller' = [caller EXCEPT ![c] = n]
      BY <2>4
    <3>2. /\ n \in ActiveCalls /\ n.server = k.server /\ n.ver = k.ver /\ n.known = k.known
          /\ n.pc = "store" /\ n.ses = x
      BY <2>2, <3>0 DEF ActiveCalls
    <3>3. Informed(n) /\ n \in Calls
      BY <1>0, <2>1, <3>2 DEF Informed, Calls
    <3>4. caller'[c] = n /\ \A d \in Callers : d # c => caller'[d] = caller[d]
      BY <1>0, <3>1
    <3>5. made'[x] = k.ver /\ \A y \in Sessions : y # x => made'[y] = made[y]
      BY <1>0, <2>4, <3>0
    <3> HIDE DEF n
    <3>6. HubTypes'
      BY <1>0, <2>1, <2>2, <2>4, <3>0, <3>1, <3>3 DEF HubTypes
    <3>7. OneConnects'
      BY <1>0, <2>1, <3>2, <3>4 DEF OneConnects, Connects
    <3>8. MadeAsRead'
      <4>1. ASSUME NEW d \in Callers, d # c, caller[d].pc = "store"
            PROVE  caller[d].ses \in Sessions /\ made'[caller[d].ses] = caller[d].ver
        <5>1. caller[d].ses \in Sessions /\ made[caller[d].ses] = caller[d].ver /\ caller[d].ver # 0
          BY <1>0, <4>1 DEF MadeAsRead, Informed
        <5> QED BY <3>0, <3>5, <5>1
      <4>2. ASSUME NEW s \in Servers, sessionOf[s] # 0 PROVE made'[sessionOf[s]] # 0
        <5>1. sessionOf[s] \in Sessions /\ made[sessionOf[s]] # 0
          BY <1>0, <4>2 DEF MadeAsRead
        <5> QED BY <3>0, <3>5, <5>1
      <4>3. \A d \in Callers : Informed(caller'[d])
        BY <1>0, <3>3, <3>4 DEF MadeAsRead
      <4> QED BY <2>1, <3>0, <3>2, <3>4, <3>5, <4>1, <4>2, <4>3 DEF MadeAsRead, Informed
    <3>9. NoSessionLost'
      BY <1>0, <2>1, <2>4, <3>2, <3>4 DEF NoSessionLost
    <3>10. StaleOnlyByRace'
      <4>1. \A s \in Servers : sessionOf[s] # 0 => made'[sessionOf[s]] = made[sessionOf[s]]
        BY <1>0, <3>0, <3>5 DEF MadeAsRead
      <4> QED BY <1>0, <2>1, <4>1 DEF StaleOnlyByRace, Registered
    <3> QED BY <3>6, <3>7, <3>8, <3>9, <3>10 DEF HubInv
  <2> QED BY <1>2, <2>3, <2>4 DEF Dial, Move
<1> QED BY <1>1, <1>2

\* The session is filed, and those that waited begin again.
LEMMA StoreKeeps ==
    ASSUME HubInv, NEW c \in Callers, Store(c) \/ EndConnect(c)
    PROVE  HubInv'
<1>0. /\ HubTypes /\ OneConnects /\ MadeAsRead /\ NoSessionLost /\ StaleOnlyByRace
      /\ caller \in [Callers -> Calls] /\ caller[c] \in Calls /\ Informed(caller[c])
      /\ sessionOf \in [Servers -> {0} \cup Sessions] /\ made \in [Sessions -> Versions]
  BY DEF HubInv, HubTypes, MadeAsRead
<1> DEFINE k == caller[c]
<1>1. CASE Store(c)
  <2> DEFINE n == [k EXCEPT !.pc = "end"]
  <2>1. /\ k.pc = "store" /\ caller' = [caller EXCEPT ![c] = n]
        /\ sessionOf' = [sessionOf EXCEPT ![k.server] = k.ses]
        /\ behind' = IF k.ver = config[k.server] THEN behind ELSE behind \cup {k.ses}
        /\ UNCHANGED <<config, admin, elsewhere, undone, changes, opened, closing, made, connecting>>
    BY <1>1 DEF Store, Move, fileVars
  <2>2. /\ k \in ActiveCalls /\ k.server \in Servers /\ k.ses \in Sessions /\ made[k.ses] = k.ver
        /\ k.ver # 0 /\ sessionOf[k.server] = 0
    BY <1>0, <2>1, CallFields DEF OneConnects, MadeAsRead, Informed
  <2>3. n \in ActiveCalls /\ n.server = k.server /\ n.ver = k.ver /\ n.known = k.known /\ n.pc = "end"
    BY <2>2 DEF ActiveCalls
  <2>4. Informed(n) /\ n \in Calls
    BY <1>0, <2>1, <2>3 DEF Informed, Calls
  <2>5. caller'[c] = n /\ \A d \in Callers : d # c => caller'[d] = caller[d]
    BY <1>0, <2>1
  <2>6. sessionOf'[k.server] = k.ses /\ \A s \in Servers : s # k.server => sessionOf'[s] = sessionOf[s]
    BY <1>0, <2>1, <2>2
  <2> HIDE DEF n
  <2>7. HubTypes'
    BY <1>0, <2>1, <2>2, <2>4 DEF HubTypes
  <2>8. OneConnects'
    <3>1. ASSUME NEW d \in Callers, caller'[d].pc \in {"dial", "store"}
          PROVE  sessionOf'[caller'[d].server] = 0
      <4>1. d # c /\ caller'[d] = caller[d] /\ caller[d] \in Calls /\ sessionOf[caller[d].server] = 0
        BY <1>0, <2>3, <2>5, <3>1 DEF OneConnects
      <4>2. caller[d].server \in Servers /\ caller[d].server # k.server
        BY <1>0, <2>1, <3>1, <4>1, CallFields DEF OneConnects, Connects
      <4> QED BY <2>6, <4>1, <4>2
    <3> QED BY <1>0, <2>1, <2>3, <2>5, <3>1 DEF OneConnects, Connects
  <2>9. MadeAsRead'
    BY <1>0, <2>1, <2>2, <2>3, <2>4, <2>5, <2>6 DEF MadeAsRead, Informed
  <2>10. NoSessionLost'
    <3> SUFFICES ASSUME NEW x \in opened
                 PROVE  \/ \E s \in Servers : sessionOf'[s] = x
                        \/ x \in closing
                        \/ \E d \in Callers : caller'[d].pc \in {"store", "reclose"} /\ caller'[d].ses = x
      BY <2>1 DEF NoSessionLost
    <3>1. CASE x = k.ses
      BY <2>2, <2>6, <3>1
    <3>2. CASE x # k.ses /\ \E s \in Servers : sessionOf[s] = x
      <4>1. x # 0
        BY <1>0 DEF HubTypes, Sessions
      <4> QED BY <2>2, <2>6, <3>2, <4>1
    <3>3. CASE x # k.ses /\ x \notin closing /\ ~\E s \in Servers : sessionOf[s] = x
      BY <1>0, <2>5, <3>3 DEF NoSessionLost
    <3> QED BY <3>1, <3>2, <3>3
  <2>11. StaleOnlyByRace'
    BY <1>0, <2>1, <2>2, <2>6 DEF StaleOnlyByRace
  <2> QED BY <2>7, <2>8, <2>9, <2>10, <2>11 DEF HubInv
<1>2. CASE EndConnect(c)
  <2>1. /\ k.pc = "end" /\ connecting' = connecting \ {k.server}
        /\ caller' = [d \in Callers |->
             IF d = c THEN IF k.ses = 0 THEN Over ELSE [k EXCEPT !.pc = "use"]
             ELSE IF caller[d].pc = "wait" /\ caller[d].server = k.server
                  THEN [caller[d] EXCEPT !.pc = ConnectPc(k.server)]
             ELSE caller[d]]
        /\ UNCHANGED <<config, admin, elsewhere, undone, changes, sessionOf, opened, closing, made, behind>>
    BY <1>2 DEF EndConnect, fileVars, mapVars
  <2>2. k \in ActiveCalls /\ k.server \in Servers
    BY <1>0, <2>1, CallFields
  <2>3. ASSUME NEW d \in Callers
        PROVE  /\ caller'[d] \in Calls /\ Informed(caller'[d])
               /\ \/ caller'[d] = caller[d] /\ d # c
                  \/ /\ caller'[d].pc \notin {"dial", "store", "end", "reclose"}
                     /\ caller[d].pc \notin {"store", "reclose"}
    <3>0. caller[d] \in Calls /\ Informed(caller[d])
      BY <1>0 DEF MadeAsRead
    <3>1. CASE d = c /\ k.ses = 0
      <4>1. caller'[d] = Over
        BY <2>1, <3>1
      <4> QED BY <2>1, <3>1, <4>1 DEF Calls, Over, Informed
    <3>2. CASE d = c /\ k.ses # 0
      <4> DEFINE n == [k EXCEPT !.pc = "use"]
      <4>1. caller'[d] = n
        BY <2>1, <3>2
      <4>2. n \in ActiveCalls /\ n.server = k.server /\ n.ver = k.ver /\ n.known = k.known /\ n.pc = "use"
        BY <2>2 DEF ActiveCalls
      <4> HIDE DEF n
      <4> QED BY <1>0, <2>1, <3>2, <4>1, <4>2 DEF Calls, Informed
    <3>3. CASE d # c /\ caller[d].pc = "wait" /\ caller[d].server = k.server
      <4> DEFINE n == [caller[d] EXCEPT !.pc = ConnectPc(k.server)]
      <4>1. caller'[d] = n /\ caller[d] \in ActiveCalls
        BY <2>1, <3>0, <3>3, CallFields
      <4>2. ConnectPc(k.server) \in {"connect", "enter"}
        BY DEF ConnectPc
      <4>3. /\ n \in ActiveCalls /\ n.server = caller[d].server /\ n.ver = caller[d].ver
            /\ n.known = caller[d].known /\ n.pc = ConnectPc(k.server)
        BY <4>1, <4>2 DEF ActiveCalls
      <4> HIDE DEF n
      <4> QED BY <3>0, <3>3, <4>1, <4>2, <4>3 DEF Calls, Informed
    <3>4. CASE d # c /\ ~(caller[d].pc = "wait" /\ caller[d].server = k.server)
      <4>1. caller'[d] = caller[d]
        BY <2>1, <3>4
      <4> QED BY <3>0, <3>4, <4>1
    <3> QED BY <3>1, <3>2, <3>3, <3>4
  <2>4. caller' \in [Callers -> Calls]
    <3>1. \A d \in Callers : caller'[d] \in Calls
      BY <2>3
    <3>2. DOMAIN caller' = Callers /\ caller' = [d \in DOMAIN caller' |-> caller'[d]]
      BY <2>1
    <3> QED BY <3>1, <3>2
  <2>5. HubTypes'
    BY <1>0, <2>1, <2>4 DEF HubTypes
  <2>6. OneConnects'
    BY <1>0, <2>1, <2>3 DEF OneConnects, Connects
  <2>7. MadeAsRead'
    <3>1. \A d \in Callers : Informed(caller'[d])
      BY <2>3
    <3>2. \A d \in Callers : caller'[d].pc = "store" => caller'[d] = caller[d]
      BY <2>3
    <3> QED BY <1>0, <2>1, <3>1, <3>2 DEF MadeAsRead, Informed
  <2>8. NoSessionLost'
    BY <1>0, <2>1, <2>3 DEF NoSessionLost
  <2>9. StaleOnlyByRace'
    BY <1>0, <2>1 DEF StaleOnlyByRace
  <2> QED BY <2>5, <2>6, <2>7, <2>8, <2>9 DEF HubInv
<1> QED BY <1>1, <1>2

\* A name is disconnected by a caller without a credential, by a change of the
\* configuration, by the sweeper or by Close.
LEMMA DisconnectKeeps ==
    ASSUME HubInv, NEW s \in Servers, Disconnect(s),
           \/ UNCHANGED caller
           \/ \E c \in Callers : caller[c].pc = "drop" /\ caller' = [caller EXCEPT ![c] = Over],
           \/ UNCHANGED admin
           \/ admin' = [admin EXCEPT ![s] = NoAdmin],
           UNCHANGED <<config, elsewhere, undone, changes, opened, made, behind, connecting>>
    PROVE  HubInv'
<1>0. /\ HubTypes /\ OneConnects /\ MadeAsRead /\ NoSessionLost /\ StaleOnlyByRace
      /\ caller \in [Callers -> Calls] /\ sessionOf \in [Servers -> {0} \cup Sessions]
      /\ admin \in [Servers -> Admins]
  BY DEF HubInv, HubTypes
<1>1. /\ sessionOf'[s] = 0 /\ \A t \in Servers : t # s => sessionOf'[t] = sessionOf[t]
      /\ sessionOf' \in [Servers -> {0} \cup Sessions]
  BY <1>0 DEF Disconnect
<1>2. ASSUME NEW c \in Callers
      PROVE  /\ caller'[c] \in Calls /\ Informed(caller'[c])
             /\ \/ caller'[c] = caller[c]
                \/ caller'[c].pc = "over" /\ caller[c].pc = "drop"
  <2>1. caller[c] \in Calls /\ Informed(caller[c])
    BY <1>0 DEF MadeAsRead
  <2>2. caller'[c] = caller[c] \/ (caller'[c] = Over /\ caller[c].pc = "drop")
    BY <1>0
  <2> QED BY <2>1, <2>2 DEF Calls, Over, Informed
<1>3. /\ admin' \in [Servers -> Admins]
      /\ \A t \in Servers : t # s => admin'[t] = admin[t]
  BY <1>0 DEF Admins
<1>4. caller' \in [Callers -> Calls]
  BY <1>0, <1>2 DEF Calls
<1>5. HubTypes'
  BY <1>0, <1>1, <1>3, <1>4 DEF HubTypes
<1>6. OneConnects'
  <2>1. ASSUME NEW c \in Callers, caller'[c].pc \in {"dial", "store"}
        PROVE  sessionOf'[caller'[c].server] = 0
    <3>1. caller'[c] = caller[c] /\ sessionOf[caller[c].server] = 0
      BY <1>0, <1>2, <2>1 DEF OneConnects
    <3>2. caller[c].server \in Servers
      BY <1>2, <2>1, <3>1, CallFields
    <3> QED BY <1>1, <3>1, <3>2
  <2> QED BY <1>0, <1>2, <2>1 DEF OneConnects, Connects
<1>7. MadeAsRead'
  BY <1>0, <1>1, <1>2 DEF MadeAsRead
<1>8. NoSessionLost'
  <2> SUFFICES ASSUME NEW x \in opened
               PROVE  \/ \E t \in Servers : sessionOf'[t] = x
                      \/ x \in closing'
                      \/ \E c \in Callers : caller'[c].pc \in {"store", "reclose"} /\ caller'[c].ses = x
    BY DEF NoSessionLost
  <2>1. x # 0 /\ closing \subseteq closing' /\ (sessionOf[s] # 0 => sessionOf[s] \in closing')
    BY <1>0 DEF HubTypes, Sessions, Disconnect
  <2>2. CASE \E t \in Servers : sessionOf[t] = x
    BY <1>1, <2>1, <2>2
  <2>3. CASE x \in closing
    BY <2>1, <2>3
  <2>4. CASE \E c \in Callers : caller[c].pc \in {"store", "reclose"} /\ caller[c].ses = x
    BY <1>2, <2>4
  <2> QED BY <1>0, <2>2, <2>3, <2>4 DEF NoSessionLost
<1>9. StaleOnlyByRace'
  BY <1>0, <1>1, <1>3 DEF StaleOnlyByRace, Registered
<1> QED BY <1>5, <1>6, <1>7, <1>8, <1>9 DEF HubInv

\* The sessions stay as they are while configurations and credentials change.
LEMMA ConfigKeeps ==
    ASSUME HubInv, UNCHANGED <<sessionOf, opened, closing, made, behind, connecting, caller>>,
           config' \in [Servers -> Versions], admin' \in [Servers -> Admins],
           elsewhere' \subseteq Files, undone' \subseteq Sessions, undone \subseteq undone',
           changes' \in 0..MaxChanges,
           \A s \in Registered : sessionOf[s] # 0 =>
              \/ config'[s] = config[s] /\ (admin[s] = Dropping => admin'[s] = Dropping)
              \/ sessionOf[s] \in undone'
              \/ admin'[s] = Dropping
    PROVE  HubInv'
<1>0. /\ HubTypes /\ OneConnects /\ MadeAsRead /\ NoSessionLost /\ StaleOnlyByRace
  BY DEF HubInv
<1>1. HubTypes'
  BY <1>0 DEF HubTypes
<1>2. OneConnects' /\ NoSessionLost'
  BY <1>0 DEF OneConnects, Connects, NoSessionLost
<1>3. MadeAsRead'
  BY <1>0 DEF MadeAsRead, Informed
<1>4. StaleOnlyByRace'
  BY <1>0 DEF StaleOnlyByRace
<1> QED BY <1>1, <1>2, <1>3, <1>4 DEF HubInv

\* The registry is written: whose version changes is disconnected by the writer,
\* or its session is among those that the writer has undone.
LEMMA WrittenKeeps ==
    ASSUME HubInv, NEW file \in Files, NEW names \in SUBSET Registered, Written(file, names),
           UNCHANGED mapVars, UNCHANGED <<made, behind, connecting, caller>>,
           admin' \in [Servers -> Admins], \A s \in names : admin'[s] = Dropping,
           \A s \in Registered \ names : admin'[s] = admin[s],
           elsewhere' \subseteq Files, changes' \in 0..MaxChanges
    PROVE  HubInv'
<1>0. /\ config \in [Servers -> Versions] /\ undone \subseteq Sessions
      /\ sessionOf \in [Servers -> {0} \cup Sessions]
  BY DEF HubInv, HubTypes
<1>1. config' = [s \in Servers |-> IF s \in Registered THEN file[s] ELSE config[s]]
  BY DEF Written
<1>2. /\ config' \in [Servers -> Versions]
      /\ \A s \in Registered : config'[s] = file[s]
  BY <1>0, <1>1 DEF Files, Registered
<1>3. undone' \subseteq Sessions /\ undone \subseteq undone'
  BY <1>0 DEF Written, Registered
<1>4. ASSUME NEW s \in Registered \ names, sessionOf[s] # 0, file[s] # config[s]
      PROVE  sessionOf[s] \in undone'
  BY <1>4 DEF Written
<1>5. ASSUME NEW s \in Registered, sessionOf[s] # 0
      PROVE  \/ config'[s] = config[s] /\ (admin[s] = Dropping => admin'[s] = Dropping)
             \/ sessionOf[s] \in undone'
             \/ admin'[s] = Dropping
  BY <1>2, <1>4, <1>5
<1> QED BY <1>2, <1>3, <1>5, ConfigKeeps DEF mapVars

\* The file that an Add or a Remove is about to write is one that was there.
LEMMA RegistryTypes ==
    ASSUME HubTypes
    PROVE  /\ Registry \in Files
           /\ \A s \in Registered, v \in Versions : Writing(s, v) \in Admins
<1>1. Registry \in Files
  BY DEF HubTypes, Registry, Files, Registered
<1>2. ASSUME NEW s \in Registered, NEW v \in Versions PROVE Writing(s, v) \in Admins
  <2>1. [Registry EXCEPT ![s] = v] \in Files
    BY <1>1 DEF Files
  <2> QED BY <2>1 DEF Writing, Admins
<1> QED BY <1>1, <1>2

\* Add and Remove, here and elsewhere, and new credentials.
LEMMA ChangeKeeps ==
    ASSUME HubInv,
           \/ \E s \in Servers : \/ Add(s) \/ Remove(s) \/ AdminWrites(s)
                                \/ \E v \in {0, changes + 2} : SetCredentialRef(s, v) \/ SecretChanges(s, v)
           \/ OtherReads \/ \E file \in elsewhere : OtherWrites(file)
    PROVE  HubInv'
<1>0. /\ HubTypes /\ config \in [Servers -> Versions] /\ admin \in [Servers -> Admins]
      /\ elsewhere \subseteq Files /\ undone \subseteq Sessions /\ changes \in 0..MaxChanges
  BY DEF HubInv, HubTypes
<1>1. Registered \subseteq Servers /\ Registry \in Files
  BY <1>0, RegistryTypes DEF Registered
<1>2. NoAdmin \in Admins /\ Dropping \in Admins
  BY DEF Admins
<1>3. ASSUME changes < MaxChanges
      PROVE  {0, changes + 2} \subseteq Versions /\ changes + 1 \in 0..MaxChanges
  BY <1>0, <1>3, McpHubAssumption DEF Versions
<1>4. ASSUME NEW s \in Servers, Add(s) \/ Remove(s) PROVE HubInv'
  <2>1. PICK next : Edit(s, next) /\ next \in {Dropping, Writing(s, 0), Writing(s, changes + 2)}
    BY <1>4 DEF Add, Remove
  <2>2. /\ s \in Registered /\ admin[s] = NoAdmin /\ changes < MaxChanges /\ changes' = changes + 1
        /\ admin' = [admin EXCEPT ![s] = next]
        /\ UNCHANGED <<config, elsewhere, undone, sessionOf, opened, closing, made, behind, connecting, caller>>
    BY <2>1 DEF Edit, mapVars
  <2>3. next \in Admins
    BY <1>0, <1>2, <1>3, <2>1, <2>2, RegistryTypes
  <2>4. \A t \in Servers : admin[t] = Dropping => admin'[t] = Dropping
    BY <1>0, <2>2 DEF NoAdmin, Dropping
  <2>5. admin' \in [Servers -> Admins] /\ changes' \in 0..MaxChanges
    BY <1>0, <1>3, <2>2, <2>3
  <2> QED BY <1>0, <1>1, <2>2, <2>4, <2>5, ConfigKeeps
<1>5. ASSUME NEW s \in Servers, AdminWrites(s) PROVE HubInv'
  <2>1. /\ admin[s].pc = "write" /\ admin[s] \in Admins
        /\ UNCHANGED <<elsewhere, changes>> /\ UNCHANGED mapVars /\ UNCHANGED <<made, behind, connecting, caller>>
    BY <1>0, <1>5 DEF AdminWrites
  <2>2. admin[s].file \in Files /\ admin[s] # Dropping
    BY <2>1 DEF Admins, NoAdmin, Dropping
  <2>3. CASE Written(admin[s].file, {s}) /\ admin' = [admin EXCEPT ![s] = Dropping] /\ s \in Registered
    <3>1. admin' \in [Servers -> Admins] /\ admin'[s] = Dropping /\ \A t \in Registered \ {s} : admin'[t] = admin[t]
      BY <1>0, <1>1, <1>2, <2>3
    <3> QED BY <1>0, <2>1, <2>2, <2>3, <3>1, WrittenKeeps
  <2>4. CASE Written(admin[s].file, {s}) /\ admin' = [admin EXCEPT ![s] = Dropping] /\ s \notin Registered
    <3>1. Written(admin[s].file, {})
      BY <2>4 DEF Written
    <3>2. admin' \in [Servers -> Admins] /\ \A t \in Registered : admin'[t] = admin[t]
      BY <1>0, <1>1, <1>2, <2>4
    <3> QED BY <1>0, <2>1, <2>2, <3>1, <3>2, WrittenKeeps
  <2>5. CASE UNCHANGED <<config, undone>> /\ admin' = [admin EXCEPT ![s] = NoAdmin]
    <3>1. admin' \in [Servers -> Admins] /\ \A t \in Servers : admin[t] = Dropping => admin'[t] = Dropping
      BY <1>0, <1>2, <2>2, <2>5
    <3> QED BY <1>0, <1>1, <2>1, <2>5, <3>1, ConfigKeeps DEF mapVars
  <2> QED BY <1>5, <2>3, <2>4, <2>5 DEF AdminWrites
<1>6. ASSUME NEW s \in Servers, NEW v \in {0, changes + 2}, SetCredentialRef(s, v) \/ SecretChanges(s, v)
      PROVE  HubInv'
  <2>1. PICK next \in {NoAdmin, Dropping} : NewCredential(s, v, next)
    BY <1>6 DEF SetCredentialRef, SecretChanges
  <2>2. /\ s \in ManagedServers /\ admin[s] = NoAdmin /\ changes < MaxChanges /\ changes' = changes + 1
        /\ config' = [config EXCEPT ![s] = v] /\ admin' = [admin EXCEPT ![s] = next]
        /\ UNCHANGED <<elsewhere, undone, sessionOf, opened, closing, made, behind, connecting, caller>>
    BY <2>1 DEF NewCredential, mapVars
  <2>3. /\ config' \in [Servers -> Versions] /\ admin' \in [Servers -> Admins] /\ changes' \in 0..MaxChanges
        /\ \A t \in Registered : config'[t] = config[t] /\ admin'[t] = admin[t]
    BY <1>0, <1>2, <1>3, <2>2 DEF Registered
  <2> QED BY <1>0, <2>2, <2>3, ConfigKeeps
<1>7. CASE OtherReads
  <2>1. /\ elsewhere' = elsewhere \cup {Registry}
        /\ UNCHANGED <<config, admin, undone, changes, sessionOf, opened, closing, made, behind, connecting, caller>>
    BY <1>7 DEF OtherReads, mapVars
  <2> QED BY <1>0, <1>1, <2>1, ConfigKeeps
<1>8. ASSUME NEW file \in elsewhere, OtherWrites(file) PROVE HubInv'
  <2>1. /\ elsewhere' \subseteq elsewhere /\ file \in Files
        /\ UNCHANGED admin /\ UNCHANGED mapVars /\ UNCHANGED <<made, behind, connecting, caller>>
    BY <1>0, <1>8 DEF OtherWrites
  <2>2. PICK f \in Files : Written(f, {}) /\ changes' \in 0..MaxChanges
    <3>1. CASE Written(file, {}) /\ UNCHANGED changes
      BY <1>0, <2>1, <3>1
    <3>2. CASE /\ changes < MaxChanges /\ changes' = changes + 1
               /\ \E s \in Registered, v \in {0, changes + 2} : Written([file EXCEPT ![s] = v], {})
      <4>1. PICK s \in Registered, v \in {0, changes + 2} : Written([file EXCEPT ![s] = v], {})
        BY <3>2
      <4>2. [file EXCEPT ![s] = v] \in Files
        BY <1>3, <2>1, <3>2 DEF Files
      <4> QED BY <1>3, <3>2, <4>1, <4>2
    <3> QED BY <1>8, <3>1, <3>2 DEF OtherWrites
  <2> QED BY <1>0, <2>1, <2>2, WrittenKeeps
<1> QED BY <1>4, <1>5, <1>6, <1>7, <1>8

\* A session is closed, the sweeper and Close look, or nothing happens.
LEMMA HubRestKeeps ==
    ASSUME HubInv,
           \/ \E x \in Sessions : CloseSession(x)
           \/ SweepLook \/ CloseHub \/ UNCHANGED hubVars
    PROVE  HubInv'
<1>0. /\ HubTypes /\ OneConnects /\ MadeAsRead /\ NoSessionLost /\ StaleOnlyByRace
  BY DEF HubInv
<1>1. /\ UNCHANGED <<config, admin, elsewhere, undone, changes, sessionOf, made, behind, connecting, caller>>
      /\ \/ \E x \in Sessions : closing' = closing \ {x} /\ opened' = opened \ {x}
         \/ UNCHANGED <<opened, closing>>
  BY DEF CloseSession, SweepLook, CloseHub, hubVars, fileVars, mapVars, hubEnds
<1>2. HubTypes'
  BY <1>0, <1>1 DEF HubTypes
<1>3. OneConnects' /\ MadeAsRead' /\ StaleOnlyByRace'
  BY <1>0, <1>1 DEF OneConnects, Connects, MadeAsRead, Informed, StaleOnlyByRace
<1>4. NoSessionLost'
  BY <1>0, <1>1 DEF NoSessionLost
<1> QED BY <1>2, <1>3, <1>4 DEF HubInv

\* At any time one goroutine at most connects to a server, while the map has no
\* session for it; sessions carry the version their maker read; and both
\* properties of the run hold.
THEOREM HubInvariant == McpHubSpec => []HubInv
<1>1. McpHubInit => HubInv
  <2> SUFFICES ASSUME McpHubInit PROVE HubInv
    OBVIOUS
  <2>1. 0 \in Versions /\ 1 \in Versions
    BY McpHubAssumption DEF Versions
  <2>2. HubTypes
    BY <2>1, McpHubAssumption DEF McpHubInit, HubTypes, Calls, Admins
  <2>3. \A c \in Callers : caller[c].pc = "idle"
    BY DEF McpHubInit, NoCall
  <2>4. OneConnects /\ MadeAsRead
    BY <2>3 DEF McpHubInit, OneConnects, Connects, MadeAsRead, Informed
  <2>5. NoSessionLost /\ StaleOnlyByRace
    BY DEF McpHubInit, NoSessionLost, StaleOnlyByRace, Registered
  <2> QED BY <2>2, <2>4, <2>5 DEF HubInv
<1>2. HubInv /\ [McpHubNext]_hubVars => HubInv'
  <2> SUFFICES ASSUME HubInv, [McpHubNext]_hubVars PROVE HubInv'
    OBVIOUS
  <2>1. CASE (\E x \in Sessions : CloseSession(x)) \/ SweepLook \/ CloseHub \/ UNCHANGED hubVars
    BY <2>1, HubRestKeeps
  <2>2. ASSUME NEW s \in Servers, AdminDrops(s) \/ SweepDrops(s) \/ CloseDrops(s) PROVE HubInv'
    <3>1. /\ Disconnect(s) /\ UNCHANGED <<caller, config, elsewhere, undone, changes, opened, made, behind, connecting>>
          /\ UNCHANGED admin \/ admin' = [admin EXCEPT ![s] = NoAdmin]
      BY <2>2 DEF AdminDrops, SweepDrops, CloseDrops, fileVars
    <3> QED BY <3>1, DisconnectKeeps
  <2>3. CASE \/ \E s \in Servers :
                  \/ Add(s) \/ Remove(s) \/ AdminWrites(s)
                  \/ \E v \in {0, changes + 2} : SetCredentialRef(s, v) \/ SecretChanges(s, v)
             \/ OtherReads \/ \E file \in elsewhere : OtherWrites(file)
    BY <2>3, ChangeKeeps
  <2>5. ASSUME NEW c \in Callers, CallerDrops(c) PROVE HubInv'
    <3>1. /\ Disconnect(caller[c].server) /\ caller[c].pc = "drop" /\ caller' = [caller EXCEPT ![c] = Over]
          /\ UNCHANGED <<admin, config, elsewhere, undone, changes, opened, made, behind, connecting>>
      BY <2>5 DEF CallerDrops, CallerAt, Leave, fileVars
    <3>2. caller[c] \in Calls
      BY DEF HubInv, HubTypes
    <3>3. caller[c].server \in Servers
      BY <3>1, <3>2, CallFields
    <3> QED BY <3>1, <3>3, DisconnectKeeps
  <2>6. ASSUME NEW c \in Callers,
               \/ \E s \in Servers, what \in {"call", "probe"} : BeginCall(c, s, what)
               \/ BeginProbe(c) \/ LookUp(c) \/ Use(c) \/ Credential(c) \/ GiveUp(c)
        PROVE  HubInv'
    BY <2>6, CallsKeep
  <2>7. ASSUME NEW c \in Callers,
               Reuse(c) \/ Reclose(c) \/ Enter(c) \/ Dial(c) \/ Store(c) \/ EndConnect(c)
        PROVE  HubInv'
    BY <2>7, ReuseKeeps, DialKeeps, StoreKeeps
  <2> QED BY <2>1, <2>2, <2>3, <2>5, <2>6, <2>7 DEF McpHubNext
<1> QED BY <1>1, <1>2, PTL DEF McpHubSpec

\* No open session is lost, however calls connect, reuse and close while
\* configurations change and the hub is swept and closed.
THEOREM NoSessionLostHolds == McpHubSpec => []NoSessionLost
BY HubInvariant, PTL DEF HubInv

\* A session of a configuration that is no longer there is about to be dropped,
\* unless it was filed after the change that replaced it, or another writer of
\* the registry undid it, for any number of servers and of copies of the file.
THEOREM StaleOnlyByRaceHolds == McpHubSpec => []StaleOnlyByRace
BY HubInvariant, PTL DEF HubInv

\* Where an open session is: in the map under one name, about to be closed, or
\* in the hands of one goroutine that will file it or close it.
Handles(c) == caller[c].pc \in {"store", "reclose"}

OnePlace ==
    /\ \A s \in Servers : sessionOf[s] # 0 => sessionOf[s] \in opened \ closing
    /\ \A s, t \in Servers : sessionOf[s] # 0 /\ sessionOf[s] = sessionOf[t] => s = t
    /\ closing \subseteq opened
    /\ \A c \in Callers : Handles(c) =>
          /\ caller[c].ses \in opened \ closing
          /\ \A s \in Servers : sessionOf[s] # caller[c].ses
          /\ \A d \in Callers : Handles(d) /\ caller[d].ses = caller[c].ses => d = c
    /\ \A x \in opened : made[x] # 0

HubEndTypes ==
    sweeping \subseteq Servers /\ dropping \subseteq Servers /\ closed \in BOOLEAN /\ behind \subseteq Sessions

\* A step of the callers that neither takes nor gives up a session.
LEMMA HandlersStay ==
    ASSUME OnePlace, UNCHANGED <<sessionOf, opened, closing, made>>,
           \A c \in Callers : Handles(c)' => Handles(c) /\ caller'[c].ses = caller[c].ses
    PROVE  OnePlace'
BY DEF OnePlace

LEMMA CallerPlaces ==
    ASSUME HubInv, OnePlace, NEW c \in Callers,
           \/ \E s \in Servers, what \in {"call", "probe"} : BeginCall(c, s, what)
           \/ BeginProbe(c) \/ LookUp(c) \/ Use(c) \/ Credential(c) \/ GiveUp(c) \/ Enter(c)
           \/ EndConnect(c)
    PROVE  OnePlace'
<1>0. caller \in [Callers -> Calls] /\ UNCHANGED <<sessionOf, opened, closing, made>>
  BY DEF HubInv, HubTypes, BeginCall, BeginProbe, LookUp, Use, Credential, GiveUp, Enter, EndConnect, mapVars
<1>1. ASSUME NEW d \in Callers PROVE Handles(d)' => Handles(d) /\ caller'[d].ses = caller[d].ses
  <2>1. CASE EndConnect(c)
    <3>1. caller[d] \in Calls /\ caller[c] \in Calls /\ caller[c].pc = "end"
      BY <1>0, <2>1 DEF EndConnect
    <3>2. caller[c] \in ActiveCalls
      BY <3>1 DEF Calls, NoCall, Over
    <3>3. CASE d = c
      BY <2>1, <3>1, <3>2, <3>3 DEF EndConnect, Handles, Over, ActiveCalls
    <3>4. CASE d # c /\ caller[d].pc = "wait" /\ caller[d].server = caller[c].server
      <4>1. caller[d] \in ActiveCalls
        BY <3>1, <3>4 DEF Calls, NoCall, Over
      <4> QED BY <2>1, <3>4, <4>1 DEF EndConnect, Handles, ConnectPc, ActiveCalls
    <3>5. CASE d # c /\ ~(caller[d].pc = "wait" /\ caller[d].server = caller[c].server)
      BY <2>1, <3>5 DEF EndConnect, Handles
    <3> QED BY <3>3, <3>4, <3>5
  <2>2. CASE ~EndConnect(c)
    <3>1. CASE d # c
      BY <1>0, <2>2, <3>1
         DEF BeginCall, BeginProbe, LookUp, Use, Credential, GiveUp, Enter, Leave, Move, Handles
    <3>2. CASE d = c
      <4>1. caller[c] \in Calls
        BY <1>0
      <4>2. ASSUME NEW s \in Servers, NEW what \in {"call", "probe"}, BeginCall(c, s, what) PROVE ~Handles(c)'
        BY <1>0, <4>2 DEF BeginCall, Handles, ConnectPc
      <4>3. CASE BeginProbe(c) \/ LookUp(c) \/ Use(c) \/ Credential(c) \/ GiveUp(c) \/ Enter(c)
        <5>1. caller[c] \in ActiveCalls
          BY <4>1, <4>3
             DEF Calls, NoCall, Over, BeginProbe, LookUp, Use, Credential, GiveUp, Enter, CallerAt
        <5>2. CASE BeginProbe(c)
          <6> DEFINE n == [caller[c] EXCEPT !.pc = ConnectPc(caller[c].server), !.probing = TRUE,
                                            !.ver = VersionOf(caller[c].server)]
          <6>1. caller'[c] = n \/ caller'[c] = Over
            BY <1>0, <5>2 DEF BeginProbe, Leave
          <6>2. n.pc = ConnectPc(caller[c].server)
            BY <5>1 DEF ActiveCalls
          <6> HIDE DEF n
          <6> QED BY <3>2, <6>1, <6>2 DEF Handles, Over, ConnectPc
        <5>5. CASE Credential(c)
          BY <1>0, <5>1, <5>5 DEF Credential, Handles, ActiveCalls
        <5>6. CASE LookUp(c)
          <6> DEFINE n == [caller[c] EXCEPT !.pc = ConnectPc(caller[c].server), !.probing = FALSE,
                                            !.ver = caller[c].known]
                     p == [caller[c] EXCEPT !.pc = "probe"]
          <6>1. caller'[c] = n \/ caller'[c] = Over \/ caller'[c] = p
            BY <1>0, <5>6 DEF LookUp, Leave, Move
          <6>2. n.pc = ConnectPc(caller[c].server) /\ p.pc = "probe"
            BY <5>1 DEF ActiveCalls
          <6> HIDE DEF n, p
          <6> QED BY <3>2, <6>1, <6>2 DEF Handles, Over, ConnectPc
        <5>3. CASE Use(c)
          BY <1>0, <5>1, <5>3 DEF Use, Leave, Move, Handles, Over, ActiveCalls
        <5>4. CASE GiveUp(c) \/ Enter(c)
          BY <1>0, <5>1, <5>4 DEF GiveUp, Enter, CallerAt, Leave, Move, Handles, Over, ActiveCalls
        <5> QED BY <3>2, <4>3, <5>2, <5>3, <5>4, <5>5, <5>6
      <4> QED BY <2>2, <3>2, <4>2, <4>3
    <3> QED BY <3>1, <3>2
  <2> QED BY <2>1, <2>2
<1> QED BY <1>0, <1>1, HandlersStay

\* A session leaves the map for the caller that found another credential in it,
\* who closes it.
LEMMA ReusePlaces ==
    ASSUME HubInv, OnePlace, NEW c \in Callers, Reuse(c) \/ Reclose(c)
    PROVE  OnePlace'
<1>0. /\ caller \in [Callers -> Calls] /\ sessionOf \in [Servers -> {0} \cup Sessions]
      /\ opened \subseteq Sessions /\ caller[c].pc \in {"enter", "reclose"}
  BY DEF HubInv, HubTypes, Reuse, Reclose, CallerAt
<1>1. caller[c] \in ActiveCalls /\ caller[c].server \in Servers
  <2>1. caller[c] \in Calls
    BY <1>0
  <2> QED BY <1>0, <2>1, CallFields
<1>2. \A d \in Callers : d # c => caller'[d] = caller[d]
  BY <1>0 DEF Reuse, Reclose
<1>3. CASE Reuse(c) /\ UNCHANGED sessionOf
  <2>1. ~Handles(c)' \/ (caller[c].server \in ManagedServers /\ sessionOf' = [sessionOf EXCEPT ![caller[c].server] = 0])
    BY <1>0, <1>1, <1>3 DEF Reuse, Handles, ActiveCalls
  <2>2. sessionOf[caller[c].server] # 0
    BY <1>3 DEF Reuse
  <2>3. ~Handles(c)'
    BY <1>0, <1>1, <1>3, <2>1, <2>2
  <2>4. UNCHANGED <<opened, closing, made>>
    BY <1>3 DEF Reuse
  <2>5. \A d \in Callers : Handles(d)' => Handles(d) /\ caller'[d].ses = caller[d].ses
    BY <1>2, <2>3 DEF Handles
  <2> QED BY <1>3, <2>4, <2>5, HandlersStay
<1>4. CASE Reuse(c) /\ sessionOf' # sessionOf
  <2> DEFINE s == caller[c].server
             x == sessionOf[s]
  <2>1. /\ x # 0 /\ sessionOf' = [sessionOf EXCEPT ![s] = 0] /\ UNCHANGED <<opened, closing, made>>
        /\ caller' = [caller EXCEPT ![c].pc = "reclose", ![c].ses = x]
    BY <1>4 DEF Reuse
  <2>2. caller'[c].pc = "reclose" /\ caller'[c].ses = x
    BY <1>0, <1>1, <2>1 DEF ActiveCalls
  <2>3. sessionOf'[s] = 0 /\ \A t \in Servers : t # s => sessionOf'[t] = sessionOf[t]
    BY <1>0, <1>1, <2>1
  <2>4. x \in opened \ closing /\ \A t \in Servers : t # s => sessionOf[t] # x
    BY <1>1, <2>1 DEF OnePlace
  <2>5. \A d \in Callers : Handles(d) => caller[d].ses # x
    BY <1>1 DEF OnePlace
  <2> HIDE DEF s, x
  <2>6. ASSUME NEW d \in Callers, Handles(d)'
        PROVE  /\ caller'[d].ses \in opened \ closing
               /\ \A t \in Servers : sessionOf'[t] # caller'[d].ses
               /\ \A e \in Callers : Handles(e)' /\ caller'[e].ses = caller'[d].ses => e = d
    <3>1. CASE d = c
      BY <1>2, <2>1, <2>2, <2>3, <2>4, <2>5, <3>1 DEF Handles
    <3>2. CASE d # c
      <4>1. Handles(d) /\ caller'[d] = caller[d] /\ caller[d].ses # x
        BY <1>2, <2>5, <2>6, <3>2 DEF Handles
      <4>2. caller[d].ses \in opened \ closing /\ caller[d].ses # 0
            /\ \A t \in Servers : sessionOf[t] # caller[d].ses
        BY <1>0, <4>1 DEF OnePlace, Sessions
      <4>3. \A t \in Servers : sessionOf'[t] # caller'[d].ses
        BY <2>3, <4>1, <4>2
      <4>4. \A e \in Callers : Handles(e)' /\ caller'[e].ses = caller'[d].ses => e = d
        BY <1>2, <2>2, <4>1 DEF OnePlace, Handles
      <4> QED BY <4>1, <4>2, <4>3, <4>4
    <3> QED BY <3>1, <3>2
  <2>7. \A t \in Servers : sessionOf'[t] # 0 => sessionOf'[t] = sessionOf[t]
    BY <2>3
  <2>8. \A t \in Servers : sessionOf'[t] # 0 => sessionOf'[t] \in opened' \ closing'
    BY <2>1, <2>7 DEF OnePlace
  <2>9. \A t, u \in Servers : sessionOf'[t] # 0 /\ sessionOf'[t] = sessionOf'[u] => t = u
    BY <2>7 DEF OnePlace
  <2>10. closing' \subseteq opened' /\ \A y \in opened' : made'[y] # 0
    BY <2>1 DEF OnePlace
  <2>11. opened' = opened /\ closing' = closing
    BY <2>1
  <2> QED BY <2>6, <2>8, <2>9, <2>10, <2>11 DEF OnePlace, Handles
<1>5. CASE Reclose(c)
  <2> DEFINE x == caller[c].ses
  <2>1. /\ Handles(c) /\ opened' = opened \ {x} /\ UNCHANGED <<sessionOf, closing, made>>
        /\ caller' = [caller EXCEPT ![c].pc = "connect", ![c].ses = 0]
    BY <1>5 DEF Reclose, CallerAt, Handles
  <2>2. caller'[c].pc = "connect"
    BY <1>0, <1>1, <2>1 DEF ActiveCalls
  <2>3. x \notin closing /\ \A s \in Servers : sessionOf[s] # x
    BY <2>1 DEF OnePlace
  <2>4. ASSUME NEW d \in Callers, Handles(d)' PROVE Handles(d) /\ caller'[d] = caller[d] /\ caller[d].ses # x
    <3>1. d # c
      BY <2>2, <2>4 DEF Handles
    <3> QED BY <1>2, <2>1, <2>4, <3>1 DEF Handles, OnePlace
  <2> HIDE DEF x
  <2>5. ASSUME NEW d \in Callers, Handles(d)'
        PROVE  /\ caller'[d].ses \in opened' \ closing'
               /\ \A t \in Servers : sessionOf'[t] # caller'[d].ses
               /\ \A e \in Callers : Handles(e)' /\ caller'[e].ses = caller'[d].ses => e = d
    <3>1. Handles(d) /\ caller'[d] = caller[d] /\ caller[d].ses # x
      BY <2>4, <2>5
    <3>2. \A e \in Callers : Handles(e)' => Handles(e) /\ caller'[e] = caller[e]
      BY <2>4 DEF Handles
    <3>3. /\ caller[d].ses \in opened \ closing /\ \A t \in Servers : sessionOf[t] # caller[d].ses
          /\ \A e \in Callers : Handles(e) /\ caller[e].ses = caller[d].ses => e = d
      BY <3>1 DEF OnePlace
    <3>4. \A e \in Callers : Handles(e)' /\ caller'[e].ses = caller'[d].ses => e = d
      BY <3>1, <3>2, <3>3 DEF Handles
    <3>5. caller'[d].ses = caller[d].ses
      BY <3>1
    <3>6. opened' = opened \ {x} /\ closing' = closing /\ sessionOf' = sessionOf
      BY <2>1
    <3>7. caller'[d].ses \in opened' \ closing'
      BY <3>1, <3>3, <3>5, <3>6
    <3>8. \A t \in Servers : sessionOf'[t] # caller'[d].ses
      BY <3>3, <3>5, <3>6
    <3> QED BY <3>4, <3>7, <3>8
  <2>6. \A s \in Servers : sessionOf'[s] # 0 => sessionOf'[s] \in opened' \ closing'
    BY <2>1, <2>3 DEF OnePlace
  <2>7. /\ \A s, t \in Servers : sessionOf'[s] # 0 /\ sessionOf'[s] = sessionOf'[t] => s = t
        /\ closing' \subseteq opened' /\ \A y \in opened' : made'[y] # 0
    BY <2>1, <2>3 DEF OnePlace
  <2> QED BY <2>5, <2>6, <2>7 DEF OnePlace, Handles
<1> QED BY <1>3, <1>4, <1>5

\* client.Connect opens a session that nobody has, and its maker files it.
LEMMA MakerPlaces ==
    ASSUME HubInv, OnePlace, NEW c \in Callers, Dial(c) \/ Store(c)
    PROVE  OnePlace'
<1>0. /\ caller \in [Callers -> Calls] /\ sessionOf \in [Servers -> {0} \cup Sessions]
      /\ opened \subseteq Sessions /\ made \in [Sessions -> Versions] /\ caller[c].pc \in {"dial", "store"}
  BY DEF HubInv, HubTypes, Dial, Store
<1>1. caller[c] \in ActiveCalls /\ caller[c].server \in Servers /\ caller[c].ver # 0
  <2>1. caller[c] \in Calls /\ Informed(caller[c])
    BY <1>0 DEF HubInv, MadeAsRead
  <2> QED BY <1>0, <2>1, CallFields DEF Informed
<1>2. \A d \in Callers : d # c => caller'[d] = caller[d]
  BY <1>0 DEF Dial, Store, Move
<1>3. CASE Dial(c) /\ UNCHANGED <<opened, made>> /\ Move(c, "end")
  <2>1. ~Handles(c)' /\ UNCHANGED <<sessionOf, closing>>
    BY <1>0, <1>1, <1>3 DEF Dial, Move, Handles, ActiveCalls
  <2>2. \A d \in Callers : Handles(d)' => Handles(d) /\ caller'[d].ses = caller[d].ses
    BY <1>2, <2>1 DEF Handles
  <2> QED BY <1>3, <2>1, <2>2, HandlersStay
<1>4. ASSUME NEW x \in FreshSessions, opened' = opened \cup {x},
             made' = [made EXCEPT ![x] = caller[c].ver], UNCHANGED <<sessionOf, closing>>,
             caller' = [caller EXCEPT ![c].pc = "store", ![c].ses = x], caller[c].pc = "dial"
      PROVE  OnePlace'
  <2>1. x \in Sessions /\ x \notin opened /\ x # 0
    BY <1>4 DEF FreshSessions, OnePlace, Sessions
  <2>2. caller'[c].pc = "store" /\ caller'[c].ses = x /\ ~Handles(c)
    BY <1>0, <1>1, <1>4 DEF ActiveCalls, Handles
  <2>3. \A y \in opened' : made'[y] # 0
    BY <1>0, <1>1, <1>4, <2>1 DEF OnePlace
  <2>4. ASSUME NEW d \in Callers, Handles(d)'
        PROVE  /\ caller'[d].ses \in opened' \ closing'
               /\ \A t \in Servers : sessionOf'[t] # caller'[d].ses
               /\ \A e \in Callers : Handles(e)' /\ caller'[e].ses = caller'[d].ses => e = d
    <3>1. CASE d = c
      <4>1. \A t \in Servers : sessionOf[t] # x
        BY <2>1 DEF OnePlace
      <4>2. \A e \in Callers : Handles(e) => caller[e].ses # x
        BY <2>1 DEF OnePlace
      <4>3. x \notin closing
        BY <2>1 DEF OnePlace
      <4>4. caller'[d].ses \in opened' \ closing'
        BY <1>4, <2>2, <3>1, <4>3
      <4>5. \A t \in Servers : sessionOf'[t] # caller'[d].ses
        BY <1>4, <2>2, <3>1, <4>1
      <4>6. \A e \in Callers : Handles(e)' /\ caller'[e].ses = caller'[d].ses => e = d
        BY <1>2, <2>2, <3>1, <4>2 DEF Handles
      <4> QED BY <4>4, <4>5, <4>6
    <3>2. CASE d # c
      <4>1. Handles(d) /\ caller'[d] = caller[d] /\ caller[d].ses # x
        BY <1>2, <2>1, <2>4, <3>2 DEF OnePlace, Handles
      <4>2. caller[d].ses \in opened \ closing /\ \A t \in Servers : sessionOf[t] # caller[d].ses
        BY <4>1 DEF OnePlace
      <4>3. \A e \in Callers : Handles(e)' /\ caller'[e].ses = caller'[d].ses => e = d
        BY <1>2, <2>2, <4>1 DEF OnePlace, Handles
      <4>4. caller'[d].ses = caller[d].ses
        BY <4>1
      <4>5. opened' = opened \cup {x} /\ closing' = closing /\ sessionOf' = sessionOf
        BY <1>4
      <4>6. caller'[d].ses \in opened' \ closing'
        BY <4>2, <4>4, <4>5
      <4>7. \A t \in Servers : sessionOf'[t] # caller'[d].ses
        BY <4>2, <4>4, <4>5
      <4> QED BY <4>3, <4>6, <4>7
    <3> QED BY <3>1, <3>2
  <2>5. \A t \in Servers : sessionOf'[t] # 0 => sessionOf'[t] \in opened' \ closing'
    BY <1>4, <2>1 DEF OnePlace
  <2> QED BY <1>4, <2>1, <2>3, <2>4, <2>5 DEF OnePlace, Handles
<1>5. CASE Store(c)
  <2> DEFINE s == caller[c].server
             x == caller[c].ses
  <2>1. /\ Handles(c) /\ sessionOf[s] = 0 /\ x \in opened \ closing
        /\ \A t \in Servers : sessionOf[t] # x
        /\ \A d \in Callers : Handles(d) /\ caller[d].ses = x => d = c
    BY <1>5 DEF Store, Handles, HubInv, OneConnects, OnePlace
  <2>2. sessionOf' = [sessionOf EXCEPT ![s] = x] /\ UNCHANGED <<opened, closing, made>> /\ ~Handles(c)'
    BY <1>0, <1>1, <1>5 DEF Store, Move, Handles, ActiveCalls
  <2>3. sessionOf'[s] = x /\ \A t \in Servers : t # s => sessionOf'[t] = sessionOf[t]
    BY <1>0, <1>1, <2>2
  <2>4. \A d \in Callers : Handles(d)' => d # c /\ Handles(d) /\ caller'[d] = caller[d]
    BY <1>2, <2>2 DEF Handles
  <2>5. \A t \in Servers : sessionOf[t] # x
    BY <2>1
  <2> HIDE DEF s, x
  <2>6. ASSUME NEW d \in Callers, Handles(d)'
        PROVE  /\ caller'[d].ses \in opened' \ closing'
               /\ \A t \in Servers : sessionOf'[t] # caller'[d].ses
               /\ \A e \in Callers : Handles(e)' /\ caller'[e].ses = caller'[d].ses => e = d
    BY <2>1, <2>2, <2>3, <2>4, <2>6 DEF OnePlace
  <2>7. \A t \in Servers : sessionOf'[t] # 0 => sessionOf'[t] \in opened' \ closing'
    BY <2>1, <2>2, <2>3 DEF OnePlace
  <2>8. \A t, u \in Servers : sessionOf'[t] # 0 /\ sessionOf'[t] = sessionOf'[u] => t = u
    BY <2>3, <2>5 DEF OnePlace
  <2> QED BY <2>2, <2>6, <2>7, <2>8 DEF OnePlace
<1> QED BY <1>3, <1>4, <1>5 DEF Dial

\* A name is disconnected: its session is about to be closed.
LEMMA DisconnectPlaces ==
    ASSUME HubInv, OnePlace, NEW s \in Servers, Disconnect(s), UNCHANGED <<opened, made>>,
           \A c \in Callers : Handles(c)' => Handles(c) /\ caller'[c].ses = caller[c].ses
    PROVE  OnePlace'
<1>0. sessionOf \in [Servers -> {0} \cup Sessions] /\ opened \subseteq Sessions
  BY DEF HubInv, HubTypes
<1>1. sessionOf'[s] = 0 /\ \A t \in Servers : t # s => sessionOf'[t] = sessionOf[t]
  BY <1>0 DEF Disconnect
<1>2. closing' \subseteq closing \cup {sessionOf[s]} /\ closing' \subseteq opened
  BY DEF Disconnect, OnePlace
<1>3. \A t \in Servers : sessionOf'[t] # 0 =>
         t # s /\ sessionOf'[t] = sessionOf[t] /\ sessionOf[t] # sessionOf[s]
  BY <1>1 DEF OnePlace
<1>4. ASSUME NEW c \in Callers, Handles(c)'
      PROVE  caller'[c].ses \in opened \ closing' /\ \A t \in Servers : sessionOf'[t] # caller'[c].ses
  <2>1. /\ caller'[c].ses = caller[c].ses /\ caller[c].ses \in opened \ closing
        /\ \A t \in Servers : sessionOf[t] # caller[c].ses
        /\ caller[c].ses # 0
    BY <1>0, <1>4 DEF OnePlace, Sessions
  <2> QED BY <1>1, <1>2, <2>1
<1>5. \A t \in Servers : sessionOf'[t] # 0 => sessionOf'[t] \in opened \ closing'
  BY <1>2, <1>3 DEF OnePlace
<1>6. \A t, u \in Servers : sessionOf'[t] # 0 /\ sessionOf'[t] = sessionOf'[u] => t = u
  BY <1>1 DEF OnePlace
<1> QED BY <1>2, <1>4, <1>5, <1>6 DEF OnePlace

LEMMA RestPlaces ==
    ASSUME OnePlace,
           \/ \E x \in Sessions : CloseSession(x)
           \/ SweepLook \/ CloseHub \/ UNCHANGED hubVars
    PROVE  OnePlace'
<1>1. ASSUME NEW x \in Sessions, CloseSession(x) PROVE OnePlace'
  <2>1. /\ x \in closing /\ closing' = closing \ {x} /\ opened' = opened \ {x}
        /\ UNCHANGED <<sessionOf, made, caller>>
    BY <1>1 DEF CloseSession
  <2> QED BY <2>1 DEF OnePlace, Handles
<1>2. CASE ~(\E x \in Sessions : CloseSession(x))
  <2>1. UNCHANGED <<sessionOf, opened, closing, made, caller>>
    BY <1>2 DEF SweepLook, CloseHub, hubVars, mapVars
  <2> QED BY <2>1, HandlersStay DEF Handles
<1> QED BY <1>1, <1>2

\* An open session has one place at any time: the map finds it under one name,
\* or one goroutine has it, and no session is closed twice or found closed in
\* the map, however calls connect and drop while the hub is swept and closed.
THEOREM OnePlaceHolds == McpHubSpec => []OnePlace
<1>1. McpHubInit => OnePlace
  BY DEF McpHubInit, OnePlace, Handles, NoCall
<1>2. HubInv /\ OnePlace /\ [McpHubNext]_hubVars => OnePlace'
  <2> SUFFICES ASSUME HubInv, OnePlace, [McpHubNext]_hubVars PROVE OnePlace'
    OBVIOUS
  <2>1. CASE (\E x \in Sessions : CloseSession(x)) \/ SweepLook \/ CloseHub \/ UNCHANGED hubVars
    BY <2>1, RestPlaces
  <2>2. CASE \/ \E s \in Servers :
                  \/ Add(s) \/ Remove(s) \/ AdminWrites(s)
                  \/ \E v \in {0, changes + 2} : SetCredentialRef(s, v) \/ SecretChanges(s, v)
             \/ OtherReads \/ \E file \in elsewhere : OtherWrites(file)
    <3>1. UNCHANGED <<sessionOf, opened, closing, made, caller>>
      BY <2>2 DEF Add, Remove, Edit, SetCredentialRef, SecretChanges, NewCredential, AdminWrites, OtherReads,
                  OtherWrites, mapVars
    <3> QED BY <3>1, HandlersStay DEF Handles
  <2>3. ASSUME NEW s \in Servers, AdminDrops(s) \/ SweepDrops(s) \/ CloseDrops(s) PROVE OnePlace'
    <3>1. Disconnect(s) /\ UNCHANGED <<caller, opened, made>>
      BY <2>3 DEF AdminDrops, SweepDrops, CloseDrops
    <3> QED BY <3>1, DisconnectPlaces DEF Handles
  <2>4. ASSUME NEW c \in Callers, CallerDrops(c) PROVE OnePlace'
    <3>1. /\ Disconnect(caller[c].server) /\ caller[c].pc = "drop" /\ caller' = [caller EXCEPT ![c] = Over]
          /\ UNCHANGED <<opened, made>>
      BY <2>4 DEF CallerDrops, CallerAt, Leave
    <3>2. caller \in [Callers -> Calls] /\ caller[c] \in Calls
      BY DEF HubInv, HubTypes
    <3>3. caller[c].server \in Servers
      BY <3>1, <3>2, CallFields
    <3>4. \A d \in Callers : Handles(d)' => Handles(d) /\ caller'[d].ses = caller[d].ses
      BY <3>1, <3>2 DEF Handles, Over
    <3> QED BY <3>1, <3>3, <3>4, DisconnectPlaces
  <2>5. ASSUME NEW c \in Callers,
               \/ \E s \in Servers, what \in {"call", "probe"} : BeginCall(c, s, what)
               \/ BeginProbe(c) \/ LookUp(c) \/ Use(c) \/ Credential(c) \/ GiveUp(c) \/ Enter(c)
               \/ EndConnect(c)
        PROVE  OnePlace'
    BY <2>5, CallerPlaces
  <2>6. ASSUME NEW c \in Callers, Reuse(c) \/ Reclose(c) \/ Dial(c) \/ Store(c) PROVE OnePlace'
    BY <2>6, ReusePlaces, MakerPlaces
  <2> QED BY <2>1, <2>2, <2>3, <2>4, <2>5, <2>6 DEF McpHubNext
<1> QED BY <1>1, <1>2, HubInvariant, PTL DEF McpHubSpec

\* The maps, sessions, calls and counters of the hub keep their types.
THEOREM HubTypeCorrect == McpHubSpec => []McpHubTypeOK
<1>1. McpHubInit => HubEndTypes
  BY DEF McpHubInit, HubEndTypes
<1>2. HubInv /\ HubEndTypes /\ [McpHubNext]_hubVars => HubEndTypes'
  <2> SUFFICES ASSUME HubInv, HubEndTypes, [McpHubNext]_hubVars PROVE HubEndTypes'
    OBVIOUS
  <2>1. ASSUME NEW c \in Callers, Store(c) PROVE HubEndTypes'
    <3>1. caller[c].ses \in Sessions
      BY <2>1 DEF Store, HubInv, MadeAsRead
    <3> QED BY <2>1, <3>1 DEF Store, HubEndTypes, hubEnds
  <2>2. CASE UNCHANGED behind
    <3>1. /\ sweeping' = sweeping \/ sweeping' \subseteq sweeping \/ sweeping' \subseteq Servers
          /\ dropping' = dropping \/ dropping' \subseteq dropping \/ dropping' \subseteq Servers
          /\ closed' = closed \/ closed' = TRUE
      BY DEF McpHubNext, SweepLook, CloseHub, CloseSession, Add, Remove, SetCredentialRef, SecretChanges,
             Edit, NewCredential, AdminWrites, OtherReads, OtherWrites, AdminDrops, SweepDrops, CloseDrops, BeginCall, BeginProbe, LookUp, Use, Credential,
             Reuse, Reclose, Enter, GiveUp, Dial, Store, EndConnect, CallerDrops, hubVars, hubEnds
    <3> QED BY <2>2, <3>1 DEF HubEndTypes
  <2>3. (\E c \in Callers : Store(c)) \/ UNCHANGED behind
    BY DEF McpHubNext, SweepLook, CloseHub, CloseSession, Add, Remove, SetCredentialRef, SecretChanges,
           Edit, NewCredential, AdminWrites, OtherReads, OtherWrites, AdminDrops, SweepDrops, CloseDrops, BeginCall, BeginProbe, LookUp, Use, Credential,
           Reuse, Reclose, Enter, GiveUp, Dial, EndConnect, CallerDrops, hubVars
  <2> QED BY <2>1, <2>2, <2>3
<1>3. HubInv /\ OnePlace /\ HubEndTypes => McpHubTypeOK
  BY DEF HubInv, HubTypes, OnePlace, HubEndTypes, McpHubTypeOK
<1> QED BY <1>1, <1>2, <1>3, HubInvariant, OnePlaceHolds, PTL DEF McpHubSpec

-----------------------------------------------------------------------------
(* The server that hubs share.                                              *)

BackendTypes ==
    /\ refs \in Nat
    /\ holder \in {<<>>} \cup {<<h>> : h \in Hubs}
    /\ penpot \in [Hubs -> BOOLEAN]
    /\ ensuring \in [Hubs -> {"idle", "check", "release", "clear", "acquire", "wait", "mark"}]
    /\ ending \in [Hubs -> {"no", "release", "done"}]
    /\ twice \in BOOLEAN
    /\ deaths \in Nat

\* Hubs that have been counted, and those whose Close has yet to give theirs up.
UserAt(h) == (penpot[h] /\ ensuring[h] # "clear") \/ ensuring[h] = "mark"
Users == {h \in Hubs : UserAt(h)}
Leaving == {h \in Hubs : ending[h] = "release"}

\* The count is the number of the users, which the last killed child, that has
\* yet to end, may have misled.
Counted ==
    /\ IsFiniteSet(Users) /\ IsFiniteSet(Leaving)
    /\ refs = Cardinality(Users) + Cardinality(Leaving)
    /\ refs = 0 => server = 0
    /\ \A h \in Hubs : ensuring[h] \in {"acquire", "wait", "mark"} => ~penpot[h]

\* The children: the server runs, any other that answers was killed, and a new
\* one is waited for only when none answers.
Watched ==
    /\ server # 0 => server \in serving \ killed
    /\ serving \subseteq killed \cup ({server} \ {0})
    /\ killed \subseteq serving
    /\ unnoticed = {}
    /\ holder # <<>> => serving = {}
    /\ \A h \in Hubs : ensuring[h] = "wait" => holder = <<h>>
    /\ started \in Nat /\ (holder # <<>> => started # 0)

\* Who is not misled has a server.
Told == \A h \in Users \ misled : server # 0

Undisturbed == deaths = 0 /\ ~twice
BackendInv == BackendTypes /\ (Undisturbed => Counted /\ Watched /\ Told)

\* The lock is free, or one hub has it.
LEMMA FreeLock == \A g, h : <<h>> # <<>> /\ (<<g>> = <<h>> => g = h)
<1>1. \A h : Len(<<h>>) = 1 /\ <<h>>[1] = h
  OBVIOUS
<1>2. Len(<<>>) = 0
  OBVIOUS
<1> QED BY <1>1, <1>2

\* A step of h that counts nobody in or out.
LEMMA SameUsers ==
    ASSUME BackendTypes, Counted, NEW h \in Hubs,
           UNCHANGED <<refs, server, ending>>,
           \A g \in Hubs \ {h} : ensuring'[g] = ensuring[g] /\ penpot'[g] = penpot[g],
           UserAt(h)' = UserAt(h),
           ensuring'[h] \in {"acquire", "wait", "mark"} => ~penpot'[h]
    PROVE  Counted' /\ Users' = Users
<1>1. \A g \in Hubs : UserAt(g)' = UserAt(g)
  BY DEF UserAt
<1>2. Users' = Users /\ Leaving' = Leaving
  BY <1>1 DEF Users, Leaving
<1>3. \A g \in Hubs : ensuring'[g] \in {"acquire", "wait", "mark"} => ~penpot'[g]
  BY DEF Counted
<1> QED BY <1>2, <1>3 DEF Counted

\* ensureManagedPenpot, where the count does not change.
LEMMA EnsureKeeps ==
    ASSUME BackendInv, NEW h \in Hubs,
           Ensure(h) \/ EnsureCheck(h) \/ EnsureClear(h) \/ EnsureMark(h)
             \/ AcquireStart(h) \/ AcquireFails(h)
    PROVE  BackendInv'
<1>0. /\ BackendTypes /\ (Undisturbed => Counted /\ Watched /\ Told)
      /\ UNCHANGED <<refs, server, serving, killed, unnoticed, ending, twice, deaths>>
  BY DEF BackendInv, Ensure, EnsureCheck, EnsureClear, EnsureMark, AcquireStart, AcquireFails,
         history, children
<1>1. BackendTypes'
  BY <1>0 DEF BackendTypes, Ensure, EnsureCheck, EnsureClear, EnsureMark, AcquireStart, AcquireFails
<1> SUFFICES ASSUME Undisturbed PROVE Counted' /\ Watched' /\ Told'
  BY <1>0, <1>1 DEF BackendInv, Undisturbed
<1>2. Counted /\ Watched /\ Told
  BY <1>0
<1>3. \A g \in Hubs \ {h} : ensuring'[g] = ensuring[g] /\ penpot'[g] = penpot[g]
  BY <1>0 DEF BackendTypes, Ensure, EnsureCheck, EnsureClear, EnsureMark, AcquireStart, AcquireFails
<1>4. /\ UserAt(h)' = UserAt(h)
      /\ ensuring'[h] \in {"acquire", "wait", "mark"} => ~penpot'[h]
  BY <1>0, <1>2 DEF BackendTypes, Counted, UserAt, Ensure, EnsureCheck, EnsureClear, EnsureMark,
                    AcquireStart, AcquireFails
<1>5. Counted' /\ Users' = Users
  BY <1>0, <1>2, <1>3, <1>4, SameUsers
<1>6. Told'
  <2>1. CASE EnsureCheck(h) /\ Ready
    <3>1. misled' = IF serving \subseteq killed THEN misled \cup {h} ELSE misled \ {h}
      BY <2>1 DEF EnsureCheck, Found
    <3>2. ~(serving \subseteq killed) => server # 0
      BY <1>2 DEF Watched
    <3> QED BY <1>0, <1>2, <1>5, <3>1, <3>2 DEF Told
  <2>2. CASE ~(EnsureCheck(h) /\ Ready)
    <3>1. misled' = misled
      BY <2>2 DEF Ensure, EnsureCheck, EnsureClear, EnsureMark, AcquireStart, AcquireFails, history
    <3> QED BY <1>0, <1>2, <1>5, <3>1 DEF Told
  <2> QED BY <2>1, <2>2
<1>7. Watched'
  <2>1. CASE AcquireStart(h)
    <3>1. holder = <<>> /\ holder' = <<h>> /\ ensuring'[h] = "wait" /\ serving = {}
          /\ started' = started + 1
      BY <1>0, <2>1 DEF AcquireStart, BackendTypes, Ready
    <3>2. \A g \in Hubs : ensuring[g] # "wait"
      BY <1>2, <3>1, FreeLock DEF Watched
    <3> QED BY <1>0, <1>2, <1>3, <3>1, <3>2 DEF Watched
  <2>2. CASE AcquireFails(h)
    <3>1. holder' = <<>> /\ ensuring'[h] = "idle" /\ (ensuring[h] = "wait" \/ holder = <<>>)
          /\ started' = started
      BY <1>0, <2>2 DEF AcquireFails, BackendTypes, children
    <3>2. \A g \in Hubs : ensuring[g] = "wait" => g = h
      BY <1>2, <3>1, FreeLock DEF Watched
    <3> QED BY <1>0, <1>2, <1>3, <3>1, <3>2 DEF Watched
  <2>3. CASE Ensure(h) \/ EnsureCheck(h) \/ EnsureClear(h) \/ EnsureMark(h)
    <3>1. UNCHANGED <<holder, started>> /\ ensuring'[h] # "wait"
      BY <1>0, <2>3 DEF Ensure, EnsureCheck, EnsureClear, EnsureMark, BackendTypes, children
    <3> QED BY <1>0, <1>2, <1>3, <3>1 DEF Watched
  <2> QED BY <2>1, <2>2, <2>3
<1> QED BY <1>5, <1>6, <1>7

\* acquireManagedPenpot, when the server is there or has been started.
LEMMA AcquireKeeps ==
    ASSUME BackendInv, NEW h \in Hubs, AcquireReady(h) \/ AcquireUp(h)
    PROVE  BackendInv'
<1>0. /\ BackendTypes /\ (Undisturbed => Counted /\ Watched /\ Told)
      /\ UNCHANGED <<unnoticed, killed, started, ending, penpot, twice, deaths>>
      /\ refs' = refs + 1 /\ ensuring' = [ensuring EXCEPT ![h] = "mark"] /\ holder' = <<>>
      /\ ensuring[h] \in {"acquire", "wait"}
  BY DEF BackendInv, AcquireReady, AcquireUp, children
<1>1. BackendTypes'
  BY <1>0 DEF BackendTypes
<1> SUFFICES ASSUME Undisturbed PROVE Counted' /\ Watched' /\ Told'
  BY <1>0, <1>1 DEF BackendInv, Undisturbed
<1>2. Leaving' = Leaving /\ Counted /\ Watched /\ Told /\ ~penpot[h] /\ refs \in Nat
  BY <1>0 DEF Leaving, Counted, BackendTypes
<1>3. ensuring'[h] = "mark" /\ \A g \in Hubs : g # h => ensuring'[g] = ensuring[g]
  BY <1>0 DEF BackendTypes
<1>4. Users' = Users \cup {h} /\ h \notin Users
  BY <1>0, <1>2, <1>3 DEF Users, UserAt
<1>5. /\ IsFiniteSet(Users') /\ Cardinality(Users') = Cardinality(Users) + 1
      /\ Cardinality(Users) \in Nat /\ Cardinality(Leaving) \in Nat
  <2>1. IsFiniteSet(Users) /\ IsFiniteSet(Leaving)
    BY <1>2 DEF Counted
  <2> QED BY <1>4, <2>1, FS_AddElement, FS_CardinalityType
<1>6. Counted'
  <2>1. refs' = Cardinality(Users') + Cardinality(Leaving') /\ refs' # 0
    BY <1>0, <1>2, <1>5 DEF Counted
  <2>2. \A g \in Hubs : ensuring'[g] \in {"acquire", "wait", "mark"} => ~penpot'[g]
    BY <1>0, <1>2, <1>3 DEF Counted
  <2> QED BY <1>2, <1>5, <2>1, <2>2 DEF Counted
<1>7. CASE AcquireReady(h)
  <2>1. UNCHANGED <<server, serving>> /\ holder = <<>> /\ serving # {}
        /\ misled' = IF serving \subseteq killed THEN misled \cup {h} ELSE misled \ {h}
    BY <1>7 DEF AcquireReady, Found, Ready, children
  <2>2. ~(serving \subseteq killed) => server # 0
    BY <1>2 DEF Watched
  <2>3. \A g \in Hubs : ensuring'[g] # "wait"
    BY <1>2, <1>3, <2>1, FreeLock DEF Watched
  <2>4. Watched'
    BY <1>0, <1>2, <2>1, <2>3 DEF Watched
  <2>5. ~(serving \subseteq killed) \/ h \in misled'
    BY <2>1
  <2>6. Told'
    BY <1>2, <1>4, <2>1, <2>2, <2>5 DEF Told
  <2> QED BY <1>6, <2>4, <2>6
<1>8. CASE AcquireUp(h)
  <2>1. ensuring[h] = "wait" /\ server' = started /\ serving' = serving \cup {started}
    BY <1>8 DEF AcquireUp
  <2>2. holder = <<h>> /\ holder # <<>>
    BY <1>2, <2>1, FreeLock DEF Watched
  <2>3. serving = {} /\ killed = {} /\ started # 0
    BY <1>2, <2>2 DEF Watched
  <2>4. \A g \in Hubs : ensuring'[g] # "wait"
    BY <1>2, <1>3, <2>2 DEF Watched
  <2>5. Watched'
    BY <1>0, <1>2, <2>1, <2>3, <2>4 DEF Watched
  <2> QED BY <1>6, <2>1, <2>3, <2>5 DEF Told
<1> QED BY <1>0, <1>7, <1>8

\* One user less: the server is killed when no other is left.
LEMMA ReleaseKeeps ==
    ASSUME BackendTypes, Counted, Watched, Told,
           NEW h, ReleaseRef(h), UNCHANGED <<unnoticed, started, holder, serving, misled>>,
           IsFiniteSet(Users'), IsFiniteSet(Leaving'),
           refs = Cardinality(Users') + Cardinality(Leaving') + 1,
           Users' \subseteq Users,
           \A g \in Hubs : ensuring'[g] \in {"acquire", "wait", "mark"} => ~penpot'[g],
           \A g \in Hubs : ensuring'[g] = "wait" => ensuring[g] = "wait"
    PROVE  Counted' /\ Watched' /\ Told'
<1>1. Cardinality(Users') \in Nat /\ Cardinality(Leaving') \in Nat
  BY FS_CardinalityType
<1>2. refs' = Cardinality(Users') + Cardinality(Leaving') /\ refs' = refs - 1 /\ refs \in Nat
  BY <1>1 DEF ReleaseRef, BackendTypes
<1>3. CASE refs' = 0
  <2>1. server' = 0 /\ killed' = killed \cup (serving \cap {server})
    BY <1>2, <1>3 DEF ReleaseRef
  <2>2. Users' = {}
    <3>1. Cardinality(Users') = 0
      BY <1>1, <1>2, <1>3
    <3> QED BY <3>1, FS_EmptySet
  <2>3. Watched'
    BY <2>1 DEF Watched
  <2> QED BY <1>2, <2>1, <2>2, <2>3 DEF Counted, Told
<1>4. CASE refs' # 0
  <2>1. UNCHANGED <<server, killed>>
    BY <1>2, <1>4 DEF ReleaseRef
  <2>2. Watched'
    BY <2>1 DEF Watched
  <2> QED BY <1>2, <1>4, <2>1, <2>2 DEF Counted, Told
<1> QED BY <1>3, <1>4

\* A hub is closed, and gives the server up.
LEMMA CloseKeeps ==
    ASSUME BackendInv, NEW h \in Hubs, CloseBackend(h) \/ CloseRelease(h)
    PROVE  BackendInv'
<1>0. /\ BackendTypes /\ (Undisturbed => Counted /\ Watched /\ Told)
      /\ UNCHANGED <<holder, serving, started, unnoticed, ensuring, misled, deaths>>
  BY DEF BackendInv, CloseBackend, CloseRelease, children, history
<1>1. BackendTypes'
  <2>1. CASE CloseBackend(h)
    <3>1. /\ UNCHANGED refs /\ penpot' = [penpot EXCEPT ![h] = FALSE]
          /\ ending' = [ending EXCEPT ![h] = IF penpot[h] THEN "release" ELSE "done"]
          /\ twice' = (twice \/ (ensuring[h] = "clear" /\ penpot[h]))
      BY <2>1 DEF CloseBackend
    <3>2. twice' \in BOOLEAN
      BY <1>0, <3>1 DEF BackendTypes
    <3> QED BY <1>0, <3>1, <3>2 DEF BackendTypes
  <2>2. CASE CloseRelease(h)
    <3>1. UNCHANGED <<penpot, twice>> /\ ending' = [ending EXCEPT ![h] = "done"]
      BY <2>2 DEF CloseRelease, history
    <3>2. refs' \in Nat
      BY <1>0, <2>2 DEF BackendTypes, CloseRelease, ReleaseRef
    <3> QED BY <1>0, <3>1, <3>2 DEF BackendTypes
  <2> QED BY <2>1, <2>2
<1> SUFFICES ASSUME Undisturbed' PROVE Counted' /\ Watched' /\ Told'
  BY <1>1 DEF BackendInv
<1>2. Undisturbed
  <2>1. ~twice' => ~twice
    BY <1>0 DEF BackendTypes, CloseBackend, CloseRelease, history
  <2> QED BY <1>0, <2>1 DEF Undisturbed
<1>3. /\ Counted /\ Watched /\ Told /\ IsFiniteSet(Users) /\ IsFiniteSet(Leaving)
      /\ refs = Cardinality(Users) + Cardinality(Leaving) /\ refs \in Nat
  BY <1>0, <1>2 DEF Counted, BackendTypes
<1>4. Cardinality(Users) \in Nat /\ Cardinality(Leaving) \in Nat
  BY <1>3, FS_CardinalityType
<1>5. CASE CloseBackend(h)
  <2>1. /\ ending[h] = "no" /\ penpot'[h] = FALSE /\ ending'[h] = IF penpot[h] THEN "release" ELSE "done"
        /\ \A g \in Hubs : g # h => penpot'[g] = penpot[g] /\ ending'[g] = ending[g]
        /\ UNCHANGED <<server, refs, killed>>
        /\ twice' = (twice \/ (ensuring[h] = "clear" /\ penpot[h]))
    BY <1>0, <1>5 DEF CloseBackend, BackendTypes, children
  <2>2. /\ IsFiniteSet(Users') /\ IsFiniteSet(Leaving') /\ Users' \subseteq Users
        /\ refs = Cardinality(Users') + Cardinality(Leaving')
    <3>1. CASE penpot[h]
      <4>1. ensuring[h] # "mark" /\ ensuring[h] # "clear"
        BY <1>3, <2>1, <3>1 DEF Counted, Undisturbed
      <4>2. Users' = Users \ {h} /\ h \in Users
        BY <1>0, <2>1, <3>1, <4>1 DEF Users, UserAt
      <4>3. Leaving' = Leaving \cup {h} /\ h \notin Leaving
        BY <2>1, <3>1 DEF Leaving
      <4>4. IsFiniteSet(Users') /\ Cardinality(Users') = Cardinality(Users) - 1
        BY <1>3, <4>2, FS_RemoveElement
      <4>5. IsFiniteSet(Leaving') /\ Cardinality(Leaving') = Cardinality(Leaving) + 1
        BY <1>3, <4>3, FS_AddElement
      <4> QED BY <1>3, <1>4, <4>2, <4>4, <4>5
    <3>2. CASE ~penpot[h]
      <4>1. \A g \in Hubs : UserAt(g)' = UserAt(g)
        BY <1>0, <2>1, <3>2 DEF UserAt
      <4>2. Users' = Users
        BY <4>1 DEF Users
      <4>3. Leaving' = Leaving
        BY <2>1, <3>2 DEF Leaving
      <4> QED BY <1>3, <4>2, <4>3
    <3> QED BY <3>1, <3>2
  <2>3. \A g \in Hubs : ensuring[g] \in {"acquire", "wait", "mark"} => ~penpot'[g]
    BY <1>3, <2>1 DEF Counted
  <2> QED BY <1>0, <1>3, <2>1, <2>2, <2>3 DEF Counted, Watched, Told
<1>6. CASE CloseRelease(h)
  <2>1. /\ ending[h] = "release" /\ ending'[h] = "done" /\ penpot' = penpot
        /\ \A g \in Hubs : g # h => ending'[g] = ending[g]
        /\ ReleaseRef(h)
    BY <1>0, <1>6 DEF CloseRelease, BackendTypes
  <2>2. \A g \in Hubs : UserAt(g)' = UserAt(g)
    BY <1>0, <2>1 DEF UserAt
  <2>3. Users' = Users /\ Leaving' = Leaving \ {h} /\ h \in Leaving
    BY <2>1, <2>2 DEF Users, Leaving
  <2>4. IsFiniteSet(Leaving') /\ Cardinality(Leaving') = Cardinality(Leaving) - 1
    BY <1>3, <2>3, FS_RemoveElement
  <2>5. /\ IsFiniteSet(Users') /\ Users' \subseteq Users
        /\ refs = Cardinality(Users') + Cardinality(Leaving') + 1
    BY <1>3, <1>4, <2>3, <2>4
  <2>6. \A g \in Hubs : ensuring'[g] \in {"acquire", "wait", "mark"} => ~penpot'[g]
    BY <1>0, <1>3, <2>1 DEF Counted
  <2> QED BY <1>0, <1>3, <2>1, <2>4, <2>5, <2>6, ReleaseKeeps
<1> QED BY <1>5, <1>6

\* A hub that does not find the server gives it up before it acquires it again.
LEMMA EnsureReleaseKeeps ==
    ASSUME BackendInv, NEW h \in Hubs, EnsureRelease(h)
    PROVE  BackendInv'
<1>0. /\ BackendTypes /\ (Undisturbed => Counted /\ Watched /\ Told)
      /\ ensuring[h] = "release" /\ ReleaseRef(h)
      /\ ensuring' = [ensuring EXCEPT ![h] = "clear"] /\ twice' = (twice \/ ~penpot[h])
      /\ UNCHANGED <<holder, serving, started, unnoticed, penpot, ending, misled, deaths>>
  BY DEF BackendInv, EnsureRelease
<1>1. BackendTypes'
  <2>1. twice' \in BOOLEAN /\ refs' \in Nat
    BY <1>0 DEF BackendTypes, ReleaseRef
  <2> QED BY <1>0, <2>1 DEF BackendTypes
<1> SUFFICES ASSUME Undisturbed' PROVE Counted' /\ Watched' /\ Told'
  BY <1>1 DEF BackendInv
<1>2. Undisturbed /\ penpot[h]
  BY <1>0 DEF Undisturbed, BackendTypes
<1>3. /\ Counted /\ Watched /\ Told /\ IsFiniteSet(Users) /\ IsFiniteSet(Leaving)
      /\ refs = Cardinality(Users) + Cardinality(Leaving)
  BY <1>0, <1>2 DEF Counted
<1>4. ensuring'[h] = "clear" /\ \A g \in Hubs : g # h => ensuring'[g] = ensuring[g]
  BY <1>0 DEF BackendTypes
<1>5. Users' = Users \ {h} /\ h \in Users /\ Leaving' = Leaving
  BY <1>0, <1>2, <1>4 DEF Users, UserAt, Leaving
<1>6. /\ IsFiniteSet(Users') /\ Cardinality(Users') = Cardinality(Users) - 1
      /\ Cardinality(Users) \in Nat /\ Cardinality(Leaving) \in Nat
  BY <1>3, <1>5, FS_RemoveElement, FS_CardinalityType
<1>7. /\ IsFiniteSet(Leaving') /\ Users' \subseteq Users
      /\ refs = Cardinality(Users') + Cardinality(Leaving') + 1
  BY <1>3, <1>5, <1>6
<1>8. /\ \A g \in Hubs : ensuring'[g] \in {"acquire", "wait", "mark"} => ~penpot'[g]
      /\ \A g \in Hubs : ensuring'[g] = "wait" => ensuring[g] = "wait"
  BY <1>0, <1>3, <1>4 DEF Counted
<1> QED BY <1>0, <1>3, <1>6, <1>7, <1>8, ReleaseKeeps

\* A killed child ends; one dies by itself, which is an exception of ServerKept,
\* or is noticed, which does not happen without one.
LEMMA ChildKeeps ==
    ASSUME BackendInv,
           \/ \E x \in Children : KilledEnds(x) \/ ChildDies(x) \/ Watch(x)
           \/ UNCHANGED backendVars
    PROVE  BackendInv'
<1>0. BackendTypes /\ (Undisturbed => Counted /\ Watched /\ Told)
  BY DEF BackendInv
<1>1. ASSUME NEW x \in Children, KilledEnds(x) PROVE BackendInv'
  <2>1. /\ UNCHANGED <<server, refs, holder, unnoticed, started, penpot, ensuring, ending>>
        /\ UNCHANGED <<misled, twice, deaths>>
        /\ x \in killed /\ killed' = killed \ {x} /\ serving' = serving \ {x}
    BY <1>1 DEF KilledEnds, history
  <2>2. BackendTypes'
    BY <1>0, <2>1 DEF BackendTypes
  <2>3. Undisturbed => Counted'
    BY <1>0, <2>1 DEF Counted, Users, UserAt, Leaving
  <2>4. Undisturbed => Watched'
    BY <1>0, <2>1 DEF Watched
  <2>5. Undisturbed => Told'
    BY <1>0, <2>1 DEF Told, Users, UserAt
  <2> QED BY <2>1, <2>2, <2>3, <2>4, <2>5 DEF BackendInv, Undisturbed
<1>2. ASSUME NEW x \in Children, ChildDies(x) PROVE BackendInv'
  <2>1. BackendTypes'
    BY <1>0, <1>2 DEF BackendTypes, ChildDies
  <2>2. deaths' # 0
    BY <1>0, <1>2 DEF BackendTypes, ChildDies
  <2> QED BY <2>1, <2>2 DEF BackendInv, Undisturbed
<1>3. ASSUME NEW x \in Children, Watch(x) PROVE BackendInv'
  <2>1. BackendTypes'
    BY <1>0, <1>3 DEF BackendTypes, Watch, history
  <2>2. Undisturbed' => FALSE
    BY <1>0, <1>3 DEF Undisturbed, Watch, Watched, history
  <2> QED BY <2>1, <2>2 DEF BackendInv
<1>4. CASE UNCHANGED backendVars
  BY <1>0, <1>4 DEF backendVars, history, children, BackendInv, BackendTypes, Undisturbed,
                    Counted, Watched, Told, Users, UserAt, Leaving
<1> QED BY <1>1, <1>2, <1>3, <1>4

\* The count is right and the server runs as long as no child has died by itself
\* and no hub has given the server up twice.
THEOREM BackendInvariant == SharedBackendSpec => []BackendInv
<1>1. SharedBackendInit => BackendInv
  <2> SUFFICES ASSUME SharedBackendInit PROVE BackendInv
    OBVIOUS
  <2>1. BackendTypes
    BY DEF SharedBackendInit, BackendTypes
  <2>2. Users = {} /\ Leaving = {}
    BY DEF SharedBackendInit, Users, UserAt, Leaving
  <2>3. IsFiniteSet({}) /\ Cardinality({}) = 0
    BY FS_EmptySet
  <2>4. Counted /\ Watched /\ Told
    BY <2>2, <2>3 DEF SharedBackendInit, Counted, Watched, Told
  <2> QED BY <2>1, <2>4 DEF BackendInv
<1>2. BackendInv /\ [SharedBackendNext]_backendVars => BackendInv'
  BY EnsureKeeps, AcquireKeeps, CloseKeeps, EnsureReleaseKeeps, ChildKeeps DEF SharedBackendNext
<1> QED BY <1>1, <1>2, PTL DEF SharedBackendSpec

\* Closing a hub leaves the server to those that use it, for any number of hubs
\* that acquire it, give it up and close at the same time, with the exceptions
\* of ServerKept: the child that was killed and has not ended is one of them.
THEOREM ServerKeptHolds == SharedBackendSpec => []ServerKept
<1>1. BackendInv => ServerKept
  <2>1. Relying \subseteq Users
    BY DEF Relying, Users, UserAt
  <2> QED BY <2>1 DEF BackendInv, Undisturbed, Watched, Told, ServerKept
<1> QED BY <1>1, BackendInvariant, PTL

\* The children in every place of the record are children that were started.
ChildTypes ==
    /\ server \in 0..MaxChildren
    /\ serving \subseteq Children /\ killed \subseteq serving /\ unnoticed \subseteq Children
    /\ started \in 0..MaxChildren
    /\ \A h \in Hubs : ensuring[h] = "wait" => started > 0
    /\ misled \subseteq Hubs
    /\ deaths \in 0..MaxDeaths

LEMMA ChildrenKeep ==
    ASSUME BackendTypes, ChildTypes, [SharedBackendNext]_backendVars
    PROVE  ChildTypes'
<1>0. ensuring \in [Hubs -> {"idle", "check", "release", "clear", "acquire", "wait", "mark"}]
  BY DEF BackendTypes
<1>1. ASSUME NEW h \in Hubs, EnsureRelease(h) \/ CloseRelease(h) PROVE ChildTypes'
  <2>1. ReleaseRef(h) /\ UNCHANGED <<serving, unnoticed, started, misled, deaths>>
    BY <1>1 DEF EnsureRelease, CloseRelease, history
  <2>2. \A g \in Hubs : ensuring'[g] = "wait" => ensuring[g] = "wait"
    BY <1>0, <1>1 DEF EnsureRelease, CloseRelease
  <2>3. server' \in 0..MaxChildren /\ killed' \subseteq serving
    BY <2>1, SharedBackendAssumption DEF ReleaseRef, ChildTypes
  <2> QED BY <2>1, <2>2, <2>3 DEF ChildTypes
<1>2. ASSUME NEW h \in Hubs, AcquireStart(h) PROVE ChildTypes'
  <2>1. /\ started < MaxChildren /\ started' = started + 1
        /\ UNCHANGED <<server, serving, killed, unnoticed, misled, deaths>>
    BY <1>2 DEF AcquireStart, history
  <2>2. started' \in 0..MaxChildren /\ started' > 0
    BY <2>1, SharedBackendAssumption DEF ChildTypes
  <2> QED BY <2>1, <2>2 DEF ChildTypes
<1>3. ASSUME NEW h \in Hubs, AcquireUp(h) PROVE ChildTypes'
  <2>1. /\ started \in 1..MaxChildren /\ server' = started /\ serving' = serving \cup {started}
        /\ misled' = misled \ {h} /\ UNCHANGED <<killed, unnoticed, started, deaths>>
    BY <1>3, SharedBackendAssumption DEF AcquireUp, ChildTypes
  <2>2. \A g \in Hubs : ensuring'[g] = "wait" => ensuring[g] = "wait"
    BY <1>0, <1>3 DEF AcquireUp
  <2> QED BY <2>1, <2>2 DEF ChildTypes, Children
<1>4. ASSUME NEW x \in Children, KilledEnds(x) \/ ChildDies(x) \/ Watch(x) PROVE ChildTypes'
  <2>1. /\ serving' \subseteq Children /\ killed' \subseteq serving' /\ unnoticed' \subseteq Children
        /\ UNCHANGED <<started, ensuring, misled>> /\ server' \in {0, server}
    BY <1>4 DEF KilledEnds, ChildDies, Watch, ChildTypes, history
  <2>2. deaths' \in 0..MaxDeaths
    BY <1>4, SharedBackendAssumption DEF KilledEnds, ChildDies, Watch, ChildTypes, history
  <2> QED BY <2>1, <2>2, SharedBackendAssumption DEF ChildTypes
<1>5. ASSUME NEW h \in Hubs,
             \/ Ensure(h) \/ EnsureCheck(h) \/ EnsureClear(h) \/ EnsureMark(h)
             \/ AcquireReady(h) \/ AcquireFails(h) \/ CloseBackend(h)
      PROVE  ChildTypes'
  <2>1. /\ UNCHANGED <<server, serving, killed, unnoticed, started, deaths>>
        /\ misled' \in {misled, misled \cup {h}, misled \ {h}}
    BY <1>5 DEF Ensure, EnsureCheck, EnsureClear, EnsureMark, AcquireReady, AcquireFails, CloseBackend,
                Found, history, children
  <2>2. \A g \in Hubs : ensuring'[g] = "wait" => ensuring[g] = "wait"
    BY <1>0, <1>5
       DEF Ensure, EnsureCheck, EnsureClear, EnsureMark, AcquireReady, AcquireFails, CloseBackend
  <2>3. misled' \subseteq Hubs
    BY <2>1 DEF ChildTypes
  <2> QED BY <2>1, <2>2, <2>3 DEF ChildTypes
<1>6. CASE UNCHANGED backendVars
  BY <1>6 DEF ChildTypes, backendVars, history, children
<1> QED BY <1>1, <1>2, <1>3, <1>4, <1>5, <1>6 DEF SharedBackendNext

\* The record of the shared server, its children and the counters keep their
\* types: a child that answers was started.
THEOREM BackendTypeCorrect == SharedBackendSpec => []SharedBackendTypeOK
<1>1. SharedBackendInit => ChildTypes
  BY SharedBackendAssumption DEF SharedBackendInit, ChildTypes
<1>2. BackendInv /\ ChildTypes /\ [SharedBackendNext]_backendVars => ChildTypes'
  BY ChildrenKeep DEF BackendInv
<1>3. BackendInv /\ ChildTypes => SharedBackendTypeOK
  BY DEF BackendInv, BackendTypes, ChildTypes, SharedBackendTypeOK
<1> QED BY <1>1, <1>2, <1>3, BackendInvariant, PTL DEF SharedBackendSpec

-----------------------------------------------------------------------------
(* The refresh tokens of a login.                                           *)

SecurityStates == [ver : {1, 2}, changed : Nat]
Waiting == [pc : {"state", "reply"}, token : Nat, since : Nat]
Filling == [pc : {"fill"}, token : Nat, since : Nat, state : SecurityStates]
Rotating == [pc : {"script"}, token : Nat, since : Nat, ver : {1, 2}, at : Nat]
AnyRequest == {NoRequest} \cup Waiting \cup Filling \cup Rotating
Families == [current : Nat, previous : Nat, rotated : Nat, revoked : BOOLEAN, until : Nat]
Minted == [issued : Nat, ver : {0, 1, 2}]

TokenTypes ==
    /\ tokens \in Seq(Minted)
    /\ known \subseteq 1..Len(tokens)
    /\ family \in Families
    /\ cache \in {NoCache} \cup [ver : {1, 2}, changed : Nat, until : Nat]
    /\ req \in [Requesters -> AnyRequest]
    /\ version \in {1, 2} /\ changed \in Nat /\ clock \in Nat \ {0}
    /\ code \in BOOLEAN /\ overdue \in BOOLEAN
    /\ ended \in Nat /\ lastOld \in Nat
    /\ gave \subseteq Nat \X Nat

\* What a request has read is not older than the request or a cached state.
RequestOK(q) ==
    q.pc # "idle" =>
        /\ q.since <= clock /\ clock <= q.since + RequestTime
        /\ q.token <= Len(tokens)
        /\ q.pc = "reply" => q.token > 0
        /\ q.pc = "fill" /\ q.state.ver = 1 =>
              q.state.changed = 0 /\ (changed > 0 => q.since <= changed)
        /\ q.pc = "fill" /\ q.state.ver = 2 => version = 2 /\ q.state.changed = changed
        /\ q.pc = "script" => q.at <= clock
        /\ q.pc = "script" /\ q.ver = 1 /\ changed > 0 =>
              q.since < changed + CacheTTL + RequestTime
        /\ q.pc = "script" /\ q.ver = 2 => version = 2 /\ (q.token > 0 => ~Older(q.token))

CacheOK ==
    /\ cache.until <= clock + CacheTTL
    /\ cache.ver = 1 =>
          cache.changed = 0 /\ (changed > 0 => cache.until <= changed + CacheTTL + RequestTime)
    /\ cache.ver = 2 => version = 2 /\ cache.changed = changed

UserOK ==
    /\ version = 1 <=> changed = 0
    /\ changed <= clock
    /\ changed = 0 => lastOld = 0
    /\ \A t \in 1..Len(tokens) : tokens[t].issued <= clock /\ (tokens[t].ver = 2 => version = 2)

\* The code is redeemed once, for the first token.
LogsIn(q) == q.pc \in {"state", "fill", "script"} /\ q.token = 0
OneLogin ==
    /\ code => Len(tokens) = 0 /\ family.until = 0
    /\ \A r \in Requesters : LogsIn(req[r]) => ~code /\ Len(tokens) = 0 /\ family.until = 0
    /\ \A r, s \in Requesters : LogsIn(req[r]) /\ LogsIn(req[s]) => r = s
    /\ family.until # 0 => family.current \in 1..Len(tokens)

\* The key is kept for as long as any token; its current token is the last one.
Chain ==
    /\ family.until = 0 => gave = {} /\ Len(tokens) <= 1 /\ ended = 0
    /\ family.until # 0 =>
          /\ family.current = Len(tokens)
          /\ family.previous # 0 => family.current = family.previous + 1
          /\ family.until <= clock + RefreshTTL
          /\ \A t \in 1..Len(tokens) : tokens[t].issued + RefreshTTL <= family.until
    /\ ended # 0 => family.revoked
    /\ OneSuccessor
    /\ ReplayEnds

FamilyInv ==
    /\ TokenTypes
    /\ \A r \in Requesters : RequestOK(req[r])
    /\ CacheOK
    /\ UserOK
    /\ OneLogin
    /\ overdue \/ Chain
    /\ PasswordEnds

LEMMA RequestFields ==
    ASSUME NEW q \in AnyRequest
    PROVE  /\ q.pc \in {"idle", "state", "reply", "fill", "script"}
           /\ q.pc = "idle" <=> q = NoRequest
           /\ q.pc # "idle" => q.token \in Nat /\ q.since \in Nat
           /\ q.pc = "fill" => q.state \in SecurityStates
           /\ q.pc = "script" => q \in Rotating /\ q.ver \in {1, 2} /\ q.at \in Nat
<1>1. CASE q = NoRequest
  BY <1>1 DEF NoRequest
<1>2. CASE q \in Waiting
  BY <1>2 DEF Waiting, NoRequest
<1>3. CASE q \in Filling
  BY <1>3 DEF Filling, NoRequest
<1>4. CASE q \in Rotating
  BY <1>4 DEF Rotating, NoRequest
<1> QED BY <1>1, <1>2, <1>3, <1>4 DEF AnyRequest

LEMMA TokenFields ==
    ASSUME TokenTypes, NEW t \in 1..Len(tokens)
    PROVE  tokens[t].issued \in Nat /\ tokens[t].ver \in {0, 1, 2}
<1>1. tokens \in Seq(Minted)
  BY DEF TokenTypes
<1>2. tokens[t] \in Minted
  BY <1>1
<1> QED BY <1>2 DEF Minted

\* A request goes on or ends, and nothing is minted.
LEMMA RequestMoves ==
    ASSUME FamilyInv, NEW r \in Requesters, NEW q \in AnyRequest,
           req' = [req EXCEPT ![r] = q], RequestOK(q),
           \/ LogsIn(q) => LogsIn(req[r])
           \/ code /\ ~code',
           code' \in BOOLEAN, code' => code,
           cache' \in {NoCache} \cup [ver : {1, 2}, changed : Nat, until : Nat], CacheOK',
           known' \subseteq 1..Len(tokens),
           UNCHANGED <<family, version, changed, gave, ended, overdue, lastOld, tokens, clock>>
    PROVE  FamilyInv'
<1>0. /\ TokenTypes /\ (\A s \in Requesters : RequestOK(req[s])) /\ UserOK /\ OneLogin
      /\ (overdue \/ Chain) /\ PasswordEnds /\ req \in [Requesters -> AnyRequest]
  BY DEF FamilyInv, TokenTypes
<1>1. req'[r] = q /\ \A s \in Requesters : s # r => req'[s] = req[s]
  BY <1>0
<1>2. TokenTypes'
  BY <1>0 DEF TokenTypes
<1>3. \A s \in Requesters : RequestOK(req[s])'
  BY <1>0, <1>1 DEF RequestOK, Older
<1>4. UserOK' /\ PasswordEnds'
  BY <1>0 DEF UserOK, PasswordEnds
<1>5. OneLogin'
  BY <1>0, <1>1 DEF OneLogin, LogsIn
<1>6. (overdue \/ Chain)'
  BY <1>0 DEF Chain, OneSuccessor, ReplayEnds
<1> QED BY <1>2, <1>3, <1>4, <1>5, <1>6 DEF FamilyInv

\* The user's security state is known.
LEMMA CheckedKeeps ==
    ASSUME FamilyInv, NEW r \in Requesters, NEW state, req[r].pc \in {"state", "fill"},
           Checked(r, state), state.ver \in {1, 2}, state.changed \in Nat,
           state.ver = 1 => state.changed = 0
                            /\ (changed > 0 => req[r].since < changed + CacheTTL + RequestTime),
           state.ver = 2 => version = 2 /\ state.changed = changed,
           cache' \in {NoCache} \cup [ver : {1, 2}, changed : Nat, until : Nat], CacheOK',
           UNCHANGED <<family, version, changed, gave, ended, overdue, lastOld, tokens, known, code, clock>>
    PROVE  FamilyInv'
<1> DEFINE q == req[r]
           n == [pc |-> "script", token |-> q.token, since |-> q.since, ver |-> state.ver, at |-> clock]
<1>0. /\ TokenTypes /\ q \in AnyRequest /\ RequestOK(q) /\ UserOK /\ code \in BOOLEAN /\ clock \in Nat
      /\ known \subseteq 1..Len(tokens) /\ changed \in Nat /\ Len(tokens) \in Nat
  BY DEF FamilyInv, TokenTypes
<1>1. q.token \in Nat /\ q.since \in Nat
  BY <1>0, RequestFields
<1>2. CASE req' = [req EXCEPT ![r] = NoRequest]
  <2>1. NoRequest \in AnyRequest /\ RequestOK(NoRequest) /\ ~LogsIn(NoRequest)
    BY DEF AnyRequest, RequestOK, LogsIn, NoRequest
  <2> QED BY <1>0, <1>2, <2>1, RequestMoves
<1>3. CASE (q.token = 0 \/ Valid(q.token, state)) /\ req' = [req EXCEPT ![r] = n]
  <2>1. n \in AnyRequest
    <3>1. n \in Rotating
      BY <1>0, <1>1 DEF Rotating
    <3> QED BY <3>1 DEF AnyRequest
  <2>2. /\ n.pc = "script" /\ n.token = q.token /\ n.since = q.since /\ n.ver = state.ver
        /\ n.at = clock
    OBVIOUS
  <2>3. ASSUME state.ver = 2, q.token > 0 PROVE ~Older(q.token)
    <3>1. q.token \in 1..Len(tokens)
      BY <1>0, <1>1, <2>3 DEF RequestOK
    <3>2. tokens[q.token].issued \in Nat /\ tokens[q.token].ver \in {0, 1, 2}
      BY <1>0, <3>1, TokenFields
    <3>3. changed # 0 /\ Valid(q.token, state)
      BY <1>0, <1>1, <1>3, <2>3 DEF UserOK
    <3> QED BY <1>0, <2>3, <3>2, <3>3 DEF Valid, Older
  <2>4. RequestOK(n)
    BY <1>0, <1>1, <2>2, <2>3 DEF RequestOK
  <2>5. LogsIn(n) => LogsIn(req[r])
    BY <2>2 DEF LogsIn
  <2> HIDE DEF n
  <2> QED BY <1>0, <1>3, <2>1, <2>4, <2>5, RequestMoves
<1> QED BY <1>2, <1>3 DEF Checked, Continues

\* Requests arrive, read the security state, are answered and fail.
LEMMA RequestsKeep ==
    ASSUME FamilyInv, NEW r \in Requesters,
           \/ Login(r) \/ (\E t \in known : Present(r, t)) \/ ReadCache(r) \/ ReadDatabase(r)
           \/ (\E ok \in BOOLEAN : FillCache(r, ok) \/ Reply(r, ok)) \/ FailRequest(r)
    PROVE  FamilyInv'
<1> DEFINE q == req[r]
<1>0. /\ TokenTypes /\ q \in AnyRequest /\ RequestOK(q) /\ UserOK /\ CacheOK /\ OneLogin
      /\ code \in BOOLEAN /\ clock \in Nat \ {0} /\ version \in {1, 2}
      /\ known \subseteq 1..Len(tokens) /\ changed \in Nat /\ Len(tokens) \in Nat
      /\ cache \in {NoCache} \cup [ver : {1, 2}, changed : Nat, until : Nat]
  BY DEF FamilyInv, TokenTypes
<1>1. CacheTTL \in Nat \ {0} /\ RequestTime \in Nat
  BY TokenFamilyAssumption
<1>2. NoRequest \in AnyRequest /\ RequestOK(NoRequest) /\ ~LogsIn(NoRequest)
  BY DEF AnyRequest, RequestOK, LogsIn, NoRequest
<1>3. ASSUME UNCHANGED <<cache, clock, version, changed>> PROVE CacheOK'
  BY <1>0, <1>3 DEF CacheOK
<1>4. CASE Login(r) \/ \E t \in known : Present(r, t)
  <2>1. PICK t \in Nat :
          /\ req' = [req EXCEPT ![r] = [pc |-> "state", token |-> t, since |-> clock]]
          /\ t <= Len(tokens)
          /\ \/ t = 0 /\ code /\ code' = FALSE
             \/ t > 0 /\ UNCHANGED code
          /\ UNCHANGED <<family, cache, version, changed, gave, ended, overdue, lastOld, tokens, known, clock>>
    BY <1>0, <1>4 DEF Login, Present, Continues, familyKeys, userVars, answerVars
  <2> DEFINE n == [pc |-> "state", token |-> t, since |-> clock]
  <2>2. n \in AnyRequest
    <3>1. n \in Waiting
      BY <1>0, <2>1 DEF Waiting
    <3> QED BY <3>1 DEF AnyRequest
  <2>3. RequestOK(n)
    BY <1>0, <1>1, <2>1 DEF RequestOK
  <2>4. (LogsIn(n) => LogsIn(req[r])) \/ (code /\ ~code')
    BY <2>1 DEF LogsIn
  <2> HIDE DEF n
  <2>5. req' = [req EXCEPT ![r] = n]
    BY <2>1 DEF n
  <2>6. /\ code' \in BOOLEAN /\ (code' => code) /\ known' \subseteq 1..Len(tokens) /\ CacheOK'
        /\ cache' \in {NoCache} \cup [ver : {1, 2}, changed : Nat, until : Nat]
    <3>1. code' = FALSE \/ code' = code
      BY <2>1
    <3>2. code' \in BOOLEAN /\ (code' => code)
      <4>1. CASE code' = FALSE
        BY <4>1
      <4>2. CASE code' = code
        <5>1. code \in BOOLEAN
          BY <1>0
        <5> QED BY <4>2, <5>1
      <4> QED BY <3>1, <4>1, <4>2
    <3>3. cache' = cache /\ known' = known /\ UNCHANGED <<cache, clock, version, changed>>
      BY <2>1
    <3>4. CacheOK'
      BY <1>3, <3>3
    <3> QED BY <1>0, <3>2, <3>3, <3>4
  <2>7. UNCHANGED <<family, version, changed, gave, ended, overdue, lastOld, tokens, clock>>
    BY <2>1
  <2> QED BY <2>2, <2>3, <2>4, <2>5, <2>6, <2>7, RequestMoves
<1>5. CASE ReadCache(r)
  <2>1. /\ q.pc = "state" /\ clock < cache.until /\ Checked(r, cache)
        /\ UNCHANGED <<family, cache, version, changed, gave, ended, overdue, lastOld, tokens, known, code, clock>>
    BY <1>5 DEF ReadCache, Cached, familyKeys, userVars, answerVars
  <2>2. cache # NoCache
    BY <1>0, <2>1 DEF NoCache
  <2>3. cache.ver \in {1, 2} /\ cache.changed \in Nat /\ cache.until \in Nat
    BY <1>0, <2>2
  <2>4. q.since \in Nat /\ q.since <= clock
    BY <1>0, <2>1, RequestFields DEF RequestOK
  <2>5. cache.ver = 1 => cache.changed = 0
                         /\ (changed > 0 => req[r].since < changed + CacheTTL + RequestTime)
    BY <1>0, <1>1, <2>1, <2>3, <2>4 DEF CacheOK
  <2>6. cache.ver = 2 => version = 2 /\ cache.changed = changed
    BY <1>0 DEF CacheOK
  <2> QED BY <1>0, <1>3, <2>1, <2>3, <2>5, <2>6, CheckedKeeps
<1>6. CASE ReadDatabase(r)
  <2> DEFINE st == [ver |-> version, changed |-> changed]
             n == [pc |-> "fill", token |-> q.token, since |-> q.since, state |-> st]
  <2>1. /\ q.pc = "state" /\ req' = [req EXCEPT ![r] = n]
        /\ UNCHANGED <<family, cache, version, changed, gave, ended, overdue, lastOld, tokens, known, code, clock>>
    BY <1>6 DEF ReadDatabase, Continues, familyKeys, userVars, answerVars
  <2>2. q.token \in Nat /\ q.since \in Nat
    BY <1>0, <2>1, RequestFields
  <2>3. st \in SecurityStates /\ st.ver = version /\ st.changed = changed
    BY <1>0 DEF SecurityStates
  <2> HIDE DEF st
  <2>4. n \in AnyRequest
    <3>1. n \in Filling
      BY <2>2, <2>3 DEF Filling
    <3> QED BY <3>1 DEF AnyRequest
  <2>5. n.pc = "fill" /\ n.token = q.token /\ n.since = q.since /\ n.state = st
    OBVIOUS
  <2>6. RequestOK(n) /\ (LogsIn(n) => LogsIn(req[r]))
    BY <1>0, <2>1, <2>3, <2>5 DEF RequestOK, UserOK, LogsIn
  <2> HIDE DEF n
  <2> QED BY <1>0, <1>3, <2>1, <2>4, <2>6, RequestMoves
<1>7. ASSUME NEW ok \in BOOLEAN, FillCache(r, ok) PROVE FamilyInv'
  <2> DEFINE st == q.state
             c == [ver |-> st.ver, changed |-> st.changed, until |-> clock + CacheTTL]
  <2>1. /\ q.pc = "fill" /\ Checked(r, st) /\ (cache' = c \/ cache' = cache)
        /\ UNCHANGED <<family, version, changed, gave, ended, overdue, lastOld, tokens, known, code, clock>>
    BY <1>7 DEF FillCache, userVars, answerVars
  <2>2. /\ q.since \in Nat /\ st \in SecurityStates
        /\ q.since <= clock /\ clock <= q.since + RequestTime
        /\ st.ver = 1 => st.changed = 0 /\ (changed > 0 => q.since <= changed)
        /\ st.ver = 2 => version = 2 /\ st.changed = changed
    BY <1>0, <2>1, RequestFields DEF RequestOK
  <2>3. st.ver \in {1, 2} /\ st.changed \in Nat
    BY <2>2 DEF SecurityStates
  <2>4. CASE cache' = c
    <3>1. c \in [ver : {1, 2}, changed : Nat, until : Nat]
          /\ c.ver = st.ver /\ c.changed = st.changed /\ c.until = clock + CacheTTL
      BY <1>0, <1>1, <2>3
    <3> HIDE DEF c
    <3>2. CacheOK'
      BY <1>0, <1>1, <2>1, <2>2, <2>4, <3>1, SMTT(30) DEF CacheOK
    <3>3. st.ver = 1 => st.changed = 0 /\ (changed > 0 => q.since < changed + CacheTTL + RequestTime)
      BY <1>0, <1>1, <2>2
    <3>4. cache' \in {NoCache} \cup [ver : {1, 2}, changed : Nat, until : Nat]
      BY <2>4, <3>1
    <3> HIDE DEF st
    <3> QED BY <2>1, <2>2, <2>3, <3>2, <3>3, <3>4, CheckedKeeps
  <2>5. CASE cache' = cache
    <3>1. CacheOK'
      BY <1>3, <2>1, <2>5
    <3>2. st.ver = 1 => st.changed = 0 /\ (changed > 0 => q.since < changed + CacheTTL + RequestTime)
      BY <1>0, <1>1, <2>2
    <3> HIDE DEF st
    <3> QED BY <1>0, <2>1, <2>2, <2>3, <2>5, <3>1, <3>2, CheckedKeeps
  <2> QED BY <2>1, <2>4, <2>5
<1>8. CASE (\E ok \in BOOLEAN : Reply(r, ok)) \/ FailRequest(r)
  <2>1. /\ req' = [req EXCEPT ![r] = NoRequest]
        /\ known' = known \/ (q.pc = "reply" /\ known' = known \cup {q.token})
        /\ UNCHANGED <<family, cache, version, changed, gave, ended, overdue, lastOld, tokens, code, clock>>
    BY <1>8 DEF Reply, FailRequest, Continues, familyKeys, userVars, answerVars
  <2>2. q.pc = "reply" => q.token \in 1..Len(tokens)
    BY <1>0, RequestFields DEF RequestOK
  <2> QED BY <1>0, <1>2, <1>3, <2>1, <2>2, RequestMoves
<1> QED BY <1>4, <1>5, <1>6, <1>7, <1>8

\* An answer is given: what it does to the requests, and to the time at which a
\* token that is older than the password was last rotated.
LEMMA AnswersKeep ==
    ASSUME FamilyInv, NEW r \in Requesters, req[r].pc = "script", NEW n \in Nat \ {0},
           Answers(r, req[r], n), UNCHANGED <<version, changed, clock>>,
           Len(tokens') \in Nat, Len(tokens) <= Len(tokens'), n <= Len(tokens'),
           \A t \in 1..Len(tokens) : tokens'[t] = tokens[t]
    PROVE  /\ req' \in [Requesters -> AnyRequest]
           /\ \A s \in Requesters : RequestOK(req[s])'
           /\ \A s \in Requesters : LogsIn(req'[s]) => s # r /\ req'[s] = req[s]
           /\ lastOld' \in Nat /\ (changed = 0 => lastOld' = 0) /\ PasswordEnds'
           /\ overdue' \in BOOLEAN /\ gave' \subseteq Nat \X Nat
<1> DEFINE q == req[r]
           m == [pc |-> "reply", token |-> n, since |-> q.since]
<1>0. /\ TokenTypes /\ q \in AnyRequest /\ (\A s \in Requesters : RequestOK(req[s])) /\ UserOK /\ PasswordEnds
      /\ clock \in Nat \ {0} /\ changed \in Nat /\ Len(tokens) \in Nat /\ version \in {1, 2}
      /\ req \in [Requesters -> AnyRequest] /\ lastOld \in Nat /\ overdue \in BOOLEAN /\ gave \subseteq Nat \X Nat
  BY DEF FamilyInv, TokenTypes
<1>1. /\ q.token \in Nat /\ q.since \in Nat /\ q.ver \in {1, 2} /\ q.token <= Len(tokens)
      /\ q.since <= clock /\ clock <= q.since + RequestTime
      /\ q.ver = 1 /\ changed > 0 => q.since < changed + CacheTTL + RequestTime
      /\ q.ver = 2 /\ q.token > 0 => ~Older(q.token)
  BY <1>0, RequestFields DEF RequestOK
<1>2. /\ req' = [req EXCEPT ![r] = m]
      /\ gave' = gave \cup {<<q.token, n>>}
      /\ overdue' = (overdue \/ (q.token > 0 /\ Expired(q.token)))
      /\ lastOld' = IF q.token > 0 /\ Older(q.token) THEN clock ELSE lastOld
  BY DEF Answers, Continues
<1>3. m \in AnyRequest /\ m.pc = "reply" /\ m.token = n /\ m.since = q.since
  <2>1. m \in Waiting
    BY <1>1 DEF Waiting
  <2> QED BY <2>1 DEF AnyRequest
<1> HIDE DEF m
<1>4. req'[r] = m /\ \A s \in Requesters : s # r => req'[s] = req[s]
  BY <1>0, <1>2
<1>5. req' \in [Requesters -> AnyRequest]
  BY <1>0, <1>2, <1>3
<1>6. ASSUME NEW s \in Requesters PROVE RequestOK(req[s])'
  <2>1. CASE s = r
    BY <1>1, <1>3, <1>4, <2>1 DEF RequestOK
  <2>2. CASE s # r
    <3>1. req'[s] = req[s] /\ RequestOK(req[s]) /\ req[s] \in AnyRequest
      BY <1>0, <1>4, <2>2
    <3>2. req[s].pc # "idle" => req[s].token \in Nat
      BY <3>1, RequestFields
    <3>3. ASSUME req[s].pc # "idle", req[s].token > 0 PROVE Older(req[s].token)' = Older(req[s].token)
      <4>1. req[s].token \in 1..Len(tokens)
        BY <1>0, <3>1, <3>2, <3>3 DEF RequestOK
      <4> QED BY <3>1, <4>1 DEF Older
    <3> QED BY <1>0, <3>1, <3>2, <3>3 DEF RequestOK
  <2> QED BY <2>1, <2>2
<1>7. \A s \in Requesters : LogsIn(req'[s]) => s # r /\ req'[s] = req[s]
  BY <1>3, <1>4 DEF LogsIn
<1>8. lastOld' \in Nat /\ (changed = 0 => lastOld' = 0) /\ PasswordEnds'
  <2>0. CacheTTL \in Nat \ {0} /\ RequestTime \in Nat
    BY TokenFamilyAssumption
  <2>1. CASE q.token > 0 /\ Older(q.token)
    <3>1. q.token \in 1..Len(tokens) /\ lastOld' = clock
      BY <1>0, <1>1, <1>2, <2>1
    <3>2. /\ tokens[q.token].issued \in Nat /\ tokens[q.token].ver \in {0, 1, 2}
          /\ (tokens[q.token].ver = 2 => version = 2)
      BY <1>0, <3>1, TokenFields DEF UserOK
    <3>3. changed # 0
      BY <1>0, <2>1, <3>2 DEF Older, UserOK
    <3>4. q.since < changed + CacheTTL + RequestTime
      BY <1>0, <1>1, <2>1, <3>3
    <3> QED BY <1>0, <1>1, <2>0, <3>1, <3>3, <3>4, SMTT(30) DEF PasswordEnds
  <2>2. CASE ~(q.token > 0 /\ Older(q.token))
    <3>1. lastOld' = lastOld
      BY <1>2, <2>2
    <3> QED BY <1>0, <3>1 DEF PasswordEnds, UserOK
  <2> QED BY <2>1, <2>2
<1>9. overdue' \in BOOLEAN /\ gave' \subseteq Nat \X Nat
  <2>1. gave' \subseteq Nat \X Nat
    BY <1>0, <1>1, <1>2
  <2>2. overdue' \in BOOLEAN
    BY <1>2
  <2> QED BY <2>1, <2>2
<1> QED BY <1>5, <1>6, <1>7, <1>8, <1>9

\* A token is minted: it is the last one, and keeps what was known.
LEMMA MintKeeps ==
    ASSUME FamilyInv, NEW r \in Requesters, req[r].pc = "script", Mint(req[r]),
           UNCHANGED <<version, clock, known>>
    PROVE  /\ tokens' \in Seq(Minted) /\ Len(tokens') = Len(tokens) + 1 /\ Len(tokens) \in Nat
           /\ \A t \in 1..Len(tokens) : tokens'[t] = tokens[t] /\ tokens[t].issued \in Nat
                                        /\ tokens[t].issued <= clock
           /\ \A t \in 1..Len(tokens') : tokens'[t].issued <= clock /\ (tokens'[t].ver = 2 => version = 2)
                                         /\ tokens'[t].issued \in Nat
           /\ known' \subseteq 1..Len(tokens')
<1> DEFINE q == req[r]
           m == [issued |-> q.at, ver |-> q.ver]
<1>0. /\ TokenTypes /\ q \in AnyRequest /\ RequestOK(q) /\ UserOK /\ tokens \in Seq(Minted)
      /\ known \subseteq 1..Len(tokens) /\ Len(tokens) \in Nat
  BY DEF FamilyInv, TokenTypes
<1>1. q.ver \in {1, 2} /\ q.at \in Nat /\ q.at <= clock /\ (q.ver = 2 => version = 2)
  BY <1>0, RequestFields DEF RequestOK
<1>2. m \in Minted /\ m.issued = q.at /\ m.ver = q.ver
  BY <1>1 DEF Minted
<1>3. tokens' = Append(tokens, m)
  BY DEF Mint
<1> HIDE DEF m
<1>4. /\ tokens' \in Seq(Minted) /\ Len(tokens') = Len(tokens) + 1
      /\ tokens'[Len(tokens) + 1] = m
      /\ \A t \in 1..Len(tokens) : tokens'[t] = tokens[t]
  BY <1>0, <1>2, <1>3
<1>5. \A t \in 1..Len(tokens) : /\ tokens[t].issued \in Nat /\ tokens[t].issued <= clock
                                /\ tokens[t].ver = 2 => version = 2
  BY <1>0, TokenFields DEF UserOK
<1>6. ASSUME NEW t \in 1..Len(tokens')
      PROVE  /\ tokens'[t].issued <= clock /\ (tokens'[t].ver = 2 => version = 2)
             /\ tokens'[t].issued \in Nat
  <2>1. t \in 1..Len(tokens) \/ t = Len(tokens) + 1
    BY <1>0, <1>4
  <2> QED BY <1>1, <1>2, <1>4, <1>5, <2>1
<1>7. known' \subseteq 1..Len(tokens')
  BY <1>0, <1>4
<1> QED BY <1>0, <1>4, <1>5, <1>6, <1>7

\* startTokenFamily.
LEMMA StartKeeps == ASSUME FamilyInv, NEW r \in Requesters, Start(r) PROVE FamilyInv'
<1> DEFINE q == req[r]
           f == FirstFamily(1)
<1>0. /\ TokenTypes /\ CacheOK /\ UserOK /\ OneLogin /\ (overdue \/ Chain)
      /\ clock \in Nat \ {0} /\ RefreshTTL \in Nat /\ q \in AnyRequest
  BY TokenFamilyAssumption DEF FamilyInv, TokenTypes
<1>1. /\ q.pc = "script" /\ q.token = 0 /\ family' = f /\ Mint(q) /\ Answers(r, q, 1)
      /\ UNCHANGED <<cache, version, changed, known, code, ended, clock>>
  BY DEF Start, userVars
<1>2. ~code /\ Len(tokens) = 0 /\ family.until = 0 /\ LogsIn(q)
  BY <1>0, <1>1 DEF OneLogin, LogsIn
<1>3. /\ f \in Families /\ f.current = 1 /\ f.previous = 0 /\ f.until = clock + RefreshTTL
      /\ f.revoked = FALSE
  BY <1>0 DEF FirstFamily, Families
<1> HIDE DEF f
<1>4. /\ tokens' \in Seq(Minted) /\ Len(tokens') = Len(tokens) + 1 /\ Len(tokens) \in Nat
      /\ \A t \in 1..Len(tokens) : tokens'[t] = tokens[t]
      /\ \A t \in 1..Len(tokens') : tokens'[t].issued <= clock /\ (tokens'[t].ver = 2 => version = 2)
                                    /\ tokens'[t].issued \in Nat
      /\ known' \subseteq 1..Len(tokens')
  BY <1>1, MintKeeps
<1>5. /\ req' \in [Requesters -> AnyRequest]
      /\ \A s \in Requesters : RequestOK(req[s])'
      /\ \A s \in Requesters : LogsIn(req'[s]) => s # r /\ req'[s] = req[s]
      /\ lastOld' \in Nat /\ (changed = 0 => lastOld' = 0) /\ PasswordEnds'
      /\ overdue' \in BOOLEAN /\ gave' \subseteq Nat \X Nat
  BY <1>1, <1>2, <1>4, AnswersKeep
<1>6. TokenTypes'
  BY <1>0, <1>1, <1>3, <1>4, <1>5 DEF TokenTypes
<1>7. CacheOK' /\ UserOK'
  BY <1>0, <1>1, <1>4, <1>5 DEF CacheOK, UserOK
<1>8. OneLogin'
  <2>1. \A s \in Requesters : ~LogsIn(req'[s])
    BY <1>0, <1>2, <1>5 DEF OneLogin
  <2> QED BY <1>1, <1>2, <1>3, <1>4, <2>1 DEF OneLogin
<1>9. (overdue \/ Chain)'
  <2> SUFFICES ASSUME ~overdue' PROVE Chain'
    OBVIOUS
  <2>1. gave' = gave \cup {<<q.token, 1>>} /\ ~overdue
    BY <1>1 DEF Answers
  <2>2. Chain
    BY <1>0, <2>1
  <2>3. gave = {} /\ ended = 0
    BY <1>2, <2>2 DEF Chain
  <2>4. family'.until # 0 /\ family'.current = Len(tokens') /\ family'.previous = 0
        /\ family'.until = clock + RefreshTTL
    BY <1>0, <1>1, <1>2, <1>3, <1>4
  <2>5. \A p \in gave' : p[2] = p[1] + 1
    BY <1>1, <2>1, <2>3
  <2>6. \A t \in 1..Len(tokens') : tokens'[t].issued + RefreshTTL <= family'.until
    BY <1>0, <1>4, <2>4
  <2>7. OneSuccessor' /\ ReplayEnds'
    BY <1>1, <2>3, <2>5 DEF OneSuccessor, ReplayEnds
  <2> QED BY <1>0, <1>1, <2>3, <2>4, <2>6, <2>7 DEF Chain
<1> QED BY <1>5, <1>6, <1>7, <1>8, <1>9 DEF FamilyInv

\* The key as the script finds it: the one that is kept, or, unless the token
\* has expired since it was verified, the first one.
LEMMA FamilyFound ==
    ASSUME FamilyInv, NEW r \in Requesters, req[r].pc = "script", req[r].token > 0
    PROVE  LET t == req[r].token
               f == FamilyFor(t) IN
           /\ t \in 1..Len(tokens) /\ f \in Families
           /\ \/ f = family /\ family.until # 0
              \/ /\ f.current = t /\ f.previous = 0 /\ f.revoked = FALSE
                 /\ \/ family.until = 0
                    \/ overdue \/ Expired(t)
<1> DEFINE t == req[r].token
           g == FirstFamily(t)
<1>0. /\ TokenTypes /\ req[r] \in AnyRequest /\ RequestOK(req[r]) /\ (overdue \/ Chain)
      /\ clock \in Nat \ {0} /\ RefreshTTL \in Nat /\ family \in Families /\ Len(tokens) \in Nat
  BY TokenFamilyAssumption DEF FamilyInv, TokenTypes
<1>1. t \in 1..Len(tokens)
  BY <1>0, RequestFields DEF RequestOK
<1>2. family.until \in Nat
  BY <1>0 DEF Families
<1>3. CASE clock < family.until
  <2>1. FamilyFor(t) = family /\ family.until # 0
    BY <1>0, <1>2, <1>3 DEF FamilyFor
  <2> QED BY <1>0, <1>1, <2>1
<1>4. CASE ~(clock < family.until)
  <2>1. FamilyFor(t) = g
    BY <1>4 DEF FamilyFor
  <2>2. g \in Families /\ g.current = t /\ g.previous = 0 /\ g.revoked = FALSE
    BY <1>0, <1>1 DEF FirstFamily, Families
  <2>3. family.until = 0 \/ overdue \/ Expired(t)
    <3> SUFFICES ASSUME family.until # 0, ~overdue PROVE Expired(t)
      OBVIOUS
    <3>1. tokens[t].issued + RefreshTTL <= family.until /\ tokens[t].issued \in Nat
      BY <1>0, <1>1, TokenFields DEF Chain
    <3> QED BY <1>0, <1>2, <1>4, <3>1 DEF Expired
  <2> HIDE DEF g
  <2> QED BY <1>1, <2>1, <2>2, <2>3
<1> QED BY <1>3, <1>4

\* The current token is rotated.
LEMMA RotateKeeps == ASSUME FamilyInv, NEW r \in Requesters, Rotate(r) PROVE FamilyInv'
<1> DEFINE q == req[r]
           f == FamilyFor(q.token)
           n == Len(tokens) + 1
           u == clock + RefreshTTL
           h == [f EXCEPT !.previous = q.token, !.current = n, !.rotated = q.at, !.until = u]
<1>0. /\ TokenTypes /\ CacheOK /\ UserOK /\ OneLogin /\ (overdue \/ Chain)
      /\ clock \in Nat \ {0} /\ RefreshTTL \in Nat /\ q \in AnyRequest /\ Len(tokens) \in Nat
  BY TokenFamilyAssumption DEF FamilyInv, TokenTypes
<1>1. /\ q.pc = "script" /\ q.token > 0 /\ ~f.revoked /\ f.current = q.token
      /\ family' = h /\ Mint(q) /\ Answers(r, q, n)
      /\ UNCHANGED <<cache, version, changed, known, code, ended, clock>>
  BY DEF Rotate, userVars
<1>2. /\ q.token \in 1..Len(tokens) /\ f \in Families
      /\ \/ f = family /\ family.until # 0
         \/ /\ f.current = q.token /\ f.previous = 0 /\ f.revoked = FALSE
            /\ \/ family.until = 0
               \/ overdue \/ Expired(q.token)
  BY <1>1, FamilyFound
<1>3. q.at \in Nat
  BY <1>0, <1>1, RequestFields
<1> HIDE DEF f
<1>4. /\ h \in Families /\ h.current = n /\ h.previous = q.token /\ h.until = clock + RefreshTTL
      /\ h.revoked = f.revoked
  <2> DEFINE p == q.token
             a == q.at
  <2>1. p \in Nat /\ n \in Nat /\ a \in Nat /\ u \in Nat /\ f \in Families
    BY <1>0, <1>2, <1>3
  <2> HIDE DEF p, n, a, u
  <2>2. LET k == [f EXCEPT !.previous = p, !.current = n, !.rotated = a, !.until = u] IN
        /\ k \in Families /\ k.current = n /\ k.previous = p /\ k.until = u
        /\ k.revoked = f.revoked
    BY <2>1 DEF Families
  <2> QED BY <2>2 DEF p, a, u
<1> HIDE DEF h
<1>5. /\ tokens' \in Seq(Minted) /\ Len(tokens') = n
      /\ \A t \in 1..Len(tokens) : tokens'[t] = tokens[t]
      /\ \A t \in 1..Len(tokens') : tokens'[t].issued <= clock /\ (tokens'[t].ver = 2 => version = 2)
                                    /\ tokens'[t].issued \in Nat
      /\ known' \subseteq 1..Len(tokens')
  BY <1>1, MintKeeps
<1>6. /\ req' \in [Requesters -> AnyRequest]
      /\ \A s \in Requesters : RequestOK(req[s])'
      /\ \A s \in Requesters : LogsIn(req'[s]) => s # r /\ req'[s] = req[s]
      /\ lastOld' \in Nat /\ (changed = 0 => lastOld' = 0) /\ PasswordEnds'
      /\ overdue' \in BOOLEAN /\ gave' \subseteq Nat \X Nat
  <2>1. n \in Nat \ {0} /\ Len(tokens) <= Len(tokens') /\ n <= Len(tokens') /\ Len(tokens') \in Nat
    BY <1>0, <1>5
  <2> HIDE DEF n
  <2> QED BY <1>1, <1>5, <2>1, AnswersKeep
<1>7. TokenTypes'
  BY <1>0, <1>1, <1>4, <1>5, <1>6 DEF TokenTypes
<1>8. CacheOK' /\ UserOK'
  BY <1>0, <1>1, <1>5, <1>6 DEF CacheOK, UserOK
<1>9. OneLogin'
  <2>1. ~code /\ \A s \in Requesters : ~LogsIn(req'[s])
    BY <1>0, <1>2, <1>6 DEF OneLogin
  <2> QED BY <1>0, <1>1, <1>4, <1>5, <2>1 DEF OneLogin
<1>10. (overdue \/ Chain)'
  <2> SUFFICES ASSUME ~overdue' PROVE Chain'
    OBVIOUS
  <2>1. gave' = gave \cup {<<q.token, n>>} /\ ~overdue /\ ~Expired(q.token)
    BY <1>1 DEF Answers
  <2>2. Chain
    BY <1>0, <2>1
  <2>3. q.token = Len(tokens) /\ ended = 0
    <3>1. CASE f = family /\ family.until # 0
      BY <1>1, <2>2, <3>1 DEF Chain
    <3>2. CASE family.until = 0
      BY <1>0, <1>2, <2>2, <3>2 DEF Chain
    <3> QED BY <1>2, <2>1, <3>1, <3>2
  <2>4. /\ family'.until # 0 /\ family'.current = Len(tokens') /\ family'.current = family'.previous + 1
        /\ family'.until = clock + RefreshTTL
    BY <1>0, <1>1, <1>4, <1>5, <2>3
  <2>5. \A p \in gave' : p[2] = p[1] + 1
    <3>1. \A p \in gave : p[2] = p[1] + 1
      BY <2>1, <2>2 DEF Chain, OneSuccessor
    <3> QED BY <2>1, <2>3, <3>1
  <2>6. \A t \in 1..Len(tokens') : tokens'[t].issued + RefreshTTL <= family'.until
    BY <1>0, <1>5, <2>4
  <2>7. OneSuccessor' /\ ReplayEnds'
    BY <1>1, <2>3, <2>5 DEF OneSuccessor, ReplayEnds
  <2> QED BY <1>0, <1>1, <2>3, <2>4, <2>6, <2>7 DEF Chain
<1> QED BY <1>6, <1>7, <1>8, <1>9, <1>10 DEF FamilyInv

\* The token before it gets its answer again.
LEMMA RetryKeeps == ASSUME FamilyInv, NEW r \in Requesters, Retry(r) PROVE FamilyInv'
<1> DEFINE q == req[r]
           f == FamilyFor(q.token)
<1>0. /\ TokenTypes /\ CacheOK /\ UserOK /\ OneLogin /\ (overdue \/ Chain) /\ Len(tokens) \in Nat
  BY DEF FamilyInv, TokenTypes
<1>1. /\ q.pc = "script" /\ q.token > 0 /\ f.previous = q.token /\ Answers(r, q, f.current)
      /\ UNCHANGED <<family, cache, version, changed, tokens, known, code, ended, clock>>
  BY DEF Retry, familyKeys, userVars
<1>2. q.token \in 1..Len(tokens) /\ f = family /\ family.until # 0
  <2>1. /\ q.token \in 1..Len(tokens)
        /\ (f = family /\ family.until # 0) \/ f.previous = 0
    BY <1>1, FamilyFound
  <2> HIDE DEF f
  <2> QED BY <1>1, <2>1
<1> HIDE DEF f
<1>3. f.current \in 1..Len(tokens)
  BY <1>0, <1>2 DEF OneLogin
<1>4. /\ req' \in [Requesters -> AnyRequest]
      /\ \A s \in Requesters : RequestOK(req[s])'
      /\ \A s \in Requesters : LogsIn(req'[s]) => s # r /\ req'[s] = req[s]
      /\ lastOld' \in Nat /\ (changed = 0 => lastOld' = 0) /\ PasswordEnds'
      /\ overdue' \in BOOLEAN /\ gave' \subseteq Nat \X Nat
  <2> DEFINE n == f.current
  <2>1. n \in Nat \ {0} /\ Len(tokens) <= Len(tokens') /\ n <= Len(tokens') /\ Len(tokens') \in Nat
        /\ \A t \in 1..Len(tokens) : tokens'[t] = tokens[t]
    BY <1>0, <1>1, <1>3
  <2>2. Answers(r, q, n) /\ UNCHANGED <<version, changed, clock>>
    BY <1>1
  <2> HIDE DEF n
  <2> QED BY <1>1, <2>1, <2>2, AnswersKeep
<1>5. TokenTypes'
  BY <1>0, <1>1, <1>4 DEF TokenTypes
<1>6. CacheOK' /\ UserOK'
  BY <1>0, <1>1, <1>4 DEF CacheOK, UserOK
<1>7. OneLogin'
  BY <1>0, <1>1, <1>4 DEF OneLogin
<1>8. (overdue \/ Chain)'
  <2> SUFFICES ASSUME ~overdue' PROVE Chain'
    OBVIOUS
  <2>1. gave' = gave \cup {<<q.token, f.current>>} /\ ~overdue
    BY <1>1 DEF Answers
  <2>2. Chain
    BY <1>0, <2>1
  <2>3. f.current = q.token + 1
    BY <1>1, <1>2, <2>2 DEF Chain
  <2>4. \A p \in gave' : p[2] = p[1] + 1
    <3>1. \A p \in gave : p[2] = p[1] + 1
      BY <2>1, <2>2 DEF Chain, OneSuccessor
    <3> QED BY <2>1, <2>3, <3>1
  <2>5. OneSuccessor' /\ ReplayEnds'
    BY <1>1, <2>1, <2>2, <2>4 DEF OneSuccessor, ReplayEnds, Chain
  <2> QED BY <1>1, <1>2, <2>2, <2>5 DEF Chain
<1> QED BY <1>4, <1>5, <1>6, <1>7, <1>8 DEF FamilyInv

\* A token is refused, and an old one revokes the family.
LEMMA RefuseKeeps == ASSUME FamilyInv, NEW r \in Requesters, Refuse(r) PROVE FamilyInv'
<1> DEFINE q == req[r]
           f == FamilyFor(q.token)
           replay == ~f.revoked /\ q.token \notin {f.current, f.previous}
           u == clock + RefreshTTL
           h == [f EXCEPT !.revoked = TRUE, !.until = u]
<1>0. /\ TokenTypes /\ CacheOK /\ UserOK /\ OneLogin /\ (overdue \/ Chain) /\ Len(tokens) \in Nat
      /\ (\A s \in Requesters : RequestOK(req[s])) /\ req \in [Requesters -> AnyRequest] /\ PasswordEnds
      /\ clock \in Nat \ {0} /\ RefreshTTL \in Nat
  BY TokenFamilyAssumption DEF FamilyInv, TokenTypes
<1>1. /\ q.pc = "script" /\ q.token > 0
      /\ f.revoked \/ f.previous = q.token \/ replay
      /\ \/ replay /\ family' = h /\ ended' = Len(tokens)
         \/ family' = f /\ ended' = ended
      /\ req' = [req EXCEPT ![r] = NoRequest]
      /\ UNCHANGED <<cache, version, changed, tokens, known, code, gave, overdue, lastOld, clock>>
  <2>1. CASE replay
    BY <2>1 DEF Refuse, Continues, userVars
  <2>2. CASE ~replay
    BY <2>2 DEF Refuse, Continues, userVars
  <2> QED BY <2>1, <2>2
<1>2. q.token \in 1..Len(tokens) /\ f = family /\ family.until # 0 /\ f \in Families
  <2>1. /\ q.token \in 1..Len(tokens) /\ f \in Families
        /\ \/ f = family /\ family.until # 0
           \/ f.current = q.token /\ f.previous = 0 /\ f.revoked = FALSE
    BY <1>1, FamilyFound
  <2> HIDE DEF f
  <2> QED BY <1>1, <2>1
<1> HIDE DEF f
<1>3. h \in Families /\ h.current = f.current /\ h.previous = f.previous
      /\ h.until = clock + RefreshTTL /\ h.revoked = TRUE
  <2>1. u \in Nat /\ f \in Families
    BY <1>0, <1>2
  <2> HIDE DEF u
  <2>2. /\ h \in Families /\ h.current = f.current /\ h.previous = f.previous
        /\ h.until = u /\ h.revoked = TRUE
    BY <2>1 DEF Families
  <2> QED BY <2>2 DEF u
<1> HIDE DEF h
<1>4. NoRequest \in AnyRequest /\ RequestOK(NoRequest)' /\ ~LogsIn(NoRequest)
  BY DEF AnyRequest, RequestOK, LogsIn, NoRequest
<1>5. /\ req'[r] = NoRequest /\ \A s \in Requesters : s # r => req'[s] = req[s]
      /\ req' \in [Requesters -> AnyRequest]
  BY <1>0, <1>1, <1>4
<1>6. TokenTypes'
  BY <1>0, <1>1, <1>2, <1>3, <1>5 DEF TokenTypes
<1>7. \A s \in Requesters : RequestOK(req[s])'
  BY <1>0, <1>1, <1>4, <1>5 DEF RequestOK, Older
<1>8. CacheOK' /\ UserOK' /\ PasswordEnds'
  BY <1>0, <1>1 DEF CacheOK, UserOK, PasswordEnds
<1>9. OneLogin'
  <2>1. ~code /\ \A s \in Requesters : ~LogsIn(req'[s])
    BY <1>0, <1>2, <1>4, <1>5 DEF OneLogin
  <2>2. family'.current \in 1..Len(tokens)
    BY <1>0, <1>1, <1>2, <1>3 DEF OneLogin
  <2> QED BY <1>1, <2>1, <2>2 DEF OneLogin
<1>10. (overdue \/ Chain)'
  <2> SUFFICES ASSUME ~overdue PROVE Chain'
    BY <1>1
  <2>1. Chain
    BY <1>0
  <2>2. CASE family' = f /\ ended' = ended
    BY <1>1, <1>2, <2>1, <2>2 DEF Chain, OneSuccessor, ReplayEnds
  <2>3. CASE replay /\ family' = h /\ ended' = Len(tokens)
    <3>1. \A t \in 1..Len(tokens) : tokens[t].issued \in Nat /\ tokens[t].issued + RefreshTTL <= family'.until
      <4>1. \A t \in 1..Len(tokens) : tokens[t].issued \in Nat /\ tokens[t].issued <= clock
        BY <1>0, TokenFields DEF UserOK
      <4> QED BY <1>0, <1>3, <2>3, <4>1
    <3>2. family'.until # 0
      BY <1>0, <1>3, <2>3
    <3>3. OneSuccessor' /\ ReplayEnds'
      BY <1>1, <2>1, <2>3 DEF Chain, OneSuccessor, ReplayEnds
    <3> QED BY <1>0, <1>1, <1>2, <1>3, <2>1, <2>3, <3>1, <3>2, <3>3 DEF Chain
  <2> QED BY <1>1, <2>2, <2>3
<1> QED BY <1>6, <1>7, <1>8, <1>9, <1>10 DEF FamilyInv

\* The password changes, the cache is cleared, and time goes by.
LEMMA FamilyRestKeeps ==
    ASSUME FamilyInv, ChangePassword \/ ClearCache \/ FamilyTick \/ UNCHANGED familyVars
    PROVE  FamilyInv'
<1>0. /\ TokenTypes /\ CacheOK /\ UserOK /\ OneLogin /\ (overdue \/ Chain) /\ Len(tokens) \in Nat
      /\ (\A s \in Requesters : RequestOK(req[s])) /\ req \in [Requesters -> AnyRequest] /\ PasswordEnds
      /\ clock \in Nat \ {0} /\ changed \in Nat /\ version \in {1, 2} /\ lastOld \in Nat
      /\ CacheTTL \in Nat \ {0} /\ RequestTime \in Nat /\ RefreshTTL \in Nat
      /\ cache \in {NoCache} \cup [ver : {1, 2}, changed : Nat, until : Nat]
      /\ family.until \in Nat
  BY TokenFamilyAssumption, SMTT(30) DEF FamilyInv, TokenTypes, Families
<1>1. cache.until \in Nat
  BY <1>0 DEF NoCache
<1>2. \A s \in Requesters : req[s] \in AnyRequest
  BY <1>0
<1>3. \A t \in 1..Len(tokens) : tokens[t].issued \in Nat
  BY <1>0, TokenFields
<1>4. CASE ChangePassword
  <2>1. /\ version = 1 /\ version' = 2 /\ changed' = clock /\ changed = 0 /\ lastOld = 0
        /\ UNCHANGED <<family, cache, gave, ended, overdue, lastOld, tokens, known, code, req, clock>>
    BY <1>0, <1>4 DEF ChangePassword, familyKeys, answerVars, UserOK
  <2>2. TokenTypes'
    BY <1>0, <2>1 DEF TokenTypes
  <2>3. ASSUME NEW s \in Requesters PROVE RequestOK(req[s])'
    <3>1. RequestOK(req[s]) /\ req[s] \in AnyRequest
      BY <1>0
    <3>2. /\ req[s].pc # "idle" => req[s].token \in Nat /\ req[s].since \in Nat
          /\ req[s].pc = "fill" => req[s].state \in SecurityStates
          /\ req[s].pc = "script" => req[s].ver \in {1, 2}
      BY <3>1, RequestFields
    <3> QED BY <1>0, <2>1, <3>1, <3>2 DEF RequestOK
  <2>4. CacheOK'
    BY <1>0, <1>1, <2>1 DEF CacheOK
  <2>5. UserOK' /\ PasswordEnds'
    BY <1>0, <2>1 DEF UserOK, PasswordEnds
  <2>6. OneLogin' /\ (overdue \/ Chain)'
    BY <1>0, <2>1 DEF OneLogin, Chain, OneSuccessor, ReplayEnds
  <2> QED BY <2>2, <2>3, <2>4, <2>5, <2>6 DEF FamilyInv
<1>5. CASE ClearCache \/ UNCHANGED familyVars
  <2>1. /\ UNCHANGED <<family, version, changed, gave, ended, overdue, lastOld, tokens, known, code, req, clock>>
        /\ cache' = NoCache \/ cache' = cache
    BY <1>5 DEF ClearCache, familyVars, familyKeys, userVars, answerVars
  <2>2. TokenTypes'
    BY <1>0, <2>1 DEF TokenTypes
  <2>3. \A s \in Requesters : RequestOK(req[s])'
    BY <1>0, <2>1 DEF RequestOK, Older
  <2>4. CacheOK'
    BY <1>0, <2>1 DEF CacheOK, NoCache
  <2>5. UserOK' /\ PasswordEnds'
    BY <1>0, <2>1 DEF UserOK, PasswordEnds
  <2>6. OneLogin' /\ (overdue \/ Chain)'
    BY <1>0, <2>1 DEF OneLogin, Chain, OneSuccessor, ReplayEnds
  <2> QED BY <2>2, <2>3, <2>4, <2>5, <2>6 DEF FamilyInv
<1>6. CASE FamilyTick
  <2>1. /\ clock' = clock + 1
        /\ \A s \in Requesters : req[s] # NoRequest => clock < req[s].since + RequestTime
        /\ cache' = NoCache \/ cache' = cache
        /\ UNCHANGED <<family, version, changed, gave, ended, overdue, lastOld, tokens, known, code, req>>
    BY <1>6 DEF FamilyTick, userVars, answerVars
  <2>2. TokenTypes'
    BY <1>0, <2>1 DEF TokenTypes
  <2>3. ASSUME NEW s \in Requesters PROVE RequestOK(req[s])'
    <3>1. RequestOK(req[s]) /\ req[s] \in AnyRequest
      BY <1>0
    <3>2. /\ req[s].pc # "idle" => req[s].since \in Nat /\ req[s] # NoRequest
          /\ req[s].pc = "script" => req[s].at \in Nat
      BY <3>1, RequestFields
    <3>3. Older(req[s].token)' = Older(req[s].token)
      BY <2>1 DEF Older
    <3> QED BY <1>0, <2>1, <3>1, <3>2, <3>3 DEF RequestOK
  <2>4. CacheOK'
    BY <1>0, <1>1, <2>1 DEF CacheOK, NoCache
  <2>5. UserOK' /\ PasswordEnds'
    <3>1. \A t \in 1..Len(tokens) : tokens[t].issued <= clock + 1
      BY <1>0, <1>3 DEF UserOK
    <3>2. changed <= clock + 1
      BY <1>0 DEF UserOK
    <3> QED BY <1>0, <2>1, <3>1, <3>2 DEF UserOK, PasswordEnds
  <2>6. OneLogin'
    BY <1>0, <2>1 DEF OneLogin
  <2>7. (overdue \/ Chain)'
    <3> SUFFICES ASSUME ~overdue PROVE Chain'
      BY <2>1
    <3>1. Chain /\ OneSuccessor' /\ ReplayEnds'
      BY <1>0, <2>1 DEF Chain, OneSuccessor, ReplayEnds
    <3>2. family.until # 0 => family.until <= clock + RefreshTTL
      BY <3>1 DEF Chain
    <3>3. family.until # 0 => family.until <= clock' + RefreshTTL
      BY <1>0, <2>1, <3>2
    <3> QED BY <2>1, <3>1, <3>3 DEF Chain
  <2> QED BY <2>2, <2>3, <2>4, <2>5, <2>6, <2>7 DEF FamilyInv
<1> QED BY <1>4, <1>5, <1>6

\* The key outlives the tokens and names the last of them, the code is redeemed
\* once, and what requests and the cache know of a password is as old as a
\* request and a cached state at most.
THEOREM FamilyInvariant == FamilySpec => []FamilyInv
<1>1. FamilyInit => FamilyInv
  <2> SUFFICES ASSUME FamilyInit PROVE FamilyInv
    OBVIOUS
  <2>0. CacheTTL \in Nat \ {0} /\ RequestTime \in Nat
    BY TokenFamilyAssumption
  <2> DEFINE m == [issued |-> 1, ver |-> 0]
  <2>1. m \in Minted /\ m.issued = 1 /\ m.ver = 0
    BY DEF Minted
  <2>2. (tokens = <<>> /\ known = {} /\ code = TRUE) \/ (tokens = <<m>> /\ known = {1} /\ code = FALSE)
    BY DEF FamilyInit
  <2> HIDE DEF m
  <2>3. /\ tokens \in Seq(Minted) /\ Len(tokens) <= 1 /\ known \subseteq 1..Len(tokens) /\ code \in BOOLEAN
        /\ (code => Len(tokens) = 0)
        /\ \A t \in 1..Len(tokens) : tokens[t].issued <= 1 /\ tokens[t].ver # 2
    <3>1. CASE tokens = <<>> /\ known = {} /\ code = TRUE
      BY <3>1
    <3>2. CASE tokens = <<m>> /\ known = {1} /\ code = FALSE
      <4>1. tokens \in Seq(Minted) /\ Len(tokens) = 1 /\ tokens[1] = m
        BY <2>1, <3>2
      <4>2. \A t \in 1..Len(tokens) : t = 1
        BY <4>1
      <4>3. \A t \in 1..Len(tokens) : tokens[t].issued <= 1 /\ tokens[t].ver # 2
        BY <2>1, <4>1, <4>2
      <4>4. known \subseteq 1..Len(tokens) /\ code = FALSE
        BY <3>2, <4>1
      <4>5. code \in BOOLEAN /\ (code => Len(tokens) = 0)
        BY <4>4, Zenon
      <4>6. Len(tokens) <= 1
        BY <4>1
      <4> QED BY <4>1, <4>3, <4>4, <4>5, <4>6, Zenon
    <3> QED BY <2>2, <3>1, <3>2
  <2>4. /\ family \in Families /\ family.until = 0 /\ family.revoked = FALSE /\ cache = NoCache /\ version = 1 /\ changed = 0
        /\ gave = {} /\ ended = 0 /\ overdue = FALSE /\ lastOld = 0 /\ clock = 1
        /\ req \in [Requesters -> AnyRequest] /\ \A r \in Requesters : req[r] = NoRequest
    <3>1. family \in Families /\ family.until = 0 /\ family.revoked = FALSE
      BY DEF FamilyInit, NoFamily, Families
    <3>2. NoRequest \in AnyRequest
      BY DEF AnyRequest
    <3>3. req \in [Requesters -> AnyRequest] /\ \A r \in Requesters : req[r] = NoRequest
      BY <3>2 DEF FamilyInit
    <3> QED BY <3>1, <3>3 DEF FamilyInit
  <2>5. TokenTypes
    <3>1. version \in {1, 2} /\ clock \in Nat \ {0} /\ gave \subseteq Nat \X Nat /\ overdue \in BOOLEAN
      <4>1. version \in {1, 2} /\ clock \in Nat \ {0}
        BY <2>4
      <4>2. gave \subseteq Nat \X Nat /\ overdue \in BOOLEAN
        BY <2>4, Zenon
      <4> QED BY <4>1, <4>2
    <3> QED BY <2>3, <2>4, <3>1 DEF TokenTypes
  <2>6. \A r \in Requesters : RequestOK(req[r]) /\ ~LogsIn(req[r])
    <3>0. NoRequest.pc = "idle"
      BY DEF NoRequest
    <3>1. \A r \in Requesters : req[r].pc = "idle"
      BY <2>4, <3>0, Zenon
    <3>2. \A r \in Requesters : RequestOK(req[r])
      BY <3>1 DEF RequestOK, Older
    <3>3. \A r \in Requesters : ~LogsIn(req[r])
      BY <3>1 DEF LogsIn
    <3> QED BY <3>2, <3>3, Zenon
  <2>7. CacheOK /\ UserOK /\ PasswordEnds
    BY <2>0, <2>3, <2>4 DEF CacheOK, NoCache, UserOK, PasswordEnds
  <2>8. OneLogin /\ Chain
    BY <2>3, <2>4, <2>6 DEF OneLogin, Chain, OneSuccessor, ReplayEnds
  <2> QED BY <2>5, <2>6, <2>7, <2>8 DEF FamilyInv
<1>2. FamilyInv /\ [FamilyNext]_familyVars => FamilyInv'
  BY RequestsKeep, StartKeeps, RotateKeeps, RetryKeeps, RefuseKeeps, FamilyRestKeeps DEF FamilyNext
<1> QED BY <1>1, <1>2, PTL DEF FamilySpec

\* A token has one successor, however requests, lost answers and the life of
\* the key interleave.
THEOREM OneSuccessorHolds == FamilySpec => []OneSuccessor
<1>1. FamilyInv => OneSuccessor
  BY DEF FamilyInv, Chain, OneSuccessor
<1> QED BY <1>1, FamilyInvariant, PTL

\* A family in which a replay was seen mints nothing more.
THEOREM ReplayEndsHolds == FamilySpec => []ReplayEnds
<1>1. FamilyInv => ReplayEnds
  BY DEF FamilyInv, Chain, ReplayEnds
<1> QED BY <1>1, FamilyInvariant, PTL

\* A token that is older than the password is rotated for no longer than a
\* cached state and two requests last.
THEOREM PasswordEndsHolds == FamilySpec => []PasswordEnds
BY FamilyInvariant, PTL DEF FamilyInv
=============================================================================
