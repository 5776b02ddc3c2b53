----------------------- MODULE CapabilityLeaseProofs -----------------------
(***************************************************************************)
(* The store of capability leases implements OneShot, for any identifiers, *)
(* clients, lifetimes and bounds.                                          *)
(***************************************************************************)
EXTENDS CapabilityLease, TLAPS

\* An active file is the last one that was written for its identifier.
LastIsActive ==
    \A l \in Leases : active[l] = NoFile \/ (issues[l] > 0 /\ active[l].no = issues[l])

\* Those who hold a file have a record to write.
HoldersRecord ==
    \A c \in Clients :
        held[c] # <<>> <=> (job[c].pc = "record" /\ job[c].as = "consumed")

\* A file that was taken was written, is no longer active and has one holder.
HeldOnce ==
    \A c \in Clients : held[c] # <<>> =>
        /\ held[c][2] <= issues[held[c][1]]
        /\ active[held[c][1]].no # held[c][2]
        /\ \A d \in Clients : held[d] = held[c] => d = c

\* The same for a file whose use was allowed, and nobody holds it any more.
AllowedOnce ==
    \A l \in Leases, n \in 1..MaxIssues, c \in Clients : <<l, n, c>> \in allowed =>
        /\ n <= issues[l]
        /\ active[l].no # n
        /\ \A d \in Clients : held[d] # <<l, n>>
        /\ \A d \in Clients : <<l, n, d>> \in allowed => d = c

CapabilityInv ==
    /\ CapabilityTypeOK
    /\ LastIsActive
    /\ HoldersRecord
    /\ HeldOnce
    /\ AllowedOnce

-----------------------------------------------------------------------------
(* The inductive invariant.                                                 *)

LEMMA InvInit == CapabilityInit => CapabilityInv
BY CapabilityAssumption DEF CapabilityInit, CapabilityInv, CapabilityTypeOK, LastIsActive,
   HoldersRecord, HeldOnce, AllowedOnce, NoFile, NoJob, Jobs, Tokens

\* The calls that read and decide only: files, holders and permissions stay.
LEMMA InvCalls ==
    ASSUME CapabilityInv, NEW c \in Clients, Free(c), NEW j \in Jobs,
           j.pc \in {"write", "claim"}, Turns(c, j),
           UNCHANGED <<active, issues, held, allowed, leaseTime>>
    PROVE  CapabilityInv'
<1>1. CapabilityTypeOK'
    BY DEF CapabilityInv, CapabilityTypeOK, Turns
<1>2. HoldersRecord'
    BY DEF CapabilityInv, CapabilityTypeOK, HoldersRecord, Turns, Free, Jobs, NoJob
<1>3. LastIsActive' /\ HeldOnce' /\ AllowedOnce'
    BY DEF CapabilityInv, LastIsActive, HeldOnce, AllowedOnce
<1> QED BY <1>1, <1>2, <1>3 DEF CapabilityInv

LEMMA InvIssue ==
    ASSUME CapabilityInv, NEW c \in Clients, NEW l \in Leases, NEW ttl \in Ttl, Issue(c, l, ttl)
    PROVE  CapabilityInv'
<1> DEFINE j == [pc |-> "write", lease |-> l, exp |-> leaseTime + ttl]
<1>1. leaseTime + ttl \in Nat
    BY CapabilityAssumption DEF CapabilityInv, CapabilityTypeOK
<1>2. j \in Jobs
    BY <1>1 DEF Jobs
<1> QED BY <1>2, InvCalls DEF Issue

LEMMA InvDelegate ==
    ASSUME CapabilityInv, NEW c \in Clients, NEW p \in Leases, NEW l \in Leases, NEW ttl \in Ttl,
           Delegate(c, p, l, ttl)
    PROVE  CapabilityInv'
<1> DEFINE exp == Min2(leaseTime + ttl, active[p].exp)
           j == [pc |-> "write", lease |-> l, exp |-> exp]
<1>1. exp \in Nat
    BY CapabilityAssumption DEF CapabilityInv, CapabilityTypeOK, Min2
<1> HIDE DEF exp
<1>2. j \in Jobs
    BY <1>1 DEF Jobs
<1>3. Free(c) /\ Turns(c, j) /\ UNCHANGED <<active, issues, held, allowed, leaseTime>>
    BY DEF Delegate, exp
<1> QED BY <1>2, <1>3, InvCalls

LEMMA InvLoad ==
    ASSUME CapabilityInv, NEW c \in Clients, NEW l \in Leases, NEW op \in Uses, Load(c, l, op)
    PROVE  CapabilityInv'
<1> DEFINE as == IF leaseTime >= active[l].exp /\ op # "revoked" THEN "expired" ELSE op
           j == [pc |-> "claim", lease |-> l, op |-> op, as |-> as]
<1>1. as \in Endings /\ (op = "delegated" => as = "expired")
    BY DEF Uses, Endings, Load
<1> HIDE DEF as
<1>2. j \in Jobs
    BY <1>1 DEF Jobs
<1>3. Free(c) /\ Turns(c, j) /\ UNCHANGED <<active, issues, held, allowed, leaseTime>>
    BY DEF Load, as
<1> QED BY <1>2, <1>3, InvCalls

LEMMA InvWrite ==
    ASSUME CapabilityInv, NEW c \in Clients, Write(c)
    PROVE  CapabilityInv'
<1> DEFINE l == job[c].lease
           n == issues[l] + 1
<1>0. job[c] \in Jobs /\ job[c].pc = "write"
    BY DEF CapabilityInv, CapabilityTypeOK, Write
<1>1. /\ l \in Leases /\ job[c].exp \in Nat
      /\ n \in Nat
      /\ held[c] = <<>>
    <2>1. l \in Leases /\ job[c].exp \in Nat
        BY <1>0 DEF Jobs, NoJob
    <2> QED BY <1>0, <2>1, CapabilityAssumption DEF CapabilityInv, CapabilityTypeOK, HoldersRecord
<1>2. CASE active[l] # NoFile
    <2>1. Turns(c, NoJob) /\ UNCHANGED <<active, issues, held, allowed, leaseTime>>
        BY <1>2 DEF Write
    <2> QED BY <1>1, <2>1 DEF CapabilityInv, CapabilityTypeOK, LastIsActive, HoldersRecord,
           HeldOnce, AllowedOnce, Turns, Jobs, NoJob
<1>3. CASE active[l] = NoFile
    <2>1. /\ n <= MaxIssues
          /\ active' = [active EXCEPT ![l] = [no |-> n, exp |-> job[c].exp]]
          /\ issues' = [issues EXCEPT ![l] = n]
          /\ Turns(c, [pc |-> "written", lease |-> l])
          /\ UNCHANGED <<held, allowed, leaseTime>>
        BY <1>3 DEF Write
    <2> HIDE DEF l
    <2>2. CapabilityTypeOK'
        BY <1>1, <2>1, CapabilityAssumption DEF CapabilityInv, CapabilityTypeOK, Turns, Jobs
    <2>3. LastIsActive'
        BY <1>1, <2>1 DEF CapabilityInv, CapabilityTypeOK, LastIsActive
    <2>4. HoldersRecord'
        BY <1>1, <2>1 DEF CapabilityInv, CapabilityTypeOK, HoldersRecord, Turns
    <2>5. HeldOnce'
        BY <1>1, <2>1 DEF CapabilityInv, CapabilityTypeOK, HeldOnce, Tokens
    <2>6. AllowedOnce'
        BY <1>1, <2>1 DEF CapabilityInv, CapabilityTypeOK, AllowedOnce
    <2> QED BY <2>2, <2>3, <2>4, <2>5, <2>6 DEF CapabilityInv
<1> QED BY <1>2, <1>3

\* The file of an identifier goes away and the client is done.
LEMMA InvRemove ==
    ASSUME CapabilityInv, NEW c \in Clients, NEW l \in Leases, held[c] = <<>>,
           active' = [active EXCEPT ![l] = NoFile], NEW j \in Jobs, Turns(c, j),
           j.pc = "record" => j.as # "consumed",
           UNCHANGED <<issues, held, allowed, leaseTime>>
    PROVE  CapabilityInv'
<1>1. CapabilityTypeOK'
    BY DEF CapabilityInv, CapabilityTypeOK, Turns, NoFile
<1>2. LastIsActive'
    BY DEF CapabilityInv, CapabilityTypeOK, LastIsActive
<1>3. HoldersRecord'
    BY DEF CapabilityInv, CapabilityTypeOK, HoldersRecord, Turns
<1>4. HeldOnce'
    BY DEF CapabilityInv, CapabilityTypeOK, HeldOnce, Tokens, NoFile
<1>5. AllowedOnce'
    BY DEF CapabilityInv, CapabilityTypeOK, AllowedOnce, NoFile
<1> QED BY <1>1, <1>2, <1>3, <1>4, <1>5 DEF CapabilityInv

\* A client leaves without a change to the files.
LEMMA InvLeave ==
    ASSUME CapabilityInv, NEW c \in Clients, Turns(c, NoJob),
           held' = [held EXCEPT ![c] = <<>>],
           UNCHANGED <<active, issues, allowed, leaseTime>>
    PROVE  CapabilityInv'
<1>1. CapabilityTypeOK'
    BY DEF CapabilityInv, CapabilityTypeOK, Turns, Jobs
<1>2. LastIsActive'
    BY DEF CapabilityInv, LastIsActive
<1>3. HoldersRecord'
    BY DEF CapabilityInv, CapabilityTypeOK, HoldersRecord, Turns, NoJob
<1>4. HeldOnce'
    BY DEF CapabilityInv, CapabilityTypeOK, HeldOnce
<1>5. AllowedOnce'
    BY DEF CapabilityInv, CapabilityTypeOK, AllowedOnce
<1> QED BY <1>1, <1>2, <1>3, <1>4, <1>5 DEF CapabilityInv

LEMMA InvWritten ==
    ASSUME CapabilityInv, NEW c \in Clients, NEW ok \in BOOLEAN, Written(c, ok)
    PROVE  CapabilityInv'
<1>1. job[c] \in Jobs /\ job[c].pc = "written"
    BY DEF CapabilityInv, CapabilityTypeOK, Written
<1>2. job[c].lease \in Leases
    BY <1>1 DEF Jobs, NoJob
<1>3. held[c] = <<>> /\ held = [held EXCEPT ![c] = <<>>]
    BY <1>1 DEF CapabilityInv, CapabilityTypeOK, HoldersRecord
<1>4. NoJob \in Jobs /\ NoJob.pc # "record"
    BY DEF Jobs, NoJob
<1>5. CASE ok
    BY <1>3, <1>5, InvLeave DEF Written
<1>6. CASE ~ok
    BY <1>2, <1>3, <1>4, <1>6, InvRemove DEF Written
<1> QED BY <1>5, <1>6

\* A client takes a file to use it.
LEMMA InvTake ==
    ASSUME CapabilityInv, NEW c \in Clients, NEW l \in Leases, held[c] = <<>>,
           active[l] # NoFile,
           active' = [active EXCEPT ![l] = NoFile],
           held' = [held EXCEPT ![c] = <<l, active[l].no>>],
           Turns(c, [pc |-> "record", lease |-> l, as |-> "consumed"]),
           UNCHANGED <<issues, allowed, leaseTime>>
    PROVE  CapabilityInv'
<1> DEFINE n == active[l].no
<1>1. n = issues[l] /\ n \in 1..MaxIssues /\ <<l, n>> \in Tokens
    BY CapabilityAssumption DEF CapabilityInv, CapabilityTypeOK, LastIsActive, Tokens
<1>2. [pc |-> "record", lease |-> l, as |-> "consumed"] \in Jobs
    BY DEF Jobs, Endings, Uses
<1>3. CapabilityTypeOK'
    BY <1>1, <1>2 DEF CapabilityInv, CapabilityTypeOK, Turns, NoFile
<1>4. LastIsActive'
    BY DEF CapabilityInv, CapabilityTypeOK, LastIsActive
<1>5. HoldersRecord'
    BY DEF CapabilityInv, CapabilityTypeOK, HoldersRecord, Turns
<1>6. ASSUME NEW d \in Clients, held[d] = <<l, n>> PROVE FALSE
    <2>1. held[d] # <<>>
        BY <1>6
    <2>2. active[held[d][1]].no # held[d][2]
        BY <2>1 DEF CapabilityInv, HeldOnce
    <2> QED BY <1>6, <2>2
<1>7. HeldOnce'
    BY <1>1, <1>6 DEF CapabilityInv, CapabilityTypeOK, HeldOnce, Tokens, NoFile
<1>8. AllowedOnce'
    <2> SUFFICES ASSUME NEW k \in Leases, NEW i \in 1..MaxIssues, NEW e \in Clients,
                        <<k, i, e>> \in allowed
                 PROVE  /\ i <= issues[k] /\ active'[k].no # i
                        /\ \A d \in Clients : held'[d] # <<k, i>>
                        /\ \A d \in Clients : <<k, i, d>> \in allowed => d = e
        BY DEF AllowedOnce
    <2>1. /\ i <= issues[k] /\ active[k].no # i
          /\ \A d \in Clients : held[d] # <<k, i>>
          /\ \A d \in Clients : <<k, i, d>> \in allowed => d = e
        BY DEF CapabilityInv, AllowedOnce
    <2>2. active'[k].no # i
        BY <2>1 DEF CapabilityInv, CapabilityTypeOK, NoFile
    <2>3. <<k, i>> # <<l, n>>
        BY <2>1
    <2> HIDE DEF n
    <2>4. \A d \in Clients : held'[d] \in {held[d], <<l, n>>}
        BY DEF CapabilityInv, CapabilityTypeOK, n
    <2> QED BY <2>1, <2>2, <2>3, <2>4
<1> QED BY <1>3, <1>4, <1>5, <1>7, <1>8 DEF CapabilityInv

LEMMA ClaimFacts ==
    ASSUME CapabilityInv, NEW c \in Clients, job[c].pc = "claim"
    PROVE  /\ job[c].lease \in Leases /\ job[c].as \in Endings /\ job[c].op \in Uses
           /\ held[c] = <<>>
           /\ [pc |-> "record", lease |-> job[c].lease, as |-> job[c].as] \in Jobs
<1>1. job[c] \in Jobs
    BY DEF CapabilityInv, CapabilityTypeOK
<1>2. job[c].lease \in Leases /\ job[c].as \in Endings /\ job[c].op \in Uses
    BY <1>1 DEF Jobs, NoJob
<1>3. held[c] = <<>>
    BY DEF CapabilityInv, HoldersRecord
<1>4. [pc |-> "record", lease |-> job[c].lease, as |-> job[c].as] \in Jobs
    BY <1>2 DEF Jobs
<1> QED BY <1>2, <1>3, <1>4

LEMMA InvClaim ==
    ASSUME CapabilityInv, NEW c \in Clients, Claim(c)
    PROVE  CapabilityInv'
<1> DEFINE l == job[c].lease
           as == job[c].as
           j == IF job[c].op = "delegated" THEN NoJob ELSE [pc |-> "record", lease |-> l, as |-> as]
<1>1. job[c].pc = "claim"
    BY DEF Claim
<1>2. /\ l \in Leases /\ as \in Endings /\ held[c] = <<>>
      /\ [pc |-> "record", lease |-> l, as |-> as] \in Jobs
    BY <1>1, ClaimFacts
<1>3. NoJob \in Jobs /\ NoJob.pc # "record"
    BY DEF Jobs, NoJob
<1>4. CASE active[l] = NoFile
    <2>1. held = [held EXCEPT ![c] = <<>>]
        BY <1>2 DEF CapabilityInv, CapabilityTypeOK
    <2> QED BY <1>4, <2>1, InvLeave DEF Claim
<1>5. CASE active[l] # NoFile /\ as # "consumed"
    <2>1. j \in Jobs /\ (j.pc = "record" => j.as # "consumed")
        BY <1>2, <1>3, <1>5
    <2>2. /\ active' = [active EXCEPT ![l] = NoFile] /\ Turns(c, j)
          /\ UNCHANGED <<issues, held, allowed, leaseTime>>
        BY <1>5 DEF Claim
    <2> HIDE DEF j, l
    <2> QED BY <1>2, <2>1, <2>2, InvRemove
<1>6. CASE active[l] # NoFile /\ as = "consumed"
    <2>1. job[c] \in Jobs
        BY DEF CapabilityInv, CapabilityTypeOK
    <2>2. job[c].op # "delegated"
        BY <1>1, <1>6, <2>1 DEF Jobs, NoJob
    <2> QED BY <1>2, <1>6, <2>2, InvTake DEF Claim
<1> QED BY <1>4, <1>5, <1>6

LEMMA InvRecord ==
    ASSUME CapabilityInv, NEW c \in Clients, NEW ok \in BOOLEAN, Record(c, ok)
    PROVE  CapabilityInv'
<1>1. CASE ~(ok /\ job[c].as = "consumed")
    BY <1>1, InvLeave DEF Record
<1>2. CASE ok /\ job[c].as = "consumed"
    <2>1. held[c] # <<>>
        BY <1>2 DEF CapabilityInv, HoldersRecord, Record
    <2> DEFINE l == held[c][1]
               n == held[c][2]
    <2>2. held[c] \in Tokens
        BY <2>1 DEF CapabilityInv, CapabilityTypeOK
    <2>3. l \in Leases /\ n \in 1..MaxIssues /\ held[c] = <<l, n>>
        BY <2>2 DEF Tokens
    <2>4. /\ n <= issues[l] /\ active[l].no # n
          /\ \A d \in Clients : held[d] = <<l, n>> => d = c
        BY <2>1, <2>3 DEF CapabilityInv, HeldOnce
    <2>5. \A d \in Clients : <<l, n, d>> \notin allowed
        BY <2>3 DEF CapabilityInv, AllowedOnce
    <2>6. /\ allowed' = allowed \cup {<<l, n, c>>}
          /\ held' = [held EXCEPT ![c] = <<>>]
          /\ Turns(c, NoJob)
          /\ UNCHANGED <<active, issues, leaseTime>>
        BY <1>2 DEF Record
    <2> HIDE DEF l, n
    <2>7. CapabilityTypeOK'
        BY <2>3, <2>6 DEF CapabilityInv, CapabilityTypeOK, Turns, Jobs
    <2>8. LastIsActive'
        BY <2>6 DEF CapabilityInv, LastIsActive
    <2>9. HoldersRecord'
        BY <2>6 DEF CapabilityInv, CapabilityTypeOK, HoldersRecord, Turns, NoJob
    <2>10. HeldOnce'
        BY <2>6 DEF CapabilityInv, CapabilityTypeOK, HeldOnce
    <2>11. AllowedOnce'
        <3> SUFFICES ASSUME NEW k \in Leases, NEW i \in 1..MaxIssues, NEW e \in Clients,
                            <<k, i, e>> \in allowed'
                     PROVE  /\ i <= issues[k] /\ active[k].no # i
                            /\ \A d \in Clients : held'[d] # <<k, i>>
                            /\ \A d \in Clients : <<k, i, d>> \in allowed' => d = e
            BY <2>6 DEF AllowedOnce
        <3>1. \A d \in Clients : held'[d] = IF d = c THEN <<>> ELSE held[d]
            BY <2>6 DEF CapabilityInv, CapabilityTypeOK
        <3>2. CASE k = l /\ i = n
            <4>1. \A d \in Clients : held'[d] # <<k, i>>
                BY <2>4, <3>1, <3>2
            <4>2. \A d \in Clients : <<k, i, d>> \in allowed' => d = c
                BY <2>5, <2>6, <3>2
            <4> QED BY <2>4, <3>2, <4>1, <4>2
        <3>3. CASE ~(k = l /\ i = n)
            <4>1. \A d \in Clients : <<k, i, d>> \in allowed' <=> <<k, i, d>> \in allowed
                BY <2>6, <3>3
            <4>2. /\ i <= issues[k] /\ active[k].no # i
                  /\ \A d \in Clients : held[d] # <<k, i>>
                  /\ \A d \in Clients : <<k, i, d>> \in allowed => d = e
                BY <4>1 DEF CapabilityInv, AllowedOnce
            <4> QED BY <3>1, <4>1, <4>2
        <3> QED BY <3>2, <3>3
    <2> QED BY <2>7, <2>8, <2>9, <2>10, <2>11 DEF CapabilityInv
<1> QED BY <1>1, <1>2

LEMMA InvStep == CapabilityInv /\ [CapabilityNext]_leaseVars => CapabilityInv'
<1> SUFFICES ASSUME CapabilityInv, [CapabilityNext]_leaseVars PROVE CapabilityInv'
    OBVIOUS
<1>1. ASSUME NEW c \in Clients, NEW l \in Leases, NEW ttl \in Ttl, Issue(c, l, ttl)
      PROVE  CapabilityInv'
    BY <1>1, InvIssue
<1>2. ASSUME NEW c \in Clients, NEW p \in Leases, NEW l \in Leases, NEW ttl \in Ttl,
             Delegate(c, p, l, ttl)
      PROVE  CapabilityInv'
    BY <1>2, InvDelegate
<1>3. ASSUME NEW c \in Clients, Write(c) PROVE CapabilityInv'
    BY <1>3, InvWrite
<1>4. ASSUME NEW c \in Clients, NEW ok \in BOOLEAN, Written(c, ok) PROVE CapabilityInv'
    BY <1>4, InvWritten
<1>5. ASSUME NEW c \in Clients, NEW ok \in BOOLEAN, Record(c, ok) PROVE CapabilityInv'
    BY <1>5, InvRecord
<1>6. ASSUME NEW c \in Clients, NEW l \in Leases, NEW op \in Uses, Load(c, l, op)
      PROVE  CapabilityInv'
    BY <1>6, InvLoad
<1>7. ASSUME NEW c \in Clients, Claim(c) PROVE CapabilityInv'
    BY <1>7, InvClaim
<1>8. ASSUME NEW c \in Clients, Die(c) PROVE CapabilityInv'
    BY <1>8, InvLeave DEF Die
<1>9. CASE LeaseTick
    BY <1>9 DEF LeaseTick, CapabilityInv, CapabilityTypeOK, LastIsActive, HoldersRecord,
       HeldOnce, AllowedOnce
<1>10. CASE UNCHANGED leaseVars
    BY <1>10 DEF leaseVars, CapabilityInv, CapabilityTypeOK, LastIsActive, HoldersRecord,
       HeldOnce, AllowedOnce
<1> QED BY <1>1, <1>2, <1>3, <1>4, <1>5, <1>6, <1>7, <1>8, <1>9, <1>10 DEF CapabilityNext, Uses

LEMMA InvHolds == CapabilitySpec => []CapabilityInv
BY InvInit, InvStep, PTL DEF CapabilitySpec

\* The files, the calls and the counters of the store keep their types
\* (capability_lease.go, capability_lending.go), for any identifiers, clients,
\* lifetimes and bounds.
THEOREM CapabilityTypeCorrect == CapabilitySpec => []CapabilityTypeOK
<1>1. CapabilityInv => CapabilityTypeOK
    BY DEF CapabilityInv
<1> QED BY <1>1, InvHolds, PTL

-----------------------------------------------------------------------------
(* The refinement: every step moves one token as OneShot allows, or none.   *)

Place == [t \in Tokens |-> PlaceOf(t)]

\* A move of one token, with the others where they were.
LEMMA OneMoves ==
    ASSUME NEW t \in Tokens, NEW to, PlaceOf(t)' = to,
           \A u \in Tokens : u # t => PlaceOf(u)' = PlaceOf(u)
    PROVE  Place' = [Place EXCEPT ![t] = to]
BY DEF Place

LEMMA NoneMoves ==
    ASSUME UNCHANGED <<active, issues, held, allowed>>
    PROVE  Place' = Place
BY DEF Place, PlaceOf

LEMMA RefineInit == CapabilityInit => Tokened!OneShotInit
<1> SUFFICES ASSUME CapabilityInit, NEW t \in Tokens PROVE PlaceOf(t) = <<"new", {}>>
    BY DEF Tokened!OneShotInit, Tokened!New
<1> QED BY DEF CapabilityInit, PlaceOf, Tokens

\* A file appears: its token, which was new, is live.
LEMMA RefineWrite ==
    ASSUME CapabilityInv, NEW c \in Clients, Write(c)
    PROVE  [Tokened!OneShotNext]_Place
<1>1. job[c] \in Jobs /\ job[c].pc = "write"
    BY DEF CapabilityInv, CapabilityTypeOK, Write
<1>2. PICK l \in Leases : l = job[c].lease
    BY <1>1 DEF Jobs, NoJob
<1>0. PICK n \in Nat : n = issues[l] + 1
    BY CapabilityAssumption DEF CapabilityInv, CapabilityTypeOK
<1>3. CASE active[l] # NoFile
    BY <1>2, <1>3, NoneMoves DEF Write
<1>4. CASE active[l] = NoFile
    <2>1. /\ n <= MaxIssues
          /\ active' = [active EXCEPT ![l] = [no |-> n, exp |-> job[c].exp]]
          /\ issues' = [issues EXCEPT ![l] = n]
          /\ UNCHANGED <<held, allowed>>
        BY <1>0, <1>2, <1>4 DEF Write
    <2>2. <<l, n>> \in Tokens
        BY <1>0, <2>1, CapabilityAssumption DEF CapabilityInv, CapabilityTypeOK, Tokens
    <2>3. PlaceOf(<<l, n>>) = <<"new", {}>>
        BY <1>0 DEF PlaceOf, CapabilityInv, CapabilityTypeOK
    <2>4. PlaceOf(<<l, n>>)' = <<"live", {}>>
        BY <1>0, <2>1 DEF PlaceOf, CapabilityInv, CapabilityTypeOK
    <2>5. ASSUME NEW u \in Tokens, u # <<l, n>> PROVE PlaceOf(u)' = PlaceOf(u)
        <3>1. u[1] \in Leases /\ u[2] \in 1..MaxIssues /\ u = <<u[1], u[2]>>
            BY DEF Tokens
        <3>2. CASE u[1] # l
            <4>1. issues'[u[1]] = issues[u[1]] /\ active'[u[1]] = active[u[1]]
                BY <2>1, <3>1, <3>2 DEF CapabilityInv, CapabilityTypeOK
            <4> QED BY <2>1, <4>1 DEF PlaceOf
        <3>3. CASE u[1] = l /\ u[2] # n
            <4>1. (u[2] > issues'[u[1]]) = (u[2] > issues[u[1]])
                BY <1>0, <2>1, <3>1, <3>3 DEF CapabilityInv, CapabilityTypeOK
            <4>2. active[u[1]].no # u[2] /\ active'[u[1]].no # u[2]
                BY <1>0, <1>4, <2>1, <3>1, <3>3 DEF CapabilityInv, CapabilityTypeOK, NoFile
            <4> QED BY <2>1, <4>1, <4>2 DEF PlaceOf
        <3> QED BY <2>5, <3>1, <3>2, <3>3
    <2>6. Place' = [Place EXCEPT ![<<l, n>>] = <<"live", {}>>]
        BY <2>2, <2>4, <2>5, OneMoves
    <2>7. Tokened!Issued(<<l, n>>)
        BY <2>2, <2>3, <2>6 DEF Tokened!Issued, Tokened!Moves, Tokened!New, Tokened!Live, Place
    <2> QED BY <2>2, <2>7 DEF Tokened!OneShotNext
<1> QED BY <1>3, <1>4

\* What is known of the token of an active file.
LEMMA ActiveToken ==
    ASSUME CapabilityInv, NEW l \in Leases, NEW n, n = active[l].no, active[l] # NoFile
    PROVE  /\ <<l, n>> \in Tokens /\ n \in 1..MaxIssues /\ n = issues[l]
           /\ PlaceOf(<<l, n>>) = <<"live", {}>>
           /\ {d \in Clients : held[d] = <<l, n>>} = {}
           /\ {d \in Clients : <<l, n, d>> \in allowed} = {}
<1>1. n \in 1..MaxIssues /\ n = issues[l]
    BY CapabilityAssumption DEF CapabilityInv, CapabilityTypeOK, LastIsActive
<1>2. <<l, n>> \in Tokens
    BY <1>1 DEF Tokens
<1>0. ~(n > issues[l])
    BY <1>1
<1>3. PlaceOf(<<l, n>>) = <<"live", {}>>
    BY <1>0 DEF PlaceOf
<1>4. ASSUME NEW d \in Clients, held[d] = <<l, n>> PROVE FALSE
    <2>1. held[d] # <<>>
        BY <1>4
    <2> QED BY <1>4, <2>1 DEF CapabilityInv, HeldOnce
<1>5. ASSUME NEW d \in Clients, <<l, n, d>> \in allowed PROVE FALSE
    BY <1>1, <1>5 DEF CapabilityInv, AllowedOnce
<1> QED BY <1>1, <1>2, <1>3, <1>4, <1>5

\* Only the token of the file depends on whether the file is there.
LEMMA OthersStay ==
    ASSUME CapabilityInv, NEW l \in Leases, NEW n, n = active[l].no,
           active' = [active EXCEPT ![l] = NoFile], UNCHANGED <<issues, allowed>>,
           NEW u \in Tokens, u # <<l, n>>,
           {d \in Clients : held'[d] = u} = {d \in Clients : held[d] = u}
    PROVE  PlaceOf(u)' = PlaceOf(u)
<1>1. u[1] \in Leases /\ u[2] \in 1..MaxIssues /\ u = <<u[1], u[2]>>
    BY DEF Tokens
<1>2. (active'[u[1]].no = u[2]) = (active[u[1]].no = u[2])
    BY <1>1 DEF CapabilityInv, CapabilityTypeOK, NoFile
<1> QED BY <1>2 DEF PlaceOf

\* A file is removed, or taken by someone who is not going to use it.
LEMMA RefineRemove ==
    ASSUME CapabilityInv, NEW l \in Leases,
           active' = [active EXCEPT ![l] = NoFile], UNCHANGED <<issues, held, allowed>>
    PROVE  [Tokened!OneShotNext]_Place
<1>1. CASE active[l] = NoFile
    <2>1. active' = active
        BY <1>1 DEF CapabilityInv, CapabilityTypeOK
    <2> QED BY <2>1, NoneMoves
<1>2. CASE active[l] # NoFile
    <2>1. PICK n \in Nat : n = active[l].no
        BY DEF CapabilityInv, CapabilityTypeOK
    <2>2. /\ <<l, n>> \in Tokens /\ n \in 1..MaxIssues /\ n = issues[l]
          /\ PlaceOf(<<l, n>>) = <<"live", {}>>
          /\ {d \in Clients : held[d] = <<l, n>>} = {}
          /\ {d \in Clients : <<l, n, d>> \in allowed} = {}
        BY <1>2, <2>1, ActiveToken
    <2>3. active'[l].no # n /\ ~(n > issues'[l])
        BY <2>2 DEF CapabilityInv, CapabilityTypeOK, NoFile
    <2>4. PlaceOf(<<l, n>>)' = <<"spent", {}>>
        BY <2>2, <2>3 DEF PlaceOf
    <2>5. \A u \in Tokens : u # <<l, n>> => PlaceOf(u)' = PlaceOf(u)
        BY <2>1, OthersStay
    <2>6. Place' = [Place EXCEPT ![<<l, n>>] = <<"spent", {}>>]
        BY <2>2, <2>4, <2>5, OneMoves
    <2>7. Tokened!Gone(<<l, n>>)
        BY <2>2, <2>6 DEF Tokened!Gone, Tokened!Moves, Tokened!Live, Tokened!Spent, Place
    <2> QED BY <2>2, <2>7 DEF Tokened!OneShotNext
<1> QED BY <1>1, <1>2

\* A file is taken by the client that is going to use it.
LEMMA RefineTake ==
    ASSUME CapabilityInv, NEW c \in Clients, NEW l \in Leases, held[c] = <<>>,
           active[l] # NoFile,
           active' = [active EXCEPT ![l] = NoFile],
           held' = [held EXCEPT ![c] = <<l, active[l].no>>],
           UNCHANGED <<issues, allowed>>
    PROVE  [Tokened!OneShotNext]_Place
<1>1. PICK n \in Nat : n = active[l].no
    BY DEF CapabilityInv, CapabilityTypeOK
<1>2. /\ <<l, n>> \in Tokens /\ n \in 1..MaxIssues /\ n = issues[l]
      /\ PlaceOf(<<l, n>>) = <<"live", {}>>
      /\ {d \in Clients : held[d] = <<l, n>>} = {}
    BY <1>1, ActiveToken
<1>3. active'[l].no # n /\ ~(n > issues'[l])
    BY <1>2 DEF CapabilityInv, CapabilityTypeOK, NoFile
<1>4. \A d \in Clients : held'[d] = IF d = c THEN <<l, n>> ELSE held[d]
    BY <1>1 DEF CapabilityInv, CapabilityTypeOK
<1>5. {d \in Clients : held'[d] = <<l, n>>} = {c}
    BY <1>2, <1>4
<1>6. PlaceOf(<<l, n>>)' = <<"held", {c}>>
    BY <1>2, <1>3, <1>5 DEF PlaceOf
<1>7. ASSUME NEW u \in Tokens, u # <<l, n>> PROVE PlaceOf(u)' = PlaceOf(u)
    <2>1. PICK k \in Leases, i \in 1..MaxIssues : u = <<k, i>>
        BY DEF Tokens
    <2>2. {d \in Clients : held'[d] = u} = {d \in Clients : held[d] = u}
        BY <1>4, <1>7, <2>1
    <2> QED BY <1>1, <1>7, <2>2, OthersStay
<1>8. Place' = [Place EXCEPT ![<<l, n>>] = <<"held", {c}>>]
    BY <1>2, <1>6, <1>7, OneMoves
<1>9. Tokened!Taken(<<l, n>>, c)
    BY <1>2, <1>8 DEF Tokened!Taken, Tokened!Moves, Tokened!Live, Tokened!Held, Place
<1> QED BY <1>2, <1>9 DEF Tokened!OneShotNext

\* What is known of a token that a client holds.
LEMMA HeldToken ==
    ASSUME CapabilityInv, NEW c \in Clients, NEW l, NEW n, held[c] # <<>>,
           l = held[c][1], n = held[c][2]
    PROVE  /\ l \in Leases /\ n \in 1..MaxIssues /\ held[c] = <<l, n>>
           /\ <<l, n>> \in Tokens
           /\ ~(n > issues[l]) /\ active[l].no # n
           /\ {d \in Clients : held[d] = <<l, n>>} = {c}
           /\ {d \in Clients : <<l, n, d>> \in allowed} = {}
           /\ PlaceOf(<<l, n>>) = <<"held", {c}>>
<1>1. held[c] \in Tokens
    BY DEF CapabilityInv, CapabilityTypeOK
<1>2. l \in Leases /\ n \in 1..MaxIssues /\ held[c] = <<l, n>>
    BY <1>1 DEF Tokens
<1>3. <<l, n>> \in Tokens
    BY <1>1, <1>2
<1>4. /\ n <= issues[l] /\ active[l].no # n
      /\ \A d \in Clients : held[d] = <<l, n>> => d = c
    BY <1>2 DEF CapabilityInv, HeldOnce
<1>5. ~(n > issues[l])
    BY <1>2, <1>4, CapabilityAssumption DEF CapabilityInv, CapabilityTypeOK
<1>6. {d \in Clients : held[d] = <<l, n>>} = {c}
    BY <1>2, <1>4
<1>7. {d \in Clients : <<l, n, d>> \in allowed} = {}
    BY <1>2 DEF CapabilityInv, AllowedOnce
<1>8. PlaceOf(<<l, n>>) = <<"held", {c}>>
    BY <1>4, <1>5, <1>6 DEF PlaceOf
<1> QED BY <1>2, <1>3, <1>4, <1>5, <1>6, <1>7, <1>8

\* A client that held a token is done with it; it may have been allowed to use it.
LEMMA HolderLeaves ==
    ASSUME CapabilityInv, NEW c \in Clients, NEW l, NEW n, held[c] # <<>>,
           l = held[c][1], n = held[c][2],
           held' = [held EXCEPT ![c] = <<>>], UNCHANGED <<active, issues>>,
           allowed' = allowed \/ allowed' = allowed \cup {<<l, n, c>>},
           NEW u \in Tokens, u # <<l, n>>
    PROVE  PlaceOf(u)' = PlaceOf(u)
<1>1. PICK k \in Leases, i \in 1..MaxIssues : u = <<k, i>>
    BY DEF Tokens
<1>0. held[c] \in Tokens
    BY DEF CapabilityInv, CapabilityTypeOK
<1>2. held[c] = <<l, n>>
    BY <1>0 DEF Tokens
<1>3. \A d \in Clients : held'[d] = IF d = c THEN <<>> ELSE held[d]
    BY DEF CapabilityInv, CapabilityTypeOK
<1>4. {d \in Clients : held'[d] = u} = {d \in Clients : held[d] = u}
    BY <1>1, <1>2, <1>3
<1>5. {d \in Clients : <<k, i, d>> \in allowed'} = {d \in Clients : <<k, i, d>> \in allowed}
    BY <1>1
<1> QED BY <1>1, <1>4, <1>5 DEF PlaceOf

\* A client that held a token is done with it and may not use it.
LEMMA RefineLeave ==
    ASSUME CapabilityInv, NEW c \in Clients,
           held' = [held EXCEPT ![c] = <<>>], UNCHANGED <<active, issues, allowed>>
    PROVE  [Tokened!OneShotNext]_Place
<1>1. CASE held[c] = <<>>
    <2>1. held' = held
        BY <1>1 DEF CapabilityInv, CapabilityTypeOK
    <2> QED BY <2>1, NoneMoves
<1>2. CASE held[c] # <<>>
    <2>1. PICK l, n : l = held[c][1] /\ n = held[c][2]
        OBVIOUS
    <2>2. /\ <<l, n>> \in Tokens
          /\ ~(n > issues[l]) /\ active[l].no # n
          /\ {d \in Clients : held[d] = <<l, n>>} = {c}
          /\ {d \in Clients : <<l, n, d>> \in allowed} = {}
          /\ PlaceOf(<<l, n>>) = <<"held", {c}>>
        BY <1>2, <2>1, HeldToken
    <2>3. {d \in Clients : held'[d] = <<l, n>>} = {}
        BY <2>2 DEF CapabilityInv, CapabilityTypeOK
    <2>4. PlaceOf(<<l, n>>)' = <<"spent", {}>>
        BY <2>2, <2>3 DEF PlaceOf
    <2>5. \A u \in Tokens : u # <<l, n>> => PlaceOf(u)' = PlaceOf(u)
        BY <1>2, <2>1, HolderLeaves
    <2>6. Place' = [Place EXCEPT ![<<l, n>>] = <<"spent", {}>>]
        BY <2>2, <2>4, <2>5, OneMoves
    <2>7. Tokened!Gone(<<l, n>>)
        BY <2>2, <2>6 DEF Tokened!Gone, Tokened!Moves, Tokened!Held, Tokened!Spent, Place
    <2> QED BY <2>2, <2>7 DEF Tokened!OneShotNext
<1> QED BY <1>1, <1>2

\* A client that held a token is allowed to use it.
LEMMA RefineAllow ==
    ASSUME CapabilityInv, NEW c \in Clients, held[c] # <<>>,
           allowed' = allowed \cup {<<held[c][1], held[c][2], c>>},
           held' = [held EXCEPT ![c] = <<>>], UNCHANGED <<active, issues>>
    PROVE  [Tokened!OneShotNext]_Place
<1>1. PICK l, n : l = held[c][1] /\ n = held[c][2]
    OBVIOUS
<1>2. /\ <<l, n>> \in Tokens
      /\ ~(n > issues[l]) /\ active[l].no # n
      /\ {d \in Clients : held[d] = <<l, n>>} = {c}
      /\ {d \in Clients : <<l, n, d>> \in allowed} = {}
      /\ PlaceOf(<<l, n>>) = <<"held", {c}>>
    BY <1>1, HeldToken
<1>3. {d \in Clients : held'[d] = <<l, n>>} = {}
    BY <1>2 DEF CapabilityInv, CapabilityTypeOK
<1>4. {d \in Clients : <<l, n, d>> \in allowed'} = {c}
    BY <1>1, <1>2
<1>5. PlaceOf(<<l, n>>)' = <<"granted", {c}>>
    BY <1>2, <1>3, <1>4 DEF PlaceOf
<1>6. \A u \in Tokens : u # <<l, n>> => PlaceOf(u)' = PlaceOf(u)
    BY <1>1, HolderLeaves
<1>7. Place' = [Place EXCEPT ![<<l, n>>] = <<"granted", {c}>>]
    BY <1>2, <1>5, <1>6, OneMoves
<1>8. Tokened!Allowed(<<l, n>>, c)
    BY <1>2, <1>7 DEF Tokened!Allowed, Tokened!Moves, Tokened!Held, Tokened!Granted, Place
<1> QED BY <1>2, <1>8 DEF Tokened!OneShotNext

LEMMA RefineWritten ==
    ASSUME CapabilityInv, NEW c \in Clients, NEW ok \in BOOLEAN, Written(c, ok)
    PROVE  [Tokened!OneShotNext]_Place
<1>1. job[c] \in Jobs /\ job[c].pc = "written"
    BY DEF CapabilityInv, CapabilityTypeOK, Written
<1>2. job[c].lease \in Leases
    BY <1>1 DEF Jobs, NoJob
<1>3. CASE ok
    BY <1>3, NoneMoves DEF Written
<1>4. CASE ~ok
    BY <1>2, <1>4, RefineRemove DEF Written
<1> QED BY <1>3, <1>4

LEMMA RefineClaim ==
    ASSUME CapabilityInv, NEW c \in Clients, Claim(c)
    PROVE  [Tokened!OneShotNext]_Place
<1>1. job[c].pc = "claim"
    BY DEF Claim
<1>2. job[c].lease \in Leases /\ held[c] = <<>>
    BY <1>1, ClaimFacts
<1>3. CASE active[job[c].lease] = NoFile
    BY <1>3, NoneMoves DEF Claim
<1>4. CASE active[job[c].lease] # NoFile /\ job[c].as # "consumed"
    BY <1>2, <1>4, RefineRemove DEF Claim
<1>5. CASE active[job[c].lease] # NoFile /\ job[c].as = "consumed"
    BY <1>2, <1>5, RefineTake DEF Claim
<1> QED BY <1>3, <1>4, <1>5

LEMMA RefineRecord ==
    ASSUME CapabilityInv, NEW c \in Clients, NEW ok \in BOOLEAN, Record(c, ok)
    PROVE  [Tokened!OneShotNext]_Place
<1>1. CASE ~(ok /\ job[c].as = "consumed")
    BY <1>1, RefineLeave DEF Record
<1>2. CASE ok /\ job[c].as = "consumed"
    <2>1. held[c] # <<>>
        BY <1>2 DEF CapabilityInv, HoldersRecord, Record
    <2> QED BY <1>2, <2>1, RefineAllow DEF Record
<1> QED BY <1>1, <1>2

LEMMA RefineStep ==
    CapabilityInv /\ [CapabilityNext]_leaseVars => [Tokened!OneShotNext]_Place
<1> SUFFICES ASSUME CapabilityInv, [CapabilityNext]_leaseVars
             PROVE  [Tokened!OneShotNext]_Place
    OBVIOUS
<1>1. ASSUME NEW c \in Clients, NEW l \in Leases, NEW ttl \in Ttl, Issue(c, l, ttl)
      PROVE  [Tokened!OneShotNext]_Place
    BY <1>1, NoneMoves DEF Issue
<1>2. ASSUME NEW c \in Clients, NEW p \in Leases, NEW l \in Leases, NEW ttl \in Ttl,
             Delegate(c, p, l, ttl)
      PROVE  [Tokened!OneShotNext]_Place
    BY <1>2, NoneMoves DEF Delegate
<1>3. ASSUME NEW c \in Clients, Write(c) PROVE [Tokened!OneShotNext]_Place
    BY <1>3, RefineWrite
<1>4. ASSUME NEW c \in Clients, NEW ok \in BOOLEAN, Written(c, ok)
      PROVE  [Tokened!OneShotNext]_Place
    BY <1>4, RefineWritten
<1>5. ASSUME NEW c \in Clients, NEW ok \in BOOLEAN, Record(c, ok)
      PROVE  [Tokened!OneShotNext]_Place
    BY <1>5, RefineRecord
<1>6. ASSUME NEW c \in Clients, NEW l \in Leases, NEW op \in Uses, Load(c, l, op)
      PROVE  [Tokened!OneShotNext]_Place
    BY <1>6, NoneMoves DEF Load
<1>7. ASSUME NEW c \in Clients, Claim(c) PROVE [Tokened!OneShotNext]_Place
    BY <1>7, RefineClaim
<1>8. ASSUME NEW c \in Clients, Die(c) PROVE [Tokened!OneShotNext]_Place
    BY <1>8, RefineLeave DEF Die
<1>9. CASE LeaseTick
    BY <1>9, NoneMoves DEF LeaseTick
<1>10. CASE UNCHANGED leaseVars
    BY <1>10, NoneMoves DEF leaseVars
<1> QED BY <1>1, <1>2, <1>3, <1>4, <1>5, <1>6, <1>7, <1>8, <1>9, <1>10 DEF CapabilityNext, Uses

\* The store implements one-shot tokens (Authorize, Revoke, Delegate and expiry,
\* capability_lease.go:120-219): for any identifiers, clients, lifetimes and
\* bounds, a lease file is taken by one client at most and its use is allowed to
\* that client or to nobody.
THEOREM StoreRefinesOneShot == CapabilitySpec => OneShotTokens
<1>1. [Tokened!OneShotNext]_Place => [Tokened!OneShotNext]_([t \in Tokens |-> PlaceOf(t)])
    BY DEF Place
<1> QED BY <1>1, RefineInit, RefineStep, InvHolds, PTL
        DEF CapabilitySpec, OneShotTokens, Tokened!OneShotSpec
=============================================================================
