-------------------------- MODULE OwnerLeaseProofs --------------------------
(***************************************************************************)
(* Theorems about the connection registry and the owner lease, for any     *)
(* number of replicas, workspaces and connections.                         *)
(***************************************************************************)
EXTENDS OwnerLease, TLAPS

-----------------------------------------------------------------------------
(* Type correctness.                                                        *)

\* A fresh Hub and an empty Redis are well typed.
LEMMA LeaseInitType == LeaseInit => LeaseTypeOK
  BY ConnAssumption DEF LeaseInit, LeaseTypeOK, PC

\* Every step keeps every map of Hub and Coordinator within its type.
LEMMA LeaseNextType == LeaseTypeOK /\ [LeaseNext]_leaseVars => LeaseTypeOK'
<1> SUFFICES ASSUME LeaseTypeOK, [LeaseNext]_leaseVars PROVE LeaseTypeOK'
  OBVIOUS
<1> USE ConnAssumption DEF LeaseTypeOK, PC, Entry
<1>1. ASSUME NEW c \in Conns, Install(c) PROVE LeaseTypeOK'
  BY <1>1 DEF Install, Enter
<1>2. ASSUME NEW c \in Conns, RegisterClaim(c) PROVE LeaseTypeOK'
  BY <1>2 DEF RegisterClaim, ClaimOwner
<1>3. ASSUME NEW c \in Conns, RegisterFail(c) PROVE LeaseTypeOK'
  BY <1>3 DEF RegisterFail, ClaimOwner
<1>4. ASSUME NEW c \in Conns, UnregisterStep(c) PROVE LeaseTypeOK'
  BY <1>4 DEF UnregisterStep
<1>5. ASSUME NEW c \in Conns, UnregisterRelease(c) PROVE LeaseTypeOK'
  BY <1>5 DEF UnregisterRelease, ReleaseOwner
<1>6. ASSUME NEW c \in Conns, RefreshRead(c) PROVE LeaseTypeOK'
  BY <1>6 DEF RefreshRead
<1>7. ASSUME NEW c \in Conns, RefreshClaim(c) PROVE LeaseTypeOK'
  BY <1>7 DEF RefreshClaim, ClaimOwner
<1>8. ASSUME NEW c \in Conns, RefreshFail(c) PROVE LeaseTypeOK'
  BY <1>8 DEF RefreshFail
<1>9. ASSUME NEW c \in Conns, CloseStale(c) PROVE LeaseTypeOK'
  BY <1>9 DEF CloseStale
<1>10. ASSUME NEW g \in Gateways, NEW K \in SUBSET Keys, Disconnect(g, K) PROVE LeaseTypeOK'
  <2>1. sock' \in [Conns -> BOOLEAN]
    BY <1>10 DEF Disconnect
  <2> QED
    BY <1>10, <2>1 DEF Disconnect
<1>11. ASSUME NEW c \in Conns, PeerLeaves(c) PROVE LeaseTypeOK'
  BY <1>11 DEF PeerLeaves
<1>12. ASSUME NEW c \in Conns, FallSilent(c) PROVE LeaseTypeOK'
  BY <1>12 DEF FallSilent
<1>13. ASSUME NEW k \in Keys, LeaseExpire(k) PROVE LeaseTypeOK'
  BY <1>13 DEF LeaseExpire
<1>14. ASSUME NEW g \in Gateways, Crash(g) PROVE LeaseTypeOK'
  BY <1>14 DEF Crash
<1>15. CASE UNCHANGED leaseVars
  BY <1>15 DEF leaseVars
<1>16. ASSUME NEW c \in Conns, CloseReplaced(c) PROVE LeaseTypeOK'
  BY <1>16 DEF CloseReplaced
<1> QED
  BY <1>1, <1>2, <1>3, <1>4, <1>5, <1>6, <1>7, <1>8, <1>9, <1>10, <1>11, <1>12,
     <1>13, <1>14, <1>15, <1>16 DEF LeaseNext, LeaseStep, LeaseFault

\* The registry and the lease keep their types in every behaviour.
THEOREM LeaseTypeCorrect == LeaseSpec => []LeaseTypeOK
<1>1. LeaseInit => LeaseTypeOK
  BY LeaseInitType
<1>2. LeaseTypeOK /\ [LeaseNext]_leaseVars => LeaseTypeOK'
  BY LeaseNextType
<1> QED
  BY <1>1, <1>2, PTL DEF LeaseSpec

-----------------------------------------------------------------------------
(* One socket of a workspace is kept.                                       *)

\* What a registration holds between the mutex and old.conn.Close: the entry it
\* found is a connection of its own replica that registered before it.
RegistryInv ==
    /\ \A g \in Gateways, k \in Keys :
          clients[g][k] # None =>
              /\ HomeOf[clients[g][k]] = g
              /\ KeyOf[clients[g][k]] = k
              /\ pc[clients[g][k]] # "idle"
    /\ \A c \in Conns : pc[c] = "idle" => replaced[c] = None
    /\ \A c \in Conns :
          replaced[c] # None =>
              /\ HomeOf[replaced[c]] = HomeOf[c]
              /\ pc[replaced[c]] # "idle"

\* Every step of Hub and Coordinator keeps what a registration holds.
LEMMA RegistryInvStep ==
    LeaseTypeOK /\ RegistryInv /\ [LeaseNext]_leaseVars => RegistryInv'
<1> SUFFICES ASSUME LeaseTypeOK, RegistryInv, [LeaseNext]_leaseVars PROVE RegistryInv'
  OBVIOUS
<1> USE ConnAssumption DEF LeaseTypeOK, PC, Entry, RegistryInv
<1>1. ASSUME NEW c \in Conns, Install(c) PROVE RegistryInv'
  BY <1>1 DEF Install, Enter
<1>2. ASSUME NEW c \in Conns, CloseReplaced(c) PROVE RegistryInv'
  BY <1>2 DEF CloseReplaced
<1>3. ASSUME NEW c \in Conns, RegisterClaim(c) \/ RegisterFail(c) PROVE RegistryInv'
  BY <1>3 DEF RegisterClaim, RegisterFail
<1>4. ASSUME NEW c \in Conns, UnregisterStep(c) PROVE RegistryInv'
  BY <1>4 DEF UnregisterStep
<1>5. ASSUME NEW c \in Conns, UnregisterRelease(c) PROVE RegistryInv'
  BY <1>5 DEF UnregisterRelease
<1>6. ASSUME NEW g \in Gateways, Crash(g) PROVE RegistryInv'
  BY <1>6 DEF Crash
<1>7. ASSUME UNCHANGED <<pc, clients, replaced>> PROVE RegistryInv'
  BY <1>7
<1> QED
  BY <1>1, <1>2, <1>3, <1>4, <1>5, <1>6, <1>7
     DEF LeaseNext, LeaseStep, LeaseFault, RefreshRead, RefreshClaim, RefreshFail,
         CloseStale, PeerLeaves, FallSilent, Disconnect, LeaseExpire, leaseVars

\* A connection that stops being the entry is in the hands of the registration
\* that took its place, until that registration closes it.
LEMMA OneSocketKeptStep ==
    LeaseTypeOK /\ RegistryInv /\ OneSocketKept /\ [LeaseNext]_leaseVars => OneSocketKept'
<1> SUFFICES ASSUME LeaseTypeOK, RegistryInv, OneSocketKept, [LeaseNext]_leaseVars
             PROVE  OneSocketKept'
  OBVIOUS
<1> USE ConnAssumption DEF LeaseTypeOK, PC, Entry, RegistryInv, OneSocketKept
<1>1. ASSUME NEW d \in Conns, Install(d) PROVE OneSocketKept'
  <2> USE <1>1 DEF Install, Enter
  <2>1. ASSUME NEW c \in Conns, pc'[c] \in {"installed", "serving"}, sock'[c], Entry(c)' # c
        PROVE  \E e \in Conns : replaced'[e] = c
    <3>1. c # d
      BY <2>1
    <3>2. CASE Entry(c) = c
      <4>1. replaced'[d] = c
        BY <2>1, <3>1, <3>2
      <4> QED
        BY <4>1
    <3>3. CASE Entry(c) # c
      <4>1. PICK e \in Conns : replaced[e] = c
        BY <2>1, <3>1, <3>3
      <4>2. replaced'[e] = c
        BY <4>1
      <4> QED
        BY <4>2
    <3> QED
      BY <3>2, <3>3
  <2>2. ASSUME NEW c \in Conns, replaced'[c] # None PROVE Entry(c)' # replaced'[c]
    BY <2>2
  <2> QED
    BY <2>1, <2>2
<1>2. ASSUME NEW d \in Conns, CloseReplaced(d) PROVE OneSocketKept'
  <2> USE <1>2 DEF CloseReplaced
  <2>1. ASSUME NEW c \in Conns, pc'[c] \in {"installed", "serving"}, sock'[c], Entry(c)' # c
        PROVE  \E e \in Conns : replaced'[e] = c
    <3>1. PICK e \in Conns : replaced[e] = c
      BY <2>1
    <3>2. e # d
      BY <2>1, <3>1
    <3> QED
      BY <3>1, <3>2
  <2> QED
    BY <2>1
<1>3. ASSUME NEW d \in Conns, RegisterClaim(d) \/ RegisterFail(d) PROVE OneSocketKept'
  <2>1. UNCHANGED <<clients, replaced>>
    BY <1>3 DEF RegisterClaim, RegisterFail
  <2>2. \A c \in Conns :
           pc'[c] \in {"installed", "serving"} /\ sock'[c]
             => pc[c] \in {"installed", "serving"} /\ sock[c]
    <3>1. CASE RegisterClaim(d)
      BY <3>1 DEF RegisterClaim
    <3>2. CASE RegisterFail(d)
      BY <3>2 DEF RegisterFail
    <3> QED
      BY <1>3, <3>1, <3>2
  <2>3. \A c \in Conns : Entry(c)' = Entry(c)
    BY <2>1
  <2> QED
    BY <2>1, <2>2, <2>3
<1>4. ASSUME NEW d \in Conns, UnregisterStep(d) PROVE OneSocketKept'
  <2> USE <1>4 DEF UnregisterStep
  <2>1. ASSUME NEW c \in Conns, pc'[c] \in {"installed", "serving"}, sock'[c], Entry(c)' # c
        PROVE  \E e \in Conns : replaced'[e] = c
    <3>1. c # d /\ Entry(c) # c
      BY <2>1
    <3> QED
      BY <2>1, <3>1
  <2> QED
    BY <2>1
<1>5. ASSUME NEW d \in Conns, UnregisterRelease(d) PROVE OneSocketKept'
  BY <1>5 DEF UnregisterRelease
<1>6. ASSUME NEW g \in Gateways, Crash(g) PROVE OneSocketKept'
  <2> USE <1>6 DEF Crash
  <2>1. ASSUME NEW c \in Conns, pc'[c] \in {"installed", "serving"}, sock'[c], Entry(c)' # c
        PROVE  \E e \in Conns : replaced'[e] = c
    <3>1. HomeOf[c] # g /\ pc[c] \in {"installed", "serving"} /\ sock[c] /\ Entry(c) # c
      BY <2>1
    <3>2. PICK e \in Conns : replaced[e] = c
      BY <3>1
    <3>3. HomeOf[e] # g
      BY <3>1, <3>2
    <3> QED
      BY <3>2, <3>3
  <2> QED
    BY <2>1
<1>7. ASSUME NEW d \in Conns,
             RefreshRead(d) \/ RefreshClaim(d) \/ RefreshFail(d) \/ PeerLeaves(d) \/ FallSilent(d)
      PROVE  OneSocketKept'
  BY <1>7 DEF RefreshRead, RefreshClaim, RefreshFail, PeerLeaves, FallSilent
<1>8. ASSUME NEW d \in Conns, CloseStale(d) PROVE OneSocketKept'
  BY <1>8 DEF CloseStale
<1>9. ASSUME NEW g \in Gateways, NEW K \in SUBSET Keys, Disconnect(g, K) PROVE OneSocketKept'
  <2>1. \A c \in Conns : sock'[c] => sock[c]
    BY <1>9 DEF Disconnect
  <2> QED
    BY <1>9, <2>1 DEF Disconnect
<1>10. ASSUME NEW k \in Keys, LeaseExpire(k) PROVE OneSocketKept'
  BY <1>10 DEF LeaseExpire
<1>11. CASE UNCHANGED leaseVars
  BY <1>11 DEF leaseVars
<1> QED
  BY <1>1, <1>2, <1>3, <1>4, <1>5, <1>6, <1>7, <1>8, <1>9, <1>10, <1>11
     DEF LeaseNext, LeaseStep, LeaseFault

\* However many connections of a workspace register with a replica, and in
\* whatever order their closes run, the entry is never the one closed and every
\* other open one is about to be.
THEOREM OneSocketKeptHolds == LeaseSpec => []OneSocketKept
<1>1. LeaseInit => RegistryInv /\ OneSocketKept
  BY ConnAssumption DEF LeaseInit, RegistryInv, OneSocketKept, PC, Entry
<1>2. LeaseTypeOK /\ RegistryInv /\ [LeaseNext]_leaseVars => RegistryInv'
  BY RegistryInvStep
<1>3. LeaseTypeOK /\ RegistryInv /\ OneSocketKept /\ [LeaseNext]_leaseVars => OneSocketKept'
  BY OneSocketKeptStep
<1> QED
  BY <1>1, <1>2, <1>3, LeaseTypeCorrect, PTL DEF LeaseSpec
=============================================================================
