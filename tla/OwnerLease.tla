----------------------------- MODULE OwnerLease -----------------------------
(***************************************************************************)
(* The connection registry of the cloud gateways and the routing lease.    *)
(*                                                                         *)
(* Every gateway replica runs a Hub (internal/gateway/hub.go) that keeps   *)
(* one entry per workspace key for the WebSocket of that workspace, and a  *)
(* Coordinator (internal/gateway/coordinator.go) that advertises in Redis  *)
(* which replica holds it: a key with a 90 s TTL, written unconditionally  *)
(* by ClaimOwner, refreshed by a GET followed by a SET, and deleted by     *)
(* compare-and-delete on the replica's name.                               *)
(*                                                                         *)
(* A connection is one run of Hub.ServeHTTP.  Its two ends are apart:      *)
(* sock[c] is the gateway's end, peer[c] the device's, so that a half-open *)
(* connection (peer gone, gateway unaware) is a state of its own.          *)
(***************************************************************************)
EXTENDS Naturals

CONSTANTS
    Gateways,   \* replicas, by InstanceID
    Keys,       \* workspace keys: ClientKey(user, device, workspace)
    Conns,      \* WebSocket connections, each used once
    KeyOf,      \* the key a connection registers
    HomeOf,     \* the replica a connection was accepted by
    None        \* an absent map entry, or an absent Redis key

ASSUME ConnAssumption ==
    /\ KeyOf \in [Conns -> Keys]
    /\ HomeOf \in [Conns -> Gateways]
    /\ None \notin Conns \cup Gateways

VARIABLES
    pc,         \* where ServeHTTP is for a connection
    sock,       \* the gateway's end of the socket is open
    peer,       \* the device's end is alive
    fresh,      \* lastSeenAt is within the stale window of HeartbeatLoop
    clients,    \* Hub.clients of every replica
    owner,      \* the Redis key ownerKey(k): a replica, or None
    claiming,   \* a RefreshOwner read no owner and is about to SET
    replaced    \* the entry that register found, and closes next

leaseVars == <<pc, sock, peer, fresh, clients, owner, claiming, replaced>>

\* installed: in Hub.clients, register still running; releasing: unregister
\* has left the mutex and ReleaseOwner is next; failed: register returned an
\* error, so the deferred unregister was never installed.
PC == {"idle", "installed", "serving", "releasing", "gone", "failed"}

LeaseTypeOK ==
    /\ pc \in [Conns -> PC]
    /\ sock \in [Conns -> BOOLEAN]
    /\ peer \in [Conns -> BOOLEAN]
    /\ fresh \in [Conns -> BOOLEAN]
    /\ clients \in [Gateways -> [Keys -> Conns \cup {None}]]
    /\ owner \in [Keys -> Gateways \cup {None}]
    /\ claiming \in [Conns -> BOOLEAN]
    /\ replaced \in [Conns -> Conns \cup {None}]

LeaseInit ==
    /\ pc = [c \in Conns |-> "idle"]
    /\ sock = [c \in Conns |-> FALSE]
    /\ peer = [c \in Conns |-> FALSE]
    /\ fresh = [c \in Conns |-> FALSE]
    /\ clients = [g \in Gateways |-> [k \in Keys |-> None]]
    /\ owner = [k \in Keys |-> None]
    /\ claiming = [c \in Conns |-> FALSE]
    /\ replaced = [c \in Conns |-> None]

Entry(c) == clients[HomeOf[c]][KeyOf[c]]

\* Hub.localClient.  An entry whose `closed` channel is closed is answered
\* with nil; unregister closes it in the same critical section that deletes
\* the entry, so looking the entry up is enough.
LocalClient(g, k) == clients[g][k]

-----------------------------------------------------------------------------
(* Hub.register: the entry is replaced under the mutex.  The replaced       *)
(* connection is closed after the mutex was given back, and may read and    *)
(* answer until then.  Then the workspace row is written and the lease      *)
(* claimed; both writes can fail.                                           *)

\* The entry becomes c; old is what register will close.
Enter(c, old) ==
    /\ pc[c] = "idle"
    /\ pc' = [pc EXCEPT ![c] = "installed"]
    /\ sock' = [sock EXCEPT ![c] = TRUE]
    /\ peer' = [peer EXCEPT ![c] = TRUE]
    /\ fresh' = [fresh EXCEPT ![c] = TRUE]
    /\ clients' = [clients EXCEPT ![HomeOf[c]][KeyOf[c]] = c]
    /\ replaced' = [replaced EXCEPT ![c] = old]
    /\ UNCHANGED <<owner, claiming>>

\* Mutant of Install: a connection that is still registering is not closed.
InstallKeepsNew(c) ==
    Enter(c, IF Entry(c) # None /\ pc[Entry(c)] = "installed" THEN None ELSE Entry(c))

Install(c) == Enter(c, Entry(c))

\* old.conn.Close, once per registration.
CloseReplaced(c) ==
    /\ replaced[c] # None
    /\ sock' = [sock EXCEPT ![replaced[c]] = FALSE]
    /\ replaced' = [replaced EXCEPT ![c] = None]
    /\ UNCHANGED <<pc, peer, fresh, clients, owner, claiming>>

\* Coordinator.ClaimOwner: an unconditional SET with the TTL.
ClaimOwner(g, k) == owner' = [owner EXCEPT ![k] = g]

\* Coordinator.ReleaseOwner: compare-and-delete on the replica's name.
ReleaseOwner(g, k) ==
    owner' = IF owner[k] = g THEN [owner EXCEPT ![k] = None] ELSE owner

RegisterClaim(c) ==
    /\ pc[c] = "installed" /\ replaced[c] = None
    /\ pc' = [pc EXCEPT ![c] = "serving"]
    /\ ClaimOwner(HomeOf[c], KeyOf[c])
    /\ UNCHANGED <<sock, peer, fresh, clients, claiming, replaced>>

\* UpsertWorkspace or ClaimOwner returns an error (a SET that times out may
\* still have been applied): ServeHTTP closes the socket and returns before
\* `defer h.unregister`.
RegisterFail(c) ==
    /\ pc[c] = "installed" /\ replaced[c] = None
    /\ pc' = [pc EXCEPT ![c] = "failed"]
    /\ sock' = [sock EXCEPT ![c] = FALSE]
    /\ ClaimOwner(HomeOf[c], KeyOf[c]) \/ UNCHANGED owner
    /\ UNCHANGED <<peer, fresh, clients, claiming, replaced>>

-----------------------------------------------------------------------------
(* Hub.unregister, in two steps: the critical section, and the release that *)
(* follows it when the entry was this connection's own.                     *)

UnregisterStep(c) ==
    /\ pc[c] = "serving"
    /\ ~sock[c] \/ ~peer[c]     \* the read loop's conn.Read returned an error
    /\ pc' = [pc EXCEPT ![c] = IF Entry(c) = c THEN "releasing" ELSE "gone"]
    /\ clients' = IF Entry(c) = c
                  THEN [clients EXCEPT ![HomeOf[c]][KeyOf[c]] = None]
                  ELSE clients
    /\ sock' = [sock EXCEPT ![c] = FALSE]
    /\ UNCHANGED <<peer, fresh, owner, claiming, replaced>>

UnregisterRelease(c) ==
    /\ pc[c] = "releasing"
    /\ pc' = [pc EXCEPT ![c] = "gone"]
    /\ ReleaseOwner(HomeOf[c], KeyOf[c])
    /\ UNCHANGED <<sock, peer, fresh, clients, claiming, replaced>>

-----------------------------------------------------------------------------
(* HeartbeatLoop and the pong handler.                                      *)

\* The connections RefreshOwner is called for: HeartbeatLoop's entries that are
\* not stale, and a connection whose read loop receives pongs.
Refreshed(c) ==
    \/ Entry(c) = c /\ fresh[c]
    \/ pc[c] = "serving" /\ sock[c] /\ peer[c]

\* Mutant of RefreshRead: an absent lease is not claimed again.
RefreshReadHeld(c) ==
    /\ ~claiming[c]
    /\ Refreshed(c)
    /\ owner[KeyOf[c]] = HomeOf[c]
    /\ claiming' = [claiming EXCEPT ![c] = TRUE]
    /\ UNCHANGED <<pc, sock, peer, fresh, clients, owner, replaced>>

\* RefreshOwner's GET.  Only an absent owner leads to
\* a write the model sees: EXPIRE on an owned key moves its deadline, and
\* another replica's name is an error the callers drop.
RefreshRead(c) ==
    /\ ~claiming[c]
    /\ Refreshed(c)
    /\ owner[KeyOf[c]] = None
    /\ claiming' = [claiming EXCEPT ![c] = TRUE]
    /\ UNCHANGED <<pc, sock, peer, fresh, clients, owner, replaced>>

\* RefreshOwner's ClaimOwner, whatever happened since the GET.
RefreshClaim(c) ==
    /\ claiming[c]
    /\ claiming' = [claiming EXCEPT ![c] = FALSE]
    /\ ClaimOwner(HomeOf[c], KeyOf[c])
    /\ UNCHANGED <<pc, sock, peer, fresh, clients, replaced>>

\* RefreshOwner's SET fails on Redis; the callers drop the error.
RefreshFail(c) ==
    /\ claiming[c]
    /\ claiming' = [claiming EXCEPT ![c] = FALSE]
    /\ UNCHANGED <<pc, sock, peer, fresh, clients, owner, replaced>>

\* The heartbeat closes an entry that has not been heard of for the window.
CloseStale(c) ==
    /\ Entry(c) = c
    /\ ~fresh[c]
    /\ sock[c]
    /\ sock' = [sock EXCEPT ![c] = FALSE]
    /\ UNCHANGED <<pc, peer, fresh, clients, owner, claiming, replaced>>

\* DisconnectCredential, the credential sweep of HeartbeatLoop and Hub.Close:
\* the entries of some keys have their sockets closed.
Disconnect(g, K) ==
    /\ \E k \in K : clients[g][k] # None /\ sock[clients[g][k]]
    /\ sock' = [c \in Conns |-> sock[c] /\ ~(\E k \in K : clients[g][k] = c)]
    /\ UNCHANGED <<pc, peer, fresh, clients, owner, claiming, replaced>>

-----------------------------------------------------------------------------
(* The environment: devices leave, silence lasts, leases expire, replicas   *)
(* crash.                                                                   *)

PeerLeaves(c) ==
    /\ peer[c]
    /\ peer' = [peer EXCEPT ![c] = FALSE]
    /\ UNCHANGED <<pc, sock, fresh, clients, owner, claiming, replaced>>

\* lastSeenAt moves only when the read loop receives a message.
FallSilent(c) ==
    /\ fresh[c]
    /\ ~peer[c] \/ ~sock[c]
    /\ fresh' = [fresh EXCEPT ![c] = FALSE]
    /\ UNCHANGED <<pc, sock, peer, clients, owner, claiming, replaced>>

\* The 90 s TTL passes before a refresh: refreshes are lost to Redis errors
\* and slow heartbeats, so this may happen to a connection that is alive.
LeaseExpire(k) ==
    /\ owner[k] # None
    /\ owner' = [owner EXCEPT ![k] = None]
    /\ UNCHANGED <<pc, sock, peer, fresh, clients, claiming, replaced>>

\* The process of a replica dies with its sockets; Redis keeps its leases.
Crash(g) ==
    /\ pc' = [c \in Conns |->
                IF HomeOf[c] = g /\ pc[c] # "idle" THEN "gone" ELSE pc[c]]
    /\ sock' = [c \in Conns |-> sock[c] /\ HomeOf[c] # g]
    /\ clients' = [clients EXCEPT ![g] = [k \in Keys |-> None]]
    /\ claiming' = [c \in Conns |-> claiming[c] /\ HomeOf[c] # g]
    /\ replaced' = [c \in Conns |-> IF HomeOf[c] = g THEN None ELSE replaced[c]]
    /\ UNCHANGED <<peer, fresh, owner>>

-----------------------------------------------------------------------------
\* What the replicas do by themselves, unregister's critical section apart: the
\* call path extends it.
LeaseStep ==
    \E c \in Conns :
        \/ Install(c) \/ CloseReplaced(c) \/ RegisterClaim(c) \/ UnregisterRelease(c)
        \/ RefreshRead(c) \/ RefreshClaim(c)
        \/ CloseStale(c) \/ FallSilent(c)

\* What is done to them: connections end, Redis writes fail, leases expire.
LeaseFault ==
    \/ \E c \in Conns : RegisterFail(c) \/ RefreshFail(c) \/ PeerLeaves(c)
    \/ \E g \in Gateways, K \in SUBSET Keys : Disconnect(g, K)
    \/ \E k \in Keys : LeaseExpire(k)

LeaseNext ==
    \/ LeaseStep
    \/ LeaseFault
    \/ \E c \in Conns : UnregisterStep(c)
    \/ \E g \in Gateways : Crash(g)

\* Goroutines run; the heartbeat ticks; a lease nobody refreshes reaches its
\* TTL; an entry whose reads fail is noticed once its socket is closed.
LeaseFairness ==
    /\ \A c \in Conns :
          /\ WF_leaseVars(CloseReplaced(c))
          /\ WF_leaseVars(RegisterClaim(c) \/ RegisterFail(c))
          /\ WF_leaseVars(UnregisterStep(c) /\ ~sock[c])
          /\ WF_leaseVars(UnregisterRelease(c))
          /\ WF_leaseVars(RefreshRead(c))
          /\ SF_leaseVars(RefreshClaim(c))
          /\ WF_leaseVars(CloseStale(c))
          /\ WF_leaseVars(FallSilent(c))
    /\ \A k \in Keys :
          WF_leaseVars(/\ LeaseExpire(k)
                       /\ \A c \in Conns : KeyOf[c] = k /\ HomeOf[c] = owner[k]
                                              => ~Refreshed(c))

LeaseSpec == LeaseInit /\ [][LeaseNext]_leaseVars

FairLeaseSpec == LeaseSpec /\ LeaseFairness

-----------------------------------------------------------------------------
(* Properties.                                                              *)

Attached(c) == pc[c] = "serving" /\ sock[c] /\ peer[c] /\ Entry(c) = c

\* A replica means to keep one socket per workspace.  However many connections
\* of it register at once, one that is open and is not the Hub's entry is about
\* to be closed by the registration that found it there, and no registration is
\* about to close the entry.
OneSocketKept ==
    \A c \in Conns :
        /\ pc[c] \in {"installed", "serving"} /\ sock[c] /\ Entry(c) # c
              => \E d \in Conns : replaced[d] = c
        /\ replaced[c] # None => Entry(c) # replaced[c]

\* The lease finds its way back: when a device keeps one connection and no
\* other of its connections is alive, its replica is the advertised owner
\* again and again, whatever expiries, late claims of stale refreshes,
\* releases of older connections and failed registrations came before.
LeaseReturns ==
    \A c \in Conns :
        <>[](/\ Attached(c)
             /\ \A d \in Conns \ {c} : KeyOf[d] = KeyOf[c] => ~peer[d])
            => []<>(owner[KeyOf[c]] = HomeOf[c])

\* "Keep the hot path on this gateway when it already owns the WebSocket": an
\* entry of Hub.clients is a connection whose ServeHTTP is still running and
\* will unregister it.
HotPathOwnsSocket ==
    \A g \in Gateways, k \in Keys :
        LocalClient(g, k) # None =>
            pc[LocalClient(g, k)] \in {"installed", "serving"}
=============================================================================
