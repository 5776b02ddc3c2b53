-------------------------- MODULE CapabilityLease --------------------------
(***************************************************************************)
(* The store of one-shot capability leases (internal/security:             *)
(* capability_lease.go, capability_lending.go).                            *)
(*                                                                         *)
(* A lease is a file in the directory "active".  Whoever uses, revokes or  *)
(* expires it reads the file, decides, renames it into another directory   *)
(* and rewrites it there; only the rename is atomic.  There is no lock:    *)
(* clients are goroutines of one or of several processes.  An identifier   *)
(* may be issued again while a check for an unused one is under way, so    *)
(* every file that is written is a token of its own here.                  *)
(***************************************************************************)
EXTENDS Naturals

CONSTANTS
    Leases,         \* lease identifiers
    Clients,
    Ttl,            \* lifetimes that callers ask for
    MaxIssues,      \* bound: files written for an identifier
    MaxLeaseTime    \* bound: the clock

ASSUME CapabilityAssumption ==
    /\ Ttl \subseteq Nat
    /\ MaxIssues \in Nat
    /\ MaxLeaseTime \in Nat

NoFile == [no |-> 0, exp |-> 0]
NoJob == [pc |-> "idle"]

VARIABLES
    active,     \* the active file of each identifier
    spent,      \* directories that have a record of it
    job,        \* the call of each client
    issues,     \* files written so far, by identifier
    held,       \* the file that a client has renamed: <<identifier, no>>
    allowed,    \* <<identifier, no, client>> that Authorize has allowed
    leaseTime

leaseVars == <<active, spent, job, issues, held, allowed, leaseTime>>

Tokens == Leases \X (1..MaxIssues)

CapabilityInit ==
    /\ active = [l \in Leases |-> NoFile]
    /\ spent = [l \in Leases |-> {}]
    /\ job = [c \in Clients |-> NoJob]
    /\ issues = [l \in Leases |-> 0]
    /\ held = [c \in Clients |-> <<>>]
    /\ allowed = {}
    /\ leaseTime = 0

Min2(a, b) == IF a <= b THEN a ELSE b
Free(c) == job[c].pc = "idle"
Turns(c, j) == job' = [job EXCEPT ![c] = j]

\* ensureLeaseIDUnused.
Unused(l) == active[l] = NoFile /\ spent[l] = {}

-----------------------------------------------------------------------------
(* Issue and Delegate.                                                      *)

Issue(c, l, ttl) ==
    /\ Free(c)
    /\ Unused(l)
    /\ Turns(c, [pc |-> "write", lease |-> l, exp |-> leaseTime + ttl])
    /\ UNCHANGED <<active, spent, issues, held, allowed, leaseTime>>

\* The parent stays active, and its child ends with it at the latest.
Delegate(c, p, l, ttl) ==
    LET exp == Min2(leaseTime + ttl, active[p].exp) IN
    /\ Free(c)
    /\ active[p] # NoFile
    /\ leaseTime < exp
    /\ Unused(l)
    /\ Turns(c, [pc |-> "write", lease |-> l, exp |-> exp])
    /\ UNCHANGED <<active, spent, issues, held, allowed, leaseTime>>

\* writeLeaseExclusive: the file must not be there yet.
Write(c) ==
    LET l == job[c].lease
        n == issues[l] + 1 IN
    /\ job[c].pc = "write"
    /\ \/ /\ active[l] # NoFile
          /\ Turns(c, NoJob)
          /\ UNCHANGED <<active, issues>>
       \/ /\ active[l] = NoFile
          /\ n <= MaxIssues
          /\ active' = [active EXCEPT ![l] = [no |-> n, exp |-> job[c].exp]]
          /\ issues' = [issues EXCEPT ![l] = n]
          /\ Turns(c, [pc |-> "written", lease |-> l])
    /\ UNCHANGED <<spent, held, allowed, leaseTime>>

\* Sync and Close; when they fail, what is at the path is removed.
Written(c, ok) ==
    /\ job[c].pc = "written"
    /\ active' = IF ok THEN active ELSE [active EXCEPT ![job[c].lease] = NoFile]
    /\ Turns(c, NoJob)
    /\ UNCHANGED <<spent, issues, held, allowed, leaseTime>>

-----------------------------------------------------------------------------
(* Authorize, Revoke and expiry.                                            *)

\* loadActive and the look at the clock, to consume a lease, to revoke it or to
\* delegate it; one to be used whose time is over is put away as expired.
Load(c, l, op) ==
    LET over == leaseTime >= active[l].exp IN
    /\ Free(c)
    /\ active[l] # NoFile
    /\ op = "delegated" => over
    /\ Turns(c, [pc |-> "claim", lease |-> l, op |-> op,
                as |-> IF over /\ op # "revoked" THEN "expired" ELSE op])
    /\ UNCHANGED <<active, spent, issues, held, allowed, leaseTime>>

\* Mutant of Claim: the rename's error is not looked at.
ClaimAnyway(c) ==
    LET l == job[c].lease
        as == job[c].as IN
    /\ job[c].pc = "claim"
    /\ active' = [active EXCEPT ![l] = NoFile]
    /\ spent' = [spent EXCEPT ![l] = @ \cup {as}]
    /\ held' = IF as = "consumed" THEN [held EXCEPT ![c] = <<l, issues[l]>>] ELSE held
    /\ Turns(c, [pc |-> "record", lease |-> l, as |-> as])
    /\ UNCHANGED <<issues, allowed, leaseTime>>

\* claim: the rename takes the file, whoever wrote it by now, or fails.  An
\* expired lease that was to be consumed is recorded in either case.
Claim(c) ==
    LET l == job[c].lease
        as == job[c].as IN
    /\ job[c].pc = "claim"
    /\ \/ /\ active[l] # NoFile
          /\ active' = [active EXCEPT ![l] = NoFile]
          /\ spent' = [spent EXCEPT ![l] = @ \cup {as}]
          /\ held' = IF as = "consumed" THEN [held EXCEPT ![c] = <<l, active[l].no>>] ELSE held
          /\ Turns(c, IF job[c].op = "delegated" THEN NoJob
                     ELSE [pc |-> "record", lease |-> l, as |-> as])
       \/ /\ active[l] = NoFile
          /\ spent' = IF as = "expired" /\ job[c].op = "consumed"
                        THEN [spent EXCEPT ![l] = @ \cup {as}] ELSE spent
          /\ Turns(c, NoJob)
          /\ UNCHANGED <<active, held>>
    /\ UNCHANGED <<issues, allowed, leaseTime>>

\* The record is written; when that fails the lease is spent all the same.
Record(c, ok) ==
    /\ job[c].pc = "record"
    /\ allowed' = IF ok /\ job[c].as = "consumed"
                    THEN allowed \cup {<<held[c][1], held[c][2], c>>} ELSE allowed
    /\ held' = [held EXCEPT ![c] = <<>>]
    /\ Turns(c, NoJob)
    /\ UNCHANGED <<active, spent, issues, leaseTime>>

\* The client's process dies.
Die(c) ==
    /\ ~Free(c)
    /\ held' = [held EXCEPT ![c] = <<>>]
    /\ Turns(c, NoJob)
    /\ UNCHANGED <<active, spent, issues, allowed, leaseTime>>

LeaseTick ==
    /\ leaseTime < MaxLeaseTime
    /\ leaseTime' = leaseTime + 1
    /\ UNCHANGED <<active, spent, job, issues, held, allowed>>

CapabilityNext ==
    \/ \E c \in Clients :
          \/ \E l \in Leases, ttl \in Ttl : Issue(c, l, ttl)
          \/ \E p, l \in Leases, ttl \in Ttl : Delegate(c, p, l, ttl)
          \/ Write(c)
          \/ \E ok \in BOOLEAN : Written(c, ok) \/ Record(c, ok)
          \/ \E l \in Leases, op \in {"consumed", "revoked", "delegated"} : Load(c, l, op)
          \/ Claim(c)
          \/ Die(c)
    \/ LeaseTick

CapabilitySpec == CapabilityInit /\ [][CapabilityNext]_leaseVars

-----------------------------------------------------------------------------
(* Properties.                                                              *)

Uses == {"consumed", "revoked", "delegated"}
Endings == Uses \cup {"expired"}

Jobs ==
    {NoJob}
    \cup [pc : {"write"}, lease : Leases, exp : Nat]
    \cup [pc : {"written"}, lease : Leases]
    \cup {j \in [pc : {"claim"}, lease : Leases, op : Uses, as : Endings] :
               j.op = "delegated" => j.as = "expired"}
    \cup [pc : {"record"}, lease : Leases, as : Endings]

\* Files, calls, holders and counters have their types.
CapabilityTypeOK ==
    /\ active \in [Leases -> [no : Nat, exp : Nat]]
    /\ job \in [Clients -> Jobs]
    /\ issues \in [Leases -> 0..MaxIssues]
    /\ held \in [Clients -> Tokens \cup {<<>>}]
    /\ allowed \subseteq Leases \X (1..MaxIssues) \X Clients
    /\ leaseTime \in Nat

\* Where a token is and who has it, as OneShot sees it.
PlaceOf(t) ==
    LET holders == {c \in Clients : held[c] = t}
        users == {c \in Clients : <<t[1], t[2], c>> \in allowed} IN
    IF t[2] > issues[t[1]] THEN <<"new", {}>>
    ELSE IF active[t[1]].no = t[2] THEN <<"live", {}>>
    ELSE IF holders # {} THEN <<"held", holders>>
    ELSE IF users # {} THEN <<"granted", users>>
    ELSE <<"spent", {}>>

Tokened == INSTANCE OneShot WITH place <- [t \in Tokens |-> PlaceOf(t)]

\* The store implements one-shot tokens: a lease that was written is taken by
\* at most one of those who use, revoke or expire it, and granted to the one
\* that took it or to nobody, though files are read before they are renamed,
\* records are written after that and identifiers are issued twice at once.
OneShotTokens == Tokened!OneShotSpec
=============================================================================
