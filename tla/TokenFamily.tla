----------------------------- MODULE TokenFamily -----------------------------
(***************************************************************************)
(* The refresh tokens of one login (internal/oauth/token_family.go) and    *)
(* the security version of its user (internal/cloud/user_security.go,      *)
(* store_auth.go).                                                         *)
(*                                                                         *)
(* A request of the token endpoint verifies the token, learns the user's   *)
(* security version from a cache in Redis or from the database, and then   *)
(* runs one script in Redis that rotates the family.  Requests of several  *)
(* replicas interleave, answers are lost and asked for again, and a        *)
(* password change may fall between any two steps.                         *)
(*                                                                         *)
(* Tokens are numbered in the order in which they are minted.  A family is *)
(* started by a login, or by the first use of a token from before families *)
(* (a legacy token, whose version is 0).                                   *)
(***************************************************************************)
EXTENDS Naturals, Sequences

CONSTANTS
    Requesters,     \* requests that are served at the same time
    Grace,          \* refreshRetryGrace
    RefreshTTL,     \* of a refresh token and of its family's key
    CacheTTL,       \* userSecurityCacheTTL
    RequestTime,    \* bound: how long a request takes
    MaxTokens,      \* bound: tokens that are minted
    MaxFamilyTime   \* bound: the clock

ASSUME TokenFamilyAssumption ==
    /\ {Grace, RefreshTTL, RequestTime, MaxTokens, MaxFamilyTime} \subseteq Nat
    /\ CacheTTL \in Nat \ {0}

NoFamily == [current |-> 0, previous |-> 0, rotated |-> 0, revoked |-> FALSE, until |-> 0]
NoCache == [ver |-> 0, until |-> 0]
NoRequest == [pc |-> "idle"]

VARIABLES
    family,     \* the family's key in Redis
    tokens,     \* when each token was issued, and its version
    known,      \* tokens that reached the client
    code,       \* the authorization code is still there
    cache,      \* the cached security state
    version,    \* codelocal_users.security_version
    changed,    \* when the password was changed, 0 for never
    req,        \* what each request does
    gave,       \* <<token presented, token given>> of every answer
    ended,      \* how many tokens there were when a replay was seen, 0 for none
    overdue,    \* a script ran for a token that had expired since it was verified
    lastOld,    \* when a token older than the password was last given a successor
    clock

familyKeys == <<family, cache>>
userVars == <<version, changed>>
answerVars == <<gave, ended, overdue, lastOld>>
familyVars == <<familyKeys, userVars, answerVars, tokens, known, code, req, clock>>

\* The clock starts at 1, since a rotatedAt of 0 stands for none.
FamilyInit ==
    /\ family = NoFamily
    /\ \/ tokens = <<>> /\ known = {} /\ code = TRUE
       \/ tokens = <<[issued |-> 1, ver |-> 0]>> /\ known = {1} /\ code = FALSE
    /\ cache = NoCache
    /\ version = 1
    /\ changed = 0
    /\ req = [r \in Requesters |-> NoRequest]
    /\ gave = {}
    /\ ended = 0
    /\ overdue = FALSE
    /\ lastOld = 0
    /\ clock = 1

Expired(t) == clock >= tokens[t].issued + RefreshTTL
Continues(r, q) == req' = [req EXCEPT ![r] = q]

-----------------------------------------------------------------------------
(* A request arrives.                                                       *)

\* The code is deleted by the one request that gets it.
Login(r) ==
    /\ req[r] = NoRequest
    /\ code
    /\ code' = FALSE
    /\ Continues(r, [pc |-> "state", token |-> 0, since |-> clock])
    /\ UNCHANGED <<familyKeys, userVars, answerVars, tokens, known, clock>>

\* verify: the token has not expired.
Present(r, t) ==
    /\ req[r] = NoRequest
    /\ t \in known
    /\ ~Expired(t)
    /\ Continues(r, [pc |-> "state", token |-> t, since |-> clock])
    /\ UNCHANGED <<familyKeys, userVars, answerVars, tokens, known, code, clock>>

-----------------------------------------------------------------------------
(* SecurityStateForUser.                                                    *)

Cached == clock < cache.until

\* validateTokenAgainstSecurityState: a token without a version is measured by
\* the time of the password.
Valid(t, state) ==
    IF tokens[t].ver > 0 THEN tokens[t].ver = state.ver
    ELSE state.changed = 0 \/ tokens[t].issued >= state.changed

\* The state is known: the request goes on or is refused.
Checked(r, state) ==
    LET q == req[r] IN
    Continues(r, IF q.token = 0 \/ Valid(q.token, state)
                   THEN [pc |-> "script", token |-> q.token, since |-> q.since,
                         ver |-> state.ver, at |-> clock]
                   ELSE NoRequest)

ReadCache(r) ==
    /\ req[r].pc = "state"
    /\ Cached
    /\ Checked(r, cache)
    /\ UNCHANGED <<familyKeys, userVars, answerVars, tokens, known, code, clock>>

ReadDatabase(r) ==
    /\ req[r].pc = "state"
    /\ ~Cached
    /\ Continues(r, [pc |-> "fill", token |-> req[r].token, since |-> req[r].since,
                     state |-> [ver |-> version, changed |-> changed]])
    /\ UNCHANGED <<familyKeys, userVars, answerVars, tokens, known, code, clock>>

\* Mutant of FillCache: the entry does not expire.
FillCacheForever(r, ok) ==
    LET s == req[r].state IN
    /\ req[r].pc = "fill"
    /\ cache' = IF ok THEN [ver |-> s.ver, changed |-> s.changed, until |-> MaxFamilyTime + 1]
                ELSE cache
    /\ Checked(r, s)
    /\ UNCHANGED <<family, userVars, answerVars, tokens, known, code, clock>>

\* cacheUserSecurityState, whose error is ignored.
FillCache(r, ok) ==
    LET s == req[r].state IN
    /\ req[r].pc = "fill"
    /\ cache' = IF ok THEN [ver |-> s.ver, changed |-> s.changed, until |-> clock + CacheTTL]
                ELSE cache
    /\ Checked(r, s)
    /\ UNCHANGED <<family, userVars, answerVars, tokens, known, code, clock>>

-----------------------------------------------------------------------------
(* The family.                                                              *)

\* tokenPair: a token that is new, or one that was minted before.
Mint(q) == tokens' = Append(tokens, [issued |-> q.at, ver |-> q.ver])

\* A token is older than the password that the user has now.
Older(t) ==
    IF tokens[t].ver > 0 THEN tokens[t].ver # version ELSE tokens[t].issued < changed

Answers(r, q, n) ==
    /\ Continues(r, [pc |-> "reply", token |-> n, since |-> q.since])
    /\ gave' = gave \cup {<<q.token, n>>}
    /\ overdue' = (overdue \/ (q.token > 0 /\ Expired(q.token)))
    /\ lastOld' = IF q.token > 0 /\ Older(q.token) THEN clock ELSE lastOld

\* The key of a family that begins with token t.
FirstFamily(t) ==
    [current |-> t, previous |-> 0, rotated |-> 0, revoked |-> FALSE, until |-> clock + RefreshTTL]

\* startTokenFamily.
Start(r) ==
    LET q == req[r] IN
    /\ q.pc = "script"
    /\ q.token = 0
    /\ family' = FirstFamily(1)
    /\ Mint(q)
    /\ Answers(r, q, 1)
    /\ UNCHANGED <<cache, userVars, known, code, ended, clock>>

\* The key as the script finds it: one that is gone is made again for the
\* token that is presented.
FamilyFor(t) ==
    IF clock < family.until THEN family
    ELSE FirstFamily(t)

\* Mutant of Rotate: the key is not kept for as long as the new token.
RotateShort(r) ==
    LET q == req[r]
        f == FamilyFor(q.token)
        n == Len(tokens) + 1 IN
    /\ q.pc = "script"
    /\ q.token > 0
    /\ ~f.revoked
    /\ f.current = q.token
    /\ n <= MaxTokens
    /\ family' = [f EXCEPT !.previous = q.token, !.current = n, !.rotated = q.at]
    /\ Mint(q)
    /\ Answers(r, q, n)
    /\ UNCHANGED <<cache, userVars, known, code, ended, clock>>

\* The current token is rotated.
Rotate(r) ==
    LET q == req[r]
        f == FamilyFor(q.token)
        n == Len(tokens) + 1 IN
    /\ q.pc = "script"
    /\ q.token > 0
    /\ ~f.revoked
    /\ f.current = q.token
    /\ n <= MaxTokens
    /\ family' = [f EXCEPT !.previous = q.token, !.current = n, !.rotated = q.at,
                           !.until = clock + RefreshTTL]
    /\ Mint(q)
    /\ Answers(r, q, n)
    /\ UNCHANGED <<cache, userVars, known, code, ended, clock>>

\* The token before it gets the same answer again, for a short while.
Retry(r) ==
    LET q == req[r]
        f == FamilyFor(q.token) IN
    /\ q.pc = "script"
    /\ q.token > 0
    /\ ~f.revoked
    /\ f.previous = q.token
    /\ f.rotated > 0
    /\ q.at <= f.rotated + Grace
    /\ Answers(r, q, f.current)
    /\ UNCHANGED <<familyKeys, userVars, tokens, known, code, ended, clock>>

\* Mutant of Refuse: a replay removes the key.
RefuseRemoves(r) ==
    LET q == req[r]
        f == FamilyFor(q.token)
        replay == ~f.revoked /\ q.token \notin {f.current, f.previous} IN
    /\ q.pc = "script"
    /\ q.token > 0
    /\ \/ f.revoked
       \/ f.previous = q.token /\ q.at > f.rotated + Grace
       \/ replay
    /\ family' = IF replay THEN NoFamily ELSE f
    /\ ended' = IF replay THEN Len(tokens) ELSE ended
    /\ Continues(r, NoRequest)
    /\ UNCHANGED <<cache, userVars, tokens, known, code, gave, overdue, lastOld, clock>>

\* After that it is refused; any older token revokes the family.
Refuse(r) ==
    LET q == req[r]
        f == FamilyFor(q.token)
        replay == ~f.revoked /\ q.token \notin {f.current, f.previous} IN
    /\ q.pc = "script"
    /\ q.token > 0
    /\ \/ f.revoked
       \/ f.previous = q.token /\ q.at > f.rotated + Grace
       \/ replay
    /\ family' = IF replay THEN [f EXCEPT !.revoked = TRUE, !.until = clock + RefreshTTL] ELSE f
    /\ ended' = IF replay THEN Len(tokens) ELSE ended
    /\ Continues(r, NoRequest)
    /\ UNCHANGED <<cache, userVars, tokens, known, code, gave, overdue, lastOld, clock>>

-----------------------------------------------------------------------------
(* Around them.                                                             *)

\* The answer arrives or is lost.
Reply(r, lost) ==
    /\ req[r].pc = "reply"
    /\ known' = IF lost THEN known ELSE known \cup {req[r].token}
    /\ Continues(r, NoRequest)
    /\ UNCHANGED <<familyKeys, userVars, answerVars, tokens, code, clock>>

\* A request fails: Redis or the database cannot be reached, or the server dies.
FailRequest(r) ==
    /\ req[r] # NoRequest
    /\ Continues(r, NoRequest)
    /\ UNCHANGED <<familyKeys, userVars, answerVars, tokens, known, code, clock>>

\* UpdateUserPasswordAndVersion; the cache is cleared after the update.
ChangePassword ==
    /\ version = 1
    /\ version' = 2
    /\ changed' = clock
    /\ UNCHANGED <<familyKeys, answerVars, tokens, known, code, req, clock>>

ClearCache ==
    /\ changed > 0
    /\ cache # NoCache
    /\ clock = changed
    /\ cache' = NoCache
    /\ UNCHANGED <<family, userVars, answerVars, tokens, known, code, req, clock>>

\* Time passes; Redis drops a cached state when its life is over.
FamilyTick ==
    /\ clock < MaxFamilyTime
    /\ \A r \in Requesters : req[r] # NoRequest => clock < req[r].since + RequestTime
    /\ clock' = clock + 1
    /\ cache' = IF clock' < cache.until THEN cache ELSE NoCache
    /\ UNCHANGED <<family, userVars, answerVars, tokens, known, code, req>>

FamilyNext ==
    \/ \E r \in Requesters :
          \/ Login(r)
          \/ \E t \in known : Present(r, t)
          \/ ReadCache(r) \/ ReadDatabase(r)
          \/ \E ok \in BOOLEAN : FillCache(r, ok) \/ Reply(r, ok)
          \/ Start(r) \/ Rotate(r) \/ Retry(r) \/ Refuse(r)
          \/ FailRequest(r)
    \/ ChangePassword
    \/ ClearCache
    \/ FamilyTick

FamilySpec == FamilyInit /\ [][FamilyNext]_familyVars

-----------------------------------------------------------------------------
(* Properties.                                                              *)

\* A refresh token has one successor, however often it is presented, by
\* requests at the same time, after lost answers, and when its family's key
\* expires: the family never forks.  Only a request that verified its token in
\* the last moment of its life and ran the script after it finds no key any more.
OneSuccessor == overdue \/ \A p \in gave : p[2] = p[1] + 1

\* Once a token from before the last two was presented, the family is over: no
\* token is minted any more, also not when the key of the revoked family has
\* expired.
ReplayEnds == ended > 0 /\ ~overdue => Len(tokens) = ended

\* A refresh token that is older than the password is not rotated for longer
\* than a request and a cached state last: a request that read the old state
\* may put it into the cache after it was cleared.
PasswordEnds == lastOld < changed + CacheTTL + 2 * RequestTime
=============================================================================
