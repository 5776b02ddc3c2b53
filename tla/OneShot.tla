------------------------------ MODULE OneShot ------------------------------
(***************************************************************************)
(* What the store of capability leases promises: a lease is a token that   *)
(* one client may take, and that is granted to that client or to nobody.   *)
(* CapabilityLease implements it.                                          *)
(***************************************************************************)
CONSTANTS Tokens, Clients

VARIABLE place      \* of each token: its stage, and the clients that have it

New == <<"new", {}>>
Live == <<"live", {}>>
Held(c) == <<"held", {c}>>
Granted(c) == <<"granted", {c}>>
Spent == <<"spent", {}>>

OneShotInit == place = [t \in Tokens |-> New]

Moves(t, from, to) == place[t] = from /\ place' = [place EXCEPT ![t] = to]

Issued(t) == Moves(t, New, Live)
Taken(t, c) == Moves(t, Live, Held(c))
Allowed(t, c) == Moves(t, Held(c), Granted(c))
Gone(t) == Moves(t, Live, Spent) \/ \E c \in Clients : Moves(t, Held(c), Spent)

OneShotNext ==
    \E t \in Tokens :
        \/ Issued(t)
        \/ Gone(t)
        \/ \E c \in Clients : Taken(t, c) \/ Allowed(t, c)

OneShotSpec == OneShotInit /\ [][OneShotNext]_place
=============================================================================
