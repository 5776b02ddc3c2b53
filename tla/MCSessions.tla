----------------------------- MODULE MCSessions -----------------------------
(***************************************************************************)
(* Sessions that several users share: a login or a legacy token with two   *)
(* requests at a time (TokenFamily); two calls of an MCP hub with a server *)
(* of its own and the managed one (McpHub), either while the sweeper and   *)
(* Close drop sessions or while another hub writes the registry; and two   *)
(* hubs that share the managed server (SharedBackend).  The parts share no *)
(* state; a behaviour exercises one of them.                               *)
(***************************************************************************)
EXTENDS TokenFamily, McpHub, SharedBackend, TLC

CONSTANTS u1, u2

VARIABLE part

sessionVars == <<familyVars, hubVars, backendVars, part>>

SessionsInit ==
    /\ FamilyInit
    /\ McpHubInit
    /\ SharedBackendInit
    /\ part \in {"token", "hub", "file", "backend"}
    /\ part # "token" => code

SessionsNext ==
    \/ part = "token" /\ FamilyNext /\ UNCHANGED <<hubVars, backendVars, part>>
    \/ part = "hub" /\ McpHubNext /\ elsewhere' = {} /\ UNCHANGED <<familyVars, backendVars, part>>
    \/ /\ part = "file" /\ McpHubNext /\ sweeping' = {} /\ ~closed'
       /\ UNCHANGED <<familyVars, backendVars, part>>
    \/ part = "backend" /\ SharedBackendNext /\ UNCHANGED <<familyVars, hubVars, part>>

SessionsSpec == SessionsInit /\ [][SessionsNext]_sessionVars

\* The two that share are requests, calls or hubs, and interchangeable.
EitherUser == Permutations({u1, u2})
=============================================================================
