------------------------------ MODULE MCAgents ------------------------------
(***************************************************************************)
(* The durable parts of the agent runtime: a team in which two members     *)
(* wait for the first and may then work in parallel, a kernel whose flaky  *)
(* failure may be retried once, a mailbox with a message that expires and  *)
(* one that does not, two clients that issue, lend, use and revoke two     *)
(* capability leases, a patch of two files that exist and one that is      *)
(* created, and a request that starts two background processes where only  *)
(* one record has room.                                                    *)
(***************************************************************************)
EXTENDS AgentRuntime, TLC

CONSTANTS m1, m2, m3, o1, o2, o3, l1, l2, c1, c2

TeamOfThree == <<m1, m2, m3>>
FirstThenBoth == (m1 :> {}) @@ (m2 :> {m1}) @@ (m3 :> {m1})
TwoEach == [m \in Members |-> 2]

TwoFlakyOnePolicy == (o1 :> "flaky") @@ (o2 :> "flaky") @@ (o3 :> "policy")
RepairOrAsk == [flaky |-> "repair_code", policy |-> "request_user"]
OneRetry == [flaky |-> 1, policy |-> 0]

FirstExpires == [m \in Messages |-> IF m = 1 THEN 1 ELSE 0]

ThreeFiles == <<"a", "b", "c">>
=============================================================================
