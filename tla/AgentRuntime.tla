---------------------------- MODULE AgentRuntime ----------------------------
(***************************************************************************)
(* The durable parts of the agent runtime together: a team, its kernel,    *)
(* its mailbox, the capability leases, a patch set and the background      *)
(* processes.  The parts share no state; a behaviour exercises one of      *)
(* them.                                                                   *)
(***************************************************************************)
EXTENDS AgentOS, CodingKernel, Mailbox, CapabilityLease, Editing, Processes

VARIABLE part

agentsVars == <<osVars, kernelVars, mailVars, leaseVars, editVars, procVars, part>>

AgentsInit ==
    /\ OSInit
    /\ KernelInit
    /\ MailboxInit
    /\ CapabilityInit
    /\ EditingInit
    /\ ProcessesInit
    /\ part \in {"team", "kernel", "mailbox", "lease", "edit", "process"}

AgentsNext ==
    \/ /\ part = "team" /\ OSNext
       /\ UNCHANGED <<kernelVars, mailVars, leaseVars, editVars, procVars, part>>
    \/ /\ part = "kernel" /\ KernelNext
       /\ UNCHANGED <<osVars, mailVars, leaseVars, editVars, procVars, part>>
    \/ /\ part = "mailbox" /\ MailboxNext
       /\ UNCHANGED <<osVars, kernelVars, leaseVars, editVars, procVars, part>>
    \/ /\ part = "lease" /\ CapabilityNext
       /\ UNCHANGED <<osVars, kernelVars, mailVars, editVars, procVars, part>>
    \/ /\ part = "edit" /\ EditingNext
       /\ UNCHANGED <<osVars, kernelVars, mailVars, leaseVars, procVars, part>>
    \/ /\ part = "process" /\ ProcessesNext
       /\ UNCHANGED <<osVars, kernelVars, mailVars, leaseVars, editVars, part>>

AgentsSpec == AgentsInit /\ [][AgentsNext]_agentsVars

\* Every variable of the parts has its type.
AgentsTypeOK ==
    /\ OSTypeOK /\ KernelTypeOK /\ MailboxTypeOK
    /\ CapabilityTypeOK /\ EditingTypeOK /\ ProcessesTypeOK
=============================================================================
