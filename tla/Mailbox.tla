------------------------------- MODULE Mailbox -------------------------------
(***************************************************************************)
(* The mailbox of one agent of a task (internal/orchestration/mailbox.go), *)
(* rebuilt from the event log.                                             *)
(*                                                                         *)
(* Deliver holds the lock while it appends one event per queued message,   *)
(* and returns the messages that it moved so far when one append fails.    *)
(* The process may die before it returns them.                             *)
(***************************************************************************)
EXTENDS EventLog, FiniteSets

CONSTANTS
    NumMessages,        \* messages, named by numbers: ties are broken by name
    Lifetime,           \* how long a message lives after it was queued, 0 for ever
    MaxTime,            \* bound: the clock
    MaxMailFaults,      \* bound: failed appends
    MaxMailCrashes      \* bound: deaths of the process

Messages == 1..NumMessages

ASSUME MailboxAssumption ==
    /\ {NumMessages, MaxTime, MaxMailFaults, MaxMailCrashes} \subseteq Nat
    /\ Lifetime \in [Messages -> Nat]

VARIABLES
    mlog,       \* the events of each message
    mtorn,      \* a line of the log is broken
    open,       \* a Mailbox is in memory
    box,        \* Mailbox.messages
    todo,       \* Deliver: the queued messages that it has yet to move
    out,        \* Deliver: the messages that it will return
    delivering, \* Deliver holds the lock
    presented,  \* how often each message was returned by Deliver
    acked,      \* messages whose Acknowledge reported success
    now, mFaults, mCrashes

mailLogVars == <<mlog, mtorn, mFaults>>
deliverVars == <<todo, out, delivering>>
mailVars == <<mailLogVars, deliverVars, open, box, presented, acked, now, mCrashes>>

NoMessage == [st |-> "none", rev |-> 0, at |-> 0, key |-> <<>>]

MailboxTypeOK ==
    /\ DOMAIN mlog = Messages
    /\ DOMAIN box = Messages
    /\ \A m \in Messages : box[m].st \in {"none", "queued", "delivered", "acknowledged", "expired"}
    /\ {mtorn, open, delivering} \subseteq BOOLEAN
    /\ todo \subseteq Messages
    /\ out \subseteq Messages
    /\ presented \in [Messages -> Nat]
    /\ acked \subseteq Messages
    /\ now \in 0..MaxTime

MailboxInit ==
    /\ mlog = [m \in Messages |-> <<>>]
    /\ mtorn = FALSE
    /\ open = FALSE
    /\ box = [m \in Messages |-> NoMessage]
    /\ todo = {}
    /\ out = {}
    /\ delivering = FALSE
    /\ presented = [m \in Messages |-> 0]
    /\ acked = {}
    /\ now = 0
    /\ mFaults = 0
    /\ mCrashes = 0

\* NewMailbox: the last event of each message.
OpenMailbox ==
    /\ ~open
    /\ ~mtorn
    /\ open' = TRUE
    /\ box' = [m \in Messages |-> IF mlog[m] = <<>> THEN NoMessage ELSE mlog[m][Len(mlog[m])]]
    /\ UNCHANGED <<mailLogVars, deliverVars, presented, acked, now, mCrashes>>

\* Mutant of AppendMessage: the message in memory does not wait for the event.
AppendMessageHotFirst(m, e, ok) ==
    \E o \in AppendOutcomes(mlog[m], mtorn, e) :
        /\ ok
        /\ mlog' = [mlog EXCEPT ![m] = o.log]
        /\ mtorn' = o.torn
        /\ box' = [box EXCEPT ![m] = e]
        /\ IF o.ok \/ mtorn THEN UNCHANGED mFaults
           ELSE mFaults < MaxMailFaults /\ mFaults' = mFaults + 1

\* appendLocked, and the message in memory when it worked.
AppendMessage(m, e, ok) ==
    \E o \in AppendOutcomes(mlog[m], mtorn, e) :
        /\ o.ok = ok
        /\ mlog' = [mlog EXCEPT ![m] = o.log]
        /\ mtorn' = o.torn
        /\ box' = IF ok THEN [box EXCEPT ![m] = e] ELSE box
        /\ IF ok \/ mtorn THEN UNCHANGED mFaults
           ELSE mFaults < MaxMailFaults /\ mFaults' = mFaults + 1

Unlocked == open /\ ~delivering

\* A message that is there already is returned or refused, and stays.
Queue(m) ==
    /\ Unlocked
    /\ box[m] = NoMessage
    /\ \E ok \in BOOLEAN :
          AppendMessage(m, [st |-> "queued", rev |-> 1, at |-> now, key |-> <<"queue">>], ok)
    /\ UNCHANGED <<open, deliverVars, presented, acked, now, mCrashes>>

\* persistUpdateLocked: the key has the revision, but not the status.
Updated(m, st) ==
    [st |-> st, rev |-> box[m].rev + 1, at |-> box[m].at, key |-> <<"update", box[m].rev + 1>>]

Deliver ==
    /\ Unlocked
    /\ delivering' = TRUE
    /\ todo' = {m \in Messages : box[m].st = "queued"}
    /\ out' = {}
    /\ UNCHANGED <<mailLogVars, open, box, presented, acked, now, mCrashes>>

\* The oldest message that is left.
Oldest(m) ==
    /\ m \in todo
    /\ \A n \in todo : box[m].at < box[n].at \/ (box[m].at = box[n].at /\ m <= n)
Expired(m) == Lifetime[m] > 0 /\ now >= box[m].at + Lifetime[m]

Hand(S) == presented' = [m \in Messages |-> IF m \in S THEN presented[m] + 1 ELSE presented[m]]

\* Mutant of DeliverOne: the message whose append failed is returned as well.
DeliverOneAnyway(m) ==
    /\ delivering
    /\ Oldest(m)
    /\ \E ok \in BOOLEAN :
          /\ AppendMessage(m, Updated(m, IF Expired(m) THEN "expired" ELSE "delivered"), ok)
          /\ todo' = IF ok THEN todo \ {m} ELSE {}
          /\ out' = IF Expired(m) THEN out ELSE out \cup {m}
    /\ UNCHANGED <<open, delivering, presented, acked, now, mCrashes>>

\* One turn of the loop; a failed append ends it.
DeliverOne(m) ==
    /\ delivering
    /\ Oldest(m)
    /\ \E ok \in BOOLEAN :
          /\ AppendMessage(m, Updated(m, IF Expired(m) THEN "expired" ELSE "delivered"), ok)
          /\ todo' = IF ok THEN todo \ {m} ELSE {}
          /\ out' = IF ok /\ ~Expired(m) THEN out \cup {m} ELSE out
    /\ UNCHANGED <<open, delivering, presented, acked, now, mCrashes>>

DeliverEnd ==
    /\ delivering
    /\ todo = {}
    /\ Hand(out)
    /\ out' = {}
    /\ delivering' = FALSE
    /\ UNCHANGED <<mailLogVars, open, box, todo, acked, now, mCrashes>>

\* Only the revision that the recipient saw is accepted, and only when the
\* message is delivered.
Acknowledge(m) ==
    /\ Unlocked
    /\ box[m].st = "delivered"
    /\ \E ok \in BOOLEAN :
          /\ AppendMessage(m, Updated(m, "acknowledged"), ok)
          /\ acked' = IF ok THEN acked \cup {m} ELSE acked
    /\ UNCHANGED <<open, deliverVars, presented, now, mCrashes>>

\* Deliver goes by the time of its call.
MailTick ==
    /\ now < MaxTime
    /\ ~delivering
    /\ now' = now + 1
    /\ UNCHANGED <<mailLogVars, deliverVars, open, box, presented, acked, mCrashes>>

MailCrash ==
    /\ open
    /\ mCrashes < MaxMailCrashes
    /\ mCrashes' = mCrashes + 1
    /\ open' = FALSE
    /\ box' = [m \in Messages |-> NoMessage]
    /\ todo' = {}
    /\ out' = {}
    /\ delivering' = FALSE
    /\ UNCHANGED <<mailLogVars, presented, acked, now>>

MailboxNext ==
    \/ OpenMailbox
    \/ \E m \in Messages : Queue(m) \/ DeliverOne(m) \/ Acknowledge(m)
    \/ Deliver
    \/ DeliverEnd
    \/ MailTick
    \/ MailCrash

MailboxSpec == MailboxInit /\ [][MailboxNext]_mailVars

-----------------------------------------------------------------------------
(* Properties.                                                              *)

\* Deliver hands a message out once, though appends fail and the process
\* starts over: it is "never presented again as newly queued work".
PresentedOnce == \A m \in Messages : presented[m] <= 1

\* An acknowledged message does not become outstanding work again.
AcknowledgedStays == open => \A m \in acked : box[m].st = "acknowledged"
=============================================================================
