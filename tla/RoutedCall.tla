----------------------------- MODULE RoutedCall -----------------------------
(***************************************************************************)
(* What callOperation promises the MCP client of a tool call, whichever    *)
(* replica has the workspace: the call is sent, worked on in one place at  *)
(* a time, and answered; it is sent a second time only when the first was  *)
(* answered, and answered that the route was lost; and what it returns is  *)
(* the answer to the last send, or an error of the route.  CallRouting     *)
(* implements it over messages that get lost and replicas that die.        *)
(***************************************************************************)
EXTENDS Naturals

CONSTANTS
    Calls, Replicas,
    Caller,     \* the replica that makes a call
    Retryable,  \* the calls that may be sent again
    Answers,    \* what may be answered to a call
    Failures,   \* the errors of the route
    Crashed,    \* the one its own caller gets from a replica that dies
    Again,      \* the answers after which a call is sent again
    None

VARIABLE call   \* of each call: the caller's phase and result, how often it
                \* was sent, and where the work is

Nowhere == [sent |-> {}, on |-> {}, back |-> {}]
Sent(g) == [sent |-> {g}, on |-> {}, back |-> {}]
On(g) == [sent |-> {}, on |-> {g}, back |-> {}]
Back(res) == [sent |-> {}, on |-> {}, back |-> {res}]

State(phase, result, sends, work) ==
    [phase |-> phase, result |-> result, sends |-> sends, work |-> work]

RoutedInit == call = [r \in Calls |-> State("new", None, 0, Nowhere)]

Becomes(r, new) == call' = [call EXCEPT ![r] = new]
Moves(r, work) == Becomes(r, State(call[r].phase, call[r].result, call[r].sends, work))

Ask(r) ==
    /\ call[r].phase = "new"
    /\ Becomes(r, State("asking", call[r].result, call[r].sends, call[r].work))

\* Only a caller that has no work anywhere sends.
Send(r, work) ==
    /\ call[r].phase = "asking" /\ call[r].work = Nowhere
    /\ Becomes(r, State("waiting", call[r].result, call[r].sends + 1, work))

\* The n-th send is answered: the caller asks again, or returns the answer.
Returns(r, res, n) ==
    IF n = 1 /\ r \in Retryable /\ res \in Again
    THEN Becomes(r, State("asking", call[r].result, n, Nowhere))
    ELSE Becomes(r, State("returned", res, n, Nowhere))

\* The call cannot be sent.
Refused(r, res) ==
    /\ call[r].phase = "asking" /\ call[r].work = Nowhere
    /\ Returns(r, res, call[r].sends + 1)

Arrives(r, g) == call[r].work = Sent(g) /\ Moves(r, On(g))
Replies(r, g, res) == g # Caller[r] /\ call[r].work = On(g) /\ Moves(r, Back(res))

\* The answer of the caller's own replica, or of another one, is returned.
Answered(r, res) ==
    /\ call[r].phase = "waiting"
    /\ call[r].work \in {On(Caller[r]), Back(res)}
    /\ Returns(r, res, call[r].sends)

Lost(r) ==
    /\ call[r].work.on = {}
    /\ Moves(r, Nowhere)

\* The caller returns an error while the work may go on elsewhere.
GivesUp(r, e) ==
    /\ call[r].phase \in {"asking", "waiting"}
    /\ call[r].work # On(Caller[r])
    /\ Becomes(r, State("returned", e, call[r].sends, call[r].work))

\* A replica dies: what was there or on its way there is lost, and its own
\* callers are told so.
Dies(g) ==
    call' = [r \in Calls |->
        LET mine == Caller[r] = g /\ call[r].phase \in {"asking", "waiting"}
            gone == \/ g \in call[r].work.sent \cup call[r].work.on
                    \/ Caller[r] = g /\ call[r].work.back # {} IN
        State(IF mine THEN "returned" ELSE call[r].phase,
              IF mine THEN Crashed ELSE call[r].result,
              call[r].sends,
              IF gone THEN Nowhere ELSE call[r].work)]

CallerNext(r) ==
    \/ Ask(r)
    \/ Send(r, On(Caller[r]))
    \/ \E g \in Replicas \ {Caller[r]} : Send(r, Sent(g))
    \/ \E e \in Failures : Refused(r, e) \/ GivesUp(r, e)
    \/ \E res \in Answers[r] : Answered(r, res)

WorkNext(r) ==
    \/ Lost(r)
    \/ \E g \in Replicas :
          Arrives(r, g) \/ \E res \in Answers[r] : Replies(r, g, res)

RoutedNext ==
    /\ call' # call
    /\ \/ \E r \in Calls : CallerNext(r) \/ WorkNext(r)
       \/ \E g \in Replicas : Dies(g)

RoutedSpec == RoutedInit /\ [][RoutedNext]_call
=============================================================================
