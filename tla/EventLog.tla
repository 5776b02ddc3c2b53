------------------------------ MODULE EventLog ------------------------------
(***************************************************************************)
(* The durable event log of a task (internal/runtimeevents/store.go) and   *)
(* the append under it (internal/state/state.go).                          *)
(*                                                                         *)
(* A log is one file; each kind of record in it is rebuilt from its own    *)
(* events alone, and idempotency keys name the record they are about.  So  *)
(* the models keep one sequence of events per record, and one flag for the *)
(* file: `torn' when a line of it cannot be parsed, after which every read *)
(* of the file fails (ErrCorruptLog), and with it every append.            *)
(*                                                                         *)
(* An event is a record with at least the field key, its idempotency key.  *)
(***************************************************************************)
EXTENDS Naturals, Sequences

KeysOf(s) == {s[i].key : i \in DOMAIN s}

\* What Store.Append may do with event e: the file after it, and whether the
\* caller is told that it worked.  An event whose key is there is not written
\* again.  An append may fail before it wrote anything, or after the line was
\* written (Sync, Close or Chmod), or with a part of the line in the file.
AppendOutcomes(s, torn, e) ==
    IF torn THEN {[log |-> s, torn |-> TRUE, ok |-> FALSE]}
    ELSE {[log |-> s, torn |-> FALSE, ok |-> FALSE]} \cup
         IF e.key \in KeysOf(s) THEN {[log |-> s, torn |-> FALSE, ok |-> TRUE]}
         ELSE {[log |-> Append(s, e), torn |-> FALSE, ok |-> TRUE],
               [log |-> Append(s, e), torn |-> FALSE, ok |-> FALSE],
               [log |-> s, torn |-> TRUE, ok |-> FALSE]}
=============================================================================
