------------------------------- MODULE Journal -------------------------------
(***************************************************************************)
(* The data structure of src/event_journal.rs: an epoch, a sequence        *)
(* counter and the bounded deque of the most recent event envelopes.  The  *)
(* operators are pure functions of a journal value; the modules that own a *)
(* journal (EventJournal, Workspace) keep it in a variable.                 *)
(*                                                                         *)
(* An envelope keeps what readers tell apart: its position and what it is  *)
(* about (kind, tab and correlation ids are one opaque value).             *)
(***************************************************************************)
EXTENDS Integers, Sequences, FiniteSetsExt

CONSTANT Capacity   \* DEFAULT_EVENT_CAPACITY, 4096 in the code

ASSUME CapacityAssumption == Capacity \in Nat

-----------------------------------------------------------------------------
\* capacity.max(1): a journal always retains at least its latest event.
capacity == IF Capacity = 0 THEN 1 ELSE Capacity

Event(e, n, about) == [epoch |-> e, sequence |-> n, about |-> about]

with_epoch(e) == [epoch |-> e, sequence |-> 0, events |-> <<>>]

position(j) == [epoch |-> j.epoch, sequence |-> j.sequence]

\* The oldest envelope is popped before the new one is pushed on a full deque.
commit(j, about) ==
  LET n == j.sequence + 1
      kept == IF Len(j.events) = capacity THEN Tail(j.events) ELSE j.events
  IN  [epoch |-> j.epoch, sequence |-> n,
       events |-> Append(kept, Event(j.epoch, n, about))]

-----------------------------------------------------------------------------
\* The envelopes later than `after` form a suffix, as sequences ascend.
Later(j, after) == {i \in 1..Len(j.events) : j.events[i].sequence > after}

FirstLater(j, after) == Min(Later(j, after))

\* filter(sequence > after).take(limit.max(1))
TakeLater(j, after, limit) ==
  LET end == FirstLater(j, after) + (IF limit = 0 THEN 1 ELSE limit) - 1
  IN  IF Later(j, after) = {}
      THEN <<>>
      ELSE SubSeq(j.events, FirstLater(j, after),
                  IF end < Len(j.events) THEN end ELSE Len(j.events))

Failure(code) == [code |-> code, events |-> <<>>]

\* Slip: the event right before the oldest retained one counts as lost.
read_after_early_gap(j, e, after, limit) ==
  IF e # j.epoch THEN Failure("server_restart")
  ELSE IF after > j.sequence THEN Failure("future_sequence")
  ELSE IF j.events # <<>> /\ after < j.events[1].sequence
       THEN Failure("journal_gap")
  ELSE [code |-> "ok", events |-> TakeLater(j, after, limit)]

read_after(j, e, after, limit) ==
  IF e # j.epoch THEN Failure("server_restart")
  ELSE IF after > j.sequence THEN Failure("future_sequence")
  ELSE IF j.events # <<>> /\ after + 1 < j.events[1].sequence
       THEN Failure("journal_gap")
  ELSE [code |-> "ok", events |-> TakeLater(j, after, limit)]
=============================================================================
