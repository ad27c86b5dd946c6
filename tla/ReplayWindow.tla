---------------------------- MODULE ReplayWindow ----------------------------
(***************************************************************************)
(* ReplayWindow of src/control_contract.rs: the bounded deque of receipts  *)
(* by which the server recognises a repeated control request.  Operators   *)
(* on a window value, a sequence of entries, oldest first.                 *)
(*                                                                         *)
(* A request is a record [id, op, tab, deadline].  Its dedupe key          *)
(* (operation id and payload fingerprint) is <<op, tab>>.  Of a receipt    *)
(* only the outcome is kept: positions, result and error texts are copied  *)
(* around by the code but never tested.                                    *)
(***************************************************************************)
EXTENDS Integers, Sequences, SequencesExt

CONSTANTS
  WindowCapacity,  \* CONTROL_REPLAY_CAPACITY, 512 in the code
  NoDeadline       \* deadline_unix_ms: None

ASSUME WindowAssumption == WindowCapacity \in Nat /\ NoDeadline \notin Nat

-----------------------------------------------------------------------------
Outcomes == {"accepted", "committed", "no_op", "outcome_unknown"}

window_capacity == IF WindowCapacity = 0 THEN 1 ELSE WindowCapacity

Queries == {"show-composer"}

dedupe_key(q) == <<q.op, q.tab>>

mutation_is_expired(q, now) ==
  q.op \notin Queries /\ q.deadline # NoDeadline /\ now >= q.deadline

\* Slots of the window with the request's id; `find` takes the first one.
SameId(w, q) == {i \in 1..Len(w) : w[i].id = q.id}
Finished(w) == {i \in 1..Len(w) : w[i].finalized}

Reserved(q) == [id |-> q.id, key |-> dedupe_key(q),
                outcome |-> "accepted", finalized |-> FALSE]

Replay(w, entry) == [kind |-> "replay", says |-> entry.outcome, window |-> w]
Reject(w, code) == [kind |-> "reject", says |-> code, window |-> w]
Execute(w) == [kind |-> "execute", says |-> "accepted", window |-> w]

MakeRoom(w) ==
  IF Len(w) = window_capacity THEN RemoveAt(w, Min(Finished(w))) ELSE w

-----------------------------------------------------------------------------
\* Slip: a request still being processed is not recognised.
admit_misses_running(w, q, now) ==
  LET hits == {i \in SameId(w, q) : w[i].finalized}
  IN  IF hits # {}
      THEN IF w[Min(hits)].key = dedupe_key(q)
           THEN Replay(w, w[Min(hits)])
           ELSE Reject(w, "request_id_conflict")
      ELSE IF mutation_is_expired(q, now)
           THEN Reject(w, "request_deadline_expired")
      ELSE IF Len(w) = window_capacity /\ Finished(w) = {}
           THEN Reject(w, "replay_window_saturated")
      ELSE Execute(Append(MakeRoom(w), Reserved(q)))

\* Slip: the deadline is tested before the lookup.
admit_deadline_first(w, q, now) ==
  IF mutation_is_expired(q, now) THEN Reject(w, "request_deadline_expired")
  ELSE IF SameId(w, q) # {}
       THEN IF w[Min(SameId(w, q))].key = dedupe_key(q)
            THEN Replay(w, w[Min(SameId(w, q))])
            ELSE Reject(w, "request_id_conflict")
  ELSE IF Len(w) = window_capacity /\ Finished(w) = {}
       THEN Reject(w, "replay_window_saturated")
  ELSE Execute(Append(MakeRoom(w), Reserved(q)))

\* Slip: a full window drops its oldest entry whatever its state.
admit_drops_oldest(w, q, now) ==
  IF SameId(w, q) # {}
  THEN IF w[Min(SameId(w, q))].key = dedupe_key(q)
       THEN Replay(w, w[Min(SameId(w, q))])
       ELSE Reject(w, "request_id_conflict")
  ELSE IF mutation_is_expired(q, now)
       THEN Reject(w, "request_deadline_expired")
  ELSE Execute(Append(IF Len(w) = window_capacity THEN Tail(w) ELSE w, Reserved(q)))

admit(w, q, now) ==
  IF SameId(w, q) # {}
  THEN IF w[Min(SameId(w, q))].key = dedupe_key(q)
       THEN Replay(w, w[Min(SameId(w, q))])
       ELSE Reject(w, "request_id_conflict")
  ELSE IF mutation_is_expired(q, now)
       THEN Reject(w, "request_deadline_expired")
  ELSE IF Len(w) = window_capacity /\ Finished(w) = {}
       THEN Reject(w, "replay_window_saturated")
  ELSE Execute(Append(MakeRoom(w), Reserved(q)))

-----------------------------------------------------------------------------
\* The slot complete and update_accepted may write: the entry of this very
\* request, not yet final.  They return an error for any other request.
Slots(w, q) ==
  {i \in SameId(w, q) : /\ i = Min(SameId(w, q))
                        /\ w[i].key = dedupe_key(q)
                        /\ ~w[i].finalized}

\* The final receipt of an entry, once.
Settled(entry, outcome) ==
  [entry EXCEPT !.outcome = outcome, !.finalized = TRUE]

complete(w, q, outcome) ==
  [i \in 1..Len(w) |->
     IF i \in Slots(w, q) /\ outcome # "accepted"
     THEN Settled(w[i], outcome) ELSE w[i]]

update_accepted(w, q, outcome) ==
  [i \in 1..Len(w) |->
     IF i \in Slots(w, q) /\ outcome = "accepted"
     THEN [w[i] EXCEPT !.outcome = outcome] ELSE w[i]]
=============================================================================
