-------------------------- MODULE IdempotencyStore --------------------------
(***************************************************************************)
(* IdempotencyStore of crates/agenterm-cu/src/idempotency_store.rs: one    *)
(* durable record for each caller request id, reserved before the effect   *)
(* and closed after it.  Operators on the table of records.                *)
(*                                                                         *)
(* A fingerprint is any value; an outcome is what the caller is told when  *)
(* it repeats the request.  The completion token of a reservation is known *)
(* only to the process that made it, which is the only one to call         *)
(* finalize or mark_outcome_unknown, so it is not a field here.  Records   *)
(* are looked at within their retention window.                            *)
(***************************************************************************)
NoRequest == [state |-> "none", key |-> <<>>, outcome |-> "none"]

ReservedRequest(key) == [state |-> "reserved", key |-> key, outcome |-> "none"]

\* What reserve answers: Fresh, ReplayFinalized, Uncertain or a conflict.
\* Slip: a reservation whose outcome is unknown may be made again.
ReserveDecision_retries_unknown(reqs, r, key) ==
  CASE reqs[r].state \in {"none", "unknown"} -> "fresh"
    [] reqs[r].state # "none" /\ reqs[r].key # key -> "request_id_conflict"
    [] reqs[r].state = "finalized" /\ reqs[r].key = key -> "replay"
    [] OTHER -> "uncertain"

ReserveDecision(reqs, r, key) ==
  CASE reqs[r].state = "none" -> "fresh"
    [] reqs[r].state # "none" /\ reqs[r].key # key -> "request_id_conflict"
    [] reqs[r].state = "finalized" /\ reqs[r].key = key -> "replay"
    [] OTHER -> "uncertain"

reserve(reqs, r, key) == [reqs EXCEPT ![r] = ReservedRequest(key)]

finalize(reqs, r, outcome) ==
  [reqs EXCEPT ![r].state = "finalized", ![r].outcome = outcome]

mark_outcome_unknown(reqs, r) ==
  IF reqs[r].state = "reserved"
  THEN [reqs EXCEPT ![r].state = "unknown"] ELSE reqs
=============================================================================
