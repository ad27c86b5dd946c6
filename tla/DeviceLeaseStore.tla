-------------------------- MODULE DeviceLeaseStore --------------------------
(***************************************************************************)
(* DeviceLeaseStore of crates/agenterm-cu/src/device_lease_store.rs: the   *)
(* durable record of every claim on a native device.  Operators on the     *)
(* table, a function from lease ids to records [state, session, device,    *)
(* lock].  "unused" is an id no claim has drawn yet, "evicted" one whose   *)
(* terminal record made room for another.                                  *)
(*                                                                         *)
(* A record's generation, owner nonce and owner identity are drawn with    *)
(* its random id and given to the one owner process launched for it, so    *)
(* the comparisons of checked_record_mut and require_owner hold for it.    *)
(***************************************************************************)
EXTENDS Naturals, FiniteSets

CONSTANT LeaseRecordLimit   \* MAX_RECORDS, 1024 in the code

ASSUME LeaseLimitAssumption == LeaseRecordLimit \in Nat \ {0}

-----------------------------------------------------------------------------
LeaseStates ==
  {"unused", "evicted", "claim_intent", "opening", "active", "released", "expired",
   "open_failed", "owner_lost", "cleanup_uncertain"}

is_terminal(state) == state \in {"released", "expired", "open_failed"}

blocks_refresh(state) ==
  state \in {"claim_intent", "opening", "active", "owner_lost",
             "cleanup_uncertain"}

Stored(leases) == {l \in DOMAIN leases : leases[l].state \notin {"unused", "evicted"}}

refresh_blockers(leases) == {l \in Stored(leases) : blocks_refresh(leases[l].state)}

\* evict_terminal_until_room: nothing below the limit, else one terminal
\* record.  The code takes the least recently updated one.
Evictable(leases) ==
  IF Cardinality(Stored(leases)) < LeaseRecordLimit THEN {{}}
  ELSE {{l} : l \in {k \in Stored(leases) : is_terminal(leases[k].state)}}

Evict(leases, out) ==
  [l \in DOMAIN leases |->
     IF l \in out THEN [leases[l] EXCEPT !.state = "evicted"] ELSE leases[l]]

\* Slip: only a claim or an active lease keeps its device busy.
device_busy_not_opening(leases, d) ==
  \E l \in Stored(leases) :
     leases[l].device = d
     /\ leases[l].state \in {"claim_intent", "active"}

device_busy(leases, d) ==
  \E l \in Stored(leases) :
     leases[l].device = d /\ ~is_terminal(leases[l].state)

reserve_claim(leases, l, s, d, lock) ==
  [leases EXCEPT ![l] = [state |-> "claim_intent", session |-> s,
                         device |-> d, lock |-> lock]]

-----------------------------------------------------------------------------
\* The transitions of a record: from where each may be taken.
From(step) ==
  CASE step \in {"claim_opening", "mark_unclaimed_open_failed"} -> {"claim_intent"}
    [] step \in {"mark_active", "mark_open_failed"} -> {"opening"}
    [] step \in {"mark_terminal", "publish_counters"} -> {"active"}
    [] step = "mark_owner_lost" -> {"opening", "active"}

transition(leases, l, step, state) ==
  IF leases[l].state \in From(step)
  THEN [leases EXCEPT ![l].state = state] ELSE leases
=============================================================================
