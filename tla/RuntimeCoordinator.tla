------------------------- MODULE RuntimeCoordinator -------------------------
(***************************************************************************)
(* RuntimeCoordinator of crates/agenterm-cu/src/runtime_coordinator.rs:    *)
(* the durable table of sessions and of the locks they lease on targets.   *)
(* Operators on the two tables; a lock is [session, id] or NoLock.         *)
(*                                                                         *)
(* Every call of the code first sweeps what has expired, so an expiry is   *)
(* visible to no one before it is visible to all; here it is one step of   *)
(* the clock.  The bearer leases of sessions are held by their callers.    *)
(***************************************************************************)
SessionStates == {"active", "ended", "expired"}

NoLock == [session |-> "none", id |-> 0]

session_verify(sessions, s) == sessions[s] = "active"

\* May session s have the lock of a target?  Its own lock is given again.
lock_free(sessions, locks, s, target) ==
  /\ session_verify(sessions, s)
  /\ locks[target] = NoLock \/ locks[target].session = s

\* The lock that lock_acquire returns: the one the session has, or a new one.
lock_acquired(locks, s, target, fresh) ==
  IF locks[target] = NoLock THEN [session |-> s, id |-> fresh]
  ELSE locks[target]

lock_held(sessions, locks, s, target, id) ==
  /\ locks[target].id = id
  /\ session_verify(sessions, s)

lock_release(locks, target) == [locks EXCEPT ![target] = NoLock]

\* session_end and sweep_expired both drop the locks of the session.
without_session(locks, s) ==
  [t \in DOMAIN locks |-> IF locks[t].session = s THEN NoLock ELSE locks[t]]
=============================================================================
