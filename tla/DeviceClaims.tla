---------------------------- MODULE DeviceClaims ----------------------------
(***************************************************************************)
(* Native devices claimed by runtime sessions: the commands device-claim,  *)
(* device-release, device-renew, device-status, session-end and setup      *)
(* --apply of agenterm-cu (executor/device_leases.rs, executor/runtime.rs, *)
(* executor/setup.rs, executor/mod.rs), each run by a short-lived process, *)
(* and the resident owner that a claim leaves behind with the device open  *)
(* (device_lease_owner.rs, device_lease_ipc.rs).                           *)
(*                                                                         *)
(* The processes share three durable stores, each changed under a lock     *)
(* that is tried once: a call is applied as a whole or refused as a whole  *)
(* (contended, clock moved backward, write failed), which is the `up` of   *)
(* the actions.  They also share two OS locks, the refresh fence and one   *)
(* gate per session, which end with the process that holds them.  Any      *)
(* process and any owner may be killed between two calls.                  *)
(***************************************************************************)
EXTENDS IdempotencyStore, RuntimeCoordinator, DeviceLeaseStore

CONSTANTS
  Procs,       \* bound: command processes at work at the same time
  Sessions,    \* runtime sessions, all started
  Requests,    \* bound: caller request ids
  Devices,
  Leases,      \* bound: claims that get a lease record
  Earlier,     \* those that were claimed and released before
  LockIds      \* bound: ids of runtime locks that are told apart

ASSUME DeviceAssumption == LockIds \subseteq Nat \ {0} /\ Earlier \subseteq Leases

VARIABLES
  sessions,   \* runtime store: state of each session
  locks,      \* runtime store: lock on each device
  reqs,       \* request store
  leases,     \* device lease store
  proc,       \* the commands at work
  owner,      \* the resident owner of each lease
  claims,     \* history: leases reserved on behalf of each request id
  ended_ok    \* history: sessions whose session-end was answered ok

vars == <<sessions, locks, reqs, leases, proc, owner, claims, ended_ok>>

-----------------------------------------------------------------------------
None == "none"

Idle == [pc |-> "idle", req |-> None, sess |-> None, dev |-> None,
         lease |-> None, lock |-> 0, out |-> None, todo |-> {}]

NoOwner == [phase |-> "none", due |-> FALSE, client |-> None, goal |-> None]

Unused == [state |-> "unused", session |-> None, device |-> None, lock |-> 0]

\* Where a claim holds the refresh fence and the gate of its session: from
\* their acquisition to the return of device_claim_payload.
ClaimPcs == {"reserve", "spawn", "abort", "unlock", "wait", "classify"}

\* Slip: a claim is admitted without the gate of its session.
GatePcs_not_claims == {"rel", "rel_unlock", "ren", "end", "end_ipc"}

GatePcs == ClaimPcs \cup {"rel", "rel_unlock", "ren", "end", "end_ipc"}

\* Slip: a claim does not take the refresh fence.
FencePcs_setup_only == {"refresh"}

FencePcs == ClaimPcs \cup {"refresh"}

GateFree(s) == \A p \in Procs : ~(proc[p].pc \in GatePcs /\ proc[p].sess = s)
FenceFree == \A p \in Procs : proc[p].pc \notin FencePcs

\* A new lock id: one that no lock, record or process refers to.
LockIdsInUse ==
  {locks[d].id : d \in Devices} \cup {leases[l].lock : l \in Leases}
    \cup {proc[p].lock : p \in Procs}
FreshLockIds == LockIds \ LockIdsInUse
FreshLock == CHOOSE i \in FreshLockIds : TRUE

HandleOpen(l) == owner[l].phase \in {"opened", "serving"}
Alive(l) == owner[l].phase \notin {"none", "dead"}

Goto(p, pc) == proc' = [proc EXCEPT ![p].pc = pc]
Finish(p, pc, out) == proc' = [proc EXCEPT ![p].pc = pc, ![p].out = out]
Return(p) == proc' = [proc EXCEPT ![p] = Idle]
Die(l) == owner' = [owner EXCEPT ![l] = [NoOwner EXCEPT !.phase = "dead"]]

Init ==
  /\ sessions = [s \in Sessions |-> "active"]
  /\ locks = [d \in Devices |-> NoLock]
  /\ reqs = [r \in Requests |-> NoRequest]
  /\ leases = [l \in Leases |-> [Unused EXCEPT !.state = IF l \in Earlier THEN "released"
                                                      ELSE "unused"]]
  /\ proc = [p \in Procs |-> Idle]
  /\ owner = [l \in Leases |-> NoOwner]
  /\ claims = [r \in Requests |-> {}]
  /\ ended_ok = {}

-----------------------------------------------------------------------------
(***************************************************************************)
(* device-claim with a caller request identity.                            *)
(***************************************************************************)

\* execute_with_request_identity up to the effect: the session is verified,
\* the request reserved, the audit record begun.  A request that is not
\* fresh is answered from its record and has no effect.
ClaimBegin(p, r, s, d) ==
  /\ proc[p].pc = "idle"
  /\ session_verify(sessions, s)
  /\ ReserveDecision(reqs, r, <<s, d>>) = "fresh"
  /\ reqs' = reserve(reqs, r, <<s, d>>)
  /\ proc' = [proc EXCEPT ![p] = [Idle EXCEPT !.pc = "admit", !.req = r,
                                              !.sess = s, !.dev = d]]
  /\ UNCHANGED <<sessions, locks, leases, owner, claims, ended_ok>>

\* The audit record cannot be begun: the request is closed as failed,
\* whether or not that can be stored.
AuditUnavailable(p) ==
  /\ proc[p].pc = "admit"
  /\ \E up \in BOOLEAN :
        reqs' = IF up THEN finalize(reqs, proc[p].req, "failed") ELSE reqs
  /\ Return(p)
  /\ UNCHANGED <<sessions, locks, leases, owner, claims, ended_ok>>

\* The fence and the gate, each tried once, then the lock of the device.
\* An error after the lock was given and before the record is reserved
\* leaves the lock to its expiry.
Admit(p) ==
  LET s == proc[p].sess
      d == proc[p].dev
  IN  /\ proc[p].pc = "admit"
      /\ FenceFree /\ GateFree(s)
      /\ lock_free(sessions, locks, s, d)
      /\ FreshLockIds # {}
      /\ LET lock == lock_acquired(locks, s, d, FreshLock)
         IN  /\ locks' = [locks EXCEPT ![d] = lock]
             /\ \/ proc' = [proc EXCEPT ![p].pc = "reserve", ![p].lock = lock.id]
                \/ Finish(p, "settle", "failed")
      /\ UNCHANGED <<sessions, reqs, leases, owner, claims, ended_ok>>

\* Any of the calls of Admit is refused.
AdmitRefused(p) ==
  /\ proc[p].pc = "admit"
  /\ Finish(p, "settle", "failed")
  /\ UNCHANGED <<sessions, locks, reqs, leases, owner, claims, ended_ok>>

ReserveClaim(p, l) ==
  /\ proc[p].pc = "reserve"
  /\ leases[l].state = "unused"
  /\ ~device_busy(leases, proc[p].dev)
  /\ \E out \in Evictable(leases) :
        leases' = reserve_claim(Evict(leases, out), l, proc[p].sess,
                                proc[p].dev, proc[p].lock)
  /\ claims' = [claims EXCEPT ![proc[p].req] = @ \cup {l}]
  /\ proc' = [proc EXCEPT ![p].pc = "spawn", ![p].lease = l]
  /\ UNCHANGED <<sessions, locks, reqs, owner, ended_ok>>

\* device_exclusive_busy, device_lease_limit or the store refused: the lock
\* is given back.
ReserveRefused(p) ==
  /\ proc[p].pc = "reserve"
  /\ Finish(p, "unlock", "failed")
  /\ UNCHANGED <<sessions, locks, reqs, leases, owner, claims, ended_ok>>

\* The owner is started detached and its launch document delivered, or it
\* could not be.
Spawn(p) ==
  /\ proc[p].pc = "spawn"
  /\ \/ /\ owner' = [owner EXCEPT ![proc[p].lease].phase = "launched"]
        /\ Goto(p, "wait")
     \/ /\ Finish(p, "abort", "failed")
        /\ UNCHANGED owner
  /\ UNCHANGED <<sessions, locks, reqs, leases, claims, ended_ok>>

\* abort_unclaimed_claim, first half: the second is Unlock.
Abort(p) ==
  /\ proc[p].pc = "abort"
  /\ \E up \in BOOLEAN :
        leases' = IF up THEN transition(leases, proc[p].lease,
                               "mark_unclaimed_open_failed", "open_failed")
                  ELSE leases
  /\ Goto(p, "unlock")
  /\ UNCHANGED <<sessions, locks, reqs, owner, claims, ended_ok>>

\* The lock given back on the way out of a failed claim; an error of this
\* call does not change the answer.
Unlock(p) ==
  LET d == proc[p].dev
      held == lock_held(sessions, locks, proc[p].sess, d, proc[p].lock)
  IN  /\ proc[p].pc = "unlock"
      /\ \E up \in BOOLEAN :
            locks' = IF up /\ held THEN lock_release(locks, d) ELSE locks
      /\ Goto(p, "settle")
      /\ UNCHANGED <<sessions, reqs, leases, owner, claims, ended_ok>>

Ready(state) == state = "active"

\* One turn of the loop that waits for the owner, five seconds at most.
Wait(p) ==
  LET l == proc[p].lease
      state == leases[l].state
  IN  /\ proc[p].pc = "wait"
      /\ \/ /\ Ready(state)
            /\ Finish(p, "settle", l)
         \/ /\ state = "open_failed" /\ owner[l].phase = "dead"
            /\ Finish(p, "unlock", "failed")
         \/ /\ state \in {"owner_lost", "cleanup_uncertain", "released",
                          "expired", "evicted"}
            /\ Finish(p, "settle", "unknown")
         \/ Finish(p, "settle", "failed")        \* the store cannot be read
         \/ /\ owner[l].phase = "dead"           \* since the record was read
            /\ Goto(p, "classify")
      /\ UNCHANGED <<sessions, locks, reqs, leases, owner, claims, ended_ok>>

\* The five seconds are over: the owner is killed and waited for.
WaitTimeout(p) ==
  /\ proc[p].pc = "wait"
  /\ Die(proc[p].lease)
  /\ Goto(p, "classify")
  /\ UNCHANGED <<sessions, locks, reqs, leases, claims, ended_ok>>

\* classify_owner_exit, of an owner that is dead.
Classify(p) ==
  LET l == proc[p].lease
      state == leases[l].state
      held == lock_held(sessions, locks, proc[p].sess, proc[p].dev, leases[l].lock)
  IN  /\ proc[p].pc = "classify"
      /\ \/ /\ state = "claim_intent"
            /\ Finish(p, "abort", "failed")
            /\ UNCHANGED <<locks, leases>>
         \/ /\ state = "open_failed" /\ held
            /\ locks' = lock_release(locks, proc[p].dev)
            /\ Finish(p, "settle", "failed")
            /\ UNCHANGED leases
         \/ /\ state \in {"released", "expired"}
            /\ Finish(p, "unlock", "failed")
            /\ UNCHANGED <<locks, leases>>
         \/ /\ state \in {"opening", "active"}
            /\ leases' = transition(leases, l, "mark_owner_lost", "owner_lost")
            /\ Finish(p, "settle", "unknown")
            /\ UNCHANGED locks
         \/ /\ state \notin {"claim_intent", "released", "expired"}
            /\ Finish(p, "settle", "unknown")
            /\ UNCHANGED <<locks, leases>>
      /\ UNCHANGED <<sessions, reqs, owner, claims, ended_ok>>

\* The end of execute_with_request_identity: the outcome record of the audit,
\* then the receipt.  When the audit or finalize fails, the outcome is marked
\* unknown if that can be stored.
Settle(p) ==
  LET r == proc[p].req
  IN  /\ proc[p].pc = "settle"
      /\ \/ /\ proc[p].out # "unknown"
            /\ reqs' = finalize(reqs, r, proc[p].out)
         \/ reqs' \in {reqs, mark_outcome_unknown(reqs, r)}
      /\ Return(p)
      /\ UNCHANGED <<sessions, locks, leases, owner, claims, ended_ok>>

-----------------------------------------------------------------------------
(***************************************************************************)
(* device-release, device-renew and device-status of the session's lease.  *)
(***************************************************************************)

\* The gate, session_verify and checked_session_record.  The caller knows
\* the lease by the answer to its claim.
MayCommand(p, l) ==
  /\ proc[p].pc = "idle"
  /\ l \in Stored(leases)
  /\ \E r \in Requests : reqs[r].state = "finalized" /\ reqs[r].outcome = l
  /\ GateFree(leases[l].session)
  /\ session_verify(sessions, leases[l].session)

Command(p, l, pc) ==
  proc' = [proc EXCEPT ![p] = [Idle EXCEPT !.pc = pc, !.sess = leases[l].session,
                                           !.dev = leases[l].device, !.lease = l]]

ReleaseBegin(p, l) ==
  /\ MayCommand(p, l)
  /\ Command(p, l, "rel")
  /\ UNCHANGED <<sessions, locks, reqs, leases, owner, claims, ended_ok>>

\* The lock is leased again; when it is not the lock of the record it is
\* given back, if the store lets it, and the renewal refused.
RenewBegin(p, l) ==
  LET s == leases[l].session
      d == leases[l].device
      lock == lock_acquired(locks, s, d, FreshLock)
  IN  /\ MayCommand(p, l)
      /\ lock_free(sessions, locks, s, d)
      /\ FreshLockIds # {}
      /\ \/ /\ lock.id = leases[l].lock
            /\ Command(p, l, "ren")
            /\ UNCHANGED locks
         \/ /\ lock.id # leases[l].lock
            /\ locks' \in {[locks EXCEPT ![d] = lock], lock_release(locks, d)}
            /\ UNCHANGED proc
      /\ UNCHANGED <<sessions, reqs, leases, owner, claims, ended_ok>>

\* After the owner's answer to device-release: the lock of the record is
\* given back, and the command answers.
ReleaseDone(p) ==
  LET d == proc[p].dev
      held == lock_held(sessions, locks, proc[p].sess, d, leases[proc[p].lease].lock)
  IN  /\ proc[p].pc = "rel_unlock"
      /\ \E up \in BOOLEAN :
            locks' = IF up /\ held THEN lock_release(locks, d) ELSE locks
      /\ Return(p)
      /\ UNCHANGED <<sessions, reqs, leases, owner, claims, ended_ok>>

\* reconcile_records, of device-status and device-claims.
Reconcile(l) ==
  /\ leases[l].state \in {"opening", "active"}
  /\ owner[l].phase = "dead"
  /\ leases' = transition(leases, l, "mark_owner_lost", "owner_lost")
  /\ UNCHANGED <<sessions, locks, reqs, proc, owner, claims, ended_ok>>

-----------------------------------------------------------------------------
(***************************************************************************)
(* session-end: the session ends with its locks, then stop_session_devices *)
(* goes through the records of the session as they were listed.            *)
(***************************************************************************)
Listed(s) == {<<l, leases[l].state>> : l \in {k \in Stored(leases) : leases[k].session = s}}

\* proc.out is "failed" once one record could not be shown released.
EndBegin(p, s) ==
  /\ proc[p].pc = "idle"
  /\ GateFree(s)
  /\ sessions[s] \in {"active", "ended"}
  /\ sessions' = [sessions EXCEPT ![s] = "ended"]
  /\ locks' = without_session(locks, s)
  /\ \E todo \in {{}, Listed(s)} :
        proc' = [proc EXCEPT ![p] = [Idle EXCEPT !.pc = "end", !.sess = s,
                   !.todo = todo, !.out = IF todo = Listed(s) THEN None ELSE "failed"]]
  /\ UNCHANGED <<reqs, leases, owner, claims, ended_ok>>

EndStep(p, item) ==
  LET l == item[1]
      Next_(out) == proc' = [proc EXCEPT ![p].todo = @ \ {item}, ![p].out = out]
  IN  /\ proc[p].pc = "end"
      /\ item \in proc[p].todo
      /\ \/ /\ is_terminal(item[2])
            /\ Next_(proc[p].out)
            /\ UNCHANGED leases
         \/ /\ item[2] = "claim_intent" /\ leases[l].state = "claim_intent"
            /\ leases' = transition(leases, l, "mark_unclaimed_open_failed", "open_failed")
            /\ Next_(proc[p].out)
         \/ /\ item[2] = "claim_intent"
            /\ Next_("failed")
            /\ UNCHANGED leases
         \/ /\ item[2] \in {"owner_lost", "cleanup_uncertain"}
            /\ Next_("failed")
            /\ UNCHANGED leases
         \/ /\ item[2] \in {"opening", "active"}
            /\ proc' = [proc EXCEPT ![p].todo = @ \ {item}, ![p].pc = "end_ipc",
                                    ![p].lease = l]
            /\ UNCHANGED leases
      /\ UNCHANGED <<sessions, locks, reqs, owner, claims, ended_ok>>

EndDone(p) ==
  /\ proc[p].pc = "end" /\ proc[p].todo = {}
  /\ ended_ok' = IF proc[p].out = "failed" THEN ended_ok
                 ELSE ended_ok \cup {proc[p].sess}
  /\ Return(p)
  /\ UNCHANGED <<sessions, locks, reqs, leases, owner, claims>>

-----------------------------------------------------------------------------
(***************************************************************************)
(* setup --apply: ready only when no record holds up a refresh; the fence  *)
(* is held while the launcher is published.  The other answer, "deferred", *)
(* claims nothing.                                                         *)
(***************************************************************************)
RefreshBegin(p) ==
  /\ proc[p].pc = "idle"
  /\ FenceFree
  /\ refresh_blockers(leases) = {}
  /\ proc' = [proc EXCEPT ![p] = [Idle EXCEPT !.pc = "refresh"]]
  /\ UNCHANGED <<sessions, locks, reqs, leases, owner, claims, ended_ok>>

RefreshDone(p) ==
  /\ proc[p].pc = "refresh"
  /\ Return(p)
  /\ UNCHANGED <<sessions, locks, reqs, leases, owner, claims, ended_ok>>

-----------------------------------------------------------------------------
(***************************************************************************)
(* A client of an owner waits at pc "rel", "ren" or "end_ipc" for its      *)
(* answer.  A request whose client has gone makes the owner close as in    *)
(* OwnerDrop, because the answer cannot be written.                        *)
(***************************************************************************)
Asks(p, l, pc) == proc[p].pc = pc /\ proc[p].lease = l

\* The state the owner reports, or "error".
Answered(p, state) ==
  CASE proc[p].pc = "rel" /\ state # "error" ->
         [proc EXCEPT ![p].pc = "rel_unlock", ![p].out = state]
    [] proc[p].pc = "end_ipc" ->
         [proc EXCEPT ![p].pc = "end", ![p].lease = None,
                      ![p].out = IF state = "released" THEN @ ELSE "failed"]
    [] OTHER -> [proc EXCEPT ![p] = Idle]

\* The owner that was serving p finds that its client has gone.
Disconnected(p) ==
  [l \in Leases |-> IF owner[l].client = p
                    THEN [owner[l] EXCEPT !.client = None] ELSE owner[l]]

\* No answer: the owner cannot be reached, has died or takes too long.
IpcFails(p) ==
  /\ proc[p].pc \in {"rel", "ren", "end_ipc"}
  /\ proc' = Answered(p, "error")
  /\ owner' = Disconnected(p)
  /\ UNCHANGED <<sessions, locks, reqs, leases, claims, ended_ok>>

\* The command process is killed; the OS frees its fence and its gate.
Crash(p) ==
  /\ proc[p].pc # "idle"
  /\ Return(p)
  /\ owner' = Disconnected(p)
  /\ UNCHANGED <<sessions, locks, reqs, leases, claims, ended_ok>>

-----------------------------------------------------------------------------
(***************************************************************************)
(* The resident owner: run_resident and start_owner_from_launch.           *)
(***************************************************************************)
Phase(l, phase) == owner' = [owner EXCEPT ![l].phase = phase]

\* The endpoint is bound, or the claim is given up as far as the store lets.
OwnerBind(l) ==
  /\ owner[l].phase = "launched"
  /\ \/ Phase(l, "bound") /\ UNCHANGED leases
     \/ /\ Die(l)
        /\ leases' = transition(leases, l, "mark_unclaimed_open_failed", "open_failed")
  /\ UNCHANGED <<sessions, locks, reqs, proc, claims, ended_ok>>

\* claim_opening, or the owner ends: the claim was given up meanwhile.
OwnerClaim(l) ==
  /\ owner[l].phase = "bound"
  /\ leases[l].state \in From("claim_opening")
  /\ leases' = transition(leases, l, "claim_opening", "opening")
  /\ Phase(l, "opening")
  /\ UNCHANGED <<sessions, locks, reqs, proc, claims, ended_ok>>

\* open_exclusive: the kernel admits one owner of the device.
OwnerOpen(l) ==
  /\ owner[l].phase = "opening"
  /\ \/ /\ \A k \in Leases : leases[k].device = leases[l].device => ~HandleOpen(k)
        /\ Phase(l, "opened")
        /\ UNCHANGED leases
     \/ /\ leases' = transition(leases, l, "mark_open_failed", "open_failed")
        /\ Die(l)
  /\ UNCHANGED <<sessions, locks, reqs, proc, claims, ended_ok>>

OwnerActivate(l) ==
  /\ owner[l].phase = "opened"
  /\ leases[l].state \in From("mark_active")
  /\ leases' = transition(leases, l, "mark_active", "active")
  /\ Phase(l, "serving")
  /\ UNCHANGED <<sessions, locks, reqs, proc, claims, ended_ok>>

\* finish: the device is closed, restored or not, before the record says so.
\* Slip: the record says released before the device is closed.
Closing_record_first(l, p, goal) ==
  /\ owner' = [owner EXCEPT ![l].client = p, ![l].goal = goal]
  /\ leases' = [leases EXCEPT ![l].state = goal]

Closing(l, p, goal) ==
  /\ owner' = [owner EXCEPT ![l].phase = "closing", ![l].client = p, ![l].goal = goal]
  /\ UNCHANGED leases

\* expire_if_due, at every turn of the loop.
IsDue(l) == owner[l].due

OwnerExpire(l) ==
  /\ IsDue(l)
  /\ \/ /\ owner[l].phase = "serving"
        /\ \E goal \in {"expired", "cleanup_uncertain"} : Closing(l, None, goal)
     \/ /\ owner[l].phase = "lingering"
        /\ Die(l)
        /\ UNCHANGED leases
  /\ UNCHANGED <<sessions, locks, reqs, proc, claims, ended_ok>>

\* A release, asked for by device-release or session-end.
OwnerRelease(l, p) ==
  /\ Asks(p, l, "rel") \/ Asks(p, l, "end_ipc")
  /\ owner[l].phase = "serving"
  /\ \E goal \in {"released", "cleanup_uncertain"} : Closing(l, p, goal)
  /\ UNCHANGED <<sessions, locks, reqs, proc, claims, ended_ok>>

\* The endpoint fails or a request cannot be answered: the owner ends, and
\* its Drop closes the device.
OwnerDrop(l) ==
  /\ \/ /\ owner[l].phase = "serving"
        /\ \E goal \in {"released", "cleanup_uncertain"} : Closing(l, None, goal)
     \/ /\ owner[l].phase = "lingering"
        /\ Die(l)
        /\ UNCHANGED leases
  /\ UNCHANGED <<sessions, locks, reqs, proc, claims, ended_ok>>

\* mark_terminal.  When it is refused, an owner that was asked to release
\* answers with an error and goes on, the device closed; any other ends.
OwnerMark(l) ==
  LET p == owner[l].client
  IN  /\ owner[l].phase = "closing"
      /\ \/ /\ leases' = transition(leases, l, "mark_terminal", owner[l].goal)
            /\ proc' = IF p = None THEN proc ELSE Answered(p, owner[l].goal)
            /\ Die(l)
         \/ /\ p # None
            /\ proc' = Answered(p, "error")
            /\ owner' = [owner EXCEPT ![l].phase = "lingering", ![l].client = None,
                                      ![l].goal = None]
            /\ UNCHANGED leases
         \/ /\ p = None
            /\ Die(l)
            /\ UNCHANGED <<proc, leases>>
      /\ UNCHANGED <<sessions, locks, reqs, claims, ended_ok>>

\* A release asked of an owner that has closed its device already is
\* answered with the state of the record, and ends the owner.
OwnerReleaseAgain(l, p) ==
  /\ Asks(p, l, "rel") \/ Asks(p, l, "end_ipc")
  /\ owner[l].phase = "lingering"
  /\ proc' = Answered(p, leases[l].state)
  /\ Die(l)
  /\ UNCHANGED <<sessions, locks, reqs, leases, claims, ended_ok>>

\* The deadline moves on, and the record is told.  Any other answer is an
\* error, as in IpcFails.
OwnerRenew(l, p) ==
  /\ Asks(p, l, "ren")
  /\ owner[l].phase = "serving" /\ ~IsDue(l)
  /\ proc' = Answered(p, "renewed")
  /\ UNCHANGED <<sessions, locks, reqs, leases, owner, claims, ended_ok>>

OwnerCrash(l) ==
  /\ Alive(l)
  /\ Die(l)
  /\ UNCHANGED <<sessions, locks, reqs, leases, proc, claims, ended_ok>>

-----------------------------------------------------------------------------
(***************************************************************************)
(* The clock.                                                              *)
(***************************************************************************)
SessionExpires(s) ==
  /\ sessions[s] = "active"
  /\ sessions' = [sessions EXCEPT ![s] = "expired"]
  /\ locks' = without_session(locks, s)
  /\ UNCHANGED <<reqs, leases, proc, owner, claims, ended_ok>>

LockExpires(d) ==
  /\ locks[d] # NoLock
  /\ locks' = lock_release(locks, d)
  /\ UNCHANGED <<sessions, reqs, leases, proc, owner, claims, ended_ok>>

DeadlinePasses(l) ==
  /\ owner[l].phase \in {"serving", "lingering"}
  /\ ~owner[l].due
  /\ owner' = [owner EXCEPT ![l].due = TRUE]
  /\ UNCHANGED <<sessions, locks, reqs, leases, proc, claims, ended_ok>>

-----------------------------------------------------------------------------
ProcStep(p) ==
  \/ \E r \in Requests, s \in Sessions, d \in Devices : ClaimBegin(p, r, s, d)
  \/ AuditUnavailable(p) \/ Admit(p) \/ AdmitRefused(p)
  \/ \E l \in Leases : ReserveClaim(p, l)
  \/ ReserveRefused(p) \/ Spawn(p) \/ Abort(p) \/ Unlock(p) \/ Wait(p)
  \/ WaitTimeout(p) \/ Classify(p) \/ Settle(p)
  \/ \E l \in Leases : ReleaseBegin(p, l) \/ RenewBegin(p, l)
  \/ ReleaseDone(p) \/ EndDone(p)
  \/ \E s \in Sessions : EndBegin(p, s)
  \/ \E item \in proc[p].todo : EndStep(p, item)
  \/ RefreshBegin(p) \/ RefreshDone(p) \/ IpcFails(p) \/ Crash(p)

OwnerStep(l) ==
  \/ OwnerBind(l) \/ OwnerClaim(l) \/ OwnerOpen(l) \/ OwnerActivate(l)
  \/ OwnerExpire(l) \/ OwnerMark(l) \/ OwnerDrop(l) \/ OwnerCrash(l)

Next ==
  \/ \E p \in Procs : ProcStep(p)
  \/ \E l \in Leases : OwnerStep(l) \/ Reconcile(l)
  \/ \E l \in Leases, p \in Procs :
        OwnerRelease(l, p) \/ OwnerReleaseAgain(l, p) \/ OwnerRenew(l, p)
  \/ \E s \in Sessions : SessionExpires(s)
  \/ \E d \in Devices : LockExpires(d)
  \/ \E l \in Leases : DeadlinePasses(l)

Spec == Init /\ [][Next]_vars

-----------------------------------------------------------------------------
Pcs == GatePcs \cup FencePcs \cup {"idle", "admit", "settle"}
Outs == {None, "failed", "unknown"} \cup Leases \cup LeaseStates

RequestType == [state : {"none", "reserved", "unknown", "finalized"},
                key : {<<>>} \cup (Sessions \X Devices), outcome : Outs]
LeaseType == [state : LeaseStates, session : Sessions \cup {None},
              device : Devices \cup {None}, lock : LockIds \cup {0}]
ProcType == [pc : Pcs, req : Requests \cup {None}, sess : Sessions \cup {None},
             dev : Devices \cup {None}, lease : Leases \cup {None}, lock : LockIds \cup {0},
             out : Outs, todo : SUBSET (Leases \X LeaseStates)]
OwnerType == [phase : {"none", "launched", "bound", "opening", "opened", "serving",
                       "closing", "lingering", "dead"},
              due : BOOLEAN, client : Procs \cup {None},
              goal : {None, "released", "expired", "cleanup_uncertain"}]

\* The stores, the commands at work and the owners.
TypeOK ==
  /\ sessions \in [Sessions -> SessionStates]
  /\ locks \in [Devices -> [session : Sessions \cup {None}, id : LockIds \cup {0}]]
  /\ reqs \in [Requests -> RequestType] /\ leases \in [Leases -> LeaseType]
  /\ proc \in [Procs -> ProcType] /\ owner \in [Leases -> OwnerType]
  /\ claims \in [Requests -> SUBSET Leases] /\ ended_ok \subseteq Sessions

\* A device is never open behind the back of its record: while an owner has
\* it open, the record says opening or active, so that device-claims shows
\* it, another claim is refused and a refresh is held up.
OpenIsRecorded ==
  \A l \in Leases : HandleOpen(l) => leases[l].state \in {"opening", "active"}

\* One owner at most is at work on a device, from the moment it takes up its
\* claim: the store alone sees to it, before the kernel has to.
OneOwner ==
  \A k, l \in Leases :
     /\ leases[k].device = leases[l].device
     /\ owner[k].phase \in {"opening", "opened", "serving"}
     /\ owner[l].phase \in {"opening", "opened", "serving"}
     => k = l

\* When session-end has answered ok, no device of the session is open nor
\* will be, whatever claim was under way or was left half done.
EndedMeansClosed ==
  \A l \in Leases :
     leases[l].session \in ended_ok => owner[l].phase \notin {"opening", "opened", "serving"}

\* While setup --apply publishes and says ready, no device is open.
ReadyMeansQuiet ==
  (\E p \in Procs : proc[p].pc = "refresh") => \A l \in Leases : ~HandleOpen(l)

\* A caller request id gets one lease record at most, however often it is
\* sent and wherever the process that served it was killed.
AtMostOnce == \A r \in Requests : \A k, l \in claims[r] : k = l
=============================================================================
