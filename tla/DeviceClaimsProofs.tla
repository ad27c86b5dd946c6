------------------------- MODULE DeviceClaimsProofs -------------------------
(***************************************************************************)
(* For any number of commands, sessions, devices and claims, wherever any  *)
(* of the processes is killed: an open device is on record, one owner is   *)
(* at work on a device, a refresh finds all devices closed, a request      *)
(* makes one claim, and a session that ended leaves no device open.        *)
(***************************************************************************)
EXTENDS DeviceClaims, TLAPS

\* A record that keeps its device from others, or holds up a refresh.
Live(l) == leases[l].state \in {"claim_intent", "opening", "active", "owner_lost", "cleanup_uncertain"}

\* One command at most is inside the refresh fence.
Fence == \A p, q \in Procs : proc[p].pc \in FencePcs /\ proc[q].pc \in FencePcs => p = q

\* What an owner does is on record before it does it.
Phases ==
  \A l \in Leases :
    /\ leases[l].state = "unused" => owner[l].phase = "none"
    /\ owner[l].phase \in {"opening", "opened"} => leases[l].state = "opening"
    /\ owner[l].phase \in {"serving", "closing", "lingering"} => leases[l].state = "active"
    /\ owner[l].phase = "closing" => owner[l].goal # None

OneLive == \A k, l \in Leases : Live(k) /\ Live(l) /\ leases[k].device = leases[l].device => k = l

\* A claim under way has its record; a record is given up only when its owner
\* is dead or was never started.
Claiming ==
  \A p \in Procs :
    proc[p].pc \in {"spawn", "abort", "wait", "classify"} =>
      /\ proc[p].lease \in Leases /\ leases[proc[p].lease].state # "unused"
      /\ proc[p].pc = "spawn" => owner[proc[p].lease].phase = "none"
      /\ proc[p].pc = "classify" => owner[proc[p].lease].phase = "dead"

Quiet == (\E p \in Procs : proc[p].pc = "refresh") => \A l \in Leases : ~Live(l)

\* A request that was not closed as new is not begun a second time.
Begun ==
  /\ \A p \in Procs :
       /\ proc[p].pc \in {"admit", "reserve"} =>
            /\ proc[p].req \in Requests /\ reqs[proc[p].req].state # "none"
            /\ claims[proc[p].req] = {}
       /\ \A q \in Procs :
            /\ proc[p].pc \in {"admit", "reserve"} /\ proc[q].pc \in {"admit", "reserve"}
            /\ proc[p].req = proc[q].req
            => p = q
  /\ \A r \in Requests : claims[r] # {} => reqs[r].state # "none"

\* A claim to be admitted is for a device, and an ending is of a session.
Named ==
  \A p \in Procs :
    /\ proc[p].pc = "admit" => proc[p].dev \in Devices
    /\ proc[p].pc \in {"end", "end_ipc"} => proc[p].sess \in Sessions

IInv == TypeOK /\ Named /\ Fence /\ Phases /\ OneLive /\ Claiming /\ Quiet /\ Begun /\ AtMostOnce
-----------------------------------------------------------------------------
(* What a step may do without disturbing any of this.                      *)
PhasesAt(m) ==
  /\ owner[m].phase \in {"opening", "opened"} => leases[m].state = "opening"
  /\ owner[m].phase \in {"serving", "closing", "lingering"} => leases[m].state = "active"
  /\ owner[m].phase = "closing" => owner[m].goal # None

ClaimingAt(p) ==
  /\ proc[p].lease \in Leases /\ leases[proc[p].lease].state # "unused"
  /\ proc[p].pc = "spawn" => owner[proc[p].lease].phase = "none"
  /\ proc[p].pc = "classify" => owner[proc[p].lease].phase = "dead"

\* Records only move on, and the command p, if any, launches and kills owners.
TameStores(p) ==
  \A m \in Leases :
    /\ leases'[m].device = leases[m].device /\ (Live(m)' => Live(m))
    /\ leases'[m].state = "unused" <=> leases[m].state = "unused"
    /\ PhasesAt(m)'
    /\ owner[m].phase = "dead" => owner'[m].phase = "dead"
    /\ owner[m].phase = "none" =>
         \/ owner'[m].phase = "none"
         \/ leases[m].state # "unused" /\ p \in Procs /\ proc[p].pc \in {"spawn", "wait"}

TameProcs(p) ==
  /\ \A q \in Procs : q # p =>
       /\ proc'[q].pc = proc[q].pc /\ proc'[q].lease = proc[q].lease /\ proc'[q].req = proc[q].req
       /\ proc'[q].dev = proc[q].dev /\ proc'[q].sess = proc[q].sess
  /\ p \in Procs =>
       /\ proc'[p].pc = "admit" => proc'[p].dev \in Devices
       /\ proc'[p].pc \in {"end", "end_ipc"} => proc'[p].sess \in Sessions
       /\ proc'[p].pc \in FencePcs => proc[p].pc \in FencePcs \/ FenceFree
       /\ proc'[p].pc \in {"spawn", "abort", "wait", "classify"} => ClaimingAt(p)'
       /\ proc'[p].pc = "refresh" => proc[p].pc = "refresh" \/ \A l \in Leases : ~Live(l)
       /\ proc'[p].pc \in {"admit", "reserve"} =>
            proc[p].pc \in {"admit", "reserve"} /\ proc'[p].req = proc[p].req

TameRequests ==
  /\ claims' = claims
  /\ \A r \in Requests : reqs[r].state # "none" => reqs'[r].state # "none"

LEMMA TameKeeps ==
  ASSUME IInv, TypeOK', NEW p, TameStores(p), TameProcs(p), TameRequests
  PROVE  IInv'
  <1>1. Fence'
    BY DEF IInv, Fence, TameProcs, FenceFree
  <1>2. Phases'
    <2> SUFFICES ASSUME NEW m \in Leases, leases'[m].state = "unused"
                 PROVE  owner'[m].phase = "none"
      BY DEF Phases, TameStores, PhasesAt
    <2> QED  BY DEF IInv, Phases, TameStores
  <1>3. OneLive'
    BY DEF IInv, OneLive, TameStores
  <1>4. Claiming'
    <2> SUFFICES ASSUME NEW q \in Procs, q # p, proc[q].pc \in {"spawn", "abort", "wait", "classify"}
                 PROVE  ClaimingAt(q)'
      BY DEF Claiming, ClaimingAt, TameProcs
    <2>1. proc'[q].pc = proc[q].pc /\ proc'[q].lease = proc[q].lease /\ ClaimingAt(q)
      BY DEF IInv, Claiming, ClaimingAt, TameProcs
    <2>2. ~(p \in Procs /\ proc[p].pc \in {"spawn", "wait"})
      BY DEF IInv, Fence, FencePcs, ClaimPcs
    <2> QED  BY <2>1, <2>2 DEF ClaimingAt, TameStores
  <1>5. Quiet'
    BY DEF IInv, Quiet, TameStores, TameProcs
  <1>6. Begun'
    <2>1. \A q \in Procs : proc'[q].pc \in {"admit", "reserve"} =>
            proc[q].pc \in {"admit", "reserve"} /\ proc'[q].req = proc[q].req
      BY DEF TameProcs
    <2> QED  BY <2>1 DEF IInv, Begun, TameRequests
  <1>7. AtMostOnce'
    BY DEF IInv, AtMostOnce, TameRequests
  <1>8. Named'
    BY DEF IInv, Named, TameProcs
  <1> QED  BY <1>1, <1>2, <1>3, <1>4, <1>5, <1>6, <1>7, <1>8 DEF IInv

\* The stores of leases and the owners as they are.
LEMMA StoresSame ==
  ASSUME IInv, NEW p, UNCHANGED leases,
         \A m \in Leases : owner'[m].phase = owner[m].phase /\ owner'[m].goal = owner[m].goal
  PROVE  TameStores(p)
  BY DEF IInv, TameStores, Phases, PhasesAt, Live

-----------------------------------------------------------------------------
(* Commands.  A command that touches neither.                              *)
LEMMA CommandKeeps ==
  ASSUME IInv, NEW p \in Procs, NEW rec \in ProcType, proc' = [proc EXCEPT ![p] = rec],
         UNCHANGED <<leases, owner, claims>>,
         sessions' \in [Sessions -> SessionStates], reqs' \in [Requests -> RequestType],
         locks' \in [Devices -> [session : Sessions \cup {None}, id : LockIds \cup {0}]],
         ended_ok' \subseteq Sessions,
         \A r \in Requests : reqs[r].state # "none" => reqs'[r].state # "none",
         rec.pc \in FencePcs => proc[p].pc \in FencePcs \/ FenceFree,
         rec.pc \in {"spawn", "abort", "wait", "classify"} =>
           /\ rec.lease \in Leases /\ leases[rec.lease].state # "unused"
           /\ rec.pc = "spawn" => owner[rec.lease].phase = "none"
           /\ rec.pc = "classify" => owner[rec.lease].phase = "dead",
         rec.pc = "refresh" => \A l \in Leases : ~Live(l),
         rec.pc = "admit" => rec.dev \in Devices,
         rec.pc \in {"end", "end_ipc"} => rec.sess \in Sessions,
         rec.pc \in {"admit", "reserve"} => proc[p].pc \in {"admit", "reserve"} /\ rec.req = proc[p].req
  PROVE  IInv'
  <1>1. proc' \in [Procs -> ProcType] /\ proc'[p] = rec /\ \A q \in Procs : q # p => proc'[q] = proc[q]
    BY DEF IInv, TypeOK
  <1>2. TypeOK'
    BY <1>1 DEF IInv, TypeOK
  <1>3. TameStores(p) /\ TameRequests
    BY StoresSame DEF TameRequests
  <1>4. TameProcs(p)
    BY <1>1 DEF TameProcs, ClaimingAt
  <1> QED  BY <1>2, <1>3, <1>4, TameKeeps

LEMMA Typed ==
  ASSUME IInv, NEW p \in Procs
  PROVE  /\ Idle \in ProcType /\ proc[p] \in ProcType
         /\ \A pc \in Pcs, out \in Outs :
              /\ [proc[p] EXCEPT !.pc = pc] \in ProcType
              /\ [proc[p] EXCEPT !.pc = pc, !.out = out] \in ProcType
         /\ {"failed", "unknown"} \cup Leases \cup LeaseStates \subseteq Outs
         /\ Pcs = {"reserve", "spawn", "abort", "unlock", "wait", "classify", "rel", "rel_unlock",
                   "ren", "end", "end_ipc", "refresh", "idle", "admit", "settle"}
         /\ FencePcs = {"reserve", "spawn", "abort", "unlock", "wait", "classify", "refresh"}
  <1>1. Pcs = {"reserve", "spawn", "abort", "unlock", "wait", "classify", "rel", "rel_unlock",
               "ren", "end", "end_ipc", "refresh", "idle", "admit", "settle"}
    BY DEF Pcs, GatePcs, FencePcs, ClaimPcs
  <1>2. FencePcs = {"reserve", "spawn", "abort", "unlock", "wait", "classify", "refresh"}
    BY DEF FencePcs, ClaimPcs
  <1>3. proc[p] \in ProcType /\ Idle \in ProcType
    BY <1>1 DEF IInv, TypeOK, ProcType, Idle, Outs
  <1>4. \A pc \in Pcs, out \in Outs :
              /\ [proc[p] EXCEPT !.pc = pc] \in ProcType
              /\ [proc[p] EXCEPT !.pc = pc, !.out = out] \in ProcType
    BY <1>3 DEF ProcType
  <1> QED  BY <1>1, <1>2, <1>3, <1>4 DEF Outs

\* A command that ends, or goes on to its settlement or to the unlocking.
LEMMA ReturnKeeps ==
  ASSUME IInv, NEW p \in Procs, Return(p), UNCHANGED <<leases, owner, claims>>,
         sessions' \in [Sessions -> SessionStates], reqs' \in [Requests -> RequestType],
         locks' \in [Devices -> [session : Sessions \cup {None}, id : LockIds \cup {0}]],
         ended_ok' \subseteq Sessions,
         \A r \in Requests : reqs[r].state # "none" => reqs'[r].state # "none"
  PROVE  IInv'
  <1> DEFINE rec == Idle
  <1>1. rec \in ProcType /\ rec.pc = "idle" /\ proc' = [proc EXCEPT ![p] = rec]
    BY Typed DEF Return, Idle
  <1>2. rec.pc \notin FencePcs
    BY <1>1, Typed
  <1> HIDE DEF rec
  <1> QED  BY <1>1, <1>2, CommandKeeps

LEMMA FinishKeeps ==
  ASSUME IInv, NEW p \in Procs, NEW pc \in {"settle", "unlock"}, NEW out \in Outs,
         Finish(p, pc, out) \/ Goto(p, pc),
         pc = "unlock" => proc[p].pc \in FencePcs,
         UNCHANGED <<sessions, reqs, leases, owner, claims, ended_ok>>,
         locks' \in [Devices -> [session : Sessions \cup {None}, id : LockIds \cup {0}]]
  PROVE  IInv'
  <1>1. PICK rec \in ProcType : rec.pc = pc /\ proc' = [proc EXCEPT ![p] = rec]
    <2>1. CASE Finish(p, pc, out)
      <3>1. [proc[p] EXCEPT !.pc = pc, !.out = out] \in ProcType
        BY Typed
      <3>2. proc' = [proc EXCEPT ![p] = [proc[p] EXCEPT !.pc = pc, !.out = out]]
        BY <2>1 DEF Finish
      <3> QED  BY <3>1, <3>2 DEF ProcType
    <2>2. CASE Goto(p, pc)
      <3>1. [proc[p] EXCEPT !.pc = pc] \in ProcType
        BY Typed
      <3>2. proc' = [proc EXCEPT ![p] = [proc[p] EXCEPT !.pc = pc]]
        BY <2>2 DEF Goto
      <3> QED  BY <3>1, <3>2 DEF ProcType
    <2> QED  BY <2>1, <2>2
  <1>2. rec.pc \in FencePcs => proc[p].pc \in FencePcs
    BY <1>1, Typed
  <1>3. sessions' \in [Sessions -> SessionStates] /\ reqs' \in [Requests -> RequestType]
        /\ ended_ok' \subseteq Sessions
    BY DEF IInv, TypeOK
  <1> QED  BY <1>1, <1>2, <1>3, CommandKeeps

LEMMA LocksTyped ==
  ASSUME IInv
  PROVE  /\ \A d : lock_release(locks, d) \in [Devices -> [session : Sessions \cup {None}, id : LockIds \cup {0}]]
         /\ \A s : without_session(locks, s) \in [Devices -> [session : Sessions \cup {None}, id : LockIds \cup {0}]]
         /\ FreshLockIds # {} =>
              \A s \in Sessions \cup {None} : \A d :
                /\ d \in Devices => lock_acquired(locks, s, d, FreshLock)
                                      \in [session : Sessions \cup {None}, id : LockIds \cup {0}]
                /\ [locks EXCEPT ![d] = lock_acquired(locks, s, d, FreshLock)]
                      \in [Devices -> [session : Sessions \cup {None}, id : LockIds \cup {0}]]
  <1>1. NoLock \in [session : Sessions \cup {None}, id : LockIds \cup {0}]
    BY DEF NoLock, None
  <1>2. locks \in [Devices -> [session : Sessions \cup {None}, id : LockIds \cup {0}]]
    BY DEF IInv, TypeOK
  <1>3. FreshLockIds # {} => FreshLock \in LockIds
    BY DEF FreshLock, FreshLockIds
  <1>4. \A s \in Sessions \cup {None}, d \in Devices : FreshLockIds # {} =>
          lock_acquired(locks, s, d, FreshLock) \in [session : Sessions \cup {None}, id : LockIds \cup {0}]
    BY <1>2, <1>3 DEF lock_acquired
  <1> HIDE DEF None
  <1> QED  BY <1>1, <1>2, <1>4 DEF lock_release, without_session

LEMMA RequestsTyped ==
  ASSUME IInv, NEW r, NEW out \in Outs
  PROVE  /\ finalize(reqs, r, out) \in [Requests -> RequestType]
         /\ mark_outcome_unknown(reqs, r) \in [Requests -> RequestType]
         /\ \A x \in Requests : reqs[x].state # "none" =>
              finalize(reqs, r, out)[x].state # "none" /\ mark_outcome_unknown(reqs, r)[x].state # "none"
  <1>1. reqs \in [Requests -> RequestType]
    BY DEF IInv, TypeOK
  <1> DEFINE rf == [reqs[r] EXCEPT !.state = "finalized", !.outcome = out]
             ru == [reqs[r] EXCEPT !.state = "unknown"]
  <1>2. finalize(reqs, r, out) = [reqs EXCEPT ![r] = rf]
    BY DEF finalize
  <1>3. mark_outcome_unknown(reqs, r) \in {reqs, [reqs EXCEPT ![r] = ru]}
    BY DEF mark_outcome_unknown
  <1>4. r \in Requests => rf \in RequestType /\ ru \in RequestType /\ rf.state # "none" /\ ru.state # "none"
    BY <1>1 DEF RequestType
  <1> HIDE DEF rf, ru
  <1>5. CASE r \in Requests
    BY <1>1, <1>2, <1>3, <1>4, <1>5
  <1>6. CASE r \notin Requests
    BY <1>1, <1>2, <1>3, <1>6
  <1> QED  BY <1>5, <1>6

LEMMA PlainCommands ==
  ASSUME IInv, NEW p \in Procs,
         \/ AuditUnavailable(p) \/ AdmitRefused(p) \/ ReserveRefused(p) \/ Unlock(p)
         \/ Settle(p) \/ ReleaseDone(p) \/ EndDone(p) \/ RefreshDone(p)
  PROVE  IInv'
  <1>t. /\ sessions \in [Sessions -> SessionStates] /\ reqs \in [Requests -> RequestType]
        /\ locks \in [Devices -> [session : Sessions \cup {None}, id : LockIds \cup {0}]]
        /\ ended_ok \subseteq Sessions /\ proc[p] \in ProcType
    BY DEF IInv, TypeOK
  <1>1. CASE AuditUnavailable(p)
    <2>1. reqs' \in [Requests -> RequestType] /\ \A r \in Requests : reqs[r].state # "none" => reqs'[r].state # "none"
      <3>1. reqs' \in {reqs, finalize(reqs, proc[p].req, "failed")}
        BY <1>1 DEF AuditUnavailable
      <3>2. "failed" \in Outs
        BY DEF Outs
      <3> QED  BY <3>1, <3>2, <1>t, RequestsTyped
    <2> QED  BY <1>1, <1>t, <2>1, ReturnKeeps DEF AuditUnavailable
  <1>2. CASE AdmitRefused(p)
    BY <1>2, <1>t, FinishKeeps DEF AdmitRefused, Outs
  <1>3. CASE ReserveRefused(p)
    BY <1>3, <1>t, FinishKeeps DEF ReserveRefused, Outs, FencePcs, ClaimPcs
  <1>4. CASE Unlock(p)
    <2>1. locks' \in [Devices -> [session : Sessions \cup {None}, id : LockIds \cup {0}]]
      <3>1. locks' \in {locks, lock_release(locks, proc[p].dev)}
        BY <1>4 DEF Unlock
      <3> QED  BY <3>1, <1>t, LocksTyped
    <2> QED  BY <1>4, <2>1, FinishKeeps DEF Unlock, Outs
  <1>5. CASE Settle(p)
    <2>1. proc[p].out \in Outs
      BY <1>t DEF ProcType
    <2>2. reqs' \in [Requests -> RequestType] /\ \A r \in Requests : reqs[r].state # "none" => reqs'[r].state # "none"
      <3>1. reqs' \in {reqs, finalize(reqs, proc[p].req, proc[p].out), mark_outcome_unknown(reqs, proc[p].req)}
        BY <1>5 DEF Settle
      <3>2. /\ finalize(reqs, proc[p].req, proc[p].out) \in [Requests -> RequestType]
            /\ mark_outcome_unknown(reqs, proc[p].req) \in [Requests -> RequestType]
            /\ \A x \in Requests : reqs[x].state # "none" =>
                 /\ finalize(reqs, proc[p].req, proc[p].out)[x].state # "none"
                 /\ mark_outcome_unknown(reqs, proc[p].req)[x].state # "none"
        BY <2>1, RequestsTyped
      <3> QED  BY <3>1, <3>2, <1>t
    <2> QED  BY <1>5, <1>t, <2>2, ReturnKeeps DEF Settle
  <1>6. CASE ReleaseDone(p)
    <2>1. locks' \in [Devices -> [session : Sessions \cup {None}, id : LockIds \cup {0}]]
      <3>1. locks' \in {locks, lock_release(locks, proc[p].dev)}
        BY <1>6 DEF ReleaseDone
      <3> QED  BY <3>1, <1>t, LocksTyped
    <2> QED  BY <1>6, <1>t, <2>1, ReturnKeeps DEF ReleaseDone
  <1>7. CASE EndDone(p)
    <2>1. proc[p].sess \in Sessions
      BY <1>7 DEF EndDone, IInv, Named
    <2> QED  BY <1>7, <1>t, <2>1, ReturnKeeps DEF EndDone
  <1>8. CASE RefreshDone(p)
    BY <1>8, <1>t, ReturnKeeps DEF RefreshDone
  <1> QED  BY <1>1, <1>2, <1>3, <1>4, <1>5, <1>6, <1>7, <1>8

\* The lock of the device is taken, and the claim is inside the fence.
LEMMA AdmitKeeps ==
  ASSUME IInv, NEW p \in Procs, Admit(p)
  PROVE  IInv'
  <1> DEFINE lock == lock_acquired(locks, proc[p].sess, proc[p].dev, FreshLock)
  <1>1. lock.id \in LockIds \cup {0}
        /\ locks' \in [Devices -> [session : Sessions \cup {None}, id : LockIds \cup {0}]]
    <2>1. proc[p].dev \in Devices /\ proc[p].sess \in Sessions \cup {None}
      BY Typed DEF Admit, IInv, Named, ProcType
    <2>2. lock \in [session : Sessions \cup {None}, id : LockIds \cup {0}]
          /\ [locks EXCEPT ![proc[p].dev] = lock]
               \in [Devices -> [session : Sessions \cup {None}, id : LockIds \cup {0}]]
      BY <2>1, LocksTyped DEF Admit
    <2>3. locks' = [locks EXCEPT ![proc[p].dev] = lock]
      BY DEF Admit
    <2> HIDE DEF lock
    <2> QED  BY <2>2, <2>3
  <1>2. \/ proc' = [proc EXCEPT ![p].pc = "reserve", ![p].lock = lock.id]
        \/ Finish(p, "settle", "failed")
    BY DEF Admit
  <1>3. FenceFree /\ proc[p].pc = "admit" /\ UNCHANGED <<sessions, reqs, leases, owner, claims, ended_ok>>
    BY DEF Admit
  <1> HIDE DEF lock
  <1>4. CASE proc' = [proc EXCEPT ![p].pc = "reserve", ![p].lock = lock.id]
    <2> DEFINE rec == [proc[p] EXCEPT !.pc = "reserve", !.lock = lock.id]
    <2>0. proc[p] \in ProcType /\ "reserve" \in Pcs
      BY Typed
    <2>1. rec \in ProcType /\ rec.pc = "reserve" /\ rec.req = proc[p].req
      BY <2>0, <1>1 DEF ProcType
    <2>2. proc' = [proc EXCEPT ![p] = rec]
      BY <1>4
    <2>3. sessions' \in [Sessions -> SessionStates] /\ reqs' \in [Requests -> RequestType]
          /\ ended_ok' \subseteq Sessions
      BY <1>3 DEF IInv, TypeOK
    <2> HIDE DEF rec
    <2> QED  BY <1>1, <1>3, <2>1, <2>2, <2>3, CommandKeeps
  <1>5. CASE Finish(p, "settle", "failed")
    BY <1>1, <1>3, <1>5, FinishKeeps DEF Outs
  <1> QED  BY <1>2, <1>4, <1>5

\* One turn of the wait for the owner.
LEMMA WaitKeeps ==
  ASSUME IInv, NEW p \in Procs, Wait(p)
  PROVE  IInv'
  <1>1. /\ proc[p].pc = "wait" /\ UNCHANGED <<sessions, locks, reqs, leases, owner, claims, ended_ok>>
        /\ locks' \in [Devices -> [session : Sessions \cup {None}, id : LockIds \cup {0}]]
    BY DEF Wait, IInv, TypeOK
  <1>2. proc[p].lease \in Leases /\ leases[proc[p].lease].state # "unused"
    BY <1>1 DEF IInv, Claiming
  <1>3. CASE \E out \in Outs, pc \in {"settle", "unlock"} : Finish(p, pc, out)
    BY <1>1, <1>3, Typed, FinishKeeps
  <1>4. CASE owner[proc[p].lease].phase = "dead" /\ Goto(p, "classify")
    <2> DEFINE rec == [proc[p] EXCEPT !.pc = "classify"]
    <2>0. proc[p] \in ProcType /\ "classify" \in Pcs
      BY Typed
    <2>1. rec \in ProcType /\ rec.pc = "classify" /\ rec.lease = proc[p].lease
      BY <2>0 DEF ProcType
    <2>2. proc' = [proc EXCEPT ![p] = rec]
      BY <1>4 DEF Goto
    <2>3. sessions' \in [Sessions -> SessionStates] /\ reqs' \in [Requests -> RequestType]
          /\ ended_ok' \subseteq Sessions /\ proc[p].pc \in FencePcs
      BY <1>1, Typed DEF IInv, TypeOK
    <2> HIDE DEF rec
    <2> QED  BY <1>1, <1>2, <1>4, <2>1, <2>2, <2>3, CommandKeeps
  <1> QED  BY <1>2, <1>3, <1>4 DEF Wait, Outs

\* A command that begins, other than a claim.
LEMMA BeginKeeps ==
  ASSUME IInv, NEW p \in Procs,
         \/ \E l \in Leases : ReleaseBegin(p, l) \/ RenewBegin(p, l)
         \/ \E s \in Sessions : EndBegin(p, s)
         \/ RefreshBegin(p)
  PROVE  IInv'
  <1>t. /\ sessions \in [Sessions -> SessionStates] /\ reqs \in [Requests -> RequestType]
        /\ locks \in [Devices -> [session : Sessions \cup {None}, id : LockIds \cup {0}]]
        /\ ended_ok \subseteq Sessions /\ leases \in [Leases -> LeaseType]
    BY DEF IInv, TypeOK
  <1>c. ASSUME NEW l \in Leases, NEW pc \in {"rel", "ren"}, Command(p, l, pc),
               UNCHANGED <<sessions, locks, reqs, leases, owner, claims, ended_ok>>
        PROVE  IInv'
    <2> DEFINE rec == [Idle EXCEPT !.pc = pc, !.sess = leases[l].session,
                                   !.dev = leases[l].device, !.lease = l]
    <2>0. Idle \in ProcType /\ pc \in Pcs /\ leases[l].session \in Sessions \cup {None}
          /\ leases[l].device \in Devices \cup {None}
      BY <1>t, Typed DEF LeaseType
    <2>1. rec \in ProcType /\ rec.pc = pc
      BY <2>0 DEF ProcType
    <2>2. proc' = [proc EXCEPT ![p] = rec]
      BY <1>c DEF Command
    <2>3. rec.pc \notin FencePcs
      BY <2>1, Typed
    <2> HIDE DEF rec
    <2> QED  BY <1>t, <1>c, <2>1, <2>2, <2>3, CommandKeeps
  <1>1. ASSUME NEW l \in Leases, ReleaseBegin(p, l) PROVE IInv'
    BY <1>1, <1>c DEF ReleaseBegin
  <1>2. ASSUME NEW l \in Leases, RenewBegin(p, l) PROVE IInv'
    <2>1. CASE Command(p, l, "ren") /\ UNCHANGED locks
      BY <1>2, <1>c, <2>1 DEF RenewBegin
    <2> DEFINE lock == lock_acquired(locks, leases[l].session, leases[l].device, FreshLock)
    <2>2. CASE locks' \in {[locks EXCEPT ![leases[l].device] = lock], lock_release(locks, leases[l].device)}
               /\ UNCHANGED proc
      <3>1. leases[l].session \in Sessions \cup {None}
        BY <1>t DEF LeaseType
      <3>2. FreshLockIds # {} /\ proc[p].pc = "idle"
            /\ UNCHANGED <<sessions, reqs, leases, owner, claims, ended_ok>>
        BY <1>2 DEF RenewBegin, MayCommand
      <3>3. locks' \in [Devices -> [session : Sessions \cup {None}, id : LockIds \cup {0}]]
        <4>1. /\ [locks EXCEPT ![leases[l].device] = lock]
                   \in [Devices -> [session : Sessions \cup {None}, id : LockIds \cup {0}]]
              /\ lock_release(locks, leases[l].device)
                   \in [Devices -> [session : Sessions \cup {None}, id : LockIds \cup {0}]]
          BY <3>1, <3>2, LocksTyped
        <4> HIDE DEF lock
        <4> QED  BY <2>2, <4>1
      <3>4. proc[p] \in ProcType /\ proc' = [proc EXCEPT ![p] = proc[p]] /\ proc[p].pc \notin FencePcs
        BY <2>2, <3>2, Typed DEF IInv, TypeOK
      <3> QED  BY <1>t, <3>2, <3>3, <3>4, CommandKeeps
    <2> QED  BY <1>2, <2>1, <2>2 DEF RenewBegin
  <1>3. ASSUME NEW s \in Sessions, EndBegin(p, s) PROVE IInv'
    <2>1. PICK todo \in {{}, Listed(s)} :
            proc' = [proc EXCEPT ![p] = [Idle EXCEPT !.pc = "end", !.sess = s,
                       !.todo = todo, !.out = IF todo = Listed(s) THEN None ELSE "failed"]]
      BY <1>3 DEF EndBegin
    <2> DEFINE rec == [Idle EXCEPT !.pc = "end", !.sess = s,
                       !.todo = todo, !.out = IF todo = Listed(s) THEN None ELSE "failed"]
    <2>2. todo \subseteq Leases \X LeaseStates
      BY <1>t DEF Listed, Stored, LeaseType
    <2>0. Idle \in ProcType /\ "end" \in Pcs /\ {None, "failed"} \subseteq Outs
      BY Typed DEF Outs
    <2>3. rec \in ProcType /\ rec.pc = "end" /\ rec.sess = s
      BY <2>0, <2>2 DEF ProcType
    <2>4. rec.pc \notin FencePcs /\ proc' = [proc EXCEPT ![p] = rec]
      BY <2>1, <2>3, Typed
    <2>5. sessions' \in [Sessions -> SessionStates] /\ UNCHANGED <<reqs, leases, owner, claims, ended_ok>>
          /\ locks' \in [Devices -> [session : Sessions \cup {None}, id : LockIds \cup {0}]]
      BY <1>3, <1>t, LocksTyped DEF EndBegin, SessionStates
    <2> HIDE DEF rec
    <2> QED  BY <1>t, <2>3, <2>4, <2>5, CommandKeeps
  <1>4. CASE RefreshBegin(p)
    <2> DEFINE rec == [Idle EXCEPT !.pc = "refresh"]
    <2>1. rec \in ProcType /\ rec.pc = "refresh" /\ proc' = [proc EXCEPT ![p] = rec]
      BY <1>4, Typed DEF ProcType, Idle, RefreshBegin
    <2>2. \A l \in Leases : ~Live(l)
      BY <1>4, <1>t DEF RefreshBegin, refresh_blockers, Stored, blocks_refresh, Live
    <2>3. FenceFree /\ UNCHANGED <<sessions, locks, reqs, leases, owner, claims, ended_ok>>
      BY <1>4 DEF RefreshBegin
    <2> HIDE DEF rec
    <2> QED  BY <1>t, <2>1, <2>2, <2>3, CommandKeeps
  <1> QED  BY <1>1, <1>2, <1>3, <1>4

-----------------------------------------------------------------------------
(* Steps of one lease: its record moves on to `state' and its owner to o.  *)
Move(l, o, state) ==
  /\ owner' = [owner EXCEPT ![l] = o] /\ leases' = [leases EXCEPT ![l].state = state]
  /\ leases[l].state # "unused"
  /\ blocks_refresh(state) => Live(l)
  /\ o.phase \in {"opening", "opened"} => state = "opening"
  /\ o.phase \in {"serving", "closing", "lingering"} => state = "active"
  /\ o.phase = "closing" => o.goal # None

LEMMA LeaseStepKeeps ==
  ASSUME IInv, NEW p, NEW l \in Leases, NEW o \in OwnerType, NEW state \in LeaseStates \ {"unused"},
         Move(l, o, state),
         owner[l].phase = "dead" => o.phase = "dead",
         owner[l].phase = "none" =>
           o.phase = "none" \/ (p \in Procs /\ proc[p].pc \in {"spawn", "wait"}),
         proc' \in [Procs -> ProcType], TameProcs(p),
         locks' \in [Devices -> [session : Sessions \cup {None}, id : LockIds \cup {0}]],
         UNCHANGED <<sessions, reqs, claims, ended_ok>>
  PROVE  IInv'
  <1>1. owner' \in [Leases -> OwnerType] /\ owner'[l] = o /\ \A m \in Leases : m # l => owner'[m] = owner[m]
    BY DEF IInv, TypeOK, Move
  <1>2. leases \in [Leases -> LeaseType]
    BY DEF IInv, TypeOK
  <1>3. /\ leases' \in [Leases -> LeaseType] /\ leases'[l].state = state
        /\ leases'[l].device = leases[l].device /\ \A m \in Leases : m # l => leases'[m] = leases[m]
    BY <1>2 DEF LeaseType, Move
  <1>4. TypeOK'
    BY <1>1, <1>3 DEF IInv, TypeOK
  <1>5. TameStores(p)
    <2> SUFFICES ASSUME NEW m \in Leases
                 PROVE  /\ leases'[m].device = leases[m].device /\ (Live(m)' => Live(m))
                        /\ leases'[m].state = "unused" <=> leases[m].state = "unused"
                        /\ PhasesAt(m)'
                        /\ owner[m].phase = "dead" => owner'[m].phase = "dead"
                        /\ owner[m].phase = "none" =>
                             \/ owner'[m].phase = "none"
                             \/ leases[m].state # "unused" /\ p \in Procs /\ proc[p].pc \in {"spawn", "wait"}
      BY DEF TameStores
    <2>1. CASE m = l
      BY <1>1, <1>3, <2>1 DEF Move, Live, blocks_refresh, PhasesAt
    <2>2. CASE m # l
      BY <1>1, <1>3, <2>2 DEF IInv, Phases, PhasesAt, Live
    <2> QED  BY <2>1, <2>2
  <1>6. TameRequests
    BY DEF TameRequests
  <1> QED  BY <1>4, <1>5, <1>6, TameKeeps

LEMMA Transitions ==
  ASSUME IInv, NEW l \in Leases, NEW step, NEW state
  PROVE  /\ leases[l] \in LeaseType /\ leases = [leases EXCEPT ![l].state = leases[l].state]
         /\ \/ transition(leases, l, step, state) = leases
            \/ /\ leases[l].state \in From(step)
               /\ transition(leases, l, step, state) = [leases EXCEPT ![l].state = state]
  <1>1. leases \in [Leases -> LeaseType] /\ leases[l] \in LeaseType
    BY DEF IInv, TypeOK
  <1>2. leases = [leases EXCEPT ![l].state = leases[l].state]
    <2>1. leases[l] = [leases[l] EXCEPT !.state = leases[l].state]
      BY <1>1 DEF LeaseType
    <2>2. [leases EXCEPT ![l].state = leases[l].state] = [leases EXCEPT ![l] = [leases[l] EXCEPT !.state = leases[l].state]]
      OBVIOUS
    <2>3. leases = [leases EXCEPT ![l] = leases[l]]
      BY <1>1
    <2> QED  BY <2>1, <2>2, <2>3
  <1> QED  BY <1>1, <1>2 DEF transition

\* An owner that is at work, whose client may get an answer.
LEMMA OwnerKeeps ==
  ASSUME IInv, NEW l \in Leases, NEW o \in OwnerType, NEW state \in LeaseStates \ {"unused"},
         Move(l, o, state),
         owner[l].phase \in {"none", "dead"} => o.phase = owner[l].phase,
         \/ UNCHANGED proc
         \/ \E p \in Procs, rec \in ProcType :
              /\ proc' = [proc EXCEPT ![p] = rec]
              /\ rec.pc \in {"idle", "rel_unlock", "end"}
              /\ rec.pc = "end" => rec.sess \in Sessions,
         UNCHANGED <<sessions, locks, reqs, claims, ended_ok>>
  PROVE  IInv'
  <1>t. proc \in [Procs -> ProcType] /\ leases \in [Leases -> LeaseType] /\ owner \in [Leases -> OwnerType]
        /\ locks' \in [Devices -> [session : Sessions \cup {None}, id : LockIds \cup {0}]]
    BY DEF IInv, TypeOK
  <1>p. /\ owner[l].phase = "dead" => o.phase = "dead"
        /\ owner[l].phase = "none" => o.phase = "none"
        /\ UNCHANGED <<sessions, reqs, claims, ended_ok>>
    OBVIOUS
  <1>1. CASE UNCHANGED proc
    <2> DEFINE q == CHOOSE q \in Procs : TRUE
    <2>1. TameProcs(q)
      <3> HIDE DEF q
      <3> SUFFICES ASSUME q \in Procs, proc[q].pc \in {"spawn", "abort", "wait", "classify"}
                   PROVE  ClaimingAt(q)'
        BY <1>1 DEF TameProcs, IInv, Named
      <3>1. ClaimingAt(q)
        BY DEF IInv, Claiming, ClaimingAt
      <3>2. leases'[proc[q].lease].state # "unused"
        BY <3>1, <1>t DEF ClaimingAt, LeaseType, Move
      <3>3. owner[proc[q].lease].phase \in {"none", "dead"} =>
              owner'[proc[q].lease].phase = owner[proc[q].lease].phase
        BY <3>1, <1>t DEF ClaimingAt, Move
      <3> QED  BY <1>1, <3>1, <3>2, <3>3 DEF ClaimingAt
    <2> HIDE DEF q
    <2>2. proc' \in [Procs -> ProcType]
      BY <1>t, <1>1
    <2> QED  BY <1>t, <1>p, <2>1, <2>2, LeaseStepKeeps
  <1>2. ASSUME NEW p \in Procs, NEW rec \in ProcType, proc' = [proc EXCEPT ![p] = rec],
               rec.pc \in {"idle", "rel_unlock", "end"}, rec.pc = "end" => rec.sess \in Sessions
        PROVE  IInv'
    <2>1. proc' \in [Procs -> ProcType] /\ proc'[p] = rec /\ \A q \in Procs : q # p => proc'[q] = proc[q]
      BY <1>2, <1>t
    <2>2. rec.pc \notin FencePcs
      BY <1>2, Typed
    <2>3. TameProcs(p)
      BY <1>2, <2>1, <2>2 DEF TameProcs
    <2> QED  BY <1>t, <1>p, <2>1, <2>3, LeaseStepKeeps
  <1> QED  BY <1>1, <1>2

\* What Answered does with a command that is at work.
LEMMA AnsweredIs ==
  ASSUME IInv, NEW p \in Procs, NEW x, x \in Outs \cup {"error"} \/ proc[p].pc # "rel"
  PROVE  \E rec \in ProcType :
            /\ Answered(p, x) = [proc EXCEPT ![p] = rec]
            /\ rec.pc \in {"idle", "rel_unlock", "end"}
            /\ rec.pc = "end" => rec.sess \in Sessions
  <1>1. Idle \in ProcType /\ proc[p] \in ProcType /\ {"rel_unlock", "end"} \subseteq Pcs /\ "failed" \in Outs
    BY Typed DEF Outs
  <1>2. CASE proc[p].pc = "rel" /\ x # "error"
    <2> DEFINE rec == [proc[p] EXCEPT !.pc = "rel_unlock", !.out = x]
    <2>1. rec \in ProcType /\ rec.pc = "rel_unlock"
      BY <1>1, <1>2 DEF ProcType
    <2>2. Answered(p, x) = [proc EXCEPT ![p] = rec]
      BY <1>2 DEF Answered
    <2> HIDE DEF rec
    <2> QED  BY <2>1, <2>2
  <1>3. CASE proc[p].pc = "end_ipc"
    <2> DEFINE out == IF x = "released" THEN proc[p].out ELSE "failed"
               rec == [proc[p] EXCEPT !.pc = "end", !.lease = None, !.out = out]
    <2>0. out \in Outs
      BY <1>1 DEF ProcType
    <2>1. rec \in ProcType /\ rec.pc = "end" /\ rec.sess = proc[p].sess
      <3> HIDE DEF out
      <3> QED  BY <1>1, <2>0 DEF ProcType
    <2>2. Answered(p, x) = [proc EXCEPT ![p] = rec]
      BY <1>3 DEF Answered
    <2>3. proc[p].sess \in Sessions
      BY <1>3 DEF IInv, Named
    <2> HIDE DEF rec
    <2> QED  BY <2>1, <2>2, <2>3
  <1>4. CASE ~(proc[p].pc = "rel" /\ x # "error") /\ proc[p].pc # "end_ipc"
    <2>1. Answered(p, x) = [proc EXCEPT ![p] = Idle]
      BY <1>4 DEF Answered
    <2>2. Idle.pc = "idle"
      BY DEF Idle
    <2> QED  BY <1>1, <2>1, <2>2
  <1> QED  BY <1>2, <1>3, <1>4

\* The owner goes on, its record as it is.
LEMMA PhaseKeeps ==
  ASSUME IInv, NEW l \in Leases, NEW o \in OwnerType, owner' = [owner EXCEPT ![l] = o],
         owner[l].phase \notin {"none", "dead"}, UNCHANGED leases,
         o.phase \in {"opening", "opened"} => leases[l].state = "opening",
         o.phase \in {"serving", "closing", "lingering"} => leases[l].state = "active",
         o.phase = "closing" => o.goal # None,
         \/ UNCHANGED proc
         \/ \E p \in Procs, rec \in ProcType :
              /\ proc' = [proc EXCEPT ![p] = rec]
              /\ rec.pc \in {"idle", "rel_unlock", "end"}
              /\ rec.pc = "end" => rec.sess \in Sessions,
         UNCHANGED <<sessions, locks, reqs, claims, ended_ok>>
  PROVE  IInv'
  <1> DEFINE state == leases[l].state
  <1>1. state \in LeaseStates \ {"unused"} /\ leases' = [leases EXCEPT ![l].state = state]
    BY Transitions DEF IInv, Phases, LeaseType
  <1>2. Move(l, o, state)
    BY <1>1 DEF Move, Live, blocks_refresh
  <1> HIDE DEF state
  <1> QED  BY <1>1, <1>2, OwnerKeeps

LEMMA OwnerTyped ==
  ASSUME IInv, NEW l \in Leases
  PROVE  /\ owner[l] \in OwnerType /\ [NoOwner EXCEPT !.phase = "dead"] \in OwnerType
         /\ [NoOwner EXCEPT !.phase = "dead"].phase = "dead"
  BY DEF IInv, TypeOK, OwnerType, NoOwner

\* The owner ends, its record moved on or not.
LEMMA DieKeeps ==
  ASSUME IInv, NEW l \in Leases, Die(l), owner[l].phase \notin {"none", "dead"},
         NEW step \in {"mark_unclaimed_open_failed", "mark_open_failed", "mark_terminal"},
         NEW state \in {"open_failed", "released", "expired", "cleanup_uncertain"},
         state = "cleanup_uncertain" => step = "mark_terminal",
         UNCHANGED leases \/ leases' = transition(leases, l, step, state),
         \/ UNCHANGED proc
         \/ \E p \in Procs, rec \in ProcType :
              /\ proc' = [proc EXCEPT ![p] = rec]
              /\ rec.pc \in {"idle", "rel_unlock", "end"}
              /\ rec.pc = "end" => rec.sess \in Sessions,
         UNCHANGED <<sessions, locks, reqs, claims, ended_ok>>
  PROVE  IInv'
  <1> DEFINE o == [NoOwner EXCEPT !.phase = "dead"]
  <1>1. o \in OwnerType /\ o.phase = "dead" /\ owner' = [owner EXCEPT ![l] = o]
    BY OwnerTyped DEF Die
  <1> HIDE DEF o
  <1>2. CASE UNCHANGED leases
    BY <1>1, <1>2, PhaseKeeps
  <1>3. CASE leases' = [leases EXCEPT ![l].state = state] /\ leases[l].state \in From(step)
    <2>1. state \in LeaseStates \ {"unused"}
      BY DEF LeaseStates
    <2>2. Move(l, o, state)
      BY <1>1, <1>3 DEF Move, From, Live, blocks_refresh
    <2> QED  BY <1>1, <2>1, <2>2, OwnerKeeps
  <1> QED  BY <1>2, <1>3, Transitions

\* The owner closes its device, at the deadline, for a client or on its way out.
LEMMA ClosingKeeps ==
  ASSUME IInv, NEW l \in Leases, owner[l].phase = "serving", NEW p \in Procs \cup {None},
         NEW goal \in {"released", "expired", "cleanup_uncertain"}, Closing(l, p, goal),
         UNCHANGED <<sessions, locks, reqs, proc, claims, ended_ok>>
  PROVE  IInv'
  <1> DEFINE o == [owner[l] EXCEPT !.phase = "closing", !.client = p, !.goal = goal]
  <1>1. o \in OwnerType /\ o.phase = "closing" /\ o.goal # None
    BY OwnerTyped DEF OwnerType, None
  <1>2. owner' = [owner EXCEPT ![l] = o] /\ UNCHANGED leases
    BY DEF Closing
  <1>3. leases[l].state = "active"
    BY DEF IInv, Phases
  <1> HIDE DEF o
  <1> QED  BY <1>1, <1>2, <1>3, PhaseKeeps

LEMMA OwnerSteps ==
  ASSUME IInv, NEW l \in Leases, OwnerStep(l)
  PROVE  IInv'
  <1>s. ASSUME NEW phase \in {"bound", "opened"}, Phase(l, phase), UNCHANGED leases,
               owner[l].phase \in {"launched", "opening"}, phase = "opened" => owner[l].phase = "opening",
               UNCHANGED <<sessions, locks, reqs, proc, claims, ended_ok>>
        PROVE  IInv'
    <2> DEFINE o == [owner[l] EXCEPT !.phase = phase]
    <2>1. o \in OwnerType /\ o.phase = phase /\ owner' = [owner EXCEPT ![l] = o]
      BY <1>s, OwnerTyped DEF OwnerType, Phase
    <2>2. phase = "opened" => leases[l].state = "opening"
      BY <1>s DEF IInv, Phases
    <2> HIDE DEF o
    <2> QED  BY <1>s, <2>1, <2>2, PhaseKeeps
  <1>1. CASE OwnerBind(l)
    BY <1>1, <1>s, DieKeeps DEF OwnerBind
  <1>2. CASE OwnerClaim(l)
    <2> DEFINE o == [owner[l] EXCEPT !.phase = "opening"]
    <2>1. o \in OwnerType /\ o.phase = "opening" /\ owner' = [owner EXCEPT ![l] = o]
      BY <1>2, OwnerTyped DEF OwnerType, OwnerClaim, Phase
    <2>2. leases' = [leases EXCEPT ![l].state = "opening"] /\ leases[l].state = "claim_intent"
      BY <1>2 DEF OwnerClaim, transition, From
    <2> HIDE DEF o
    <2>3. Move(l, o, "opening")
      BY <2>1, <2>2 DEF Move, Live
    <2>4. "opening" \in LeaseStates \ {"unused"}
      BY DEF LeaseStates
    <2> QED  BY <1>2, <2>1, <2>3, <2>4, OwnerKeeps DEF OwnerClaim
  <1>3. CASE OwnerOpen(l)
    BY <1>3, <1>s, DieKeeps DEF OwnerOpen
  <1>4. CASE OwnerActivate(l)
    <2> DEFINE o == [owner[l] EXCEPT !.phase = "serving"]
    <2>1. o \in OwnerType /\ o.phase = "serving" /\ owner' = [owner EXCEPT ![l] = o]
      BY <1>4, OwnerTyped DEF OwnerType, OwnerActivate, Phase
    <2>2. leases' = [leases EXCEPT ![l].state = "active"] /\ leases[l].state = "opening"
      BY <1>4 DEF OwnerActivate, transition, From
    <2> HIDE DEF o
    <2>3. Move(l, o, "active")
      BY <2>1, <2>2 DEF Move, Live
    <2>4. "active" \in LeaseStates \ {"unused"}
      BY DEF LeaseStates
    <2> QED  BY <1>4, <2>1, <2>3, <2>4, OwnerKeeps DEF OwnerActivate
  <1>5. CASE OwnerExpire(l)
    <2>1. CASE owner[l].phase = "serving"
      BY <1>5, <2>1, ClosingKeeps DEF OwnerExpire
    <2>2. CASE owner[l].phase = "lingering"
      BY <1>5, <2>2, DieKeeps DEF OwnerExpire
    <2> QED  BY <1>5, <2>1, <2>2 DEF OwnerExpire
  <1>6. CASE OwnerMark(l)
    <2> DEFINE p == owner[l].client
    <2>0. /\ owner[l].phase = "closing" /\ leases[l].state = "active"
          /\ owner[l].goal \in {"released", "expired", "cleanup_uncertain"}
          /\ p \in Procs \cup {None} /\ owner[l] \in OwnerType
      BY <1>6, OwnerTyped DEF OwnerMark, IInv, Phases, OwnerType
    <2>a. ASSUME p # None
          PROVE  \A x \in {owner[l].goal, "error"} : \E rec \in ProcType :
                    /\ Answered(p, x) = [proc EXCEPT ![p] = rec]
                    /\ rec.pc \in {"idle", "rel_unlock", "end"}
                    /\ rec.pc = "end" => rec.sess \in Sessions
      <3>1. {owner[l].goal, "error"} \subseteq Outs \cup {"error"}
        BY <2>0 DEF Outs, LeaseStates
      <3>2. p \in Procs
        BY <2>0, <2>a
      <3> HIDE DEF p
      <3> QED  BY <3>1, <3>2, AnsweredIs
    <2> HIDE DEF p
    <2>1. CASE /\ leases' = transition(leases, l, "mark_terminal", owner[l].goal)
               /\ proc' = IF p = None THEN proc ELSE Answered(p, owner[l].goal)
               /\ Die(l)
      <3>1. \/ UNCHANGED proc
            \/ \E q \in Procs, rec \in ProcType :
                 /\ proc' = [proc EXCEPT ![q] = rec]
                 /\ rec.pc \in {"idle", "rel_unlock", "end"}
                 /\ rec.pc = "end" => rec.sess \in Sessions
        BY <2>0, <2>1, <2>a
      <3>2. UNCHANGED <<sessions, locks, reqs, claims, ended_ok>>
        BY <1>6 DEF OwnerMark
      <3> QED  BY <2>0, <2>1, <3>1, <3>2, DieKeeps
    <2>2. CASE /\ p # None
               /\ proc' = Answered(p, "error")
               /\ owner' = [owner EXCEPT ![l].phase = "lingering", ![l].client = None,
                                         ![l].goal = None]
               /\ UNCHANGED leases
      <3> DEFINE o == [owner[l] EXCEPT !.phase = "lingering", !.client = None, !.goal = None]
      <3>1. o \in OwnerType /\ o.phase = "lingering" /\ owner' = [owner EXCEPT ![l] = o]
        BY <2>0, <2>2 DEF OwnerType
      <3>2. \E q \in Procs, rec \in ProcType :
                 /\ proc' = [proc EXCEPT ![q] = rec]
                 /\ rec.pc \in {"idle", "rel_unlock", "end"}
                 /\ rec.pc = "end" => rec.sess \in Sessions
        BY <2>0, <2>2, <2>a
      <3>3. UNCHANGED <<sessions, locks, reqs, claims, ended_ok>>
        BY <1>6 DEF OwnerMark
      <3> HIDE DEF o
      <3> QED  BY <2>0, <2>2, <3>1, <3>2, <3>3, PhaseKeeps
    <2>3. CASE UNCHANGED <<proc, leases>> /\ Die(l)
      BY <1>6, <2>0, <2>3, DieKeeps DEF OwnerMark
    <2> QED  BY <1>6, <2>1, <2>2, <2>3 DEF OwnerMark, p
  <1>7. CASE OwnerDrop(l)
    <2>1. CASE owner[l].phase = "serving"
      BY <1>7, <2>1, ClosingKeeps DEF OwnerDrop
    <2>2. CASE owner[l].phase = "lingering"
      BY <1>7, <2>2, DieKeeps DEF OwnerDrop
    <2> QED  BY <1>7, <2>1, <2>2 DEF OwnerDrop
  <1>8. CASE OwnerCrash(l)
    BY <1>8, DieKeeps DEF OwnerCrash, Alive
  <1> QED  BY <1>1, <1>2, <1>3, <1>4, <1>5, <1>6, <1>7, <1>8 DEF OwnerStep

\* Records and owners as they are, and a command that goes on or none.
LEMMA StillKeeps ==
  ASSUME IInv, UNCHANGED <<leases, reqs, claims>>,
         owner' \in [Leases -> OwnerType],
         \A m \in Leases : owner'[m].phase = owner[m].phase /\ owner'[m].goal = owner[m].goal,
         sessions' \in [Sessions -> SessionStates], ended_ok' \subseteq Sessions,
         locks' \in [Devices -> [session : Sessions \cup {None}, id : LockIds \cup {0}]],
         \/ UNCHANGED proc
         \/ \E p \in Procs, rec \in ProcType :
              /\ proc' = [proc EXCEPT ![p] = rec]
              /\ rec.pc \in {"idle", "rel_unlock", "end"}
              /\ rec.pc = "end" => rec.sess \in Sessions
  PROVE  IInv'
  <1>1. CASE UNCHANGED proc
    <2>1. TypeOK'
      BY <1>1 DEF IInv, TypeOK
    <2>2. Named' /\ Fence'
      BY <1>1 DEF IInv, Named, Fence
    <2>3. Phases' /\ OneLive'
      BY DEF IInv, Phases, OneLive, Live
    <2>4. Claiming'
      BY <1>1 DEF IInv, Claiming
    <2>5. Quiet' /\ Begun' /\ AtMostOnce'
      BY <1>1 DEF IInv, Quiet, Begun, AtMostOnce, Live
    <2> QED  BY <2>1, <2>2, <2>3, <2>4, <2>5 DEF IInv
  <1>2. ASSUME NEW p \in Procs, NEW rec \in ProcType, proc' = [proc EXCEPT ![p] = rec],
               rec.pc \in {"idle", "rel_unlock", "end"}, rec.pc = "end" => rec.sess \in Sessions
        PROVE  IInv'
    <2>1. proc' \in [Procs -> ProcType] /\ proc'[p] = rec /\ \A q \in Procs : q # p => proc'[q] = proc[q]
      BY <1>2 DEF IInv, TypeOK
    <2>2. rec.pc \notin FencePcs
      BY <1>2, Typed
    <2>3. TameProcs(p)
      BY <1>2, <2>1, <2>2 DEF TameProcs
    <2>4. TypeOK'
      BY <2>1 DEF IInv, TypeOK
    <2>5. TameStores(p) /\ TameRequests
      BY StoresSame DEF TameRequests
    <2> QED  BY <2>3, <2>4, <2>5, TameKeeps
  <1> QED  BY <1>1, <1>2

\* The requests of clients, the clock, reconciliation, and the loss of a client.
LEMMA OtherSteps ==
  ASSUME IInv,
         \/ \E l \in Leases, p \in Procs :
              OwnerRelease(l, p) \/ OwnerReleaseAgain(l, p) \/ OwnerRenew(l, p)
         \/ \E p \in Procs : IpcFails(p) \/ Crash(p)
         \/ \E l \in Leases : Reconcile(l) \/ DeadlinePasses(l)
         \/ \E s \in Sessions : SessionExpires(s)
         \/ \E d \in Devices : LockExpires(d)
         \/ UNCHANGED vars
  PROVE  IInv'
  <1>t. /\ sessions \in [Sessions -> SessionStates] /\ ended_ok \subseteq Sessions
        /\ locks \in [Devices -> [session : Sessions \cup {None}, id : LockIds \cup {0}]]
        /\ owner \in [Leases -> OwnerType] /\ leases \in [Leases -> LeaseType]
    BY DEF IInv, TypeOK
  <1>1. ASSUME NEW l \in Leases, NEW p \in Procs, OwnerRelease(l, p)
        PROVE  IInv'
    BY <1>1, ClosingKeeps DEF OwnerRelease
  <1>2. ASSUME NEW l \in Leases, NEW p \in Procs, OwnerReleaseAgain(l, p)
        PROVE  IInv'
    <2>1. leases[l].state \in Outs
      BY <1>t DEF LeaseType, Outs
    <2>2. \E rec \in ProcType :
             /\ Answered(p, leases[l].state) = [proc EXCEPT ![p] = rec]
             /\ rec.pc \in {"idle", "rel_unlock", "end"}
             /\ rec.pc = "end" => rec.sess \in Sessions
      BY <2>1, AnsweredIs
    <2> QED  BY <1>2, <2>2, DieKeeps DEF OwnerReleaseAgain
  <1>3. ASSUME NEW l \in Leases, NEW p \in Procs, OwnerRenew(l, p)
        PROVE  IInv'
    <2>1. \E rec \in ProcType :
             /\ Answered(p, "renewed") = [proc EXCEPT ![p] = rec]
             /\ rec.pc \in {"idle", "rel_unlock", "end"}
             /\ rec.pc = "end" => rec.sess \in Sessions
      BY <1>3, AnsweredIs DEF OwnerRenew, Asks
    <2>2. /\ UNCHANGED <<sessions, locks, reqs, leases, owner, claims, ended_ok>>
          /\ proc' = Answered(p, "renewed")
      BY <1>3 DEF OwnerRenew
    <2> QED  BY <1>t, <2>1, <2>2, StillKeeps
  <1>4. ASSUME NEW p \in Procs, IpcFails(p) \/ Crash(p)
        PROVE  IInv'
    <2>1. \E rec \in ProcType :
             /\ proc' = [proc EXCEPT ![p] = rec]
             /\ rec.pc \in {"idle", "rel_unlock", "end"}
             /\ rec.pc = "end" => rec.sess \in Sessions
      <3>1. CASE IpcFails(p)
        BY <3>1, AnsweredIs DEF IpcFails
      <3>2. CASE Crash(p)
        <4>1. Idle \in ProcType /\ Idle.pc = "idle"
          BY Typed DEF Idle
        <4> QED  BY <3>2, <4>1 DEF Crash, Return
      <3> QED  BY <1>4, <3>1, <3>2
    <2>2. /\ UNCHANGED <<sessions, locks, reqs, leases, claims, ended_ok>>
          /\ owner' = Disconnected(p)
      BY <1>4 DEF IpcFails, Crash
    <2>3. /\ owner' \in [Leases -> OwnerType]
          /\ \A m \in Leases : owner'[m].phase = owner[m].phase /\ owner'[m].goal = owner[m].goal
      BY <1>t, <2>2 DEF Disconnected, OwnerType
    <2> QED  BY <1>t, <2>1, <2>2, <2>3, StillKeeps
  <1>5. ASSUME NEW l \in Leases, Reconcile(l)
        PROVE  IInv'
    <2>1. owner[l] \in OwnerType /\ owner' = [owner EXCEPT ![l] = owner[l]]
      BY <1>5, <1>t DEF Reconcile
    <2>2. leases[l].state \in {"opening", "active"} /\ owner[l].phase = "dead"
          /\ leases' = [leases EXCEPT ![l].state = "owner_lost"]
      BY <1>5 DEF Reconcile, transition, From
    <2>3. Move(l, owner[l], "owner_lost")
      BY <2>1, <2>2 DEF Move, Live
    <2>4. "owner_lost" \in LeaseStates \ {"unused"}
      BY DEF LeaseStates
    <2> QED  BY <1>5, <2>1, <2>2, <2>3, <2>4, OwnerKeeps DEF Reconcile
  <1>6. ASSUME NEW l \in Leases, DeadlinePasses(l)
        PROVE  IInv'
    <2>1. /\ owner' \in [Leases -> OwnerType]
          /\ \A m \in Leases : owner'[m].phase = owner[m].phase /\ owner'[m].goal = owner[m].goal
      BY <1>6, <1>t DEF DeadlinePasses, OwnerType
    <2> QED  BY <1>6, <1>t, <2>1, StillKeeps DEF DeadlinePasses
  <1>7. ASSUME NEW s \in Sessions, SessionExpires(s)
        PROVE  IInv'
    <2>1. sessions' \in [Sessions -> SessionStates]
          /\ locks' \in [Devices -> [session : Sessions \cup {None}, id : LockIds \cup {0}]]
      BY <1>7, <1>t, LocksTyped DEF SessionExpires, SessionStates
    <2> QED  BY <1>7, <1>t, <2>1, StillKeeps DEF SessionExpires
  <1>8. ASSUME NEW d \in Devices, LockExpires(d)
        PROVE  IInv'
    <2>1. locks' \in [Devices -> [session : Sessions \cup {None}, id : LockIds \cup {0}]]
      BY <1>8, LocksTyped DEF LockExpires
    <2> QED  BY <1>8, <1>t, <2>1, StillKeeps DEF LockExpires
  <1>9. CASE UNCHANGED vars
    BY <1>9, <1>t, StillKeeps DEF vars
  <1> QED  BY <1>1, <1>2, <1>3, <1>4, <1>5, <1>6, <1>7, <1>8, <1>9

-----------------------------------------------------------------------------
(* Commands that move a record or an owner on.                             *)
LEMMA CommandMoves ==
  ASSUME IInv, NEW p \in Procs, NEW rec \in ProcType, proc' = [proc EXCEPT ![p] = rec],
         NEW l \in Leases, NEW o \in OwnerType, NEW state \in LeaseStates \ {"unused"},
         Move(l, o, state),
         owner[l].phase = "dead" => o.phase = "dead",
         owner[l].phase = "none" => o.phase = "none" \/ proc[p].pc \in {"spawn", "wait"},
         rec.pc \in {"wait", "classify", "abort", "unlock", "settle", "end"},
         rec.pc \in FencePcs => proc[p].pc \in FencePcs,
         rec.pc \in {"wait", "classify", "abort"} => rec.lease = l,
         rec.pc = "classify" => o.phase = "dead",
         rec.pc = "end" => rec.sess \in Sessions,
         locks' \in [Devices -> [session : Sessions \cup {None}, id : LockIds \cup {0}]],
         UNCHANGED <<sessions, reqs, claims, ended_ok>>
  PROVE  IInv'
  <1>1. proc' \in [Procs -> ProcType] /\ proc'[p] = rec /\ \A q \in Procs : q # p => proc'[q] = proc[q]
    BY DEF IInv, TypeOK
  <1>2. owner'[l] = o /\ leases'[l].state = state
    BY DEF IInv, TypeOK, Move, LeaseType
  <1>3. TameProcs(p)
    BY <1>1, <1>2 DEF TameProcs, ClaimingAt
  <1> QED  BY <1>1, <1>3, LeaseStepKeeps

\* An owner as it is, its record as it is or moved on from where it holds no
\* device.
LEMMA SameOwner ==
  ASSUME IInv, NEW l \in Leases, UNCHANGED owner, leases[l].state # "unused",
         NEW state \in LeaseStates \ {"unused"}, leases' = [leases EXCEPT ![l].state = state],
         \/ state = leases[l].state
         \/ state = "open_failed" /\ leases[l].state = "claim_intent"
         \/ state = "owner_lost" /\ leases[l].state \in {"opening", "active"} /\ owner[l].phase = "dead"
  PROVE  Move(l, owner[l], state) /\ owner[l] \in OwnerType
  <1>1. owner \in [Leases -> OwnerType] /\ owner' = [owner EXCEPT ![l] = owner[l]]
    BY DEF IInv, TypeOK
  <1> QED  BY <1>1 DEF IInv, Phases, Move, Live, blocks_refresh

LEMMA SpawnKeeps ==
  ASSUME IInv, NEW p \in Procs, Spawn(p)
  PROVE  IInv'
  <1> DEFINE l == proc[p].lease
  <1>1. /\ l \in Leases /\ leases[l].state # "unused" /\ owner[l].phase = "none"
        /\ leases \in [Leases -> LeaseType] /\ proc[p] \in ProcType /\ owner[l] \in OwnerType
        /\ locks' \in [Devices -> [session : Sessions \cup {None}, id : LockIds \cup {0}]]
    BY DEF Spawn, IInv, Claiming, TypeOK
  <1>2. /\ leases[l].state \in LeaseStates \ {"unused"}
        /\ leases' = [leases EXCEPT ![l].state = leases[l].state]
    BY <1>1, Transitions DEF LeaseType, Spawn
  <1>3. proc[p].pc \in FencePcs /\ {"wait", "abort"} \subseteq Pcs /\ "failed" \in Outs
    BY Typed DEF Spawn, Outs
  <1>u. UNCHANGED <<sessions, reqs, claims, ended_ok>> /\ proc[p].pc = "spawn"
    BY DEF Spawn
  <1>4. CASE owner' = [owner EXCEPT ![l].phase = "launched"] /\ Goto(p, "wait")
    <2> DEFINE o == [owner[l] EXCEPT !.phase = "launched"]
               rec == [proc[p] EXCEPT !.pc = "wait"]
    <2>1. o \in OwnerType /\ o.phase = "launched" /\ owner' = [owner EXCEPT ![l] = o]
      BY <1>1, <1>4 DEF OwnerType
    <2>2. rec \in ProcType /\ rec.pc = "wait" /\ rec.lease = l /\ proc' = [proc EXCEPT ![p] = rec]
      BY <1>1, <1>3, <1>4 DEF ProcType, Goto
    <2> HIDE DEF o, rec, l
    <2>3. Move(l, o, leases[l].state)
      BY <1>1, <1>2, <2>1 DEF Move, Live, blocks_refresh
    <2> QED  BY <1>1, <1>2, <1>3, <1>u, <2>1, <2>2, <2>3, CommandMoves
  <1>5. CASE Finish(p, "abort", "failed") /\ UNCHANGED owner
    <2> DEFINE rec == [proc[p] EXCEPT !.pc = "abort", !.out = "failed"]
    <2>1. rec \in ProcType /\ rec.pc = "abort" /\ rec.lease = l /\ proc' = [proc EXCEPT ![p] = rec]
      BY <1>1, <1>3, <1>5 DEF ProcType, Finish
    <2> HIDE DEF rec, l
    <2>2. Move(l, owner[l], leases[l].state)
      BY <1>1, <1>2, <1>5, SameOwner
    <2> QED  BY <1>1, <1>2, <1>3, <1>u, <2>1, <2>2, CommandMoves
  <1> QED  BY <1>4, <1>5 DEF Spawn

LEMMA AbortKeeps ==
  ASSUME IInv, NEW p \in Procs, Abort(p)
  PROVE  IInv'
  <1> DEFINE l == proc[p].lease
             rec == [proc[p] EXCEPT !.pc = "unlock"]
  <1>1. /\ l \in Leases /\ leases[l].state # "unused"
        /\ leases \in [Leases -> LeaseType] /\ proc[p] \in ProcType
        /\ locks' \in [Devices -> [session : Sessions \cup {None}, id : LockIds \cup {0}]]
        /\ UNCHANGED <<sessions, reqs, owner, claims, ended_ok>>
    BY DEF Abort, IInv, Claiming, TypeOK
  <1>2. rec \in ProcType /\ rec.pc = "unlock" /\ proc' = [proc EXCEPT ![p] = rec]
        /\ proc[p].pc \in FencePcs
    <2>1. "unlock" \in Pcs /\ proc[p].pc \in FencePcs
      BY Typed DEF Abort
    <2> QED  BY <1>1, <2>1 DEF ProcType, Abort, Goto
  <1>3. leases' \in {leases, transition(leases, l, "mark_unclaimed_open_failed", "open_failed")}
    BY DEF Abort
  <1> HIDE DEF l, rec
  <1>4. PICK state \in LeaseStates \ {"unused"} :
          /\ leases' = [leases EXCEPT ![l].state = state]
          /\ state = leases[l].state \/ (state = "open_failed" /\ leases[l].state = "claim_intent")
    <2>1. leases[l].state \in LeaseStates /\ "open_failed" \in LeaseStates
      BY <1>1 DEF LeaseType, LeaseStates
    <2>2. From("mark_unclaimed_open_failed") = {"claim_intent"}
      BY DEF From
    <2> QED  BY <1>1, <1>3, <2>1, <2>2, Transitions
  <1>5. Move(l, owner[l], state) /\ owner[l] \in OwnerType
    BY <1>1, <1>4, SameOwner
  <1> QED  BY <1>1, <1>2, <1>5, CommandMoves

LEMMA WaitTimeoutKeeps ==
  ASSUME IInv, NEW p \in Procs, WaitTimeout(p)
  PROVE  IInv'
  <1> DEFINE l == proc[p].lease
             o == [NoOwner EXCEPT !.phase = "dead"]
             rec == [proc[p] EXCEPT !.pc = "classify"]
  <1>1. /\ l \in Leases /\ leases[l].state # "unused"
        /\ leases \in [Leases -> LeaseType] /\ proc[p] \in ProcType
        /\ locks' \in [Devices -> [session : Sessions \cup {None}, id : LockIds \cup {0}]]
        /\ UNCHANGED <<sessions, reqs, leases, claims, ended_ok>> /\ proc[p].pc = "wait"
    BY DEF WaitTimeout, IInv, Claiming, TypeOK
  <1>2. rec \in ProcType /\ rec.pc = "classify" /\ rec.lease = l /\ proc' = [proc EXCEPT ![p] = rec]
        /\ proc[p].pc \in FencePcs
    <2>1. "classify" \in Pcs /\ proc[p].pc \in FencePcs
      BY <1>1, Typed
    <2> QED  BY <1>1, <2>1 DEF ProcType, WaitTimeout, Goto
  <1>3. o \in OwnerType /\ o.phase = "dead" /\ owner' = [owner EXCEPT ![l] = o]
    BY <1>1, OwnerTyped DEF WaitTimeout, Die
  <1>4. /\ leases[l].state \in LeaseStates \ {"unused"}
        /\ leases' = [leases EXCEPT ![l].state = leases[l].state]
    BY <1>1, Transitions DEF LeaseType
  <1> HIDE DEF l, o, rec
  <1>5. Move(l, o, leases[l].state)
    BY <1>1, <1>3, <1>4 DEF Move, Live, blocks_refresh
  <1> QED  BY <1>1, <1>2, <1>3, <1>4, <1>5, CommandMoves

\* The owner is dead: its record is given up, moved on or left.
LEMMA ClassifyKeeps ==
  ASSUME IInv, NEW p \in Procs, Classify(p)
  PROVE  IInv'
  <1> DEFINE l == proc[p].lease
  <1>1. /\ l \in Leases /\ leases[l].state # "unused" /\ owner[l].phase = "dead"
        /\ leases \in [Leases -> LeaseType] /\ proc[p] \in ProcType
        /\ UNCHANGED <<sessions, reqs, owner, claims, ended_ok>> /\ proc[p].pc = "classify"
    BY DEF Classify, IInv, Claiming, TypeOK
  <1>2. PICK pc \in {"abort", "settle", "unlock"}, out \in {"failed", "unknown"} : Finish(p, pc, out)
    BY DEF Classify
  <1>3. locks' \in [Devices -> [session : Sessions \cup {None}, id : LockIds \cup {0}]]
    <2>1. locks' \in {locks, lock_release(locks, proc[p].dev)}
      BY DEF Classify
    <2>2. locks \in [Devices -> [session : Sessions \cup {None}, id : LockIds \cup {0}]]
      BY DEF IInv, TypeOK
    <2> QED  BY <2>1, <2>2, LocksTyped
  <1>4. \/ leases' = leases
        \/ /\ leases[l].state \in {"opening", "active"}
           /\ leases' = transition(leases, l, "mark_owner_lost", "owner_lost")
    BY DEF Classify
  <1> DEFINE rec == [proc[p] EXCEPT !.pc = pc, !.out = out]
  <1>5. rec \in ProcType /\ rec.pc = pc /\ rec.lease = l /\ proc' = [proc EXCEPT ![p] = rec]
        /\ proc[p].pc \in FencePcs
    <2>1. pc \in Pcs /\ out \in Outs /\ proc[p].pc \in FencePcs
      BY <1>1, Typed DEF Outs
    <2> QED  BY <1>1, <1>2, <2>1 DEF ProcType, Finish
  <1> HIDE DEF l, rec
  <1>6. PICK state \in LeaseStates \ {"unused"} :
          /\ leases' = [leases EXCEPT ![l].state = state]
          /\ \/ state = leases[l].state
             \/ state = "owner_lost" /\ leases[l].state \in {"opening", "active"}
    <2>1. leases[l].state \in LeaseStates /\ "owner_lost" \in LeaseStates
      BY <1>1 DEF LeaseType, LeaseStates
    <2> QED  BY <1>1, <1>4, <2>1, Transitions
  <1>7. Move(l, owner[l], state) /\ owner[l] \in OwnerType
    BY <1>1, <1>6, SameOwner
  <1> QED  BY <1>1, <1>3, <1>5, <1>7, CommandMoves

LEMMA EndStepKeeps ==
  ASSUME IInv, NEW p \in Procs, NEW item \in proc[p].todo, EndStep(p, item)
  PROVE  IInv'
  <1> DEFINE l == item[1]
             rest == proc[p].todo \ {item}
  <1>1. /\ l \in Leases /\ leases \in [Leases -> LeaseType] /\ proc[p] \in ProcType
        /\ rest \subseteq Leases \X LeaseStates
        /\ proc[p].pc = "end" /\ proc[p].sess \in Sessions
        /\ UNCHANGED <<sessions, locks, reqs, owner, claims, ended_ok>>
    <2>1. proc[p] \in ProcType /\ leases \in [Leases -> LeaseType]
      BY DEF IInv, TypeOK
    <2>2. proc[p].todo \subseteq Leases \X LeaseStates
      BY <2>1 DEF ProcType
    <2>3. item \in Leases \X LeaseStates
      BY <2>2
    <2> QED  BY <2>1, <2>2, <2>3 DEF EndStep, IInv, Named
  <1>2. /\ sessions' \in [Sessions -> SessionStates] /\ reqs' \in [Requests -> RequestType]
        /\ locks' \in [Devices -> [session : Sessions \cup {None}, id : LockIds \cup {0}]]
        /\ ended_ok' \subseteq Sessions
    BY <1>1 DEF IInv, TypeOK
  <1>3. {"end", "end_ipc"} \subseteq Pcs \ FencePcs /\ {proc[p].out, "failed"} \subseteq Outs
    <2>1. {"end", "end_ipc"} \subseteq Pcs \ FencePcs
      BY DEF Pcs, GatePcs, FencePcs, ClaimPcs
    <2>2. proc[p].out \in Outs
      BY <1>1 DEF ProcType
    <2> QED  BY <2>1, <2>2 DEF Outs
  <1>n. ASSUME NEW out \in {proc[p].out, "failed"},
               proc' = [proc EXCEPT ![p].todo = @ \ {item}, ![p].out = out]
        PROVE  \E rec \in ProcType : /\ proc' = [proc EXCEPT ![p] = rec]
                                     /\ rec.pc = "end" /\ rec.sess \in Sessions
    <2> DEFINE rec == [proc[p] EXCEPT !.todo = rest, !.out = out]
    <2>1. rec \in ProcType /\ rec.pc = "end" /\ rec.sess \in Sessions
      <3>1. rest \in SUBSET (Leases \X LeaseStates)
        BY <1>1
      <3> HIDE DEF rest
      <3> QED  BY <1>1, <1>3, <3>1 DEF ProcType
    <2>2. proc' = [proc EXCEPT ![p] = rec]
      BY <1>n
    <2> HIDE DEF rec
    <2> QED  BY <2>1, <2>2
  <1>4. CASE UNCHANGED leases /\ \E out \in {proc[p].out, "failed"} :
               proc' = [proc EXCEPT ![p].todo = @ \ {item}, ![p].out = out]
    <2>1. PICK rec \in ProcType : /\ proc' = [proc EXCEPT ![p] = rec]
                                  /\ rec.pc = "end" /\ rec.sess \in Sessions
      BY <1>4, <1>n
    <2> QED  BY <1>1, <1>2, <1>3, <1>4, <2>1, CommandKeeps
  <1>5. CASE /\ proc' = [proc EXCEPT ![p].todo = @ \ {item}, ![p].pc = "end_ipc", ![p].lease = l]
             /\ UNCHANGED leases
    <2> DEFINE rec == [proc[p] EXCEPT !.todo = rest, !.pc = "end_ipc", !.lease = l]
    <2>1. rec \in ProcType /\ rec.pc = "end_ipc" /\ rec.sess \in Sessions
      <3>1. rest \in SUBSET (Leases \X LeaseStates)
        BY <1>1
      <3> HIDE DEF rest, l
      <3> QED  BY <1>1, <1>3, <3>1 DEF ProcType
    <2>2. proc' = [proc EXCEPT ![p] = rec]
      BY <1>5
    <2> HIDE DEF rec
    <2> QED  BY <1>1, <1>2, <1>3, <1>5, <2>1, <2>2, CommandKeeps
  <1>6. CASE /\ leases[l].state = "claim_intent"
             /\ leases' = transition(leases, l, "mark_unclaimed_open_failed", "open_failed")
             /\ proc' = [proc EXCEPT ![p].todo = @ \ {item}, ![p].out = proc[p].out]
    <2>1. PICK rec \in ProcType : /\ proc' = [proc EXCEPT ![p] = rec]
                                  /\ rec.pc = "end" /\ rec.sess \in Sessions
      BY <1>6, <1>n
    <2>2. leases' = [leases EXCEPT ![l].state = "open_failed"]
      BY <1>6 DEF transition, From
    <2>3. "open_failed" \in LeaseStates \ {"unused"}
      BY DEF LeaseStates
    <2> HIDE DEF l
    <2>4. Move(l, owner[l], "open_failed") /\ owner[l] \in OwnerType
      BY <1>1, <1>6, <2>2, <2>3, SameOwner
    <2> QED  BY <1>1, <1>2, <1>3, <2>1, <2>3, <2>4, CommandMoves
  <1> QED  BY <1>4, <1>5, <1>6 DEF EndStep

-----------------------------------------------------------------------------
(* A claim begins: its request id is new, so nobody else is serving it.    *)
LEMMA ClaimBeginKeeps ==
  ASSUME IInv, NEW p \in Procs, NEW r \in Requests, NEW s \in Sessions, NEW d \in Devices,
         ClaimBegin(p, r, s, d)
  PROVE  IInv'
  <1> DEFINE rec == [Idle EXCEPT !.pc = "admit", !.req = r, !.sess = s, !.dev = d]
  <1>1. /\ rec \in ProcType /\ rec.pc = "admit" /\ rec.req = r /\ rec.dev = d
        /\ rec.pc \notin FencePcs
    <2>1. Idle \in ProcType
      BY Typed
    <2>2. "admit" \in Pcs \ FencePcs
      BY DEF Pcs, FencePcs, ClaimPcs
    <2> QED  BY <2>1, <2>2 DEF ProcType
  <1>2. proc' = [proc EXCEPT ![p] = rec] /\ UNCHANGED <<sessions, locks, leases, owner, claims, ended_ok>>
        /\ reqs' = [reqs EXCEPT ![r] = ReservedRequest(<<s, d>>)] /\ proc[p].pc = "idle"
    BY DEF ClaimBegin, reserve
  <1>3. reqs[r].state = "none"
    BY DEF ClaimBegin, ReserveDecision
  <1> HIDE DEF rec
  <1>4. /\ proc' \in [Procs -> ProcType] /\ proc'[p] = rec
        /\ \A q \in Procs : q # p => proc'[q] = proc[q]
    BY <1>1, <1>2 DEF IInv, TypeOK
  <1>5. ReservedRequest(<<s, d>>) \in RequestType /\ ReservedRequest(<<s, d>>).state # "none"
    BY DEF ReservedRequest, RequestType, Outs, None
  <1>6. /\ reqs' \in [Requests -> RequestType] /\ reqs'[r].state # "none"
        /\ \A x \in Requests : x # r => reqs'[x] = reqs[x]
    BY <1>2, <1>5 DEF IInv, TypeOK
  <1>7. TypeOK'
    BY <1>2, <1>4, <1>6 DEF IInv, TypeOK
  <1>8. Named' /\ Fence'
    BY <1>1, <1>4 DEF IInv, Named, Fence
  <1>9. Phases' /\ OneLive'
    BY <1>2 DEF IInv, Phases, OneLive, Live
  <1>10. Claiming' /\ Quiet'
    BY <1>1, <1>2, <1>4 DEF IInv, Claiming, Quiet, Live
  <1>11. Begun'
    <2>1. claims[r] = {} /\ \A q \in Procs : proc[q].pc \in {"admit", "reserve"} => proc[q].req # r
      BY <1>3 DEF IInv, Begun
    <2> QED  BY <1>1, <1>2, <1>4, <1>6, <2>1 DEF IInv, Begun
  <1>12. AtMostOnce'
    BY <1>2 DEF IInv, AtMostOnce
  <1> QED  BY <1>7, <1>8, <1>9, <1>10, <1>11, <1>12 DEF IInv

\* A record is reserved: the device is not busy, and whoever holds the fence
\* is not publishing.
LEMMA ReserveClaimKeeps ==
  ASSUME IInv, NEW p \in Procs, NEW l \in Leases, ReserveClaim(p, l)
  PROVE  IInv'
  <1> DEFINE rec == [proc[p] EXCEPT !.pc = "spawn", !.lease = l]
             new == [state |-> "claim_intent", session |-> proc[p].sess,
                     device |-> proc[p].dev, lock |-> proc[p].lock]
             r == proc[p].req
  <1>0. /\ proc[p].pc = "reserve" /\ leases[l].state = "unused" /\ proc[p] \in ProcType
        /\ leases \in [Leases -> LeaseType] /\ UNCHANGED <<sessions, locks, reqs, owner, ended_ok>>
    BY DEF ReserveClaim, IInv, TypeOK
  <1>1. /\ rec \in ProcType /\ rec.pc = "spawn" /\ rec.lease = l /\ proc[p].pc \in FencePcs
        /\ rec.pc \in FencePcs
    <2>1. {"spawn", "reserve"} \subseteq Pcs \cap FencePcs
      BY Typed
    <2> QED  BY <1>0, <2>1 DEF ProcType
  <1>2. proc' = [proc EXCEPT ![p] = rec] /\ claims' = [claims EXCEPT ![r] = @ \cup {l}]
    BY DEF ReserveClaim
  <1>3. r \in Requests /\ reqs[r].state # "none" /\ claims[r] = {}
    BY <1>0 DEF IInv, Begun
  <1>4. /\ proc' \in [Procs -> ProcType] /\ proc'[p] = rec
        /\ \A q \in Procs : q # p => proc'[q] = proc[q]
    BY <1>1, <1>2 DEF IInv, TypeOK
  <1>5. /\ claims' \in [Requests -> SUBSET Leases] /\ claims'[r] = {l}
        /\ \A x \in Requests : x # r => claims'[x] = claims[x]
    BY <1>2, <1>3 DEF IInv, TypeOK
  <1>6. PICK out \in Evictable(leases) : leases' = [Evict(leases, out) EXCEPT ![l] = new]
    BY DEF ReserveClaim, reserve_claim
  <1>7. new \in LeaseType /\ new.state = "claim_intent" /\ new.device = proc[p].dev
    BY <1>0 DEF ProcType, LeaseType, LeaseStates
  <1>8. out \subseteq {k \in Leases : is_terminal(leases[k].state)}
    BY <1>0, <1>6 DEF Evictable, Stored
  <1>9. /\ leases' \in [Leases -> LeaseType] /\ leases'[l] = new
        /\ \A m \in Leases : m # l =>
             \/ leases'[m] = leases[m]
             \/ /\ leases'[m] = [leases[m] EXCEPT !.state = "evicted"]
                /\ leases'[m].state = "evicted" /\ is_terminal(leases[m].state)
    <2>1. Evict(leases, out) \in [Leases -> LeaseType]
      BY <1>0 DEF Evict, LeaseType, LeaseStates
    <2>2. \A m \in Leases : Evict(leases, out)[m] =
             IF m \in out THEN [leases[m] EXCEPT !.state = "evicted"] ELSE leases[m]
      BY <1>0 DEF Evict
    <2>3. \A m \in Leases : [leases[m] EXCEPT !.state = "evicted"].state = "evicted"
      BY <1>0 DEF LeaseType
    <2> HIDE DEF new
    <2> QED  BY <1>6, <1>7, <1>8, <2>1, <2>2, <2>3
  <1> HIDE DEF rec, new, r
  <1>10. TypeOK'
    BY <1>0, <1>4, <1>5, <1>9 DEF IInv, TypeOK
  <1>11. Named' /\ Fence'
    BY <1>1, <1>4 DEF IInv, Named, Fence
  <1>12. Phases'
    BY <1>0, <1>7, <1>9 DEF IInv, Phases, is_terminal
  <1>13. OneLive'
    <2>1. \A m \in Leases : m # l /\ Live(m)' =>
            /\ leases'[m] = leases[m] /\ Live(m) /\ leases[m].device # proc[p].dev
      BY <1>0, <1>9 DEF Live, ReserveClaim, device_busy, Stored, is_terminal
    <2> QED  BY <1>7, <1>9, <2>1 DEF IInv, OneLive
  <1>14. Claiming'
    <2>1. \A q \in Procs : q # p => proc[q].pc \notin FencePcs
      BY <1>1 DEF IInv, Fence
    <2>2. {"spawn", "abort", "wait", "classify"} \subseteq FencePcs
      BY DEF FencePcs, ClaimPcs
    <2>3. owner'[l].phase = "none"
      BY <1>0 DEF IInv, Phases
    <2> QED  BY <1>1, <1>4, <1>7, <1>9, <2>1, <2>2, <2>3 DEF Claiming
  <1>15. Quiet'
    BY <1>0, <1>1, <1>4 DEF IInv, Fence, Quiet, FencePcs
  <1>16. Begun'
    <2>1. \A q \in Procs : q # p /\ proc[q].pc \in {"admit", "reserve"} => proc[q].req # r
      BY <1>0 DEF IInv, Begun, r
    <2>2. \A q \in Procs : proc'[q].pc \in {"admit", "reserve"} => q # p /\ proc'[q] = proc[q]
      BY <1>1, <1>4
    <2>3. \A q \in Procs : proc'[q].pc \in {"admit", "reserve"} =>
            /\ proc'[q].req \in Requests /\ reqs'[proc'[q].req].state # "none"
            /\ claims'[proc'[q].req] = {}
      BY <1>0, <1>5, <2>1, <2>2 DEF IInv, Begun
    <2>4. \A q, q2 \in Procs :
            /\ proc'[q].pc \in {"admit", "reserve"} /\ proc'[q2].pc \in {"admit", "reserve"}
            /\ proc'[q].req = proc'[q2].req
            => q = q2
      BY <2>2 DEF IInv, Begun
    <2>5. \A x \in Requests : claims'[x] # {} => reqs'[x].state # "none"
      BY <1>0, <1>3, <1>5 DEF IInv, Begun
    <2> QED  BY <2>3, <2>4, <2>5 DEF Begun
  <1>17. AtMostOnce'
    BY <1>5 DEF IInv, AtMostOnce
  <1> QED  BY <1>10, <1>11, <1>12, <1>13, <1>14, <1>15, <1>16, <1>17 DEF IInv

-----------------------------------------------------------------------------
LEMMA InitInv ==
  ASSUME Init PROVE IInv
  <1>1. leases \in [Leases -> LeaseType] /\ \A l \in Leases : leases[l].state \in {"unused", "released"}
    BY DEF Init, LeaseType, LeaseStates, Unused
  <1>2. \A p \in Procs : proc[p] = Idle
    BY DEF Init
  <1>3. Idle.pc = "idle" /\ Idle \in ProcType
    BY DEF Idle, ProcType, Pcs, Outs
  <1>4. NoOwner \in OwnerType /\ NoOwner.phase = "none"
    BY DEF NoOwner, OwnerType
  <1>5. NoRequest \in RequestType
    BY DEF NoRequest, RequestType, Outs, None
  <1>6. NoLock \in [session : Sessions \cup {None}, id : LockIds \cup {0}]
    BY DEF NoLock, None
  <1>7. TypeOK
    BY <1>1, <1>3, <1>4, <1>5, <1>6 DEF Init, TypeOK, SessionStates
  <1>8. "idle" \notin FencePcs
    BY DEF FencePcs, ClaimPcs
  <1>9. Named /\ Fence /\ Claiming /\ Quiet
    BY <1>2, <1>3, <1>8 DEF Named, Fence, Claiming, Quiet
  <1>10. Phases /\ OneLive
    BY <1>1, <1>4 DEF Init, Phases, OneLive, Live
  <1>11. Begun /\ AtMostOnce
    BY <1>2, <1>3 DEF Init, Begun, AtMostOnce
  <1> QED  BY <1>7, <1>9, <1>10, <1>11 DEF IInv

LEMMA NextInv ==
  ASSUME IInv, [Next]_vars
  PROVE  IInv'
  <1>1. ASSUME NEW p \in Procs, ProcStep(p)
        PROVE  IInv'
    <2>1. CASE \E r \in Requests, s \in Sessions, d \in Devices : ClaimBegin(p, r, s, d)
      BY <2>1, ClaimBeginKeeps
    <2>2. CASE \/ AuditUnavailable(p) \/ AdmitRefused(p) \/ ReserveRefused(p) \/ Unlock(p)
               \/ Settle(p) \/ ReleaseDone(p) \/ EndDone(p) \/ RefreshDone(p)
      BY <2>2, PlainCommands
    <2>3. CASE Admit(p)
      BY <2>3, AdmitKeeps
    <2>4. CASE \E l \in Leases : ReserveClaim(p, l)
      BY <2>4, ReserveClaimKeeps
    <2>5. CASE Spawn(p)
      BY <2>5, SpawnKeeps
    <2>6. CASE Abort(p)
      BY <2>6, AbortKeeps
    <2>7. CASE Wait(p)
      BY <2>7, WaitKeeps
    <2>8. CASE WaitTimeout(p)
      BY <2>8, WaitTimeoutKeeps
    <2>9. CASE Classify(p)
      BY <2>9, ClassifyKeeps
    <2>10. CASE \/ \E l \in Leases : ReleaseBegin(p, l) \/ RenewBegin(p, l)
                \/ \E s \in Sessions : EndBegin(p, s)
                \/ RefreshBegin(p)
      BY <2>10, BeginKeeps
    <2>11. CASE \E item \in proc[p].todo : EndStep(p, item)
      BY <2>11, EndStepKeeps
    <2>12. CASE IpcFails(p) \/ Crash(p)
      BY <2>12, OtherSteps
    <2> QED  BY <1>1, <2>1, <2>2, <2>3, <2>4, <2>5, <2>6, <2>7, <2>8, <2>9, <2>10, <2>11, <2>12
             DEF ProcStep
  <1>2. ASSUME NEW l \in Leases, OwnerStep(l)
        PROVE  IInv'
    BY <1>2, OwnerSteps
  <1> QED  BY <1>1, <1>2, OtherSteps DEF Next

LEMMA Inductive == Spec => []IInv
  <1>1. Init => IInv
    BY InitInv
  <1>2. IInv /\ [Next]_vars => IInv'
    BY NextInv
  <1> QED  BY <1>1, <1>2, PTL DEF Spec

\* The stores, the commands and the owners hold what they are meant to hold.
THEOREM TypeCorrect == Spec => []TypeOK
  <1>1. IInv => TypeOK
    BY DEF IInv
  <1> QED  BY <1>1, Inductive, PTL

\* A device that an owner has open is on record as opening or active: the
\* owner writes before it opens (claim_opening) and closes before it writes
\* (finish), and a record is given up only under an owner that is dead or
\* has not taken up its claim.
THEOREM OpenOnRecord == Spec => []OpenIsRecorded
  <1>1. IInv => OpenIsRecorded
    BY DEF IInv, Phases, OpenIsRecorded, HandleOpen
  <1> QED  BY <1>1, Inductive, PTL

\* Two owners are never at work on one device: reserve_claim refuses a device
\* with a record that is not terminal, and evicts none of those.
THEOREM SingleOwner == Spec => []OneOwner
  <1>1. IInv => OneOwner
    BY DEF IInv, Phases, OneLive, Live, OneOwner
  <1> QED  BY <1>1, Inductive, PTL

\* setup --apply publishes while every device is closed: the fence keeps
\* claims out from its look at the records to the end of the publication,
\* and no owner that it overlooked can still take up a claim.
THEOREM PublishesQuietly == Spec => []ReadyMeansQuiet
  <1>1. IInv => ReadyMeansQuiet
    BY DEF IInv, Phases, Quiet, Live, ReadyMeansQuiet, HandleOpen
  <1> QED  BY <1>1, Inductive, PTL

\* A caller request id reserves one lease at most: its record is written
\* before the claim is admitted and is never again "none".
THEOREM ClaimedOnce == Spec => []AtMostOnce
  <1>1. IInv => AtMostOnce
    BY DEF IInv
  <1> QED  BY <1>1, Inductive, PTL

-----------------------------------------------------------------------------
(***************************************************************************)
(* The end of a session.                                                   *)
(***************************************************************************)
\* A record whose owner has the device open or may still open it.
Pending(l) == leases[l].state \in {"claim_intent", "opening", "active"}

\* One command at most is inside the gate of a session.
Gate ==
  \A p, q \in Procs :
    proc[p].pc \in GatePcs /\ proc[q].pc \in GatePcs /\ proc[p].sess = proc[q].sess => p = q

\* A session that ended stays ended, and has no claim past its admission.
Ended ==
  /\ \A s \in ended_ok : sessions[s] = "ended"
  /\ \A p \in Procs :
       /\ proc[p].pc \in {"end", "end_ipc"} => sessions[proc[p].sess] = "ended"
       /\ proc[p].pc = "reserve" => proc[p].sess \notin ended_ok

\* The client that an owner will answer is waiting for it.
ClientAt(l) ==
  /\ owner[l].phase = "closing" /\ owner[l].client \in Procs
  /\ proc[owner[l].client].pc \in {"rel", "end_ipc"} /\ proc[owner[l].client].lease = l

Clients == \A l \in Leases : owner[l].client # None => ClientAt(l)

\* What is pending of the session is still on the list of its session-end, or
\* is what it waits for.
AccountedAt(p) ==
  \A l \in Leases :
    leases[l].session = proc[p].sess /\ Pending(l) =>
      \/ \E item \in proc[p].todo : item[1] = l /\ ~is_terminal(item[2])
      \/ proc[p].pc = "end_ipc" /\ proc[p].lease = l

Accounted ==
  \A p \in Procs :
    proc[p].pc \in {"end", "end_ipc"} /\ proc[p].out # "failed" => AccountedAt(p)

Over == \A l \in Leases : leases[l].session \in ended_ok => ~Pending(l)

EInv == Gate /\ Ended /\ Clients /\ Accounted /\ Over

\* What a step may do with the commands in Q.
EndProc(p) ==
  /\ proc'[p].pc \in GatePcs =>
       GateFree(proc'[p].sess) \/ (proc[p].pc \in GatePcs /\ proc'[p].sess = proc[p].sess)
  /\ proc'[p].pc = "reserve" =>
       \/ sessions[proc'[p].sess] = "active"
       \/ proc[p].pc = "reserve" /\ proc'[p].sess = proc[p].sess
  /\ proc'[p].pc \in {"end", "end_ipc"} =>
       sessions'[proc'[p].sess] = "ended" /\ (proc'[p].out = "failed" \/ AccountedAt(p)')
  /\ proc[p].pc \in {"rel", "end_ipc"} => \A l \in Leases : owner'[l].client # None => owner'[l].client # p

EndSessions == \A s \in Sessions : sessions[s] = "ended" => sessions'[s] = "ended"

EndLeases ==
  \A l \in Leases : leases'[l].session = leases[l].session /\ (Pending(l)' => Pending(l))

EndOwners ==
  \A l \in Leases :
    owner'[l].client # None =>
      \/ owner'[l].client = owner[l].client /\ owner'[l].phase = "closing"
      \/ ClientAt(l)'

LEMMA EndFrame ==
  ASSUME IInv, EInv, EndSessions, EndLeases, EndOwners, ended_ok' = ended_ok,
         NEW Q \in SUBSET Procs,
         \A p, q \in Q : p = q,
         \A q \in Procs \ Q : proc'[q] = proc[q],
         \A p \in Q : EndProc(p)
  PROVE  EInv'
  <1>1. Gate'
    BY DEF EInv, Gate, EndProc, GateFree
  <1>2. Ended'
    <2>1. \A s \in ended_ok : s \in Sessions /\ sessions[s] = "ended"
      BY DEF IInv, TypeOK, EInv, Ended
    <2>2. ASSUME NEW p \in Procs \ Q
          PROVE  /\ proc'[p].pc \in {"end", "end_ipc"} => sessions'[proc'[p].sess] = "ended"
                 /\ proc'[p].pc = "reserve" => proc'[p].sess \notin ended_ok'
      BY <2>2 DEF EInv, Ended, EndSessions, IInv, Named
    <2>3. ASSUME NEW p \in Q
          PROVE  /\ proc'[p].pc \in {"end", "end_ipc"} => sessions'[proc'[p].sess] = "ended"
                 /\ proc'[p].pc = "reserve" => proc'[p].sess \notin ended_ok'
      BY <2>1, <2>3 DEF EInv, Ended, EndProc
    <2> QED  BY <2>1, <2>2, <2>3 DEF Ended, EndSessions
  <1>3. Clients'
    <2> SUFFICES ASSUME NEW l \in Leases, owner'[l].client # None,
                        owner'[l].client = owner[l].client, owner'[l].phase = "closing"
                 PROVE  ClientAt(l)'
      BY DEF Clients, EndOwners
    <2>1. ClientAt(l)
      BY DEF EInv, Clients
    <2>2. owner[l].client \notin Q
      BY <2>1 DEF ClientAt, EndProc
    <2> QED  BY <2>1, <2>2 DEF ClientAt
  <1>4. Accounted'
    <2> SUFFICES ASSUME NEW p \in Procs \ Q, proc[p].pc \in {"end", "end_ipc"}, proc[p].out # "failed"
                 PROVE  AccountedAt(p)'
      BY DEF Accounted, EndProc
    <2>1. AccountedAt(p)
      BY DEF EInv, Accounted
    <2> QED  BY <2>1 DEF AccountedAt, EndLeases
  <1>5. Over'
    BY DEF EInv, Over, EndLeases
  <1> QED  BY <1>1, <1>2, <1>3, <1>4, <1>5 DEF EInv

\* Nobody else's step disturbs the end of a session.
LEMMA EndOthers ==
  ASSUME IInv, EInv, EndSessions, EndLeases, EndOwners, UNCHANGED <<proc, ended_ok>>
  PROVE  EInv'
  <1>1. {} \in SUBSET Procs /\ (\A p, q \in {} : p = q) /\ (\A p \in {} : EndProc(p))
        /\ \A q \in Procs \ {} : proc'[q] = proc[q]
    OBVIOUS
  <1> QED  BY <1>1, EndFrame

\* One command goes on.
LEMMA EndCommand ==
  ASSUME IInv, EInv, EndSessions, EndLeases, EndOwners, ended_ok' = ended_ok,
         NEW p \in Procs, NEW rec, proc' = [proc EXCEPT ![p] = rec],
         rec.pc \in GatePcs =>
           GateFree(rec.sess) \/ (proc[p].pc \in GatePcs /\ rec.sess = proc[p].sess),
         rec.pc = "reserve" => sessions[rec.sess] = "active",
         rec.pc \in {"end", "end_ipc"} =>
           sessions'[rec.sess] = "ended" /\ (rec.out = "failed" \/ AccountedAt(p)'),
         proc[p].pc \in {"rel", "end_ipc"} =>
           \A l \in Leases : owner'[l].client # None => owner'[l].client # p
  PROVE  EInv'
  <1>1. proc'[p] = rec /\ \A q \in Procs \ {p} : proc'[q] = proc[q]
    BY DEF IInv, TypeOK
  <1>2. EndProc(p)
    BY <1>1 DEF EndProc
  <1>3. {p} \in SUBSET Procs /\ (\A x, y \in {p} : x = y) /\ (\A x \in {p} : EndProc(x))
    BY <1>2
  <1> QED  BY <1>1, <1>3, EndFrame

LEMMA EndSame ==
  ASSUME EInv
  PROVE  /\ sessions' = sessions => EndSessions
         /\ leases' = leases => EndLeases
         /\ owner' = owner => EndOwners
         /\ \A l \in Leases : owner[l].phase # "closing" => owner[l].client = None
  BY DEF EndSessions, EndLeases, EndOwners, EInv, Clients, ClientAt, Pending

\* A record that moves on, and an owner that does.
LEMMA EndMove ==
  ASSUME IInv, NEW l \in Leases, NEW state, leases' = [leases EXCEPT ![l].state = state],
         state \in {"claim_intent", "opening", "active"} => Pending(l)
  PROVE  EndLeases
  <1>1. leases \in [Leases -> LeaseType]
    BY DEF IInv, TypeOK
  <1>2. leases'[l].session = leases[l].session /\ leases'[l].state = state
        /\ \A m \in Leases : m # l => leases'[m] = leases[m]
    BY <1>1 DEF LeaseType
  <1> QED  BY <1>2 DEF EndLeases, Pending

LEMMA EndOwner ==
  ASSUME IInv, EInv, NEW l \in Leases, NEW o, owner' = [owner EXCEPT ![l] = o],
         o.client = None
  PROVE  EndOwners
  <1>1. owner'[l].client = None /\ \A m \in Leases : m # l => owner'[m] = owner[m]
    BY DEF IInv, TypeOK
  <1> QED  BY <1>1 DEF EndOwners, EInv, Clients, ClientAt

LEMMA EndTransition ==
  ASSUME IInv, NEW l \in Leases, NEW step, NEW state,
         leases' = transition(leases, l, step, state),
         state \in {"claim_intent", "opening", "active"} => step \in {"claim_opening", "mark_active"}
  PROVE  EndLeases
  <1>1. CASE leases' = leases
    BY <1>1 DEF EndLeases, Pending
  <1>2. CASE leases' = [leases EXCEPT ![l].state = state] /\ leases[l].state \in From(step)
    <2>1. state \in {"claim_intent", "opening", "active"} => Pending(l)
      BY <1>2 DEF From, Pending
    <2> QED  BY <1>2, <2>1, EndMove
  <1> QED  BY <1>1, <1>2, Transitions

LEMMA EndDie ==
  ASSUME IInv, EInv, NEW l \in Leases, Die(l)
  PROVE  EndOwners
  <1> DEFINE o == [NoOwner EXCEPT !.phase = "dead"]
  <1>1. o.client = None /\ owner' = [owner EXCEPT ![l] = o]
    BY DEF NoOwner, Die
  <1> HIDE DEF o
  <1> QED  BY <1>1, EndOwner

\* A command that ends.
LEMMA EndReturn ==
  ASSUME IInv, EInv, EndSessions, EndLeases, EndOwners, ended_ok' = ended_ok,
         NEW p \in Procs, Return(p),
         proc[p].pc \in {"rel", "end_ipc"} =>
           \A l \in Leases : owner'[l].client # None => owner'[l].client # p
  PROVE  EInv'
  <1> DEFINE rec == Idle
  <1>1. rec.pc = "idle" /\ proc' = [proc EXCEPT ![p] = rec]
    BY DEF Return, Idle
  <1>2. rec.pc \notin GatePcs
    BY <1>1 DEF GatePcs, ClaimPcs
  <1> HIDE DEF rec
  <1> QED  BY <1>1, <1>2, EndCommand

\* A claim goes on with its session, inside the gate or after it.
LEMMA EndGoesOn ==
  ASSUME IInv, EInv, EndLeases, EndOwners, UNCHANGED <<sessions, ended_ok>>,
         NEW p \in Procs, proc[p].pc \in ClaimPcs \cup {"admit"},
         NEW pc \in {"spawn", "abort", "unlock", "wait", "classify", "settle"},
         pc = "settle" \/ proc[p].pc \in ClaimPcs,
         NEW out, NEW l,
         proc' \in {[proc EXCEPT ![p].pc = pc], [proc EXCEPT ![p].pc = pc, ![p].out = out],
                    [proc EXCEPT ![p].pc = pc, ![p].lease = l]}
  PROVE  EInv'
  <1>1. proc[p] \in ProcType /\ EndSessions
    BY EndSame DEF IInv, TypeOK
  <1>2. PICK rec : rec.pc = pc /\ rec.sess = proc[p].sess /\ proc' = [proc EXCEPT ![p] = rec]
    <2> DEFINE r1 == [proc[p] EXCEPT !.pc = pc]
               r2 == [proc[p] EXCEPT !.pc = pc, !.out = out]
               r3 == [proc[p] EXCEPT !.pc = pc, !.lease = l]
    <2>1. \A rec \in {r1, r2, r3} : rec.pc = pc /\ rec.sess = proc[p].sess
      BY <1>1 DEF ProcType
    <2>2. \E rec \in {r1, r2, r3} : proc' = [proc EXCEPT ![p] = rec]
      OBVIOUS
    <2> QED  BY <2>1, <2>2
  <1>3. ClaimPcs \subseteq GatePcs /\ "settle" \notin GatePcs /\ proc[p].pc \notin {"rel", "end_ipc"}
    BY DEF ClaimPcs, GatePcs
  <1> QED  BY <1>1, <1>2, <1>3, EndCommand

LEMMA EndClaims ==
  ASSUME IInv, EInv, NEW p \in Procs,
         \/ AdmitRefused(p) \/ ReserveRefused(p) \/ Spawn(p) \/ Abort(p) \/ Unlock(p) \/ Wait(p)
         \/ WaitTimeout(p) \/ Classify(p) \/ Admit(p)
  PROVE  EInv'
  <1>s. /\ leases' = leases => EndLeases
        /\ owner' = owner => EndOwners
        /\ sessions' = sessions => EndSessions
    BY EndSame
  <1>c. ClaimPcs = {"reserve", "spawn", "abort", "unlock", "wait", "classify"}
    BY DEF ClaimPcs
  <1>1. CASE AdmitRefused(p)
    BY <1>1, <1>s, EndGoesOn DEF AdmitRefused, Finish
  <1>2. CASE ReserveRefused(p)
    BY <1>2, <1>s, <1>c, EndGoesOn DEF ReserveRefused, Finish
  <1>3. CASE Spawn(p)
    <2> DEFINE l == proc[p].lease
               o == [owner[l] EXCEPT !.phase = "launched"]
    <2>1. l \in Leases /\ owner[l].phase = "none" /\ owner[l] \in OwnerType
      BY <1>3 DEF Spawn, IInv, Claiming, TypeOK
    <2>2. o.client = None
      BY <2>1, EndSame DEF OwnerType
    <2>3. \/ owner' = owner /\ Finish(p, "abort", "failed")
          \/ owner' = [owner EXCEPT ![l] = o] /\ Goto(p, "wait")
      BY <1>3 DEF Spawn
    <2> HIDE DEF o
    <2>4. EndOwners
      BY <1>s, <2>1, <2>2, <2>3, EndOwner
    <2> QED  BY <1>3, <1>s, <1>c, <2>3, <2>4, EndGoesOn DEF Spawn, Finish, Goto
  <1>4. CASE Abort(p)
    <2>1. proc[p].lease \in Leases
      BY <1>4 DEF Abort, IInv, Claiming
    <2>2. EndLeases
      BY <1>4, <1>s, <2>1, EndTransition DEF Abort
    <2> QED  BY <1>4, <1>s, <1>c, <2>2, EndGoesOn DEF Abort, Goto
  <1>5. CASE Unlock(p)
    BY <1>5, <1>s, <1>c, EndGoesOn DEF Unlock, Goto
  <1>6. CASE Wait(p)
    <2>1. \/ \E pc \in {"settle", "unlock"} : \E out : Finish(p, pc, out)
          \/ Goto(p, "classify")
      BY <1>6 DEF Wait
    <2>2. proc[p].pc = "wait" /\ UNCHANGED <<sessions, locks, reqs, leases, owner, claims, ended_ok>>
      BY <1>6 DEF Wait
    <2>3. ASSUME NEW pc \in {"settle", "unlock"}, NEW out, Finish(p, pc, out)
          PROVE  EInv'
      BY <1>s, <1>c, <2>2, <2>3, EndGoesOn DEF Finish
    <2>4. CASE Goto(p, "classify")
      BY <1>s, <1>c, <2>2, <2>4, EndGoesOn DEF Goto
    <2> QED  BY <2>1, <2>3, <2>4
  <1>7. CASE WaitTimeout(p)
    <2>1. proc[p].lease \in Leases
      BY <1>7 DEF WaitTimeout, IInv, Claiming
    <2>2. EndOwners
      BY <1>7, <2>1, EndDie DEF WaitTimeout
    <2> QED  BY <1>7, <1>s, <1>c, <2>2, EndGoesOn DEF WaitTimeout, Goto
  <1>8. CASE Classify(p)
    <2>1. proc[p].lease \in Leases
      BY <1>8 DEF Classify, IInv, Claiming
    <2>2. PICK pc \in {"abort", "settle", "unlock"}, out \in {"failed", "unknown"} : Finish(p, pc, out)
      BY <1>8 DEF Classify
    <2>3. leases' = leases \/ leases' = transition(leases, proc[p].lease, "mark_owner_lost", "owner_lost")
      BY <1>8 DEF Classify
    <2>4. EndLeases
      BY <1>s, <2>1, <2>3, EndTransition
    <2>5. proc[p].pc = "classify" /\ UNCHANGED <<sessions, owner, ended_ok>>
      BY <1>8 DEF Classify
    <2> QED  BY <1>s, <1>c, <2>2, <2>4, <2>5, EndGoesOn DEF Finish
  <1>9. CASE Admit(p)
    <2>1. /\ proc[p].pc = "admit" /\ GateFree(proc[p].sess) /\ sessions[proc[p].sess] = "active"
          /\ UNCHANGED <<sessions, leases, owner, ended_ok>> /\ proc[p] \in ProcType
      BY <1>9 DEF Admit, lock_free, session_verify, IInv, TypeOK
    <2>2. CASE Finish(p, "settle", "failed")
      BY <2>1, <2>2, <1>s, EndGoesOn DEF Finish
    <2>3. CASE \E id : proc' = [proc EXCEPT ![p].pc = "reserve", ![p].lock = id]
      <3>1. PICK id : proc' = [proc EXCEPT ![p].pc = "reserve", ![p].lock = id]
        BY <2>3
      <3> DEFINE rec == [proc[p] EXCEPT !.pc = "reserve", !.lock = id]
      <3>2. rec.pc = "reserve" /\ rec.sess = proc[p].sess
        BY <2>1 DEF ProcType
      <3>3. proc' = [proc EXCEPT ![p] = rec]
        BY <3>1
      <3> HIDE DEF rec
      <3> QED  BY <1>s, <2>1, <3>2, <3>3, EndCommand
    <2> QED  BY <1>9, <2>2, <2>3 DEF Admit
  <1> QED  BY <1>1, <1>2, <1>3, <1>4, <1>5, <1>6, <1>7, <1>8, <1>9

\* Commands that begin, other than a session-end, and those that are over.
LEMMA EndPlain ==
  ASSUME IInv, EInv, NEW p \in Procs,
         \/ \E r \in Requests, s \in Sessions, d \in Devices : ClaimBegin(p, r, s, d)
         \/ \E l \in Leases : ReleaseBegin(p, l) \/ RenewBegin(p, l)
         \/ RefreshBegin(p) \/ RefreshDone(p) \/ ReleaseDone(p) \/ Settle(p) \/ AuditUnavailable(p)
  PROVE  EInv'
  <1>s. /\ leases' = leases => EndLeases
        /\ owner' = owner => EndOwners
        /\ sessions' = sessions => EndSessions
    BY EndSame
  <1>g. GatePcs = {"reserve", "spawn", "abort", "unlock", "wait", "classify",
                   "rel", "rel_unlock", "ren", "end", "end_ipc"}
    BY DEF GatePcs, ClaimPcs
  <1>1. CASE RefreshDone(p) \/ ReleaseDone(p) \/ Settle(p) \/ AuditUnavailable(p)
    <2>1. /\ Return(p) /\ UNCHANGED <<sessions, leases, owner, ended_ok>>
          /\ proc[p].pc \notin {"rel", "end_ipc"}
      BY <1>1 DEF RefreshDone, ReleaseDone, Settle, AuditUnavailable
    <2> QED  BY <1>s, <2>1, EndReturn
  <1>2. ASSUME NEW r \in Requests, NEW s \in Sessions, NEW d \in Devices, ClaimBegin(p, r, s, d)
        PROVE  EInv'
    <2> DEFINE rec == [Idle EXCEPT !.pc = "admit", !.req = r, !.sess = s, !.dev = d]
    <2>1. rec.pc = "admit" /\ proc' = [proc EXCEPT ![p] = rec] /\ proc[p].pc = "idle"
          /\ UNCHANGED <<sessions, leases, owner, ended_ok>>
      BY <1>2 DEF ClaimBegin, Idle
    <2> HIDE DEF rec
    <2> QED  BY <1>g, <1>s, <2>1, EndCommand
  <1>3. CASE RefreshBegin(p)
    <2> DEFINE rec == [Idle EXCEPT !.pc = "refresh"]
    <2>1. rec.pc = "refresh" /\ proc' = [proc EXCEPT ![p] = rec] /\ proc[p].pc = "idle"
          /\ UNCHANGED <<sessions, leases, owner, ended_ok>>
      BY <1>3 DEF RefreshBegin, Idle
    <2> HIDE DEF rec
    <2> QED  BY <1>g, <1>s, <2>1, EndCommand
  <1>4. ASSUME NEW l \in Leases, NEW pc \in {"rel", "ren"}, Command(p, l, pc), MayCommand(p, l),
               UNCHANGED <<sessions, leases, owner, ended_ok>>
        PROVE  EInv'
    <2> DEFINE rec == [Idle EXCEPT !.pc = pc, !.sess = leases[l].session,
                                   !.dev = leases[l].device, !.lease = l]
    <2>1. rec.pc = pc /\ rec.sess = leases[l].session /\ proc' = [proc EXCEPT ![p] = rec]
          /\ proc[p].pc = "idle" /\ GateFree(leases[l].session)
      BY <1>4 DEF Command, MayCommand, Idle
    <2> HIDE DEF rec
    <2> QED  BY <1>4, <1>s, <2>1, EndCommand
  <1>5. ASSUME NEW l \in Leases, ReleaseBegin(p, l) PROVE EInv'
    BY <1>5, <1>4 DEF ReleaseBegin
  <1>6. ASSUME NEW l \in Leases, RenewBegin(p, l) PROVE EInv'
    <2>1. UNCHANGED <<sessions, leases, owner, ended_ok>> /\ MayCommand(p, l)
      BY <1>6 DEF RenewBegin
    <2>2. Command(p, l, "ren") \/ UNCHANGED proc
      BY <1>6 DEF RenewBegin
    <2> QED  BY <1>4, <1>s, <2>1, <2>2, EndOthers
  <1> QED  BY <1>1, <1>2, <1>3, <1>5, <1>6

\* A session-end begins with the list of what there is to close.
LEMMA EndBeginEnds ==
  ASSUME IInv, EInv, NEW p \in Procs, NEW s \in Sessions, EndBegin(p, s)
  PROVE  EInv'
  <1>1. PICK todo \in {{}, Listed(s)} :
          proc' = [proc EXCEPT ![p] = [Idle EXCEPT !.pc = "end", !.sess = s,
                     !.todo = todo, !.out = IF todo = Listed(s) THEN None ELSE "failed"]]
    BY DEF EndBegin
  <1> DEFINE rec == [Idle EXCEPT !.pc = "end", !.sess = s,
                       !.todo = todo, !.out = IF todo = Listed(s) THEN None ELSE "failed"]
  <1>2. rec.pc = "end" /\ rec.sess = s /\ rec.todo = todo /\ (todo # Listed(s) => rec.out = "failed")
    BY DEF Idle
  <1>3. proc' = [proc EXCEPT ![p] = rec] /\ proc[p].pc = "idle" /\ GateFree(s)
        /\ UNCHANGED <<leases, owner, ended_ok>>
    BY <1>1 DEF EndBegin
  <1>4. sessions'[s] = "ended" /\ EndSessions /\ EndLeases /\ EndOwners
    <2>1. sessions \in [Sessions -> SessionStates] /\ sessions' = [sessions EXCEPT ![s] = "ended"]
      BY DEF IInv, TypeOK, EndBegin
    <2> QED  BY <1>3, <2>1, EndSame DEF EndSessions
  <1> HIDE DEF rec
  <1>5. todo = Listed(s) => AccountedAt(p)'
    <2>1. leases \in [Leases -> LeaseType] /\ proc'[p] = rec
      BY <1>3 DEF IInv, TypeOK
    <2>2. ASSUME NEW l \in Leases, leases[l].session = s, Pending(l)
          PROVE  \E item \in Listed(s) : item[1] = l /\ ~is_terminal(item[2])
      <3>1. l \in Stored(leases)
        BY <2>1, <2>2 DEF Stored, Pending
      <3>2. <<l, leases[l].state>> \in Listed(s)
        BY <2>2, <3>1 DEF Listed
      <3>3. ~is_terminal(leases[l].state)
        BY <2>2 DEF Pending, is_terminal
      <3> QED  BY <3>2, <3>3
    <2> QED  BY <1>2, <1>3, <2>1, <2>2 DEF AccountedAt, Pending
  <1> QED  BY <1>2, <1>3, <1>4, <1>5, EndCommand

\* It goes through the list.
LEMMA EndStepEnds ==
  ASSUME IInv, EInv, NEW p \in Procs, NEW item \in proc[p].todo, EndStep(p, item)
  PROVE  EInv'
  <1> DEFINE l == item[1]
             rest == proc[p].todo \ {item}
  <1>1. /\ l \in Leases /\ proc[p] \in ProcType /\ proc \in [Procs -> ProcType]
        /\ proc[p].pc = "end" /\ UNCHANGED <<sessions, owner, ended_ok>>
    <2>1. proc[p] \in ProcType /\ proc \in [Procs -> ProcType]
      BY DEF IInv, TypeOK
    <2>2. item \in Leases \X LeaseStates
      BY <2>1 DEF ProcType
    <2> QED  BY <2>1, <2>2 DEF EndStep
  <1>2. sessions'[proc[p].sess] = "ended" /\ EndSessions /\ EndOwners /\ proc[p].pc \in GatePcs
    BY <1>1, EndSame DEF EInv, Ended, GatePcs
  <1>3. proc[p].out # "failed" => AccountedAt(p)
    BY <1>1 DEF EInv, Accounted
  <1>n. ASSUME NEW out, EndLeases,
               proc' = [proc EXCEPT ![p].todo = @ \ {item}, ![p].out = out],
               out = "failed" \/ (out = proc[p].out /\ (is_terminal(item[2]) \/ ~Pending(l)'))
        PROVE  EInv'
    <2> DEFINE rec == [proc[p] EXCEPT !.todo = rest, !.out = out]
    <2>1. rec.pc = "end" /\ rec.sess = proc[p].sess /\ rec.out = out /\ rec.todo = rest
      <3> HIDE DEF rest
      <3> QED  BY <1>1 DEF ProcType
    <2>2. proc' = [proc EXCEPT ![p] = rec]
      BY <1>n
    <2> HIDE DEF rec
    <2>3. proc'[p] = rec
      BY <1>1, <2>2
    <2>4. rec.out # "failed" => AccountedAt(p)'
      <3> SUFFICES ASSUME rec.out # "failed", NEW m \in Leases,
                          leases'[m].session = rec.sess, Pending(m)'
                   PROVE  \E it \in rest : it[1] = m /\ ~is_terminal(it[2])
        BY <2>1, <2>3 DEF AccountedAt
      <3>1. leases[m].session = proc[p].sess /\ Pending(m)
        BY <1>n, <2>1 DEF EndLeases
      <3>2. PICK it \in proc[p].todo : it[1] = m /\ ~is_terminal(it[2])
        BY <1>1, <1>3, <1>n, <2>1, <3>1 DEF AccountedAt
      <3>3. it # item
        BY <1>n, <2>1, <3>2
      <3> QED  BY <3>2, <3>3
    <2>5. /\ rec.pc = "end" /\ rec.sess = proc[p].sess /\ EndLeases /\ ended_ok' = ended_ok
          /\ proc[p].pc = "end"
      BY <1>1, <1>n, <2>1
    <2> QED  BY <1>2, <2>2, <2>4, <2>5, EndCommand
  <1>4. CASE is_terminal(item[2]) /\ UNCHANGED leases
             /\ proc' = [proc EXCEPT ![p].todo = @ \ {item}, ![p].out = proc[p].out]
    BY <1>4, <1>n, EndSame
  <1>5. CASE UNCHANGED leases /\ proc' = [proc EXCEPT ![p].todo = @ \ {item}, ![p].out = "failed"]
    BY <1>5, <1>n, EndSame
  <1>6. CASE /\ leases[l].state = "claim_intent"
             /\ leases' = transition(leases, l, "mark_unclaimed_open_failed", "open_failed")
             /\ proc' = [proc EXCEPT ![p].todo = @ \ {item}, ![p].out = proc[p].out]
    <2>1. EndLeases
      BY <1>1, <1>6, EndTransition
    <2>2. leases' = [leases EXCEPT ![l].state = "open_failed"] /\ leases \in [Leases -> LeaseType]
      BY <1>6 DEF transition, From, IInv, TypeOK
    <2>3. ~Pending(l)'
      BY <1>1, <2>2 DEF Pending, LeaseType
    <2> QED  BY <1>6, <1>n, <2>1, <2>3
  <1>7. CASE /\ proc' = [proc EXCEPT ![p].todo = @ \ {item}, ![p].pc = "end_ipc", ![p].lease = l]
             /\ UNCHANGED leases
    <2> DEFINE rec == [proc[p] EXCEPT !.todo = rest, !.pc = "end_ipc", !.lease = l]
    <2>1. /\ rec.pc = "end_ipc" /\ rec.sess = proc[p].sess /\ rec.out = proc[p].out
          /\ rec.todo = rest /\ rec.lease = l
      <3> HIDE DEF rest, l
      <3> QED  BY <1>1 DEF ProcType
    <2>2. proc' = [proc EXCEPT ![p] = rec] /\ EndLeases
      BY <1>7, EndSame
    <2> HIDE DEF rec
    <2>3. proc'[p] = rec
      BY <1>1, <2>2
    <2>4. rec.out # "failed" => AccountedAt(p)'
      <3> SUFFICES ASSUME rec.out # "failed", NEW m \in Leases, m # l,
                          leases'[m].session = rec.sess, Pending(m)'
                   PROVE  \E it \in rest : it[1] = m /\ ~is_terminal(it[2])
        BY <2>1, <2>3 DEF AccountedAt
      <3>1. leases[m].session = proc[p].sess /\ Pending(m)
        BY <2>1, <2>2 DEF EndLeases
      <3>2. PICK it \in proc[p].todo : it[1] = m /\ ~is_terminal(it[2])
        BY <1>1, <1>3, <2>1, <3>1 DEF AccountedAt
      <3> QED  BY <3>2
    <2> QED  BY <1>1, <1>2, <2>1, <2>2, <2>4, EndCommand
  <1> QED  BY <1>4, <1>5, <1>6, <1>7 DEF EndStep

\* Its answer: nothing is pending of the session, and nobody may add to it.
LEMMA EndDoneEnds ==
  ASSUME IInv, EInv, NEW p \in Procs, EndDone(p)
  PROVE  EInv'
  <1> DEFINE s == proc[p].sess
  <1>1. /\ proc[p].pc = "end" /\ proc[p].todo = {} /\ s \in Sessions /\ sessions[s] = "ended"
        /\ UNCHANGED <<sessions, leases, owner>> /\ Return(p) /\ proc \in [Procs -> ProcType]
    BY DEF EndDone, IInv, Named, TypeOK, EInv, Ended
  <1>2. proc'[p].pc = "idle" /\ \A q \in Procs : q # p => proc'[q] = proc[q]
    BY <1>1 DEF Return, Idle
  <1>3. "idle" \notin GatePcs /\ {"end", "reserve"} \subseteq GatePcs
    BY DEF GatePcs, ClaimPcs
  <1>4. Gate' /\ Clients'
    BY <1>1, <1>2, <1>3 DEF EInv, Gate, Clients, ClientAt
  <1>5. Accounted'
    BY <1>1, <1>2 DEF EInv, Accounted, AccountedAt, Pending
  <1>6. CASE ended_ok' = ended_ok
    BY <1>1, <1>2, <1>4, <1>5, <1>6 DEF EInv, Ended, Over, Pending
  <1>7. CASE ended_ok' = ended_ok \cup {s} /\ proc[p].out # "failed"
    <2>1. \A l \in Leases : leases[l].session = s => ~Pending(l)
      BY <1>1, <1>7 DEF EInv, Accounted, AccountedAt
    <2>2. \A q \in Procs : q # p /\ proc[q].pc = "reserve" => proc[q].sess # s
      BY <1>1, <1>3 DEF EInv, Gate
    <2>3. Over'
      BY <1>1, <1>7, <2>1 DEF EInv, Over, Pending
    <2>4. Ended'
      BY <1>1, <1>2, <1>7, <2>2 DEF EInv, Ended
    <2> QED  BY <1>4, <1>5, <2>3, <2>4 DEF EInv
  <1> QED  BY <1>6, <1>7 DEF EndDone

\* A record is reserved for a session that nobody is ending or has ended.
LEMMA EndReserve ==
  ASSUME IInv, EInv, NEW p \in Procs, NEW l \in Leases, ReserveClaim(p, l)
  PROVE  EInv'
  <1> DEFINE rec == [proc[p] EXCEPT !.pc = "spawn", !.lease = l]
             new == [state |-> "claim_intent", session |-> proc[p].sess,
                     device |-> proc[p].dev, lock |-> proc[p].lock]
  <1>1. /\ proc[p].pc = "reserve" /\ leases \in [Leases -> LeaseType] /\ proc[p] \in ProcType
        /\ proc' = [proc EXCEPT ![p] = rec] /\ UNCHANGED <<sessions, owner, ended_ok>>
    BY DEF ReserveClaim, IInv, TypeOK
  <1>2. rec.pc = "spawn" /\ rec.sess = proc[p].sess
    BY <1>1 DEF ProcType
  <1>3. proc'[p] = rec /\ \A q \in Procs : q # p => proc'[q] = proc[q]
    BY <1>1 DEF IInv, TypeOK
  <1>4. PICK out \in Evictable(leases) : leases' = [Evict(leases, out) EXCEPT ![l] = new]
    BY DEF ReserveClaim, reserve_claim
  <1>5. new.session = proc[p].sess
    OBVIOUS
  <1>6. /\ leases'[l] = new
        /\ \A m \in Leases : m # l =>
             leases'[m].session = leases[m].session /\ (Pending(m)' => Pending(m))
    <2>1. \A m \in Leases : Evict(leases, out)[m] =
             IF m \in out THEN [leases[m] EXCEPT !.state = "evicted"] ELSE leases[m]
      BY <1>1 DEF Evict
    <2>2. DOMAIN Evict(leases, out) = Leases
      BY <1>1 DEF Evict
    <2>3. \A m \in Leases : /\ [leases[m] EXCEPT !.state = "evicted"].state = "evicted"
                            /\ [leases[m] EXCEPT !.state = "evicted"].session = leases[m].session
      BY <1>1 DEF LeaseType
    <2>4. leases'[l] = new /\ \A m \in Leases : m # l => leases'[m] = Evict(leases, out)[m]
      <3> HIDE DEF new
      <3> QED  BY <1>4, <2>2
    <2> HIDE DEF new
    <2> QED  BY <2>1, <2>3, <2>4 DEF Pending
  <1> HIDE DEF rec, new
  <1>7. {"spawn", "reserve", "end", "end_ipc"} \subseteq GatePcs
    BY DEF GatePcs, ClaimPcs
  <1>8. Gate' /\ Ended'
    BY <1>1, <1>2, <1>3, <1>7 DEF EInv, Gate, Ended
  <1>9. Clients'
    BY <1>1, <1>3 DEF EInv, Clients, ClientAt
  <1>10. Accounted'
    <2> SUFFICES ASSUME NEW q \in Procs, proc'[q].pc \in {"end", "end_ipc"}, proc'[q].out # "failed"
                 PROVE  AccountedAt(q)'
      BY DEF Accounted
    <2>1. q # p /\ proc'[q] = proc[q] /\ proc[q].sess # proc[p].sess
      BY <1>1, <1>2, <1>3, <1>7 DEF EInv, Gate
    <2>2. AccountedAt(q)
      BY <2>1 DEF EInv, Accounted
    <2> QED  BY <1>5, <1>6, <2>1, <2>2 DEF AccountedAt
  <1>11. Over'
    BY <1>1, <1>5, <1>6 DEF EInv, Over, Ended
  <1> QED  BY <1>8, <1>9, <1>10, <1>11 DEF EInv

\* A client whose request is over: no other owner was to answer it.
LEMMA EndClient ==
  ASSUME EInv, NEW l \in Leases, NEW p, p # None,
         owner[l].client = p \/ (owner[l].client = None /\ p \in Procs /\ proc[p].lease = l)
  PROVE  \A m \in Leases : m # l => owner[m].client # p
  BY DEF EInv, Clients, ClientAt

\* The end of a request of device-release, device-renew or session-end.
LEMMA EndAnswered ==
  ASSUME IInv, EInv, NEW p \in Procs, NEW x, proc' = Answered(p, x),
         UNCHANGED <<sessions, ended_ok>>, EndLeases, EndOwners,
         proc[p].pc \in {"rel", "ren", "end_ipc"},
         \A l \in Leases : owner'[l].client # None => owner'[l].client # p,
         x = "released" => leases'[proc[p].lease].state \notin {"claim_intent", "opening", "active"}
  PROVE  EInv'
  <1>1. EndSessions /\ proc[p] \in ProcType /\ proc \in [Procs -> ProcType]
    BY EndSame DEF IInv, TypeOK
  <1>2. CASE proc[p].pc = "rel" /\ x # "error"
    <2> DEFINE rec == [proc[p] EXCEPT !.pc = "rel_unlock", !.out = x]
    <2>1. rec.pc = "rel_unlock" /\ rec.sess = proc[p].sess
      BY <1>1 DEF ProcType
    <2>2. proc' = [proc EXCEPT ![p] = rec]
      BY <1>2 DEF Answered
    <2>3. proc[p].pc \in GatePcs
      BY <1>2 DEF GatePcs
    <2> HIDE DEF rec
    <2> QED  BY <1>1, <2>1, <2>2, <2>3, EndCommand
  <1>3. CASE proc[p].pc = "end_ipc"
    <2> DEFINE out == IF x = "released" THEN proc[p].out ELSE "failed"
               rec == [proc[p] EXCEPT !.pc = "end", !.lease = None, !.out = out]
    <2>1. rec.pc = "end" /\ rec.sess = proc[p].sess /\ rec.out = out /\ rec.todo = proc[p].todo
      <3> HIDE DEF out
      <3> QED  BY <1>1 DEF ProcType
    <2>2. proc' = [proc EXCEPT ![p] = rec]
      BY <1>3 DEF Answered
    <2>3. proc[p].pc \in GatePcs /\ sessions'[proc[p].sess] = "ended"
      BY <1>3 DEF GatePcs, EInv, Ended
    <2> HIDE DEF rec
    <2>4. proc'[p] = rec
      BY <1>1, <2>2
    <2>5. rec.out # "failed" => AccountedAt(p)'
      <3> SUFFICES ASSUME rec.out # "failed", NEW m \in Leases,
                          leases'[m].session = rec.sess, Pending(m)'
                   PROVE  \E it \in proc[p].todo : it[1] = m /\ ~is_terminal(it[2])
        BY <2>1, <2>4 DEF AccountedAt
      <3>1. leases[m].session = proc[p].sess /\ Pending(m)
        BY <2>1 DEF EndLeases
      <3>2. x = "released" /\ proc[p].out # "failed" /\ m # proc[p].lease
        BY <1>3, <2>1 DEF Pending
      <3> QED  BY <1>3, <3>1, <3>2 DEF EInv, Accounted, AccountedAt
    <2> HIDE DEF out
    <2> QED  BY <1>1, <2>1, <2>2, <2>3, <2>5, EndCommand
  <1>4. CASE ~(proc[p].pc = "rel" /\ x # "error") /\ proc[p].pc # "end_ipc"
    <2>1. Return(p)
      BY <1>4 DEF Answered, Return
    <2> QED  BY <1>1, <2>1, EndReturn
  <1> QED  BY <1>2, <1>3, <1>4

LEMMA EndOwnerSteps ==
  ASSUME IInv, EInv, NEW l \in Leases, OwnerStep(l)
  PROVE  EInv'
  <1>s. /\ leases' = leases => EndLeases
        /\ owner' = owner => EndOwners
        /\ sessions' = sessions => EndSessions
        /\ owner[l].phase # "closing" => owner[l].client = None
        /\ owner[l] \in OwnerType
    BY EndSame, OwnerTyped
  <1>p. ASSUME NEW phase, Phase(l, phase), owner[l].phase # "closing"
        PROVE  EndOwners
    <2> DEFINE o == [owner[l] EXCEPT !.phase = phase]
    <2>1. o.client = None /\ owner' = [owner EXCEPT ![l] = o]
      BY <1>p, <1>s DEF Phase, OwnerType
    <2> HIDE DEF o
    <2> QED  BY <2>1, EndOwner
  <1>c. ASSUME NEW goal, Closing(l, None, goal)
        PROVE  EndOwners
    <2> DEFINE o == [owner[l] EXCEPT !.phase = "closing", !.client = None, !.goal = goal]
    <2>1. o.client = None /\ owner' = [owner EXCEPT ![l] = o]
      BY <1>c, <1>s DEF Closing, OwnerType
    <2> HIDE DEF o
    <2> QED  BY <2>1, EndOwner
  <1>1. CASE OwnerBind(l)
    <2>1. EndLeases
      BY <1>1, <1>s, EndTransition DEF OwnerBind
    <2>2. EndOwners
      BY <1>1, <1>p, EndDie DEF OwnerBind
    <2> QED  BY <1>1, <1>s, <2>1, <2>2, EndOthers DEF OwnerBind
  <1>2. CASE OwnerClaim(l)
    <2>1. EndLeases
      BY <1>2, EndTransition DEF OwnerClaim
    <2>2. EndOwners
      BY <1>2, <1>p DEF OwnerClaim
    <2> QED  BY <1>2, <1>s, <2>1, <2>2, EndOthers DEF OwnerClaim
  <1>3. CASE OwnerOpen(l)
    <2>1. EndLeases
      BY <1>3, <1>s, EndTransition DEF OwnerOpen
    <2>2. EndOwners
      BY <1>3, <1>p, EndDie DEF OwnerOpen
    <2> QED  BY <1>3, <1>s, <2>1, <2>2, EndOthers DEF OwnerOpen
  <1>4. CASE OwnerActivate(l)
    <2>1. EndLeases
      BY <1>4, EndTransition DEF OwnerActivate
    <2>2. EndOwners
      BY <1>4, <1>p DEF OwnerActivate
    <2> QED  BY <1>4, <1>s, <2>1, <2>2, EndOthers DEF OwnerActivate
  <1>5. CASE OwnerExpire(l) \/ OwnerDrop(l) \/ OwnerCrash(l)
    <2>1. \/ \E goal : Closing(l, None, goal)
          \/ Die(l) /\ UNCHANGED leases
      BY <1>5 DEF OwnerExpire, OwnerDrop, OwnerCrash
    <2>2. EndOwners
      BY <2>1, <1>c, EndDie
    <2>3. UNCHANGED <<sessions, leases, proc, ended_ok>>
      BY <1>5 DEF OwnerExpire, OwnerDrop, OwnerCrash, Closing
    <2> QED  BY <1>s, <2>2, <2>3, EndOthers
  <1>6. CASE OwnerMark(l)
    <2> DEFINE p == owner[l].client
    <2>0. /\ owner[l].phase = "closing" /\ leases[l].state = "active"
          /\ leases \in [Leases -> LeaseType] /\ owner \in [Leases -> OwnerType]
          /\ UNCHANGED <<sessions, ended_ok>>
          /\ owner[l].goal \notin {"claim_intent", "opening", "active"}
      BY <1>6, <1>s DEF OwnerMark, IInv, Phases, TypeOK, OwnerType, None
    <2>a. ASSUME p # None
          PROVE  /\ p \in Procs /\ proc[p].pc \in {"rel", "end_ipc"} /\ proc[p].lease = l
                 /\ \A m \in Leases : m # l => owner[m].client # p
      BY <2>a, EndClient DEF EInv, Clients, ClientAt
    <2> HIDE DEF p
    <2>1. CASE /\ leases' = transition(leases, l, "mark_terminal", owner[l].goal)
               /\ proc' = IF p = None THEN proc ELSE Answered(p, owner[l].goal)
               /\ Die(l)
      <3>1. EndLeases /\ EndOwners
        BY <2>0, <2>1, EndTransition, EndDie
      <3>2. leases' = [leases EXCEPT ![l].state = owner[l].goal]
        BY <2>0, <2>1 DEF transition, From
      <3>3. leases'[l].state \notin {"claim_intent", "opening", "active"}
        BY <2>0, <3>2 DEF LeaseType
      <3>4. owner'[l].client = None /\ \A m \in Leases : m # l => owner'[m] = owner[m]
        BY <2>0, <2>1 DEF Die, NoOwner
      <3>5. CASE p = None
        BY <1>s, <2>0, <2>1, <3>1, <3>5, EndOthers
      <3>6. CASE p # None
        <4>1. proc' = Answered(p, owner[l].goal)
          BY <2>1, <3>6
        <4>2. \A m \in Leases : owner'[m].client # None => owner'[m].client # p
          BY <2>a, <3>4, <3>6
        <4> QED  BY <2>0, <2>a, <3>1, <3>3, <3>6, <4>1, <4>2, EndAnswered
      <3> QED  BY <3>5, <3>6
    <2>2. CASE /\ p # None
               /\ proc' = Answered(p, "error")
               /\ owner' = [owner EXCEPT ![l].phase = "lingering", ![l].client = None,
                                         ![l].goal = None]
               /\ UNCHANGED leases
      <3> DEFINE o == [owner[l] EXCEPT !.phase = "lingering", !.client = None, !.goal = None]
      <3>1. o.client = None /\ owner' = [owner EXCEPT ![l] = o]
        BY <1>s, <2>2 DEF OwnerType
      <3> HIDE DEF o
      <3>2. EndOwners /\ EndLeases
        BY <1>s, <2>2, <3>1, EndOwner
      <3>3. owner'[l].client = None /\ \A m \in Leases : m # l => owner'[m] = owner[m]
        BY <2>0, <3>1
      <3>4. \A m \in Leases : owner'[m].client # None => owner'[m].client # p
        BY <2>2, <2>a, <3>3
      <3> QED  BY <2>0, <2>2, <2>a, <3>2, <3>4, EndAnswered
    <2>3. CASE UNCHANGED <<proc, leases>> /\ Die(l)
      BY <1>s, <2>0, <2>3, EndDie, EndOthers
    <2> QED  BY <1>6, <2>1, <2>2, <2>3 DEF OwnerMark, p
  <1> QED  BY <1>1, <1>2, <1>3, <1>4, <1>5, <1>6 DEF OwnerStep

LEMMA EndOtherSteps ==
  ASSUME IInv, EInv,
         \/ \E l \in Leases, p \in Procs :
              OwnerRelease(l, p) \/ OwnerReleaseAgain(l, p) \/ OwnerRenew(l, p)
         \/ \E p \in Procs : IpcFails(p) \/ Crash(p)
         \/ \E l \in Leases : Reconcile(l) \/ DeadlinePasses(l)
         \/ \E s \in Sessions : SessionExpires(s)
         \/ \E d \in Devices : LockExpires(d)
         \/ UNCHANGED vars
  PROVE  EInv'
  <1>s. /\ leases' = leases => EndLeases
        /\ owner' = owner => EndOwners
        /\ sessions' = sessions => EndSessions
        /\ \A l \in Leases : owner[l].phase # "closing" => owner[l].client = None
        /\ owner \in [Leases -> OwnerType]
    BY EndSame DEF IInv, TypeOK
  <1>1. ASSUME NEW l \in Leases, NEW p \in Procs, OwnerRelease(l, p)
        PROVE  EInv'
    <2>1. PICK goal : Closing(l, p, goal)
      BY <1>1 DEF OwnerRelease
    <2>2. /\ proc[p].pc \in {"rel", "end_ipc"} /\ proc[p].lease = l
          /\ UNCHANGED <<sessions, leases, proc, ended_ok>>
      BY <1>1 DEF OwnerRelease, Asks, Closing
    <2>3. /\ owner'[l].client = p /\ owner'[l].phase = "closing"
          /\ \A m \in Leases : m # l => owner'[m] = owner[m]
      BY <1>s, <2>1 DEF Closing, OwnerType
    <2>4. EndOwners
      BY <1>s, <2>2, <2>3 DEF EndOwners, ClientAt
    <2> QED  BY <1>s, <2>2, <2>4, EndOthers
  <1>2. ASSUME NEW l \in Leases, NEW p \in Procs, OwnerReleaseAgain(l, p)
        PROVE  EInv'
    <2>1. /\ proc[p].pc \in {"rel", "end_ipc"} /\ proc[p].lease = l
          /\ owner[l].phase = "lingering" /\ leases[l].state = "active" /\ Die(l)
          /\ proc' = Answered(p, leases[l].state) /\ UNCHANGED <<sessions, leases, ended_ok>>
      BY <1>2 DEF OwnerReleaseAgain, Asks, IInv, Phases
    <2>2. EndOwners /\ EndLeases
      BY <1>s, <2>1, EndDie
    <2>3. owner'[l].client = None /\ \A m \in Leases : m # l => owner'[m] = owner[m]
      BY <1>s, <2>1 DEF Die, NoOwner
    <2>4. \A m \in Leases : owner'[m].client # None => owner'[m].client # p
      BY <1>s, <2>1, <2>3, EndClient
    <2> QED  BY <2>1, <2>2, <2>4, EndAnswered
  <1>3. ASSUME NEW l \in Leases, NEW p \in Procs, OwnerRenew(l, p)
        PROVE  EInv'
    <2>1. /\ proc[p].pc = "ren" /\ proc' = Answered(p, "renewed")
          /\ UNCHANGED <<sessions, leases, owner, ended_ok>>
      BY <1>3 DEF OwnerRenew, Asks
    <2>2. \A m \in Leases : owner'[m].client # None => owner'[m].client # p
      BY <2>1 DEF EInv, Clients, ClientAt
    <2> QED  BY <1>s, <2>1, <2>2, EndAnswered
  <1>4. ASSUME NEW p \in Procs, IpcFails(p) \/ Crash(p)
        PROVE  EInv'
    <2>1. owner' = Disconnected(p) /\ UNCHANGED <<sessions, leases, ended_ok>>
      BY <1>4 DEF IpcFails, Crash
    <2>2. \A m \in Leases :
            /\ owner'[m].client # None => owner'[m].client # p
            /\ owner'[m] = owner[m] \/ owner'[m].client = None
      BY <1>s, <2>1 DEF Disconnected, OwnerType
    <2>3. EndOwners
      BY <1>s, <2>2 DEF EndOwners
    <2>4. CASE IpcFails(p)
      BY <1>s, <2>1, <2>2, <2>3, <2>4, EndAnswered DEF IpcFails
    <2>5. CASE Crash(p)
      BY <1>s, <2>1, <2>2, <2>3, <2>5, EndReturn DEF Crash
    <2> QED  BY <1>4, <2>4, <2>5
  <1>5. ASSUME NEW l \in Leases, Reconcile(l)
        PROVE  EInv'
    BY <1>5, <1>s, EndTransition, EndOthers DEF Reconcile
  <1>6. ASSUME NEW l \in Leases, DeadlinePasses(l)
        PROVE  EInv'
    <2>1. \A m \in Leases : owner'[m].client = owner[m].client /\ owner'[m].phase = owner[m].phase
      BY <1>6, <1>s DEF DeadlinePasses, OwnerType
    <2>2. EndOwners
      BY <1>s, <2>1 DEF EndOwners
    <2> QED  BY <1>6, <1>s, <2>2, EndOthers DEF DeadlinePasses
  <1>7. ASSUME NEW s \in Sessions, SessionExpires(s)
        PROVE  EInv'
    <2>1. EndSessions
      BY <1>7 DEF SessionExpires, EndSessions, IInv, TypeOK
    <2> QED  BY <1>7, <1>s, <2>1, EndOthers DEF SessionExpires
  <1>8. ASSUME NEW d \in Devices, LockExpires(d)
        PROVE  EInv'
    BY <1>8, <1>s, EndOthers DEF LockExpires
  <1>9. CASE UNCHANGED vars
    BY <1>9, <1>s, EndOthers DEF vars
  <1> QED  BY <1>1, <1>2, <1>3, <1>4, <1>5, <1>6, <1>7, <1>8, <1>9

LEMMA EndInit ==
  ASSUME Init PROVE EInv
  <1>1. /\ \A p \in Procs : proc[p].pc = "idle"
        /\ \A l \in Leases : owner[l].client = None
        /\ ended_ok = {} /\ "idle" \notin GatePcs
    BY DEF Init, Idle, NoOwner, GatePcs, ClaimPcs
  <1> QED  BY <1>1 DEF EInv, Gate, Ended, Clients, Accounted, Over

LEMMA EndNext ==
  ASSUME IInv, EInv, [Next]_vars
  PROVE  EInv'
  <1>1. ASSUME NEW p \in Procs, ProcStep(p)
        PROVE  EInv'
    BY <1>1, EndPlain, EndClaims, EndReserve, EndDoneEnds, EndBeginEnds, EndStepEnds, EndOtherSteps
       DEF ProcStep
  <1>2. ASSUME NEW l \in Leases, OwnerStep(l)
        PROVE  EInv'
    BY <1>2, EndOwnerSteps
  <1> QED  BY <1>1, <1>2, EndOtherSteps DEF Next

\* When session-end has answered ok no device of the session is open nor will
\* be: it held the gate of the session from before its list, so no claim was
\* admitted behind it, and each record on the list was shown released by the
\* answer of its owner, or given up before its owner could open the device.
THEOREM EndedIsClosed == Spec => []EndedMeansClosed
  <1>1. Init => EInv
    BY EndInit
  <1>2. IInv /\ EInv /\ [Next]_vars => EInv'
    BY EndNext
  <1>3. IInv /\ EInv => EndedMeansClosed
    BY DEF IInv, EInv, Phases, Over, Pending, EndedMeansClosed
  <1> QED  BY <1>1, <1>2, <1>3, Inductive, PTL DEF Spec
=============================================================================
