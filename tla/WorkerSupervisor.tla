-------------------------- MODULE WorkerSupervisor --------------------------
(***************************************************************************)
(* A script runs in a worker process of its own, supervised over two       *)
(* pipes: worker_supervisor/mod.rs (one worker per invocation),            *)
(* worker_supervisor/persistent.rs (one worker for many) and the framed    *)
(* worker of script_worker.rs at the other end.                            *)
(*                                                                         *)
(* In the worker a reader thread handles frames while a second thread runs *)
(* the script, which may ask the host (the broker) and wait for an answer. *)
(* The worker may crash at any point, and so may the host.  Reading the    *)
(* worker's output into a channel is part of the host's receiving.         *)
(***************************************************************************)
EXTENDS Integers, Sequences

CONSTANTS
  MaxInvocations,   \* bound: invocations in a row
  InvocationLimit,  \* PERSISTENT_WORKER_INVOCATION_LIMIT
  Budget            \* broker requests an invocation may make

ASSUME WorkerAssumption ==
  MaxInvocations \in Nat \ {0} /\ InvocationLimit \in Nat \ {0} /\ Budget \in Nat

Invocations == 1..MaxInvocations
NoRequest == <<0, 0>>

VARIABLES
  mode,       \* "oneshot" or "persistent"
  pc,         \* the host: idle, loop, broker, grace (one shot), reaping, dead
  inv,        \* its current invocation, 0 before the first
  late,       \* is the deadline of this invocation over?
  asked,      \* has a cancel frame been sent for it?
  usable,     \* persistent: available for another invocation
  count,      \* the invocations this worker has had
  held,       \* the frame the host works on, or waits with
  proc,       \* the worker: none, up, joining, gone
  clean,      \* did it exit with status 0?
  inp, eof,   \* the frames on their way to the worker; is the pipe closed?
  out, open,  \* the frames on their way to the host; does it still read?
  active,     \* the invocation the worker runs, 0 for none
  cancel,     \* its cancellation flag
  script,     \* its thread: none, run, wait
  req,        \* broker requests it has made
  pending,    \* the slot of pending_broker: a request of an invocation, or none
  taken,      \* what the reader has taken out of it and will put back, or none
  mail,       \* the answer handed over to the waiting thread
  outcome,    \* what the host returned for this invocation
  wrote       \* history: the invocation that ended last, and with what

hostvars == <<mode, pc, inv, late, asked, usable, count, held, outcome>>
scriptvars == <<active, cancel, script, req, pending, taken, mail, wrote>>
pipevars == <<inp, eof, out, open>>
vars == <<hostvars, scriptvars, pipevars, proc, clean>>

\* The frames.  `id` tells which frame of the host a result frame echoes.
Invoke(i) == [kind |-> "invoke", inv |-> i, req |-> 0]
Cancel(i) == [kind |-> "cancel", inv |-> i, req |-> 0]
Answer(i, r) == [kind |-> "answer", inv |-> i, req |-> r]
Request(i, r) == [kind |-> "request", id |-> "request", inv |-> i, req |-> r, code |-> "none"]
Result(id, i, code) == [kind |-> "result", id |-> id, inv |-> i, req |-> 0, code |-> code]
Eof == [kind |-> "eof", id |-> "none", inv |-> 0, req |-> 0, code |-> "none"]
Violation == [Eof EXCEPT !.kind = "violation"]

Init ==
  /\ mode \in {"oneshot", "persistent"}
  /\ pc = "idle" /\ inv = 0 /\ late = FALSE /\ asked = FALSE /\ usable = TRUE
  /\ count = 0 /\ held = Eof
  /\ proc = "none" /\ clean = TRUE
  /\ inp = <<>> /\ eof = FALSE /\ out = <<>> /\ open = FALSE
  /\ active = 0 /\ cancel = FALSE /\ script = "none" /\ req = 0
  /\ pending = NoRequest /\ taken = NoRequest /\ mail = 0
  /\ wrote = <<0, "none">> /\ outcome = "none"

-----------------------------------------------------------------------------
(***************************************************************************)
(* The worker process.                                                     *)
(***************************************************************************)
\* A thread of the worker can run.
Running == proc \in {"up", "joining"}

\* write_shared_frame: nobody reads any more when the host has let go.
Write(frame) == out' = IF open THEN Append(out, frame) ELSE out

\* The process ends, with all its threads.
Exits(status) ==
  /\ proc' = "gone" /\ clean' = status
  /\ active' = 0 /\ script' = "none" /\ cancel' = FALSE
  /\ pending' = NoRequest /\ taken' = NoRequest /\ mail' = 0
  /\ UNCHANGED <<req, wrote>>

\* write_shared_protocol_frame: a rejection is a result frame that echoes the
\* frame it rejects.  If it cannot be written the worker exits with an error.
Reject(id, i) ==
  /\ Write(Result(id, i, "protocol"))
  /\ IF open THEN UNCHANGED <<scriptvars, proc, clean>> ELSE Exits(FALSE)

\* An invocation starts on a thread of its own, with a fresh flag.
ReadInvoke(f) ==
  /\ f.kind = "invoke"
  /\ IF active # 0
     THEN Reject("invoke", f.inv)
     ELSE /\ active' = f.inv /\ cancel' = FALSE /\ script' = "run" /\ req' = 0
          /\ UNCHANGED <<pending, taken, mail, wrote, out, proc, clean>>

\* ScriptCancelDisposition: requested, too late, or unknown.
ReadCancel(f) ==
  /\ f.kind = "cancel"
  /\ \/ /\ active = f.inv
        /\ cancel' = TRUE
        /\ UNCHANGED <<active, script, req, pending, taken, mail, wrote, out, proc, clean>>
     \/ /\ active # f.inv
        /\ Reject("cancel", f.inv)

\* Slip: an answer goes to whatever request is waiting.
Expected_any(f) == pending # NoRequest

\* The answer has the number of the request in the slot; every invocation
\* counts its requests from 1.
Expected(f) == active = f.inv /\ pending # NoRequest /\ pending[2] = f.req

\* The channel in the slot ends at the script that waits with that request.
Receives(request) == script = "wait" /\ request = <<active, req>>

\* An answer empties the slot.  If it is the one expected it goes to whoever
\* waits with that request, if not the slot is filled again in a second step.
ReadAnswer(f) ==
  /\ f.kind = "answer"
  /\ \/ /\ Expected(f)
        /\ pending' = NoRequest
        /\ mail' = IF Receives(pending) THEN f.req ELSE mail
        /\ UNCHANGED <<active, cancel, script, req, taken, wrote, out, proc, clean>>
     \/ /\ ~Expected(f) /\ pending = NoRequest
        /\ Reject("answer", f.inv)

WorkerReads ==
  /\ proc = "up" /\ inp # <<>> /\ taken = NoRequest
  /\ inp' = Tail(inp)
  /\ ReadInvoke(Head(inp)) \/ ReadCancel(Head(inp)) \/ ReadAnswer(Head(inp))
  /\ UNCHANGED <<hostvars, eof, open>>

TakePending ==
  /\ proc = "up" /\ inp # <<>> /\ taken = NoRequest
  /\ Head(inp).kind = "answer" /\ ~Expected(Head(inp)) /\ pending # NoRequest
  /\ taken' = pending /\ pending' = NoRequest
  /\ UNCHANGED <<hostvars, active, cancel, script, req, mail, wrote, pipevars, proc, clean>>

\* What was taken goes back, whatever the script has done with the slot since:
\* a request it gave up on comes back, a newer one is overwritten.
PutBack ==
  /\ proc = "up" /\ taken # NoRequest
  /\ inp' = Tail(inp)
  /\ Write(Result("answer", Head(inp).inv, "protocol"))
  /\ IF open
     THEN /\ pending' = taken /\ taken' = NoRequest
          /\ UNCHANGED <<active, cancel, script, req, mail, wrote, proc, clean>>
     ELSE Exits(FALSE)
  /\ UNCHANGED <<hostvars, eof, open>>

\* Slip: the loop ends and joins without telling the script.
OwnerLost_joins ==
  /\ proc = "up" /\ inp = <<>> /\ eof
  /\ proc' = "joining"
  /\ UNCHANGED <<hostvars, scriptvars, pipevars, clean>>

\* End of the input: the active script is cancelled, then joined.
OwnerLost ==
  /\ proc = "up" /\ inp = <<>> /\ eof
  /\ proc' = "joining"
  /\ cancel' = (active # 0)
  /\ UNCHANGED <<hostvars, active, script, req, pending, taken, mail, wrote, pipevars, clean>>

Joined ==
  /\ proc = "joining" /\ script = "none"
  /\ Exits(TRUE)
  /\ UNCHANGED <<hostvars, pipevars>>

\* A crash, or a native call that goes wrong.
WorkerCrashes ==
  /\ Running
  /\ Exits(FALSE)
  /\ UNCHANGED <<hostvars, pipevars>>

\* BrokerClient::call_json: a request in the budget is registered and written.
\* It fails when another one is registered, or when it cannot be written and is
\* taken out again; the budget is used all the same.
ScriptAsks ==
  /\ Running /\ script = "run" /\ req < Budget
  /\ req' = req + 1
  /\ \/ /\ pending = NoRequest /\ open
        /\ pending' = <<active, req'>> /\ script' = "wait"
        /\ Write(Request(active, req'))
     \/ UNCHANGED <<pending, script, out>>
  /\ UNCHANGED <<hostvars, active, cancel, taken, mail, wrote, inp, eof, open, proc, clean>>

ScriptIsAnswered ==
  /\ Running /\ script = "wait" /\ mail # 0
  /\ script' = "run" /\ mail' = 0
  /\ UNCHANGED <<hostvars, active, cancel, req, pending, taken, wrote, pipevars, proc, clean>>

\* The wait ends without an answer: on a timeout, on a cancellation, or because
\* the request was overwritten in the slot.  forget_pending empties the slot.
ScriptGivesUp ==
  /\ Running /\ script = "wait"
  /\ script' = "run" /\ mail' = 0 /\ pending' = NoRequest
  /\ UNCHANGED <<hostvars, active, cancel, req, taken, wrote, pipevars, proc, clean>>

\* The result is written and the invocation closed under one lock.
ScriptEnds(code) ==
  /\ Running /\ script = "run"
  /\ Write(Result("invoke", active, code))
  /\ wrote' = <<active, code>>
  /\ active' = 0 /\ cancel' = FALSE /\ script' = "none"
  /\ UNCHANGED <<hostvars, req, pending, taken, mail, inp, eof, open, proc, clean>>

ScriptReturns == ScriptEnds("value")
ScriptStops == cancel /\ ScriptEnds("cancelled")

-----------------------------------------------------------------------------
(***************************************************************************)
(* The host.                                                               *)
(***************************************************************************)
HostOnly == UNCHANGED <<scriptvars, proc, clean>>
Writable == Running

\* A worker in place of the one before, if there was one.  A one-shot worker
\* that was let go of is followed until then: nobody has its pipes any more.
Spawned(state, connected) ==
  /\ proc' = state /\ clean' = TRUE
  /\ eof' = ~connected /\ out' = <<>> /\ open' = connected
  /\ active' = 0 /\ cancel' = FALSE /\ script' = "none" /\ req' = 0
  /\ pending' = NoRequest /\ taken' = NoRequest /\ mail' = 0
  /\ UNCHANGED wrote

\* Not invoked: the persistent client has lost its worker or used it up.
Refused(what) ==
  /\ mode = "persistent"
  /\ outcome' = what
  /\ pc' = "idle"
  /\ UNCHANGED <<count, pipevars>> /\ HostOnly

\* Slip: the client remembers that it asked, not this invocation.
FreshDeadline_asked == late' = FALSE /\ UNCHANGED asked

\* The deadline and the cancellation of an invocation are its own.
FreshDeadline == late' = FALSE /\ asked' = FALSE

Killed ==
  /\ IF Running THEN Exits(FALSE) ELSE HostOnly
  /\ inp' = <<>> /\ eof' = TRUE /\ out' = <<>> /\ open' = FALSE

\* The invoke frame cannot be written: it is too large, or the worker has died.
\* The one-shot host lets go of the worker, the persistent one terminates it.
NotTold ==
  /\ outcome' = "transport"
  /\ UNCHANGED pc
  /\ \/ /\ mode = "oneshot"
        /\ usable' = TRUE /\ count' = 1
        /\ \E state \in {"up", "gone"} : Spawned(state, FALSE)
        /\ inp' = <<>>
     \/ /\ mode = "persistent" /\ (proc = "none" \/ ~usable)
        /\ usable' = FALSE /\ count' = 1
        /\ Spawned("gone", FALSE)
        /\ inp' = <<>>
     \/ /\ mode = "persistent" /\ Running /\ usable /\ count < InvocationLimit
        /\ usable' = FALSE /\ count' = count + 1
        /\ Killed

\* A new invocation: to a new worker, or to the persistent one, which is asked
\* first whether it has exited.
Begin ==
  /\ pc = "idle" /\ inv < MaxInvocations
  /\ inv' = inv + 1
  /\ FreshDeadline
  /\ UNCHANGED <<mode, held>>
  /\ \/ /\ mode = "oneshot" \/ proc = "none" \/ ~usable
        /\ usable' = TRUE /\ count' = 1
        /\ Spawned("up", TRUE)
        /\ inp' = <<Invoke(inv')>>
        /\ pc' = "loop" /\ outcome' = "none"
     \/ NotTold
     \/ /\ mode = "persistent" /\ Running /\ usable
        /\ count < InvocationLimit
        /\ count' = count + 1
        /\ inp' = Append(inp, Invoke(inv'))
        /\ pc' = "loop" /\ outcome' = "none"
        /\ UNCHANGED <<usable, eof, out, open>> /\ HostOnly
     \/ /\ ~usable
        /\ Refused("unavailable") /\ UNCHANGED usable
     \/ /\ usable /\ count >= InvocationLimit
        /\ Refused("limit") /\ UNCHANGED usable
     \/ /\ usable /\ count < InvocationLimit /\ proc = "gone"
        /\ Refused(IF clean THEN "eof" ELSE "crash") /\ usable' = FALSE

\* The time for this invocation is over; the host notices when it looks.
DeadlinePasses ==
  /\ pc \in {"loop", "broker"} /\ ~late
  /\ late' = TRUE
  /\ UNCHANGED <<mode, pc, inv, asked, usable, count, held, outcome, pipevars>> /\ HostOnly

\* The host returns.
Return(what) ==
  /\ outcome' = what
  /\ pc' = "idle" /\ held' = Eof
  /\ UNCHANGED <<mode, inv, late, asked, count>>

\* Slip: the hard timeout gives up on the worker and leaves it.
Abandon_left(what) ==
  /\ Return(what) /\ usable' = FALSE
  /\ eof' = TRUE /\ open' = FALSE
  /\ UNCHANGED <<inp, out>> /\ HostOnly

\* force_terminate, and tree.terminate with terminate_worker.
Abandon(what) ==
  /\ Return(what) /\ usable' = FALSE
  /\ Killed

\* The one-shot host returns on a failed write: its ends of the pipes close, and
\* the worker is neither terminated nor waited for.
LetGo(what) ==
  /\ Return(what) /\ UNCHANGED usable
  /\ eof' = TRUE
  /\ UNCHANGED <<inp, out, open>> /\ HostOnly

\* Both hosts stop here when the deadline is over: a cancel frame is sent.
\* One shot: a failure to write it is ignored, the next frame is the last.
SendCancel ==
  /\ pc = "loop" /\ late /\ ~asked
  /\ \/ /\ mode = "oneshot" \/ Writable
        /\ asked' = TRUE
        /\ pc' = IF mode = "oneshot" THEN "grace" ELSE "loop"
        /\ inp' = IF Writable THEN Append(inp, Cancel(inv)) ELSE inp
        /\ UNCHANGED <<mode, inv, late, usable, count, held, outcome, eof, out, open>>
        /\ HostOnly
     \/ /\ mode = "persistent" /\ ~Writable
        /\ Abandon("transport")

\* The grace time is over.
GraceOver ==
  /\ asked /\ pc \in {"loop", "grace"}
  /\ Abandon("hard_timeout")

\* One shot: stdin is closed and the exit of the worker awaited, without a
\* time limit.
Reap(frame) ==
  /\ pc' = "reaping" /\ held' = frame
  /\ eof' = TRUE
  /\ UNCHANGED <<mode, inv, late, asked, usable, count, outcome, inp>> /\ HostOnly

\* Slip: a result is taken without a look at what it echoes.
OwnFrame_any(f) == TRUE

OwnFrame(f) == f.id = "invoke" /\ f.inv = inv

\* cancellation that the host asked for is reported as a timeout
Verdict(code) == IF code = "cancelled" /\ (asked \/ mode = "oneshot") THEN "wall_time" ELSE code

\* The one-shot reader stops at a result and lets go of the pipe, whatever
\* the host is doing meanwhile; at any frame when the host has returned.
ReaderStops ==
  /\ mode = "oneshot" /\ open
  /\ \/ \E k \in 1..Len(out) : out[k].kind = "result"
     \/ pc = "reaping" /\ held.kind = "result"
     \/ pc = "idle" /\ out # <<>>
  /\ open' = FALSE
  /\ UNCHANGED <<hostvars, inp, eof, out>> /\ HostOnly

\* The next frame of the worker: a request for the broker, in the budget of
\* this invocation, or a result.  In the grace of the one-shot host any frame
\* is the last.
HostReceives ==
  LET f == Head(out)
      mine == f.inv = inv /\ f.req <= Budget
      Rest == out' = Tail(out) /\ UNCHANGED open
  IN  /\ out # <<>>
      /\ \/ /\ pc = "loop" /\ f.kind = "request" /\ mine
            /\ pc' = "broker" /\ held' = f
            /\ Rest
            /\ UNCHANGED <<mode, inv, late, asked, usable, count, outcome, inp, eof>>
            /\ HostOnly
         \/ /\ mode = "oneshot"
            /\ pc = "grace" \/ (pc = "loop" /\ (f.kind = "request" => ~mine))
            /\ Reap(IF pc = "loop" /\ f.kind = "request" THEN Violation ELSE f)
            /\ Rest
         \/ /\ mode = "persistent" /\ pc = "loop" /\ f.kind = "result" /\ OwnFrame(f)
            /\ Return(Verdict(f.code))
            /\ Rest
            /\ UNCHANGED <<usable, inp, eof>> /\ HostOnly
         \/ /\ mode = "persistent" /\ pc = "loop"
            /\ IF f.kind = "result" THEN ~OwnFrame(f) ELSE ~mine
            /\ Abandon("protocol")

\* The worker has exited and everything it wrote is read.
HostSeesEof ==
  /\ pc \in {"loop", "grace"} /\ out = <<>> /\ proc = "gone"
  /\ \/ /\ mode = "oneshot"
        /\ Reap(Eof)
        /\ open' = FALSE /\ UNCHANGED out
     \/ /\ mode = "persistent"
        /\ Return(IF clean THEN "eof" ELSE "crash")
        /\ usable' = FALSE
        /\ UNCHANGED pipevars /\ HostOnly

\* The broker is through.  One shot: nothing is answered after the deadline.
\* The answer may be too large to be written, or the worker gone.
BrokerDone ==
  /\ pc = "broker"
  /\ \/ /\ mode = "oneshot" /\ late
        /\ pc' = "loop"
        /\ UNCHANGED <<mode, inv, late, asked, usable, count, held, outcome, pipevars>> /\ HostOnly
     \/ /\ mode = "persistent" \/ ~late
        /\ Writable
        /\ inp' = Append(inp, Answer(inv, held.req))
        /\ pc' = "loop"
        /\ UNCHANGED <<mode, inv, late, asked, usable, count, held, outcome, eof, out, open>>
        /\ HostOnly
     \/ /\ mode = "persistent"
        /\ Abandon("transport")
     \/ /\ mode = "oneshot" /\ ~late
        /\ LetGo("transport")

\* The worker has exited: what the host makes of the frame it waits with.
Reaped ==
  /\ pc = "reaping" /\ proc = "gone"
  /\ Return(IF held.kind = "eof" THEN IF clean THEN "transport" ELSE "crash"
            ELSE IF held.kind = "violation" THEN IF clean THEN "protocol" ELSE "crash"
            ELSE IF held.id # "invoke" THEN "protocol"
            ELSE IF ~clean THEN "crash" ELSE Verdict(held.code))
  /\ open' = FALSE /\ out' = <<>> /\ inp' = <<>>
  /\ UNCHANGED <<usable, eof>> /\ HostOnly

\* shutdown of a persistent worker between invocations.
Shutdown ==
  /\ mode = "persistent" /\ pc = "idle" /\ Running /\ ~eof
  /\ eof' = TRUE /\ usable' = FALSE
  /\ pc' = "stopping"
  /\ UNCHANGED <<mode, inv, late, asked, count, held, outcome, inp, out, open>> /\ HostOnly

ShutDown ==
  /\ pc = "stopping" /\ proc = "gone"
  /\ pc' = "idle"
  /\ UNCHANGED <<mode, inv, late, asked, usable, count, held, outcome, pipevars>> /\ HostOnly

\* The host process is killed: its ends of the pipes close.
HostDies ==
  /\ pc # "dead"
  /\ pc' = "dead"
  /\ eof' = TRUE /\ open' = FALSE
  /\ UNCHANGED <<mode, inv, late, asked, usable, count, held, outcome, inp, out>> /\ HostOnly

-----------------------------------------------------------------------------
HostStep ==
  \/ SendCancel \/ GraceOver \/ HostReceives \/ HostSeesEof \/ BrokerDone
  \/ Reaped \/ ShutDown \/ ReaderStops

WorkerStep ==
  WorkerReads \/ TakePending \/ PutBack \/ OwnerLost \/ Joined \/ ScriptIsAnswered

Next ==
  \/ Begin \/ DeadlinePasses \/ HostStep \/ Shutdown \/ HostDies
  \/ WorkerStep \/ WorkerCrashes
  \/ ScriptAsks \/ ScriptGivesUp \/ ScriptReturns \/ ScriptStops

Spec == Init /\ [][Next]_vars

\* The host runs, time passes, and the worker's reader runs.
Scheduled ==
  /\ WF_vars(HostStep) /\ WF_vars(DeadlinePasses) /\ WF_vars(WorkerStep)

\* A cancelled script stops: the engines look at the flag, also in a wait.
Cooperative ==
  /\ WF_vars(cancel /\ ScriptGivesUp) /\ WF_vars(ScriptStops)

FairSpec == Spec /\ Scheduled /\ Cooperative
HostFairSpec == Spec /\ Scheduled

-----------------------------------------------------------------------------
\* "transport" is also what becomes of a frame that is too large to be written.
Outcomes == {"none", "value", "cancelled", "wall_time", "protocol", "transport", "crash",
             "eof", "hard_timeout", "unavailable", "limit"}

\* The tables; a script runs exactly while an invocation is active, and the
\* reader holds a request only in the middle of an answer it has to reject.
TypeOK ==
  /\ pc \in {"idle", "loop", "broker", "grace", "reaping", "stopping", "dead"}
  /\ proc \in {"none", "up", "joining", "gone"}
  /\ active \in Invocations \cup {0} /\ script \in {"none", "run", "wait"}
  /\ script = "none" <=> active = 0
  /\ req \in 0..Budget /\ mail \in 0..Budget
  /\ pending \in (0..MaxInvocations) \X (0..Budget)
  /\ taken \in (0..MaxInvocations) \X (0..Budget)
  /\ taken # NoRequest => proc = "up" /\ inp # <<>> /\ Head(inp).kind = "answer"
  /\ outcome \in Outcomes

\* What the host returns as the result of an invocation is what the script of
\* that invocation ended with, though rejections of late frames travel in
\* result frames too and outlive the invocation they are about.
OwnResult ==
  /\ outcome = "value" => wrote = <<inv, "value">>
  /\ outcome \in {"wall_time", "cancelled"} => wrote = <<inv, "cancelled">>

\* A script is handed the answer to the request it waits with, though answers
\* to requests it gave up on still arrive.
OwnAnswer == mail # 0 => script = "wait" /\ mail = req

\* A run is reported as out of time, or as cancelled, only if its own
\* deadline has passed: not because of an earlier one on the same worker.
TimeoutTruth == outcome \in {"wall_time", "cancelled", "hard_timeout"} => late

\* When the host is done with a worker, one shot after every invocation and
\* persistent when the client became unavailable, there is no worker: except
\* for one that the one-shot host could not write to, which has lost its input.
NoneLeft ==
  pc = "idle" /\ (mode = "oneshot" \/ ~usable) /\ Running =>
    mode = "oneshot" /\ outcome = "transport" /\ eof

\* Every invocation comes to an end, whatever the worker does and however it
\* dies, if cancelled scripts stop (Cooperative).
Ends == pc \in {"loop", "broker", "grace", "reaping"} ~> pc \in {"idle", "dead"}

\* A worker whose host is gone, or has let go of it, ends too.
NoOrphan ==
  pc \in {"idle", "dead"} /\ Running /\ eof ~> ~Running \/ pc \notin {"idle", "dead"}
=============================================================================
