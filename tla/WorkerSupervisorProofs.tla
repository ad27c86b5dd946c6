----------------------- MODULE WorkerSupervisorProofs -----------------------
(***************************************************************************)
(* For any number of invocations, any limit and any budget: the results,   *)
(* answers and timeouts that a host reports are those of its invocation,   *)
(* and no worker is left behind.                                           *)
(***************************************************************************)
EXTENDS WorkerSupervisor, SequenceTheorems, TLAPS

Codes == {"value", "cancelled"}
Busy == {"loop", "broker", "grace"}

InFrames == [kind : {"invoke", "cancel", "answer"}, inv : Invocations, req : 0..Budget]

OutFrames ==
  [kind : {"request", "result", "eof", "violation"},
   id : {"request", "invoke", "cancel", "answer", "none"},
   inv : 0..MaxInvocations, req : 0..Budget,
   code : {"none", "value", "cancelled", "protocol"}]

HostTypes ==
  /\ mode \in {"oneshot", "persistent"}
  /\ pc \in {"idle", "loop", "broker", "grace", "reaping", "stopping", "dead"}
  /\ inv \in 0..MaxInvocations /\ count \in Nat
  /\ late \in BOOLEAN /\ asked \in BOOLEAN /\ usable \in BOOLEAN
  /\ held \in OutFrames /\ outcome \in Outcomes

PipeTypes ==
  /\ inp \in Seq(InFrames) /\ out \in Seq(OutFrames)
  /\ eof \in BOOLEAN /\ open \in BOOLEAN

ScriptTypes ==
  /\ proc \in {"none", "up", "joining", "gone"} /\ clean \in BOOLEAN
  /\ active \in Invocations \cup {0} /\ script \in {"none", "run", "wait"}
  /\ cancel \in BOOLEAN
  /\ script = "none" <=> active = 0
  /\ mail \in 0..Budget /\ req \in 0..Budget
  /\ pending \in (0..MaxInvocations) \X (0..Budget)
  /\ taken \in (0..MaxInvocations) \X (0..Budget)
  /\ wrote \in (0..MaxInvocations) \X {"none", "value", "cancelled"}

\* A process that has ended runs nothing.
DeadIsIdle == ~Running => active = 0

\* The script that runs is that of the current invocation, and runs once.
Current ==
  /\ wrote[1] <= inv
  /\ Running => active \in {0, inv}
  /\ wrote[1] = inv => active = 0
  /\ pc = "idle" /\ ~eof => active = 0
  /\ pc \in Busy \cup {"reaping"} => inv # 0

\* So is the invocation that is on its way to the worker.
ToWorker ==
  /\ \A k \in 1..Len(inp) : inp[k].inv <= inv
  /\ Running =>
       \A k \in 1..Len(inp) :
         inp[k].kind = "invoke" =>
           /\ inp[k].inv = inv /\ wrote[1] # inv /\ active = 0 /\ (pc # "idle" \/ eof)
           /\ \A j \in 1..Len(inp) : inp[j].kind = "invoke" => j = k

\* A cancellation of the current invocation is the doing of its host.
Cancellation ==
  /\ asked => late
  /\ \A k \in 1..Len(inp) : inp[k].kind = "cancel" /\ inp[k].inv = inv => asked
  /\ active # 0 /\ cancel => asked \/ eof
  /\ pc \in Busy \/ (pc = "idle" /\ Running /\ mode = "persistent") => ~eof

Mine(f) == f.id = "invoke" /\ (f.inv = inv \/ (mode = "oneshot" /\ pc \in Busy))

\* A result on its way to the host is what the script ended with.
ToHost ==
  /\ \A k \in 1..Len(out) :
       /\ out[k].inv <= inv
       /\ Mine(out[k]) =>
            /\ out[k].code \in Codes /\ wrote = <<inv, out[k].code>>
            /\ out[k].code = "cancelled" => asked \/ eof
  /\ pc = "reaping" /\ held.id = "invoke" /\ held.code \in Codes =>
       /\ wrote = <<inv, held.code>>
       /\ held.code = "cancelled" => late

\* A persistent worker that is at work is the client's to use again.
Kept == mode = "persistent" /\ pc \in {"loop", "broker"} => usable

\* The reader holds a request only while it works on an answer.
Slots ==
  taken # NoRequest => proc = "up" /\ 1 \in 1..Len(inp) /\ inp[1].kind = "answer"

IInv ==
  /\ HostTypes /\ PipeTypes /\ ScriptTypes /\ DeadIsIdle /\ Current /\ ToWorker
  /\ Cancellation /\ ToHost /\ Kept
  /\ OwnResult /\ OwnAnswer /\ Slots /\ TimeoutTruth /\ NoneLeft

-----------------------------------------------------------------------------
(* Pipes.                                                                  *)
LEMMA AppendAt ==
  ASSUME NEW S, NEW s \in Seq(S), NEW e \in S
  PROVE  /\ Append(s, e) \in Seq(S)
         /\ \A k \in 1..Len(Append(s, e)) :
              \/ k \in 1..Len(s) /\ Append(s, e)[k] = s[k]
              \/ Append(s, e)[k] = e /\ k = Len(s) + 1
  <1>1. /\ Append(s, e) \in Seq(S) /\ Len(Append(s, e)) = Len(s) + 1 /\ Len(s) \in Nat
        /\ \A i \in 1..Len(s) : Append(s, e)[i] = s[i]
        /\ Append(s, e)[Len(s) + 1] = e
    BY AppendProperties
  <1> QED  BY <1>1

LEMMA AppendFirst ==
  ASSUME NEW S, NEW s \in Seq(S), NEW e \in S, 1 \in 1..Len(s)
  PROVE  1 \in 1..Len(Append(s, e)) /\ Append(s, e)[1] = s[1]
  BY AppendProperties, LenProperties

LEMMA TailAt ==
  ASSUME NEW S, NEW s \in Seq(S), s # <<>>
  PROVE  /\ Tail(s) \in Seq(S) /\ Head(s) \in S
         /\ 1 \in 1..Len(s) /\ Head(s) = s[1]
         /\ \A k \in 1..Len(Tail(s)) : k + 1 \in 1..Len(s) /\ Tail(s)[k] = s[k + 1]
  <1>1. /\ Head(s) \in S /\ Tail(s) \in Seq(S) /\ Len(Tail(s)) = Len(s) - 1 /\ Head(s) = s[1]
        /\ \A i \in 1..Len(Tail(s)) : Tail(s)[i] = s[i + 1]
    BY HeadTailProperties
  <1>2. Len(s) \in Nat /\ Len(s) # 0
    BY EmptySeq, LenProperties
  <1> QED  BY <1>1, <1>2

\* What is true of every frame of a pipe stays so when one is taken.
Shrunk(new, old) ==
  \E d \in {0, 1} : \A k \in 1..Len(new) : k + d \in 1..Len(old) /\ new[k] = old[k + d]

LEMMA ShrunkBy ==
  ASSUME NEW S, NEW s \in Seq(S)
  PROVE  Shrunk(s, s) /\ (s # <<>> => Shrunk(Tail(s), s))
  <1>1. \A k \in 1..Len(s) : k + 0 \in 1..Len(s) /\ s[k] = s[k + 0]
    BY LenProperties
  <1>2. s # <<>> => \A k \in 1..Len(Tail(s)) : k + 1 \in 1..Len(s) /\ Tail(s)[k] = s[k + 1]
    BY TailAt
  <1> QED  BY <1>1, <1>2 DEF Shrunk

\* In particular what is said of the frames to the worker.
LEMMA InputKeeps ==
  ASSUME ToWorker, Cancellation, Shrunk(inp', inp),
         UNCHANGED <<pc, inv, wrote, active, proc, asked, eof>>
  PROVE  ToWorker' /\ \A k \in 1..Len(inp') : inp'[k].kind = "cancel" /\ inp'[k].inv = inv => asked
  <1>1. PICK d \in {0, 1} :
          \A k \in 1..Len(inp') : k + d \in 1..Len(inp) /\ inp'[k] = inp[k + d]
    BY DEF Shrunk
  <1>2. \A k \in 1..Len(inp') : inp'[k].inv <= inv
    BY <1>1 DEF ToWorker
  <1>3. \A k \in 1..Len(inp') : inp'[k].kind = "cancel" /\ inp'[k].inv = inv => asked
    BY <1>1 DEF Cancellation
  <1>4. ASSUME Running, NEW k \in 1..Len(inp'), inp'[k].kind = "invoke"
        PROVE  /\ inp'[k].inv = inv /\ wrote[1] # inv /\ active = 0 /\ (pc # "idle" \/ eof)
               /\ \A j \in 1..Len(inp') : inp'[j].kind = "invoke" => j = k
    <2>1. k + d \in 1..Len(inp) /\ inp[k + d].kind = "invoke" /\ inp'[k] = inp[k + d]
      BY <1>1, <1>4
    <2>2. /\ inp[k + d].inv = inv /\ wrote[1] # inv /\ active = 0 /\ (pc # "idle" \/ eof)
          /\ \A j \in 1..Len(inp) : inp[j].kind = "invoke" => j = k + d
      BY <1>4, <2>1 DEF ToWorker
    <2>3. \A j \in 1..Len(inp') : inp'[j].kind = "invoke" => j + d = k + d
      BY <1>1, <2>2
    <2> QED  BY <2>1, <2>2, <2>3
  <1>5. Running' <=> Running
    BY DEF Running
  <1> QED  BY <1>2, <1>3, <1>4, <1>5 DEF ToWorker

-----------------------------------------------------------------------------
(* The worker process.                                                     *)
LEMMA NoRequestIsPair ==
  /\ NoRequest \in (0..MaxInvocations) \X (0..Budget)
  /\ 0 \in 0..Budget /\ 0 \in 0..MaxInvocations
  BY WorkerAssumption DEF NoRequest

\* The process ends, in whatever way, and the host looks on.
LEMMA ExitKeeps ==
  ASSUME IInv, NEW status \in BOOLEAN, Exits(status),
         UNCHANGED <<hostvars, eof, open, out>>,
         inp' \in Seq(InFrames), Shrunk(inp', inp)
  PROVE  IInv'
  <1>1. UNCHANGED <<mode, pc, inv, late, asked, usable, count, held, outcome, eof, open, out>>
    BY DEF hostvars
  <1>2. /\ proc' = "gone" /\ clean' = status /\ active' = 0 /\ script' = "none"
        /\ pending' = NoRequest /\ taken' = NoRequest /\ mail' = 0 /\ cancel' = FALSE /\ UNCHANGED <<req, wrote>>
    BY DEF Exits
  <1>3. HostTypes' /\ PipeTypes' /\ Kept'
    BY <1>1 DEF IInv, HostTypes, PipeTypes, Kept
  <1>4. ScriptTypes' /\ DeadIsIdle' /\ OwnAnswer' /\ Slots' /\ NoneLeft'
    BY <1>1, <1>2, NoRequestIsPair DEF IInv, ScriptTypes, DeadIsIdle, OwnAnswer, Slots, NoneLeft, Running
  <1>5. Current' /\ OwnResult' /\ TimeoutTruth'
    BY <1>1, <1>2 DEF IInv, Current, OwnResult, TimeoutTruth, Running
  <1>6. ToWorker' /\ Cancellation'
    BY <1>1, <1>2 DEF IInv, ToWorker, Cancellation, Running, Shrunk
  <1>7. ToHost'
    BY <1>1, <1>2 DEF IInv, ToHost, Mine
  <1> QED  BY <1>3, <1>4, <1>5, <1>6, <1>7 DEF IInv

\* Frames are frames.
LEMMA FrameTypes ==
  /\ \A i \in Invocations :
       Invoke(i) \in InFrames /\ Cancel(i) \in InFrames /\ i \in 0..MaxInvocations
  /\ \A i \in Invocations, r \in 0..Budget :
       Answer(i, r) \in InFrames /\ Request(i, r) \in OutFrames
  /\ \A i \in Invocations, id \in {"invoke", "cancel", "answer"},
        code \in {"value", "cancelled", "protocol"} : Result(id, i, code) \in OutFrames
  /\ Eof \in OutFrames /\ Violation \in OutFrames
  BY WorkerAssumption DEF Invoke, Cancel, Answer, Request, Result, Eof, Violation, InFrames,
       OutFrames, Invocations

LEMMA WriteAdds ==
  ASSUME PipeTypes, NEW f \in OutFrames, Write(f)
  PROVE  /\ out' \in Seq(OutFrames)
         /\ \A k \in 1..Len(out') : out'[k] = f \/ (k \in 1..Len(out) /\ out'[k] = out[k])
  BY AppendAt DEF PipeTypes, Write

\* A frame is rejected, and what the reader had taken goes back.
LEMMA RejectKeeps ==
  ASSUME IInv, NEW id \in {"cancel", "answer"}, NEW i \in Invocations, i <= inv,
         Write(Result(id, i, "protocol")),
         UNCHANGED <<hostvars, eof, open, active, cancel, script, req, mail, wrote, proc, clean>>,
         pending' \in {pending, taken}, taken' = NoRequest,
         inp' \in Seq(InFrames), Shrunk(inp', inp)
  PROVE  IInv'
  <1>1. UNCHANGED <<mode, pc, inv, late, asked, usable, count, held, outcome, eof, open,
                    active, cancel, script, req, mail, wrote, proc, clean>>
    BY DEF hostvars
  <1> DEFINE f == Result(id, i, "protocol")
  <1>2. f \in OutFrames /\ f.id # "invoke" /\ f.inv <= inv
    BY FrameTypes DEF Result
  <1>3. /\ out' \in Seq(OutFrames)
        /\ \A k \in 1..Len(out') : out'[k] = f \/ (k \in 1..Len(out) /\ out'[k] = out[k])
    BY <1>2, WriteAdds DEF IInv
  <1> HIDE DEF f
  <1>4. HostTypes' /\ PipeTypes' /\ Kept' /\ ScriptTypes' /\ DeadIsIdle' /\ OwnAnswer' /\ Slots' /\ NoneLeft'
    BY <1>1, <1>3, NoRequestIsPair
       DEF IInv, HostTypes, PipeTypes, Kept, ScriptTypes, DeadIsIdle, OwnAnswer, Slots, NoneLeft, Running
  <1>5. Current' /\ OwnResult' /\ TimeoutTruth'
    BY <1>1 DEF IInv, Current, OwnResult, TimeoutTruth, Running
  <1>6. ToWorker' /\ Cancellation'
    BY <1>1, InputKeeps DEF IInv, Cancellation, Running
  <1>7. ToHost'
    BY <1>1, <1>2, <1>3 DEF IInv, ToHost, Mine
  <1> QED  BY <1>4, <1>5, <1>6, <1>7 DEF IInv

\* An invocation is read once, and finds the worker free.
LEMMA ReadsKeeps ==
  ASSUME IInv, WorkerReads
  PROVE  IInv'
  <1> DEFINE f == Head(inp)
  <1>1. /\ proc = "up" /\ inp # <<>> /\ taken = NoRequest /\ inp' = Tail(inp)
        /\ UNCHANGED <<hostvars, eof, open>>
    BY DEF WorkerReads
  <1>2. /\ inp \in Seq(InFrames) /\ inp' \in Seq(InFrames) /\ f \in InFrames
        /\ 1 \in 1..Len(inp) /\ f = inp[1]
        /\ \A k \in 1..Len(inp') : k + 1 \in 1..Len(inp) /\ inp'[k] = inp[k + 1]
    BY <1>1, TailAt DEF IInv, PipeTypes
  <1>3. Shrunk(inp', inp)
    BY <1>1, <1>2, ShrunkBy
  <1>4. /\ f.inv <= inv /\ f.inv \in Invocations /\ f.req \in 0..Budget
        /\ f.kind = "invoke" =>
             /\ f.inv = inv /\ wrote[1] # inv /\ active = 0 /\ (pc # "idle" \/ eof)
             /\ \A j \in 1..Len(inp) : inp[j].kind = "invoke" => j = 1
        /\ f.kind = "cancel" /\ f.inv = inv => asked
    BY <1>1, <1>2 DEF IInv, ToWorker, Cancellation, Running, InFrames
  <1> HIDE DEF f
  <1>5. UNCHANGED <<mode, pc, inv, late, asked, usable, count, held, outcome, eof, open>>
    BY <1>1 DEF hostvars
  <1>6. ASSUME NEW id \in {"cancel", "answer"}, Reject(id, f.inv)
        PROVE  IInv'
    <2>1. CASE open
      BY <1>1, <1>2, <1>3, <1>4, <1>6, <2>1, RejectKeeps DEF Reject, scriptvars
    <2>2. CASE ~open
      BY <1>1, <1>2, <1>3, <1>6, <2>2, ExitKeeps DEF Reject, Write
    <2> QED  BY <2>1, <2>2
  <1>7. CASE ReadInvoke(f)
    <2>1. /\ active' = inv /\ cancel' = FALSE /\ script' = "run" /\ req' = 0
          /\ UNCHANGED <<pending, taken, mail, wrote, out, proc, clean>>
          /\ active = 0 /\ wrote[1] # inv /\ (pc # "idle" \/ eof) /\ inv \in Invocations
      BY <1>4, <1>7 DEF ReadInvoke
    <2>2. mail = 0
      BY <2>1 DEF IInv, ScriptTypes, OwnAnswer
    <2>3. \A k \in 1..Len(inp') : inp'[k].kind # "invoke"
      <3> SUFFICES ASSUME NEW k \in 1..Len(inp'), inp'[k].kind = "invoke"  PROVE FALSE
        OBVIOUS
      <3>1. k + 1 = 1
        BY <1>2, <1>4, <1>7 DEF ReadInvoke
      <3> QED  BY <3>1
    <2>4. HostTypes' /\ PipeTypes' /\ Kept'
      BY <1>2, <1>5, <2>1 DEF IInv, HostTypes, PipeTypes, Kept
    <2>5. ScriptTypes' /\ DeadIsIdle' /\ OwnAnswer' /\ Slots' /\ NoneLeft'
      <3>1. inv # 0 /\ 0 \in 0..Budget
        BY <2>1, WorkerAssumption DEF Invocations
      <3>2. ScriptTypes'
        BY <2>1, <2>2, <3>1 DEF IInv, ScriptTypes
      <3> QED  BY <1>1, <1>5, <2>1, <2>2, <3>2
                  DEF IInv, DeadIsIdle, OwnAnswer, Slots, NoneLeft, Running
    <2>6. Current' /\ OwnResult' /\ TimeoutTruth'
      BY <1>5, <2>1 DEF IInv, Current, OwnResult, TimeoutTruth, Running
    <2>7. ToWorker' /\ Cancellation'
      <3>1. \A k \in 1..Len(inp') :
              /\ inp'[k].inv <= inv
              /\ inp'[k].kind = "cancel" /\ inp'[k].inv = inv => asked
        BY <1>2 DEF IInv, ToWorker, Cancellation
      <3> QED  BY <1>5, <2>1, <2>3, <3>1 DEF IInv, ToWorker, Cancellation, Running
    <2>8. ToHost'
      BY <1>5, <2>1 DEF IInv, ToHost, Mine
    <2> QED  BY <2>4, <2>5, <2>6, <2>7, <2>8 DEF IInv
  <1>8. CASE ReadCancel(f) /\ active = f.inv
    <2>1. cancel' = TRUE /\ UNCHANGED <<active, script, req, pending, taken, mail, wrote, out, proc, clean>>
      BY <1>4, <1>8 DEF ReadCancel
    <2>2. asked
      BY <1>1, <1>4, <1>8 DEF ReadCancel, IInv, Current, Running, Invocations
    <2>3. HostTypes' /\ PipeTypes' /\ Kept' /\ ScriptTypes' /\ DeadIsIdle' /\ OwnAnswer' /\ Slots' /\ NoneLeft'
      BY <1>1, <1>2, <1>5, <2>1 DEF IInv, HostTypes, PipeTypes, Kept, ScriptTypes, DeadIsIdle,
                              OwnAnswer, Slots, NoneLeft, Running
    <2>4. Current' /\ OwnResult' /\ TimeoutTruth'
      BY <1>5, <2>1 DEF IInv, Current, OwnResult, TimeoutTruth, Running
    <2>5. ToWorker' /\ Cancellation'
      BY <1>3, <1>5, <2>1, <2>2, InputKeeps DEF IInv, Cancellation, Running
    <2>6. ToHost'
      BY <1>5, <2>1 DEF IInv, ToHost, Mine
    <2> QED  BY <2>3, <2>4, <2>5, <2>6 DEF IInv
  <1>9. CASE ReadAnswer(f) /\ Expected(f)
    <2>1. /\ pending' = NoRequest /\ (mail' = mail \/ (mail' = f.req /\ script = "wait" /\ f.req = req))
          /\ UNCHANGED <<active, cancel, script, req, taken, wrote, out, proc, clean>>
      BY <1>9 DEF ReadAnswer, Expected, Receives
    <2>2. HostTypes' /\ PipeTypes' /\ Kept'
      BY <1>2, <1>5, <2>1 DEF IInv, HostTypes, PipeTypes, Kept
    <2>3. ScriptTypes' /\ DeadIsIdle' /\ OwnAnswer' /\ Slots' /\ NoneLeft'
      BY <1>1, <1>4, <1>5, <2>1, NoRequestIsPair
         DEF IInv, ScriptTypes, DeadIsIdle, OwnAnswer, Slots, NoneLeft, Running
    <2>4. Current' /\ OwnResult' /\ TimeoutTruth'
      BY <1>5, <2>1 DEF IInv, Current, OwnResult, TimeoutTruth, Running
    <2>5. ToWorker' /\ Cancellation'
      BY <1>3, <1>5, <2>1, InputKeeps DEF IInv, Cancellation, Running
    <2>6. ToHost'
      BY <1>5, <2>1 DEF IInv, ToHost, Mine
    <2> QED  BY <2>2, <2>3, <2>4, <2>5, <2>6 DEF IInv
  <1>10. ReadInvoke(f) \/ ReadCancel(f) \/ ReadAnswer(f)
    BY DEF WorkerReads, f
  <1> QED  BY <1>6, <1>7, <1>8, <1>9, <1>10 DEF ReadCancel, ReadAnswer

\* The slot is emptied and filled again in two steps.
LEMMA TakeKeeps ==
  ASSUME IInv, TakePending
  PROVE  IInv'
  <1>1. /\ proc = "up" /\ inp # <<>> /\ Head(inp).kind = "answer"
        /\ taken' = pending /\ pending' = NoRequest
        /\ UNCHANGED <<mode, pc, inv, late, asked, usable, count, held, outcome, inp, eof, out, open,
                       active, cancel, script, req, mail, wrote, proc, clean>>
    BY DEF TakePending, hostvars, pipevars
  <1>2. 1 \in 1..Len(inp) /\ inp[1].kind = "answer"
    BY <1>1, TailAt DEF IInv, PipeTypes
  <1>3. HostTypes' /\ PipeTypes' /\ Kept' /\ ScriptTypes' /\ DeadIsIdle' /\ OwnAnswer' /\ Slots' /\ NoneLeft'
    BY <1>1, <1>2, NoRequestIsPair
       DEF IInv, HostTypes, PipeTypes, Kept, ScriptTypes, DeadIsIdle, OwnAnswer, Slots, NoneLeft, Running
  <1>4. Current' /\ OwnResult' /\ TimeoutTruth'
    BY <1>1 DEF IInv, Current, OwnResult, TimeoutTruth, Running
  <1>5. ToWorker' /\ Cancellation'
    BY <1>1 DEF IInv, ToWorker, Cancellation, Running
  <1>6. ToHost'
    BY <1>1 DEF IInv, ToHost, Mine
  <1> QED  BY <1>3, <1>4, <1>5, <1>6 DEF IInv

LEMMA PutBackKeeps ==
  ASSUME IInv, PutBack
  PROVE  IInv'
  <1> DEFINE f == Head(inp)
  <1>1. inp # <<>> /\ inp \in Seq(InFrames)
    BY DEF PutBack, IInv, Slots, PipeTypes
  <1>2. /\ inp' = Tail(inp) /\ inp' \in Seq(InFrames) /\ Shrunk(inp', inp)
        /\ f \in InFrames /\ 1 \in 1..Len(inp) /\ f = inp[1]
    BY <1>1, TailAt, ShrunkBy DEF PutBack
  <1>3. f.inv \in Invocations /\ f.inv <= inv
    BY <1>2 DEF IInv, ToWorker, InFrames
  <1>4. CASE open
    BY <1>2, <1>3, <1>4, RejectKeeps DEF PutBack
  <1>5. CASE ~open
    BY <1>2, <1>5, ExitKeeps DEF PutBack, Write
  <1> QED  BY <1>4, <1>5

\* The threads of the worker, between frames.
LEMMA OwnerLostKeeps ==
  ASSUME IInv, OwnerLost
  PROVE  IInv'
  <1>0. taken = NoRequest
    BY DEF OwnerLost, IInv, Slots
  <1>1. /\ proc = "up" /\ eof /\ proc' = "joining" /\ cancel' = (active # 0)
        /\ UNCHANGED <<mode, pc, inv, late, asked, usable, count, held, outcome, inp, eof, out, open,
                       active, script, req, pending, taken, mail, wrote, clean>>
    BY DEF OwnerLost, hostvars, pipevars
  <1>2. HostTypes' /\ PipeTypes' /\ Kept' /\ ScriptTypes' /\ DeadIsIdle' /\ OwnAnswer' /\ Slots' /\ NoneLeft'
    BY <1>0, <1>1 DEF IInv, HostTypes, PipeTypes, Kept, ScriptTypes, DeadIsIdle, OwnAnswer,
                Slots, NoneLeft, Running
  <1>3. Current' /\ OwnResult' /\ TimeoutTruth'
    BY <1>1 DEF IInv, Current, OwnResult, TimeoutTruth, Running
  <1>4. ToWorker' /\ Cancellation'
    BY <1>1 DEF IInv, ToWorker, Cancellation, Running
  <1>5. ToHost'
    BY <1>1 DEF IInv, ToHost, Mine
  <1> QED  BY <1>2, <1>3, <1>4, <1>5 DEF IInv

LEMMA WaitOverKeeps ==
  ASSUME IInv, ScriptIsAnswered \/ ScriptGivesUp
  PROVE  IInv'
  <1>1. /\ Running /\ script = "wait" /\ script' = "run" /\ mail' = 0 /\ pending' \in {NoRequest, pending}
        /\ UNCHANGED <<mode, pc, inv, late, asked, usable, count, held, outcome, inp, eof, out, open,
                       active, cancel, req, taken, wrote, proc, clean>>
    BY DEF ScriptIsAnswered, ScriptGivesUp, hostvars, pipevars
  <1>3. HostTypes' /\ PipeTypes' /\ Kept' /\ ScriptTypes' /\ DeadIsIdle' /\ OwnAnswer' /\ Slots' /\ NoneLeft'
    BY <1>1, NoRequestIsPair DEF IInv, HostTypes, PipeTypes, Kept, ScriptTypes, DeadIsIdle,
                OwnAnswer, Slots, NoneLeft, Running
  <1>4. Current' /\ OwnResult' /\ TimeoutTruth'
    BY <1>1 DEF IInv, Current, OwnResult, TimeoutTruth, Running
  <1>5. ToWorker' /\ Cancellation'
    BY <1>1 DEF IInv, ToWorker, Cancellation, Running
  <1>6. ToHost'
    BY <1>1 DEF IInv, ToHost, Mine
  <1> QED  BY <1>3, <1>4, <1>5, <1>6 DEF IInv

LEMMA AsksKeeps ==
  ASSUME IInv, ScriptAsks
  PROVE  IInv'
  <1> DEFINE f == Request(active, req + 1)
  <1>1. /\ Running /\ script = "run" /\ req < Budget /\ req' = req + 1
        /\ pending' \in {pending, <<active, req + 1>>} /\ script' \in {"run", "wait"}
        /\ Write(f) \/ out' = out
        /\ UNCHANGED <<mode, pc, inv, late, asked, usable, count, held, outcome, inp, eof, open,
                       active, cancel, taken, mail, wrote, proc, clean>>
    BY DEF ScriptAsks, hostvars
  <1>2. /\ active \in Invocations /\ active = inv /\ mail = 0 /\ req + 1 \in 0..Budget
        /\ active \in 0..MaxInvocations
    BY <1>1, WorkerAssumption DEF IInv, ScriptTypes, Current, OwnAnswer, Invocations
  <1>3. f \in OutFrames /\ f.id # "invoke" /\ f.inv <= inv
    BY <1>2, FrameTypes DEF Request, Invocations
  <1>4. /\ out' \in Seq(OutFrames)
        /\ \A k \in 1..Len(out') : out'[k] = f \/ (k \in 1..Len(out) /\ out'[k] = out[k])
    BY <1>1, <1>3, WriteAdds DEF IInv, PipeTypes
  <1> HIDE DEF f
  <1>5. HostTypes' /\ PipeTypes' /\ Kept'
    BY <1>1, <1>4 DEF IInv, HostTypes, PipeTypes, Kept
  <1>6. ScriptTypes' /\ DeadIsIdle' /\ OwnAnswer' /\ Slots' /\ NoneLeft'
    BY <1>1, <1>2, WorkerAssumption DEF IInv, ScriptTypes, DeadIsIdle, OwnAnswer, Slots, NoneLeft, Running
  <1>7. Current' /\ OwnResult' /\ TimeoutTruth'
    BY <1>1 DEF IInv, Current, OwnResult, TimeoutTruth, Running
  <1>8. ToWorker' /\ Cancellation'
    BY <1>1 DEF IInv, ToWorker, Cancellation, Running
  <1>9. ToHost'
    BY <1>1, <1>3, <1>4 DEF IInv, ToHost, Mine
  <1> QED  BY <1>5, <1>6, <1>7, <1>8, <1>9 DEF IInv

\* The first result of an invocation is its only one.
LEMMA EndsKeeps ==
  ASSUME IInv, NEW code \in Codes, ScriptEnds(code), code = "cancelled" => cancel
  PROVE  IInv'
  <1> DEFINE f == Result("invoke", active, code)
  <1>1. /\ Running /\ script = "run" /\ Write(f) /\ wrote' = <<active, code>>
        /\ active' = 0 /\ cancel' = FALSE /\ script' = "none"
        /\ UNCHANGED <<mode, pc, inv, late, asked, usable, count, held, outcome, inp, eof, open,
                       req, pending, taken, mail, proc, clean>>
    BY DEF ScriptEnds, hostvars
  <1>2. active \in Invocations /\ active = inv /\ mail = 0
    BY <1>1 DEF IInv, ScriptTypes, Current, OwnAnswer
  <1>3. f \in OutFrames /\ f.inv = inv /\ f.code = code
    BY <1>2, FrameTypes DEF Result, Codes
  <1>4. /\ out' \in Seq(OutFrames)
        /\ \A k \in 1..Len(out') : out'[k] = f \/ (k \in 1..Len(out) /\ out'[k] = out[k])
    BY <1>1, <1>3, WriteAdds DEF IInv
  <1>5. wrote[1] # inv /\ active # 0 /\ inv \in Nat /\ wrote' = <<inv, code>>
    BY <1>1, <1>2 DEF IInv, Current, Invocations
  <1>6. code = "cancelled" => asked \/ eof
    BY <1>5 DEF IInv, Cancellation
  <1> HIDE DEF f
  <1>7. HostTypes' /\ PipeTypes' /\ Kept'
    BY <1>1, <1>4 DEF IInv, HostTypes, PipeTypes, Kept
  <1>8. ScriptTypes' /\ DeadIsIdle' /\ OwnAnswer' /\ Slots' /\ NoneLeft'
    <2>1. wrote' \in (0..MaxInvocations) \X {"none", "value", "cancelled"}
      BY <1>3, <1>5 DEF Codes, IInv, HostTypes
    <2>2. ScriptTypes'
      BY <1>1, <1>2, <2>1 DEF IInv, ScriptTypes
    <2> QED  BY <1>1, <1>2, <2>2 DEF IInv, DeadIsIdle, OwnAnswer, Slots, NoneLeft, Running
  <1>9. Current' /\ OwnResult' /\ TimeoutTruth'
    BY <1>1, <1>5 DEF IInv, Current, OwnResult, TimeoutTruth, Running
  <1>10. ToWorker' /\ Cancellation'
    BY <1>1, <1>5 DEF IInv, ToWorker, Cancellation, Running
  <1>11. ToHost'
    BY <1>1, <1>3, <1>4, <1>5, <1>6 DEF IInv, ToHost, Mine
  <1> QED  BY <1>7, <1>8, <1>9, <1>10, <1>11 DEF IInv

-----------------------------------------------------------------------------
(* The host.  An invocation begins: the numbers of all frames are below it. *)
LEMMA NewNumber ==
  ASSUME IInv, inv < MaxInvocations
  PROVE  /\ inv + 1 \in Invocations /\ inv + 1 \in 0..MaxInvocations /\ inv < inv + 1
         /\ wrote[1] < inv + 1
         /\ \A k \in 1..Len(inp) : inp[k].inv < inv + 1
         /\ \A k \in 1..Len(out) : out[k].inv < inv + 1
  <1>1. inv \in 0..MaxInvocations /\ wrote[1] \in 0..MaxInvocations
    BY DEF IInv, HostTypes, ScriptTypes
  <1>2. \A k \in 1..Len(inp) : inp[k].inv \in 0..MaxInvocations /\ inp[k].inv <= inv
    <2> SUFFICES ASSUME NEW k \in 1..Len(inp)
                 PROVE  inp[k].inv \in 0..MaxInvocations /\ inp[k].inv <= inv
      OBVIOUS
    <2>1. inp[k] \in InFrames
      BY ElementOfSeq DEF IInv, PipeTypes
    <2> QED  BY <2>1, WorkerAssumption DEF InFrames, IInv, ToWorker, Invocations
  <1>3. \A k \in 1..Len(out) : out[k].inv \in 0..MaxInvocations /\ out[k].inv <= inv
    <2> SUFFICES ASSUME NEW k \in 1..Len(out)
                 PROVE  out[k].inv \in 0..MaxInvocations /\ out[k].inv <= inv
      OBVIOUS
    <2>1. out[k] \in OutFrames
      BY ElementOfSeq DEF IInv, PipeTypes
    <2> QED  BY <2>1 DEF OutFrames, IInv, ToHost
  <1>4. wrote[1] <= inv
    BY DEF IInv, Current
  <1> QED  BY <1>1, <1>2, <1>3, <1>4, WorkerAssumption DEF Invocations

LEMMA SpawnKeeps ==
  ASSUME IInv, pc = "idle", inv < MaxInvocations, inv' = inv + 1, FreshDeadline,
         UNCHANGED <<mode, held>>, usable' = TRUE, count' = 1, Spawned("up", TRUE),
         inp' = <<Invoke(inv')>>,
         pc' = "loop", outcome' = "none"
  PROVE  IInv'
  <1>1. /\ proc' = "up" /\ clean' = TRUE /\ eof' = FALSE /\ out' = <<>> /\ open' = TRUE
        /\ active' = 0 /\ cancel' = FALSE /\ script' = "none" /\ req' = 0 /\ mail' = 0
        /\ pending' = NoRequest /\ taken' = NoRequest
        /\ UNCHANGED wrote /\ late' = FALSE /\ asked' = FALSE
    BY DEF Spawned, FreshDeadline
  <1>2. /\ inv' \in Invocations /\ inv' \in 0..MaxInvocations /\ inv < inv'
        /\ wrote[1] < inv' /\ inv' # 0
    BY NewNumber DEF Invocations
  <1>3. Invoke(inv') \in InFrames /\ Invoke(inv').kind = "invoke" /\ Invoke(inv').inv = inv'
    BY <1>2, FrameTypes DEF Invoke
  <1>4. inp' \in Seq(InFrames) /\ Len(inp') = 1 /\ inp'[1] = Invoke(inv')
    BY <1>3
  <1>5. out' \in Seq(OutFrames) /\ Len(out') = 0
    BY <1>1
  <1>6. HostTypes' /\ PipeTypes' /\ Kept'
    BY <1>1, <1>2, <1>4, <1>5 DEF IInv, HostTypes, PipeTypes, Kept, Outcomes
  <1>7. ScriptTypes' /\ DeadIsIdle' /\ OwnAnswer' /\ Slots' /\ NoneLeft'
    BY <1>1, NoRequestIsPair DEF IInv, ScriptTypes, DeadIsIdle, OwnAnswer, Slots, NoneLeft
  <1>8. wrote[1] \in 0..MaxInvocations
    BY DEF IInv, ScriptTypes
  <1>9. Current' /\ OwnResult' /\ TimeoutTruth'
    BY <1>1, <1>2, <1>8 DEF Current, OwnResult, TimeoutTruth
  <1>10. ToWorker'
    <2>1. \A k \in 1..Len(inp') : k = 1 /\ inp'[k] = Invoke(inv')
      BY <1>4
    <2> QED  BY <1>1, <1>2, <1>3, <1>8, <2>1 DEF ToWorker
  <1>11. Cancellation' /\ ToHost'
    BY <1>1, <1>3, <1>4, <1>5 DEF Cancellation, ToHost
  <1> QED  BY <1>6, <1>7, <1>9, <1>10, <1>11 DEF IInv

\* An invocation ends with nothing left in the pipes: the worker was killed, or
\* it is a new one that nobody talks to.
LEMMA EmptyKeeps ==
  ASSUME IInv, UNCHANGED <<mode, wrote>>, pc' = "idle",
         inp' = <<>>, out' = <<>>, eof' = TRUE, open' = FALSE,
         inv' \in 0..MaxInvocations, inv <= inv', count' \in Nat, usable' \in BOOLEAN,
         late' \in BOOLEAN, asked' \in BOOLEAN, asked' => late', held' \in OutFrames,
         outcome' \in {"transport", "hard_timeout", "protocol"}, outcome' = "hard_timeout" => late',
         \/ proc' \in {"none", "gone"}
         \/ proc' = "up" /\ mode = "oneshot" /\ outcome' = "transport",
         active' = 0, script' = "none", mail' = 0, req' \in 0..Budget,
         taken' = NoRequest, pending' \in {NoRequest, pending},
         cancel' \in BOOLEAN, clean' \in BOOLEAN
  PROVE  IInv'
  <1>1. inp' \in Seq(InFrames) /\ out' \in Seq(OutFrames) /\ Len(inp') = 0 /\ Len(out') = 0
    OBVIOUS
  <1>2. HostTypes' /\ PipeTypes' /\ Kept'
    BY <1>1 DEF IInv, HostTypes, PipeTypes, Kept, Outcomes
  <1>3. ScriptTypes' /\ DeadIsIdle' /\ OwnAnswer' /\ Slots' /\ NoneLeft'
    BY NoRequestIsPair DEF IInv, ScriptTypes, DeadIsIdle, OwnAnswer, Slots, NoneLeft, Running
  <1>4. wrote[1] <= inv'
    <2>1. wrote[1] \in 0..MaxInvocations /\ inv \in 0..MaxInvocations /\ wrote[1] <= inv
      BY DEF IInv, ScriptTypes, HostTypes, Current
    <2> QED  BY <2>1
  <1>5. Current' /\ OwnResult' /\ TimeoutTruth'
    BY <1>4 DEF IInv, Current, OwnResult, TimeoutTruth, Busy
  <1>6. ToWorker' /\ Cancellation' /\ ToHost'
    BY <1>1 DEF IInv, ToWorker, Cancellation, ToHost, Running, Busy
  <1> QED  BY <1>2, <1>3, <1>5, <1>6 DEF IInv

\* What is killed had nothing in its slots that is not forgotten.
LEMMA KilledIsEmpty ==
  ASSUME IInv, Killed
  PROVE  /\ proc' \in {"none", "gone"} /\ active' = 0 /\ script' = "none" /\ UNCHANGED <<req, wrote>>
         /\ pending' \in {NoRequest, pending} /\ taken' = NoRequest /\ mail' = 0
         /\ req' \in 0..Budget /\ cancel' \in BOOLEAN /\ clean' \in BOOLEAN
         /\ inp' = <<>> /\ out' = <<>> /\ eof' = TRUE /\ open' = FALSE
  <1>1. CASE Running
    BY <1>1 DEF Killed, Exits, IInv, ScriptTypes
  <1>2. CASE ~Running
    <2>1. active = 0 /\ script = "none" /\ mail = 0 /\ taken = NoRequest
      BY <1>2 DEF IInv, DeadIsIdle, ScriptTypes, OwnAnswer, Slots, Running
    <2> QED  BY <1>2, <2>1 DEF Killed, HostOnly, scriptvars, Running, IInv, ScriptTypes
  <1> QED  BY <1>1, <1>2

\* The invocation cannot be handed to the worker.
LEMMA NotToldKeeps ==
  ASSUME IInv, pc = "idle", inv < MaxInvocations, inv' = inv + 1, FreshDeadline,
         UNCHANGED <<mode, held>>, NotTold
  PROVE  IInv'
  <1>1. /\ inv' \in 0..MaxInvocations /\ inv <= inv' /\ late' = FALSE /\ asked' = FALSE
        /\ held' \in OutFrames /\ count \in Nat /\ pc' = "idle" /\ outcome' = "transport"
    <2>1. inv \in 0..MaxInvocations /\ held \in OutFrames /\ count \in Nat
      BY DEF IInv, HostTypes
    <2> QED  BY <2>1, WorkerAssumption DEF FreshDeadline, NotTold
  <1>2. ASSUME NEW state \in {"up", "gone"}, Spawned(state, FALSE), inp' = <<>>, count' = 1,
               usable' \in BOOLEAN, mode = "oneshot" \/ state = "gone"
        PROVE  IInv'
    BY <1>1, <1>2, EmptyKeeps, NoRequestIsPair DEF Spawned
  <1>3. CASE usable' = FALSE /\ count' = count + 1 /\ Killed
    <2>1. usable' \in BOOLEAN /\ late' \in BOOLEAN /\ asked' \in BOOLEAN
      BY <1>1, <1>3
    <2>3. count' \in Nat
      <3>1. count \in Nat /\ count' = count + 1
        BY <1>1, <1>3
      <3> QED  BY <3>1
    <2>2. /\ proc' \in {"none", "gone"} /\ active' = 0 /\ script' = "none" /\ UNCHANGED wrote
          /\ pending' \in {NoRequest, pending} /\ taken' = NoRequest /\ mail' = 0
          /\ req' \in 0..Budget /\ cancel' \in BOOLEAN /\ clean' \in BOOLEAN
          /\ inp' = <<>> /\ out' = <<>> /\ eof' = TRUE /\ open' = FALSE
      BY <1>3, KilledIsEmpty
    <2> QED  BY <1>1, <2>1, <2>2, <2>3, EmptyKeeps
  <1> QED  BY <1>2, <1>3 DEF NotTold

\* The persistent worker is not asked.
LEMMA RefuseKeeps ==
  ASSUME IInv, pc = "idle", inv < MaxInvocations, inv' = inv + 1, FreshDeadline,
         UNCHANGED <<mode, held, scriptvars, pipevars, proc>>, pc' = "idle",
         usable' \in BOOLEAN, count' \in Nat, clean' \in BOOLEAN,
         mode = "persistent", ~usable' => ~Running,
         outcome' \in {"unavailable", "limit", "eof", "crash"}
  PROVE  IInv'
  <1>1. /\ UNCHANGED <<active, cancel, script, req, pending, taken, mail, wrote, inp, eof, out, open>>
        /\ late' = FALSE /\ asked' = FALSE
    BY DEF FreshDeadline, scriptvars, pipevars
  <1>2. /\ inv' \in Invocations /\ inv' \in 0..MaxInvocations /\ inv < inv'
        /\ wrote[1] < inv' /\ inv' # 0
        /\ \A k \in 1..Len(inp) : inp[k].inv < inv'
        /\ \A k \in 1..Len(out) : out[k].inv < inv'
    BY NewNumber DEF Invocations
  <1>3. active = 0
    BY DEF IInv, Current, Cancellation, DeadIsIdle
  <1>4. HostTypes' /\ PipeTypes' /\ Kept'
    BY <1>1, <1>2 DEF IInv, HostTypes, PipeTypes, Kept, Outcomes
  <1>5. ScriptTypes' /\ DeadIsIdle' /\ OwnAnswer' /\ Slots'
    BY <1>1, <1>3 DEF IInv, ScriptTypes, DeadIsIdle, OwnAnswer, Slots
  <1>6. NoneLeft'
    BY DEF IInv, NoneLeft, Running
  <1>7. wrote[1] \in 0..MaxInvocations
    BY DEF IInv, ScriptTypes
  <1>8. \A k \in 1..Len(inp) : inp[k].inv \in Nat
    <2> SUFFICES ASSUME NEW k \in 1..Len(inp)  PROVE inp[k].inv \in Nat
      OBVIOUS
    <2>1. inp[k] \in InFrames
      BY ElementOfSeq DEF IInv, PipeTypes
    <2> QED  BY <2>1 DEF InFrames, Invocations
  <1>9. \A k \in 1..Len(out) : out[k].inv \in Nat
    <2> SUFFICES ASSUME NEW k \in 1..Len(out)  PROVE out[k].inv \in Nat
      OBVIOUS
    <2>1. out[k] \in OutFrames
      BY ElementOfSeq DEF IInv, PipeTypes
    <2> QED  BY <2>1 DEF OutFrames
  <1>10. Current' /\ OwnResult' /\ TimeoutTruth'
    BY <1>1, <1>2, <1>3, <1>7 DEF Current, OwnResult, TimeoutTruth
  <1>11. Running' => Running
    BY DEF Running
  <1>12. ToWorker' /\ Cancellation'
    BY <1>1, <1>2, <1>3, <1>8, <1>11 DEF IInv, ToWorker, Cancellation
  <1>13. ToHost'
    BY <1>1, <1>2, <1>9 DEF ToHost, Mine, Busy
  <1> QED  BY <1>4, <1>5, <1>6, <1>10, <1>12, <1>13 DEF IInv

LEMMA ReuseKeeps ==
  ASSUME IInv, pc = "idle", inv < MaxInvocations, inv' = inv + 1, FreshDeadline,
         UNCHANGED <<mode, held, usable, eof, out, open>>, HostOnly,
         mode = "persistent", Running, usable, count' \in Nat,
         inp' = Append(inp, Invoke(inv')), pc' = "loop", outcome' = "none"
  PROVE  IInv'
  <1>1. /\ UNCHANGED <<active, cancel, script, req, pending, taken, mail, wrote, proc, clean>>
        /\ late' = FALSE /\ asked' = FALSE
    BY DEF FreshDeadline, HostOnly, scriptvars
  <1>2. /\ inv' \in Invocations /\ inv' \in 0..MaxInvocations /\ inv < inv'
        /\ wrote[1] < inv' /\ inv' # 0
        /\ \A k \in 1..Len(inp) : inp[k].inv < inv'
        /\ \A k \in 1..Len(out) : out[k].inv < inv'
    BY NewNumber DEF Invocations
  <1>3. active = 0 /\ ~eof /\ \A k \in 1..Len(inp) : inp[k].kind # "invoke"
    BY DEF IInv, Current, Cancellation, ToWorker
  <1>4. Invoke(inv') \in InFrames /\ Invoke(inv').kind = "invoke" /\ Invoke(inv').inv = inv'
    BY <1>2, FrameTypes DEF Invoke
  <1>5. /\ inp' \in Seq(InFrames)
        /\ \A k \in 1..Len(inp') :
             \/ k \in 1..Len(inp) /\ inp'[k] = inp[k]
             \/ inp'[k] = Invoke(inv') /\ k = Len(inp) + 1
    BY <1>4, AppendAt DEF IInv, PipeTypes
  <1>6. HostTypes' /\ PipeTypes' /\ Kept'
    BY <1>1, <1>2, <1>5 DEF IInv, HostTypes, PipeTypes, Kept, Outcomes
  <1>7. ScriptTypes' /\ DeadIsIdle' /\ OwnAnswer' /\ Slots' /\ NoneLeft'
    <2>1. Slots'
      BY <1>1, <1>4, AppendFirst DEF IInv, Slots, PipeTypes
    <2> QED  BY <1>1, <2>1 DEF IInv, ScriptTypes, DeadIsIdle, OwnAnswer, NoneLeft, Running
  <1>8. wrote[1] \in 0..MaxInvocations
    BY DEF IInv, ScriptTypes
  <1>9. \A k \in 1..Len(inp') : inp'[k].inv \in Nat
    <2> SUFFICES ASSUME NEW k \in 1..Len(inp')  PROVE inp'[k].inv \in Nat
      OBVIOUS
    <2>1. inp'[k] \in InFrames
      BY <1>5, ElementOfSeq
    <2> QED  BY <2>1 DEF InFrames, Invocations
  <1>10. \A k \in 1..Len(out) : out[k].inv \in Nat
    <2> SUFFICES ASSUME NEW k \in 1..Len(out)  PROVE out[k].inv \in Nat
      OBVIOUS
    <2>1. out[k] \in OutFrames
      BY ElementOfSeq DEF IInv, PipeTypes
    <2> QED  BY <2>1 DEF OutFrames
  <1>11. Current' /\ OwnResult' /\ TimeoutTruth'
    BY <1>1, <1>2, <1>3, <1>8 DEF Current, OwnResult, TimeoutTruth
  <1>12. ToWorker'
    <2>1. \A k \in 1..Len(inp') : inp'[k].inv <= inv'
      BY <1>2, <1>4, <1>5, <1>9
    <2>2. \A k \in 1..Len(inp') : inp'[k].kind = "invoke" =>
            inp'[k] = Invoke(inv') /\ k = Len(inp) + 1
      BY <1>3, <1>5
    <2> QED  BY <1>1, <1>2, <1>3, <1>4, <1>8, <2>1, <2>2 DEF ToWorker
  <1>13. Cancellation'
    BY <1>1, <1>2, <1>3, <1>4, <1>5, <1>9 DEF IInv, Cancellation
  <1>14. ToHost'
    BY <1>1, <1>2, <1>10 DEF ToHost, Mine, IInv
  <1> QED  BY <1>6, <1>7, <1>11, <1>12, <1>13, <1>14 DEF IInv

LEMMA BeginKeeps ==
  ASSUME IInv, Begin
  PROVE  IInv'
  <1>1. /\ pc = "idle" /\ inv < MaxInvocations /\ inv' = inv + 1 /\ FreshDeadline
        /\ UNCHANGED <<mode, held>>
    BY DEF Begin
  <1>2. usable \in BOOLEAN /\ count \in Nat /\ clean \in BOOLEAN
    BY DEF IInv, HostTypes, ScriptTypes
  <1>3. CASE /\ usable' = TRUE /\ count' = 1 /\ Spawned("up", TRUE) /\ inp' = <<Invoke(inv')>>
             /\ pc' = "loop" /\ outcome' = "none"
    BY <1>1, <1>3, SpawnKeeps
  <1>4. CASE NotTold
    BY <1>1, <1>4, NotToldKeeps
  <1>5. CASE /\ mode = "persistent" /\ Running /\ usable
             /\ count' = count + 1 /\ inp' = Append(inp, Invoke(inv'))
             /\ pc' = "loop" /\ outcome' = "none"
             /\ UNCHANGED <<usable, eof, out, open>> /\ HostOnly
    BY <1>1, <1>2, <1>5, ReuseKeeps
  <1>6. ASSUME NEW what \in {"unavailable", "limit", "eof", "crash"}, Refused(what),
               usable' \in BOOLEAN, ~usable' => ~Running
        PROVE  IInv'
    BY <1>1, <1>2, <1>6, RefuseKeeps DEF Refused, HostOnly
  <1>7. CASE ~usable /\ Refused("unavailable") /\ UNCHANGED usable
    <2>1. ~Running
      BY <1>1, <1>7 DEF IInv, NoneLeft, Refused
    <2> QED  BY <1>2, <1>6, <1>7, <2>1
  <1>8. CASE usable /\ Refused("limit") /\ UNCHANGED usable
    BY <1>2, <1>6, <1>8
  <1>9. CASE proc = "gone" /\ Refused(IF clean THEN "eof" ELSE "crash") /\ usable' = FALSE
    BY <1>2, <1>6, <1>9 DEF Running
  <1> QED  BY <1>3, <1>4, <1>5, <1>7, <1>8, <1>9 DEF Begin

-----------------------------------------------------------------------------
(* The host goes on and ends an invocation.                                *)

\* The worker is killed with what it ran, and both pipes are forgotten.
LEMMA AbandonKeeps ==
  ASSUME IInv, NEW what \in {"transport", "hard_timeout", "protocol"}, Abandon(what),
         what = "hard_timeout" => late
  PROVE  IInv'
  <1>1. /\ outcome' = what /\ pc' = "idle" /\ held' = Eof /\ usable' = FALSE /\ Killed
        /\ UNCHANGED <<mode, inv, late, asked, count>>
    BY DEF Abandon, Return
  <1>2. /\ inv' \in 0..MaxInvocations /\ inv <= inv' /\ count' \in Nat /\ late' \in BOOLEAN
        /\ asked' \in BOOLEAN /\ (asked' => late') /\ held' \in OutFrames
    BY <1>1, FrameTypes DEF IInv, HostTypes, Cancellation
  <1> QED  BY <1>1, <1>2, KilledIsEmpty, EmptyKeeps

\* A frame other than an invocation is sent.
LEMMA SendKeeps ==
  ASSUME IInv, pc \in {"loop", "broker"}, pc' \in {"loop", "grace"},
         mode = "persistent" => pc' = "loop",
         UNCHANGED <<mode, inv, late, usable, count, held, outcome, eof, out, open>>, HostOnly,
         NEW f \in InFrames, f.kind # "invoke", f.inv = inv,
         inp' \in {inp, Append(inp, f)},
         asked' \in BOOLEAN, asked => asked', asked' => late, f.kind = "cancel" => asked'
  PROVE  IInv'
  <1>1. UNCHANGED <<active, cancel, script, req, pending, taken, mail, wrote, proc, clean>>
    BY DEF HostOnly, scriptvars
  <1>2. /\ inp' \in Seq(InFrames)
        /\ \A k \in 1..Len(inp') : (k \in 1..Len(inp) /\ inp'[k] = inp[k]) \/ inp'[k] = f
    <2>1. CASE inp' = inp
      BY <2>1 DEF IInv, PipeTypes
    <2>2. CASE inp' = Append(inp, f)
      BY <2>2, AppendAt DEF IInv, PipeTypes
    <2> QED  BY <2>1, <2>2
  <1>3. HostTypes' /\ PipeTypes' /\ Kept'
    BY <1>2 DEF IInv, HostTypes, PipeTypes, Kept
  <1>4. ScriptTypes' /\ DeadIsIdle' /\ OwnAnswer' /\ Slots' /\ NoneLeft'
    <2>1. 1 \in 1..Len(inp) => 1 \in 1..Len(inp') /\ inp'[1] = inp[1]
      BY AppendFirst DEF IInv, PipeTypes
    <2> QED  BY <1>1, <2>1 DEF IInv, ScriptTypes, DeadIsIdle, OwnAnswer, Slots, NoneLeft, Running
  <1>5. Current' /\ OwnResult' /\ TimeoutTruth'
    BY <1>1 DEF IInv, Current, OwnResult, TimeoutTruth, Running, Busy
  <1>6. inv \in Nat
    BY DEF IInv, HostTypes
  <1>7. ToWorker'
    <2>1. \A k \in 1..Len(inp') : inp'[k].inv <= inv
      BY <1>2, <1>6 DEF IInv, ToWorker
    <2>2. \A k \in 1..Len(inp') :
            inp'[k].kind = "invoke" => k \in 1..Len(inp) /\ inp[k].kind = "invoke" /\ inp'[k] = inp[k]
      BY <1>2
    <2> QED  BY <1>1, <2>1, <2>2 DEF IInv, ToWorker, Running
  <1>8. Cancellation'
    BY <1>1, <1>2 DEF IInv, Cancellation, Running, Busy
  <1>9. ToHost'
    BY <1>1 DEF IInv, ToHost, Mine, Busy
  <1> QED  BY <1>3, <1>4, <1>5, <1>7, <1>8, <1>9 DEF IInv

\* A step of the host that leaves the pipe to the worker and the worker alone.
HostMoves ==
  /\ UNCHANGED <<mode, inv, asked, inp, scriptvars, proc, clean>>
  /\ HostTypes' /\ PipeTypes' /\ Kept'
  /\ late => late'
  /\ eof => eof'
  /\ pc' \in Busy => pc \in Busy /\ ~eof'
  /\ pc' = "reaping" => inv # 0
  /\ Shrunk(out', out)

LEMMA MovesKeep ==
  ASSUME IInv, HostMoves, OwnResult', TimeoutTruth',
         pc' = "idle" =>
           \/ ~Running
           \/ pc = "loop" /\ usable' /\ mode = "persistent" /\ wrote[1] = inv /\ ~eof'
           \/ mode = "oneshot" /\ outcome' = "transport" /\ eof',
         pc' = "reaping" /\ held'.id = "invoke" /\ held'.code \in Codes =>
             wrote = <<inv, held'.code>> /\ (held'.code = "cancelled" => late')
  PROVE  IInv'
  <1>1. UNCHANGED <<mode, inv, asked, inp, active, cancel, script, req, pending, taken, mail, wrote, proc, clean>>
    BY DEF HostMoves, scriptvars
  <1>2. (Running' <=> Running) /\ (~Running => active = 0)
    BY <1>1 DEF Running, IInv, DeadIsIdle
  <1>3. ScriptTypes' /\ DeadIsIdle' /\ OwnAnswer' /\ Slots' /\ NoneLeft'
    BY <1>1, <1>2 DEF IInv, ScriptTypes, DeadIsIdle, OwnAnswer, Slots, NoneLeft
  <1>4. Current'
    BY <1>1, <1>2 DEF IInv, Current, HostMoves, Busy
  <1>5. ToWorker'
    BY <1>1, <1>2 DEF IInv, ToWorker
  <1>6. Cancellation'
    BY <1>1, <1>2 DEF IInv, Cancellation, HostMoves
  <1>7. PICK d \in {0, 1} :
          \A k \in 1..Len(out') : k + d \in 1..Len(out) /\ out'[k] = out[k + d]
    BY DEF HostMoves, Shrunk
  <1>8. ToHost'
    <2> SUFFICES ASSUME NEW k \in 1..Len(out')
                 PROVE  /\ out'[k].inv <= inv
                        /\ Mine(out[k])' =>
                             /\ out'[k].code \in Codes /\ wrote = <<inv, out'[k].code>>
                             /\ out'[k].code = "cancelled" => asked \/ eof'
      BY <1>1 DEF ToHost
    <2>1. k + d \in 1..Len(out) /\ out'[k] = out[k + d]
      BY <1>7
    <2>2. Mine(out[k])' => Mine(out[k + d])
      BY <1>1, <2>1 DEF Mine, HostMoves
    <2> QED  BY <2>1, <2>2 DEF IInv, ToHost, HostMoves
  <1> QED  BY <1>3, <1>4, <1>5, <1>6, <1>8 DEF IInv, HostMoves

LEMMA QuietHostKeeps ==
  ASSUME IInv, DeadlinePasses \/ ReaderStops \/ HostDies \/ Shutdown \/ ShutDown
  PROVE  IInv'
  <1>1. UNCHANGED <<mode, inv, asked, inp, out, scriptvars, proc, clean, held, outcome, count>>
    BY DEF DeadlinePasses, ReaderStops, HostDies, Shutdown, ShutDown, HostOnly, hostvars, pipevars
  <1>2. Shrunk(out', out)
    BY <1>1, ShrunkBy DEF IInv, PipeTypes
  <1>3. HostTypes' /\ PipeTypes' /\ Kept'
    BY <1>1 DEF DeadlinePasses, ReaderStops, HostDies, Shutdown, ShutDown, hostvars, pipevars,
                IInv, HostTypes, PipeTypes, Kept
  <1>4. late => late'
    BY DEF DeadlinePasses, ReaderStops, HostDies, Shutdown, ShutDown, hostvars
  <1>5. eof => eof'
    BY DEF DeadlinePasses, ReaderStops, HostDies, Shutdown, ShutDown, pipevars
  <1>6. /\ pc' \in Busy => pc \in Busy /\ ~eof'
        /\ pc' = "reaping" => pc = "reaping"
        /\ pc' = "idle" => ~Running \/ (mode = "oneshot" /\ outcome' = "transport" /\ eof')
    BY DEF DeadlinePasses, ReaderStops, HostDies, Shutdown, ShutDown, hostvars, pipevars, IInv,
           Cancellation, Busy, NoneLeft, Running
  <1>7. HostMoves
    BY <1>1, <1>2, <1>3, <1>4, <1>5, <1>6 DEF HostMoves, IInv, Current
  <1>8. OwnResult' /\ TimeoutTruth'
    BY <1>1, <1>4 DEF IInv, OwnResult, TimeoutTruth, scriptvars
  <1>9. pc' = "reaping" /\ held'.id = "invoke" /\ held'.code \in Codes =>
          wrote = <<inv, held'.code>> /\ (held'.code = "cancelled" => late')
    BY <1>1, <1>4, <1>6 DEF IInv, ToHost
  <1> QED  BY <1>6, <1>7, <1>8, <1>9, MovesKeep

\* One shot: the frame that is kept is what the script ended with.
LEMMA ReapKeeps ==
  ASSUME IInv, mode = "oneshot", pc \in {"loop", "grace"}, NEW frame \in OutFrames, Reap(frame),
         frame.id = "invoke" => (out # <<>> /\ frame = Head(out)),
         out' \in Seq(OutFrames), Shrunk(out', out), open' \in BOOLEAN
  PROVE  IInv'
  <1>1. /\ pc' = "reaping" /\ held' = frame /\ eof' = TRUE
        /\ UNCHANGED <<mode, inv, late, asked, usable, count, outcome, inp, scriptvars, proc, clean>>
    BY DEF Reap, HostOnly
  <1>2. ~eof /\ inv # 0
    BY DEF IInv, Cancellation, Current, Busy
  <1>3. HostMoves
    BY <1>1, <1>2 DEF HostMoves, IInv, HostTypes, PipeTypes, Kept, Busy
  <1>4. frame.id = "invoke" =>
          wrote = <<inv, frame.code>> /\ (frame.code = "cancelled" => late)
    <2> SUFFICES ASSUME frame.id = "invoke"
                 PROVE  wrote = <<inv, frame.code>> /\ (frame.code = "cancelled" => late)
      OBVIOUS
    <2>1. 1 \in 1..Len(out) /\ frame = out[1]
      BY TailAt DEF IInv, PipeTypes
    <2>2. Mine(out[1])
      BY <2>1 DEF Mine, Busy
    <2> QED  BY <1>2, <2>1, <2>2 DEF IInv, ToHost, Cancellation
  <1>5. OwnResult' /\ TimeoutTruth'
    BY <1>1 DEF IInv, OwnResult, TimeoutTruth, scriptvars
  <1> QED  BY <1>1, <1>3, <1>4, <1>5, MovesKeep

LEMMA ReceivesKeeps ==
  ASSUME IInv, HostReceives
  PROVE  IInv'
  <1> DEFINE f == Head(out)
             mine == f.inv = inv /\ f.req <= Budget
             Rest == out' = Tail(out) /\ UNCHANGED open
  <1>1. /\ out # <<>> /\ f \in OutFrames /\ 1 \in 1..Len(out) /\ f = out[1]
        /\ Tail(out) \in Seq(OutFrames) /\ Shrunk(Tail(out), out)
        /\ Violation \in OutFrames /\ Violation.id # "invoke"
    BY TailAt, ShrunkBy, FrameTypes DEF HostReceives, IInv, PipeTypes, Violation, Eof
  <1>2. CASE /\ pc = "loop" /\ pc' = "broker" /\ held' = f /\ Rest
             /\ UNCHANGED <<mode, inv, late, asked, usable, count, outcome, inp, eof>> /\ HostOnly
    <2>1. ~eof
      BY <1>2 DEF IInv, Cancellation, Busy
    <2>2. HostMoves
      BY <1>1, <1>2, <2>1 DEF HostMoves, HostOnly, IInv, HostTypes, PipeTypes, Kept, Busy
    <2>3. OwnResult' /\ TimeoutTruth'
      BY <1>2 DEF IInv, OwnResult, TimeoutTruth, HostOnly, scriptvars
    <2> QED  BY <1>2, <2>2, <2>3, MovesKeep
  <1>3. CASE /\ mode = "oneshot" /\ pc \in {"grace", "loop"}
             /\ Reap(IF pc = "loop" /\ f.kind = "request" THEN Violation ELSE f) /\ Rest
    <2> DEFINE frame == IF pc = "loop" /\ f.kind = "request" THEN Violation ELSE f
    <2>1. frame \in OutFrames /\ (frame.id = "invoke" => frame = Head(out))
      BY <1>1
    <2>2. out' \in Seq(OutFrames) /\ Shrunk(out', out) /\ open' \in BOOLEAN
      BY <1>1, <1>3 DEF IInv, PipeTypes
    <2>3. Reap(frame)
      BY <1>3
    <2> HIDE DEF frame
    <2> QED  BY <1>1, <1>3, <2>1, <2>2, <2>3, ReapKeeps
  <1>4. CASE /\ mode = "persistent" /\ pc = "loop" /\ OwnFrame(f)
             /\ Return(Verdict(f.code)) /\ Rest /\ UNCHANGED <<usable, inp, eof>> /\ HostOnly
    <2>1. /\ pc' = "idle" /\ held' = Eof /\ outcome' = Verdict(f.code)
          /\ UNCHANGED <<mode, inv, late, asked, count, usable, inp, eof, open, scriptvars, proc, clean>>
          /\ out' = Tail(out)
      BY <1>4 DEF Return, HostOnly
    <2>2. f.code \in Codes /\ wrote = <<inv, f.code>> /\ (f.code = "cancelled" => asked \/ eof)
      BY <1>1, <1>4 DEF IInv, ToHost, Mine, OwnFrame
    <2>3. ~eof /\ usable /\ (asked => late) /\ wrote[1] = inv
      BY <1>4, <2>2 DEF IInv, Cancellation, Kept, Busy
    <2>4. outcome' = IF f.code = "cancelled" THEN "wall_time" ELSE "value"
      BY <2>1, <2>2, <2>3 DEF Verdict, Codes
    <2>5. OwnResult' /\ TimeoutTruth'
      BY <2>1, <2>2, <2>3, <2>4 DEF OwnResult, TimeoutTruth, Codes, scriptvars
    <2>6. HostMoves
      BY <1>1, <2>1, <2>4, FrameTypes
         DEF HostMoves, IInv, HostTypes, PipeTypes, Kept, Busy, Outcomes
    <2> QED  BY <1>4, <2>1, <2>3, <2>5, <2>6, MovesKeep
  <1>5. CASE Abandon("protocol")
    BY <1>5, AbandonKeeps
  <1> QED  BY <1>2, <1>3, <1>4, <1>5 DEF HostReceives

\* The worker is gone, and nothing it wrote is left.
LEMMA GoneKeeps ==
  ASSUME IInv, proc = "gone", NEW what \in Outcomes, Return(what), HostOnly,
         usable' \in BOOLEAN, eof => eof', UNCHANGED eof,
         inp' \in {inp, <<>>}, out' \in {out, <<>>}, open' \in BOOLEAN,
         what = "value" => wrote = <<inv, "value">>,
         what \in {"wall_time", "cancelled"} => wrote = <<inv, "cancelled">> /\ late,
         what # "hard_timeout"
  PROVE  IInv'
  <1>1. /\ outcome' = what /\ pc' = "idle" /\ held' = Eof
        /\ UNCHANGED <<mode, inv, late, asked, count, eof, active, cancel, script, req, pending, taken, mail,
                       wrote, proc, clean>>
    BY DEF Return, HostOnly, scriptvars
  <1>2. active = 0 /\ ~Running /\ ~Running'
    BY <1>1 DEF IInv, DeadIsIdle, Running
  <1>3. /\ inp' \in Seq(InFrames) /\ out' \in Seq(OutFrames) /\ Eof \in OutFrames
        /\ \A k \in 1..Len(inp') : k \in 1..Len(inp) /\ inp'[k] = inp[k]
        /\ \A k \in 1..Len(out') : k \in 1..Len(out) /\ out'[k] = out[k]
    <2>1. inp \in Seq(InFrames) /\ out \in Seq(OutFrames) /\ Eof \in OutFrames
      BY FrameTypes DEF IInv, PipeTypes
    <2>2. inp' \in Seq(InFrames) /\ \A k \in 1..Len(inp') : k \in 1..Len(inp) /\ inp'[k] = inp[k]
      <3>1. CASE inp' = inp
        BY <2>1, <3>1
      <3>2. CASE inp' = <<>>
        BY <3>2
      <3> QED  BY <3>1, <3>2
    <2>3. out' \in Seq(OutFrames) /\ \A k \in 1..Len(out') : k \in 1..Len(out) /\ out'[k] = out[k]
      <3>1. CASE out' = out
        BY <2>1, <3>1
      <3>2. CASE out' = <<>>
        BY <3>2
      <3> QED  BY <3>1, <3>2
    <2> QED  BY <2>1, <2>2, <2>3
  <1>4. HostTypes' /\ PipeTypes' /\ Kept'
    BY <1>1, <1>3 DEF IInv, HostTypes, PipeTypes, Kept
  <1>5. ScriptTypes' /\ DeadIsIdle' /\ OwnAnswer' /\ Slots' /\ NoneLeft'
    BY <1>1, <1>2 DEF IInv, ScriptTypes, DeadIsIdle, OwnAnswer, Slots, NoneLeft
  <1>6. Current' /\ OwnResult' /\ TimeoutTruth'
    BY <1>1, <1>2 DEF IInv, Current, OwnResult, TimeoutTruth, Busy
  <1>7. ToWorker' /\ Cancellation'
    BY <1>1, <1>2, <1>3 DEF IInv, ToWorker, Cancellation, Busy
  <1>8. ToHost'
    BY <1>1, <1>3 DEF IInv, ToHost, Mine, Busy
  <1> QED  BY <1>4, <1>5, <1>6, <1>7, <1>8 DEF IInv

LEMMA SeesEofKeeps ==
  ASSUME IInv, HostSeesEof
  PROVE  IInv'
  <1>1. pc \in {"loop", "grace"} /\ out = <<>> /\ proc = "gone"
    BY DEF HostSeesEof
  <1>2. CASE mode = "oneshot"
    <2>1. Reap(Eof) /\ open' = FALSE /\ out' = out
      BY <1>2 DEF HostSeesEof
    <2>2. Eof \in OutFrames /\ Eof.id # "invoke" /\ out' \in Seq(OutFrames) /\ Shrunk(out', out)
      BY <2>1, FrameTypes, ShrunkBy DEF Eof, IInv, PipeTypes
    <2> QED  BY <1>1, <1>2, <2>1, <2>2, ReapKeeps
  <1>3. CASE mode = "persistent"
    <2>1. /\ Return(IF clean THEN "eof" ELSE "crash") /\ usable' = FALSE /\ HostOnly
          /\ UNCHANGED <<inp, eof, out, open>> /\ open' \in BOOLEAN
      BY <1>3 DEF HostSeesEof, pipevars, IInv, PipeTypes
    <2> QED  BY <1>1, <2>1, GoneKeeps DEF Outcomes
  <1> QED  BY <1>2, <1>3 DEF IInv, HostTypes

LEMMA ReapedKeeps ==
  ASSUME IInv, Reaped
  PROVE  IInv'
  <1> DEFINE what == IF held.kind = "eof" THEN IF clean THEN "transport" ELSE "crash"
                     ELSE IF held.kind = "violation" THEN IF clean THEN "protocol" ELSE "crash"
                     ELSE IF held.id # "invoke" THEN "protocol"
                     ELSE IF ~clean THEN "crash" ELSE Verdict(held.code)
  <1>1. /\ pc = "reaping" /\ proc = "gone" /\ Return(what) /\ HostOnly
        /\ open' = FALSE /\ out' = <<>> /\ inp' = <<>> /\ UNCHANGED <<usable, eof>>
    BY DEF Reaped
  <1>2. held.code \in {"none", "value", "cancelled", "protocol"} /\ usable \in BOOLEAN
    BY DEF IInv, HostTypes, OutFrames
  <1>3. \/ what \in {"transport", "crash", "protocol"}
        \/ what = Verdict(held.code) /\ held.id = "invoke"
    OBVIOUS
  <1>4. held.id = "invoke" /\ held.code \in Codes =>
          wrote = <<inv, held.code>> /\ (held.code = "cancelled" => late)
    BY <1>1 DEF IInv, ToHost
  <1>5. /\ Verdict(held.code) \in {"none", "value", "cancelled", "wall_time", "protocol"}
        /\ Verdict(held.code) = "value" => held.code = "value"
        /\ Verdict(held.code) \in {"cancelled", "wall_time"} => held.code = "cancelled"
    BY <1>2 DEF Verdict
  <1> HIDE DEF what
  <1>6. /\ what \in Outcomes /\ what # "hard_timeout"
        /\ what = "value" => wrote = <<inv, "value">>
        /\ what \in {"wall_time", "cancelled"} => wrote = <<inv, "cancelled">> /\ late
    BY <1>3, <1>4, <1>5 DEF Outcomes, Codes
  <1> QED  BY <1>1, <1>2, <1>6, GoneKeeps

LEMMA CancelKeeps ==
  ASSUME IInv, SendCancel \/ GraceOver
  PROVE  IInv'
  <1>1. CASE GraceOver
    BY <1>1, AbandonKeeps DEF GraceOver, IInv, Cancellation
  <1>2. CASE SendCancel /\ Abandon("transport")
    BY <1>2, AbandonKeeps
  <1>3. CASE /\ pc = "loop" /\ late /\ asked' = TRUE
             /\ pc' = IF mode = "oneshot" THEN "grace" ELSE "loop"
             /\ inp' = IF Writable THEN Append(inp, Cancel(inv)) ELSE inp
             /\ UNCHANGED <<mode, inv, late, usable, count, held, outcome, eof, out, open>>
             /\ HostOnly
    <2>1. inv \in Invocations
      BY <1>3 DEF IInv, Current, HostTypes, Invocations, Busy
    <2>2. Cancel(inv) \in InFrames /\ Cancel(inv).kind = "cancel" /\ Cancel(inv).inv = inv
      BY <2>1, FrameTypes DEF Cancel
    <2> QED  BY <1>3, <2>2, SendKeeps
  <1> QED  BY <1>1, <1>2, <1>3 DEF SendCancel

LEMMA BrokerKeeps ==
  ASSUME IInv, BrokerDone
  PROVE  IInv'
  <1>1. pc = "broker" /\ inv \in Invocations /\ held.req \in 0..Budget
    BY DEF BrokerDone, IInv, Current, HostTypes, Invocations, Busy, OutFrames
  <1> DEFINE f == Answer(inv, held.req)
  <1>2. f \in InFrames /\ f.kind = "answer" /\ f.inv = inv
    BY <1>1, FrameTypes DEF Answer
  <1>3. asked \in BOOLEAN /\ (asked => late)
    BY DEF IInv, HostTypes, Cancellation
  <1> HIDE DEF f
  <1>4. CASE /\ pc' = "loop"
             /\ UNCHANGED <<mode, inv, late, asked, usable, count, held, outcome, pipevars>> /\ HostOnly
    BY <1>1, <1>2, <1>3, <1>4, SendKeeps DEF pipevars
  <1>5. CASE /\ inp' = Append(inp, Answer(inv, held.req)) /\ pc' = "loop"
             /\ UNCHANGED <<mode, inv, late, asked, usable, count, held, outcome, eof, out, open>>
             /\ HostOnly
    BY <1>1, <1>2, <1>3, <1>5, SendKeeps DEF f
  <1>6. CASE Abandon("transport")
    BY <1>6, AbandonKeeps
  <1>7. CASE mode = "oneshot" /\ LetGo("transport")
    <2>1. /\ outcome' = "transport" /\ pc' = "idle" /\ held' = Eof /\ eof' = TRUE
          /\ UNCHANGED <<mode, inv, late, asked, usable, count, inp, out, open, scriptvars, proc, clean>>
      BY <1>7 DEF LetGo, Return, HostOnly
    <2>2. Shrunk(out', out) /\ Eof \in OutFrames
      BY <2>1, ShrunkBy, FrameTypes DEF IInv, PipeTypes
    <2>3. HostMoves
      BY <2>1, <2>2 DEF HostMoves, IInv, HostTypes, PipeTypes, Kept, Busy, Outcomes
    <2>4. OwnResult' /\ TimeoutTruth'
      BY <2>1 DEF OwnResult, TimeoutTruth
    <2> QED  BY <1>7, <2>1, <2>3, <2>4, MovesKeep
  <1> QED  BY <1>4, <1>5, <1>6, <1>7 DEF BrokerDone

-----------------------------------------------------------------------------
LEMMA Inductive == Spec => []IInv
  <1>1. Init => IInv
    <2> SUFFICES ASSUME Init  PROVE IInv
      OBVIOUS
    <2>1. 0 \in 0..Budget /\ 0 \in 0..MaxInvocations
      BY WorkerAssumption
    <2>2. HostTypes /\ PipeTypes /\ ScriptTypes
      <3>0. held \in OutFrames
        BY FrameTypes DEF Init
      <3>1. PipeTypes
        <4>1. inp = <<>> /\ out = <<>> /\ eof = FALSE /\ open = FALSE
          BY DEF Init
        <4>2. inp \in Seq(InFrames) /\ out \in Seq(OutFrames)
          BY <4>1
        <4> QED  BY <4>1, <4>2 DEF PipeTypes
      <3>4. HostTypes
        BY <2>1, <3>0 DEF Init, HostTypes, Outcomes
      <3>2. wrote \in (0..MaxInvocations) \X {"none", "value", "cancelled"}
        BY <2>1 DEF Init
      <3>3. ScriptTypes
        BY <2>1, <3>2, NoRequestIsPair DEF Init, ScriptTypes
      <3> QED  BY <3>1, <3>3, <3>4
    <2>3. Len(inp) = 0 /\ Len(out) = 0
      BY DEF Init
    <2>4. DeadIsIdle /\ Current /\ ToWorker /\ Cancellation /\ ToHost /\ Kept /\ OwnResult /\ OwnAnswer
            /\ Slots /\ TimeoutTruth /\ NoneLeft
      BY <2>3 DEF Init, DeadIsIdle, Current, ToWorker, Cancellation, ToHost, Kept, OwnResult, OwnAnswer,
             Slots, TimeoutTruth, NoneLeft, Running, Busy
    <2> QED  BY <2>2, <2>4 DEF IInv
  <1>2. IInv /\ [Next]_vars => IInv'
    <2> SUFFICES ASSUME IInv, [Next]_vars  PROVE IInv'
      OBVIOUS
    <2>1. CASE UNCHANGED vars
      BY <2>1 DEF vars, hostvars, scriptvars, pipevars, IInv, HostTypes, PipeTypes, ScriptTypes,
                  DeadIsIdle, Current, ToWorker, Cancellation, ToHost, Mine, Kept, OwnResult,
                  OwnAnswer, Slots, TimeoutTruth, NoneLeft, Running
    <2>2. CASE Joined \/ WorkerCrashes
      <3>1. Shrunk(inp, inp) /\ inp \in Seq(InFrames)
        BY ShrunkBy DEF IInv, PipeTypes
      <3> QED  BY <2>2, <3>1, ExitKeeps DEF Joined, WorkerCrashes, pipevars
    <2>3. CASE ScriptReturns \/ ScriptStops
      BY <2>3, EndsKeeps DEF ScriptReturns, ScriptStops, Codes
    <2> QED
      BY <2>1, <2>2, <2>3, BeginKeeps, QuietHostKeeps, CancelKeeps, ReceivesKeeps, SeesEofKeeps,
         BrokerKeeps, ReapedKeeps, ReadsKeeps, TakeKeeps, PutBackKeeps, OwnerLostKeeps, WaitOverKeeps, AsksKeeps
      DEF Next, HostStep, WorkerStep
  <1> QED  BY <1>1, <1>2, PTL DEF Spec

\* The tables of host and worker: a script runs exactly while an invocation is
\* active, and the reader of script_worker.rs holds a request outside of its slot
\* only in the middle of an answer.
THEOREM TypeCorrect == Spec => []TypeOK
  <1>1. ASSUME IInv, taken # NoRequest  PROVE inp # <<>> /\ Head(inp).kind = "answer"
    <2>1. 1 \in 1..Len(inp) /\ inp[1].kind = "answer" /\ inp \in Seq(InFrames)
      BY <1>1 DEF IInv, Slots, PipeTypes
    <2>2. inp # <<>>
      BY <2>1
    <2> QED  BY <2>1, <2>2, TailAt
  <1>2. IInv => TypeOK
    BY <1>1 DEF IInv, HostTypes, ScriptTypes, Slots, TypeOK
  <1> QED  BY <1>2, Inductive, PTL

\* What the host returns for an invocation is what its own script ended with,
\* and a rejection or a result that belongs to another one is never taken for it.
THEOREM ResultIsOwn == Spec => []OwnResult
  <1>1. IInv => OwnResult
    BY DEF IInv
  <1> QED  BY <1>1, Inductive, PTL

\* The reader thread of the worker hands an answer to the request it is for.
THEOREM AnswerIsOwn == Spec => []OwnAnswer
  <1>1. IInv => OwnAnswer
    BY DEF IInv
  <1> QED  BY <1>1, Inductive, PTL

\* A timeout is reported only when the deadline of that invocation has passed.
THEOREM TimeoutIsTrue == Spec => []TimeoutTruth
  <1>1. IInv => TimeoutTruth
    BY DEF IInv
  <1> QED  BY <1>1, Inductive, PTL

\* When the host is done with a worker it has been reaped or killed, but for one
\* that a one-shot host could not write to: that one has lost its input.
THEOREM NoWorkerLeft == Spec => []NoneLeft
  <1>1. IInv => NoneLeft
    BY DEF IInv
  <1> QED  BY <1>1, Inductive, PTL

=============================================================================
