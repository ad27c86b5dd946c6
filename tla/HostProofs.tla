----------------------------- MODULE HostProofs -----------------------------
(***************************************************************************)
(* The two hosts of the mailbox, for any number of connections and all     *)
(* limits: requests are executed once and in order, what clients are told  *)
(* is true, and both hosts implement the ordered service.  The coalesced   *)
(* wakes of the window's event loop strand no request; the headless loop   *)
(* loses none before it is shut down.                                      *)
(***************************************************************************)
EXTENDS GuiHost, ServerHost, FiniteSetTheorems, SequenceTheorems, TLAPS

-----------------------------------------------------------------------------
(* The connection threads.                                                 *)
ThreadStep(c, up) == accept(c) \/ handle_ipc_connection(c, up)

\* The types, and permits that can be counted.
MailInv == MailboxType /\ IsFiniteSet(Busy)

\* Where a thread is says what it has sent and told so far.
ThreadsInv ==
  \A c \in Connections :
    /\ conn[c] \in {"new", "refused", "reading"} =>
         c \notin Elements(sent) /\ told[c] = "none"
    /\ conn[c] \in {"sent", "won", "waiting"} => told[c] = "none"

-----------------------------------------------------------------------------
\* Appending to a sequence adds one element.
LEMMA ElementsAppend ==
  ASSUME NEW S, NEW s \in Seq(S), NEW x \in S
  PROVE  Elements(Append(s, x)) = Elements(s) \cup {x}
  <1>1. /\ Append(s, x) \in Seq(S) /\ Len(Append(s, x)) = Len(s) + 1 /\ Len(s) \in Nat
        /\ \A i \in 1..Len(s) : Append(s, x)[i] = s[i]
        /\ Append(s, x)[Len(s) + 1] = x
    BY AppendProperties
  <1>2. \A y \in Elements(Append(s, x)) : y \in Elements(s) \cup {x}
    BY <1>1 DEF Elements
  <1>3. \A y \in Elements(s) \cup {x} : y \in Elements(Append(s, x))
    BY <1>1 DEF Elements
  <1> QED  BY <1>2, <1>3

\* Moving the head of one queue to the end of another changes neither the
\* order nor the number of what the two hold.
LEMMA MoveHead ==
  ASSUME NEW S, NEW s \in Seq(S), NEW t \in Seq(S), t # <<>>
  PROVE  /\ Head(t) \in S /\ Tail(t) \in Seq(S) /\ Len(Tail(t)) <= Len(t)
         /\ Append(s, Head(t)) \in Seq(S)
         /\ Append(s, Head(t)) \o Tail(t) = s \o t
  <1>1. /\ Head(t) \in S /\ Tail(t) \in Seq(S) /\ Len(Tail(t)) = Len(t) - 1
        /\ Len(t) \in Nat
    BY HeadTailProperties
  <1>2. Append(s, Head(t)) = s \o <<Head(t)>> /\ <<Head(t)>> \in Seq(S)
    BY <1>1, AppendIsConcat
  <1>3. (s \o <<Head(t)>>) \o Tail(t) = s \o (<<Head(t)>> \o Tail(t))
    BY <1>1, <1>2, ConcatAssociative
  <1>4. <<Head(t)>> \o Tail(t) = t
    BY <1>1
  <1>5. Append(s, Head(t)) \in Seq(S)
    BY <1>1, AppendProperties
  <1> QED  BY <1>1, <1>2, <1>3, <1>4, <1>5

\* Appending to the second queue appends to the two together.
LEMMA AppendRight ==
  ASSUME NEW S, NEW s \in Seq(S), NEW t \in Seq(S), NEW x \in S
  PROVE  s \o Append(t, x) = Append(s \o t, x)
  <1>1. /\ Append(t, x) = t \o <<x>> /\ <<x>> \in Seq(S) /\ s \o t \in Seq(S)
    BY AppendIsConcat, ConcatProperties
  <1>2. Append(s \o t, x) = (s \o t) \o <<x>>
    BY <1>1, AppendIsConcat
  <1> QED  BY <1>1, <1>2, ConcatAssociative

-----------------------------------------------------------------------------
\* A step of a thread that takes no permit keeps the permits within the limit.
LEMMA PermitsShrink ==
  ASSUME MailInv, Busy' \subseteq Busy
  PROVE  IsFiniteSet(Busy') /\ Cardinality(Busy') <= MaxConnections
  <1>1. IsFiniteSet(Busy) /\ Cardinality(Busy) <= MaxConnections
    BY DEF MailInv, MailboxType
  <1>2. IsFiniteSet(Busy') /\ Cardinality(Busy') <= Cardinality(Busy)
    BY <1>1, FS_Subset
  <1>3. Cardinality(Busy') \in Nat /\ Cardinality(Busy) \in Nat /\ MaxConnections \in Nat
    BY <1>1, <1>2, FS_CardinalityType, MailboxAssumption
  <1> QED  BY <1>1, <1>2, <1>3

\* accept hands out a permit only below the limit.
LEMMA PermitsAccept ==
  ASSUME MailInv, NEW c \in Connections, accept(c)
  PROVE  IsFiniteSet(Busy') /\ Cardinality(Busy') <= MaxConnections
  <1>0. conn \in [Connections -> States] /\ conn[c] = "new"
    BY DEF MailInv, MailboxType, accept
  <1>1. CASE Cardinality(Busy) < MaxConnections
    <2>1. conn' = [conn EXCEPT ![c] = "reading"]
      BY <1>1 DEF accept
    <2>2. Busy' = Busy \cup {c} /\ c \notin Busy
      BY <1>0, <2>1 DEF Busy
    <2>3. IsFiniteSet(Busy) /\ Cardinality(Busy) \in Nat
      BY FS_CardinalityType DEF MailInv
    <2>4. IsFiniteSet(Busy \cup {c}) /\ Cardinality(Busy \cup {c}) = Cardinality(Busy) + 1
      BY <2>2, <2>3, FS_AddElement
    <2> QED  BY <1>1, <2>2, <2>3, <2>4, MailboxAssumption
  <1>2. CASE ~(Cardinality(Busy) < MaxConnections)
    <2>1. conn' = [conn EXCEPT ![c] = "refused"]
      BY <1>2 DEF accept
    <2>2. Busy' \subseteq Busy
      BY <1>0, <2>1 DEF Busy
    <2> QED  BY <2>2, PermitsShrink
  <1> QED  BY <1>1, <1>2

\* Every thread step preserves the types and limits.
LEMMA ThreadMail ==
  ASSUME MailInv, NEW c \in Connections, NEW up, ThreadStep(c, up)
  PROVE  MailInv'
  <1> DEFINE Typed == /\ conn \in [Connections -> States]
                      /\ told \in [Connections -> Answers]
                      /\ mailbox \in Seq(Connections) /\ Len(mailbox) <= MaxPending
                      /\ pending \in BOOLEAN /\ posted \in BOOLEAN /\ installed \in BOOLEAN
                      /\ sent \in Seq(Connections) /\ done \in Seq(Connections)
  <1>0. Typed
    BY DEF MailInv, MailboxType
  <1>1. CASE accept(c)
    <2>1. Typed'
      BY <1>0, <1>1 DEF accept, States
    <2> QED  BY <1>1, <2>1, PermitsAccept DEF MailInv, MailboxType
  <1>2. CASE reject(c) \/ try_send_fails(c, up) \/ receive(c) \/ timeout(c)
    <2>1. /\ conn[c] \in {"reading", "waiting"}
          /\ conn' = [conn EXCEPT ![c] = "writing"]
          /\ \E a \in Answers : told' = [told EXCEPT ![c] = a]
          /\ UNCHANGED <<mailbox, pending, posted, installed, sent, done>>
      BY <1>2 DEF reject, try_send_fails, receive, timeout, Tell, Answers
    <2>2. Typed'
      BY <1>0, <2>1 DEF States
    <2>3. Busy' \subseteq Busy
      BY <1>0, <2>1 DEF Busy
    <2> QED  BY <2>2, <2>3, PermitsShrink DEF MailInv, MailboxType
  <1>3. CASE try_send(c, up)
    <2>1. Append(mailbox, c) \in Seq(Connections) /\ Append(sent, c) \in Seq(Connections)
          /\ Len(Append(mailbox, c)) = Len(mailbox) + 1 /\ Len(mailbox) \in Nat
      BY <1>0, AppendProperties
    <2>2. Typed'
      BY <1>0, <1>3, <2>1, MailboxAssumption DEF try_send, States
    <2>3. Busy' \subseteq Busy
      BY <1>0, <1>3 DEF Busy, try_send
    <2> QED  BY <2>2, <2>3, PermitsShrink DEF MailInv, MailboxType
  <1>4. CASE request(c)
    <2>1. Typed'
      BY <1>0, <1>4 DEF request, States
    <2>2. Busy' \subseteq Busy
      BY <1>0, <1>4 DEF Busy, request
    <2> QED  BY <2>1, <2>2, PermitsShrink DEF MailInv, MailboxType
  <1>5. CASE wake(c)
    <2>1. Typed'
      BY <1>0, <1>5 DEF wake, States
    <2>2. Busy' \subseteq Busy
      BY <1>0, <1>5 DEF Busy, wake
    <2> QED  BY <2>1, <2>2, PermitsShrink DEF MailInv, MailboxType
  <1>6. CASE close(c)
    <2>1. Typed'
      BY <1>0, <1>6 DEF close, States
    <2>2. Busy' \subseteq Busy
      BY <1>0, <1>6 DEF Busy, close
    <2> QED  BY <2>1, <2>2, PermitsShrink DEF MailInv, MailboxType
  <1> QED  BY <1>1, <1>2, <1>3, <1>4, <1>5, <1>6 DEF ThreadStep, handle_ipc_connection

-----------------------------------------------------------------------------
\* Every thread step keeps the answers true.
LEMMA ThreadAnswers ==
  ASSUME MailInv, AnswersAreTrue, ThreadsInv,
         NEW c \in Connections, NEW up, ThreadStep(c, up)
  PROVE  AnswersAreTrue' /\ ThreadsInv'
  <1>0. /\ conn \in [Connections -> States] /\ told \in [Connections -> Answers]
        /\ sent \in Seq(Connections)
    BY DEF MailInv, MailboxType
  <1>1. CASE accept(c)
    <2>1. /\ conn[c] = "new" /\ UNCHANGED <<told, sent, done>>
          /\ \E s \in {"reading", "refused"} : conn' = [conn EXCEPT ![c] = s]
      BY <1>1 DEF accept
    <2> QED  BY <1>0, <2>1 DEF AnswersAreTrue, ThreadsInv, Elements
  <1>2. CASE reject(c) \/ try_send_fails(c, up)
    <2>1. /\ conn[c] = "reading" /\ UNCHANGED <<sent, done>>
          /\ conn' = [conn EXCEPT ![c] = "writing"]
          /\ \E a \in {"invalid", "unavailable"} : told' = [told EXCEPT ![c] = a]
      BY <1>2 DEF reject, try_send_fails, Tell
    <2> QED  BY <1>0, <2>1 DEF AnswersAreTrue, ThreadsInv, Elements
  <1>3. CASE receive(c) \/ timeout(c)
    <2>1. /\ conn[c] = "waiting" /\ UNCHANGED <<sent, done>>
          /\ conn' = [conn EXCEPT ![c] = "writing"]
          /\ \/ told' = [told EXCEPT ![c] = "timeout"]
             \/ c \in Elements(done) /\ told' = [told EXCEPT ![c] = "response"]
      BY <1>3 DEF receive, timeout, Tell
    <2> QED  BY <1>0, <2>1 DEF AnswersAreTrue, ThreadsInv, Elements
  <1>4. CASE try_send(c, up)
    <2>1. Elements(Append(sent, c)) = Elements(sent) \cup {c}
      BY <1>0, ElementsAppend
    <2>2. /\ conn[c] = "reading" /\ UNCHANGED <<told, done>>
          /\ conn' = [conn EXCEPT ![c] = "sent"]
          /\ sent' = Append(sent, c)
      BY <1>4 DEF try_send
    <2>3. Elements(sent)' = Elements(sent) \cup {c} /\ Elements(done)' = Elements(done)
      BY <2>1, <2>2 DEF Elements
    <2>4. told[c] = "none"
      BY <2>2 DEF ThreadsInv
    <2> QED  BY <1>0, <2>2, <2>3, <2>4 DEF AnswersAreTrue, ThreadsInv
  <1>5. CASE request(c) \/ wake(c)
    <2>1. /\ conn[c] \in {"sent", "won"} /\ UNCHANGED <<told, sent, done>>
          /\ \E s \in {"won", "waiting"} : conn' = [conn EXCEPT ![c] = s]
      BY <1>5 DEF request, wake
    <2> QED  BY <1>0, <2>1 DEF AnswersAreTrue, ThreadsInv, Elements
  <1>6. CASE close(c)
    <2>1. /\ conn[c] = "writing" /\ UNCHANGED <<told, sent, done>>
          /\ conn' = [conn EXCEPT ![c] = "closed"]
      BY <1>6 DEF close
    <2> QED  BY <1>0, <2>1 DEF AnswersAreTrue, ThreadsInv, Elements
  <1> QED  BY <1>1, <1>2, <1>3, <1>4, <1>5, <1>6 DEF ThreadStep, handle_ipc_connection

\* A host that only executes more requests keeps the answers true.
LEMMA HostAnswers ==
  ASSUME AnswersAreTrue, ThreadsInv, UNCHANGED <<conn, told, sent>>,
         Elements(done) \subseteq Elements(done')
  PROVE  AnswersAreTrue' /\ ThreadsInv'
  <1>1. Elements(done)' = Elements(done') /\ Elements(sent)' = Elements(sent)
    BY DEF Elements
  <1> QED  BY <1>1 DEF AnswersAreTrue, ThreadsInv

\* What a thread does to the queues: nothing, or one more envelope at the end
\* of both the mailbox and the record of what was sent.
LEMMA ThreadQueues ==
  ASSUME NEW c \in Connections, NEW up, ThreadStep(c, up)
  PROVE  /\ UNCHANGED <<installed, done>>
         /\ \/ UNCHANGED <<mailbox, sent>>
            \/ mailbox' = Append(mailbox, c) /\ sent' = Append(sent, c)
  BY DEF ThreadStep, handle_ipc_connection, accept, reject, try_send_fails, try_send,
         request, wake, receive, timeout, close, Tell

\* What a thread's step is to the client and to the queues: nothing, a refusal,
\* a request taken on, or a verdict on one that was.
LEMMA ThreadVerdict ==
  ASSUME AnswersAreTrue, ThreadsInv, NEW c \in Connections, NEW up, ThreadStep(c, up)
  PROVE  \/ UNCHANGED <<told, mailbox, done>>
         \/ /\ told[c] = "none"
            /\ UNCHANGED <<mailbox, done>>
            /\ \/ /\ c \notin Elements(sent)
                  /\ \E v \in {"invalid", "unavailable"} : told' = [told EXCEPT ![c] = v]
               \/ c \in Elements(done) /\ told' = [told EXCEPT ![c] = "response"]
               \/ /\ c \notin Elements(done) /\ c \in Elements(sent)
                  /\ told' = [told EXCEPT ![c] = "timeout"]
         \/ /\ up /\ told[c] = "none" /\ c \notin Elements(sent)
            /\ mailbox' = Append(mailbox, c)
            /\ UNCHANGED <<told, done>>
  <1>1. CASE accept(c) \/ request(c) \/ wake(c) \/ close(c)
    BY <1>1 DEF accept, request, wake, close
  <1>2. CASE reject(c) \/ try_send_fails(c, up) \/ try_send(c, up)
    BY <1>2 DEF ThreadsInv, reject, try_send_fails, try_send, Tell
  <1>3. CASE receive(c) \/ timeout(c)
    BY <1>3 DEF ThreadsInv, AnswersAreTrue, receive, timeout, Tell
  <1> QED  BY <1>1, <1>2, <1>3 DEF ThreadStep, handle_ipc_connection

\* The members of two sequences put together.
LEMMA ElementsConcat ==
  ASSUME NEW S, NEW s \in Seq(S), NEW t \in Seq(S)
  PROVE  Elements(s \o t) = Elements(s) \cup Elements(t)
  <1>1. /\ s \o t \in Seq(S) /\ Len(s \o t) = Len(s) + Len(t)
        /\ Len(s) \in Nat /\ Len(t) \in Nat
        /\ \A i \in 1..Len(s) + Len(t) :
             (s \o t)[i] = IF i <= Len(s) THEN s[i] ELSE t[i - Len(s)]
    BY ConcatProperties, LenProperties
  <1>2. ASSUME NEW x \in Elements(s \o t) PROVE x \in Elements(s) \cup Elements(t)
    <2>1. PICK i \in 1..Len(s) + Len(t) : x = (s \o t)[i]
      BY <1>1 DEF Elements
    <2>2. CASE i <= Len(s)
      BY <1>1, <2>1, <2>2 DEF Elements
    <2>3. CASE ~(i <= Len(s))
      <3>1. i - Len(s) \in 1..Len(t) /\ x = t[i - Len(s)]
        BY <1>1, <2>1, <2>3
      <3> QED  BY <3>1 DEF Elements
    <2> QED  BY <2>2, <2>3
  <1>3. ASSUME NEW x \in Elements(s) PROVE x \in Elements(s \o t)
    <2>1. PICK i \in 1..Len(s) : x = s[i]
      BY DEF Elements
    <2>2. i \in 1..Len(s) + Len(t) /\ x = (s \o t)[i]
      BY <1>1, <2>1
    <2> QED  BY <1>1, <2>2 DEF Elements
  <1>4. ASSUME NEW x \in Elements(t) PROVE x \in Elements(s \o t)
    <2>1. PICK i \in 1..Len(t) : x = t[i]
      BY DEF Elements
    <2>2. /\ i + Len(s) \in 1..Len(s) + Len(t) /\ ~(i + Len(s) <= Len(s))
          /\ (i + Len(s)) - Len(s) = i
      BY <1>1, <2>1
    <2>3. x = (s \o t)[i + Len(s)]
      BY <1>1, <2>1, <2>2
    <2> QED  BY <1>1, <2>2, <2>3 DEF Elements
  <1> QED  BY <1>2, <1>3, <1>4

\* Nothing has happened yet.
LEMMA MailboxStart ==
  ASSUME MailboxInit
  PROVE  MailInv /\ AnswersAreTrue /\ ThreadsInv
  <1>1. Busy = {} /\ IsFiniteSet(Busy) /\ Cardinality(Busy) = 0
    BY FS_EmptySet DEF MailboxInit, Busy
  <1>2. Elements(sent) = {} /\ Elements(done) = {}
    BY DEF MailboxInit, Elements
  <1>3. /\ conn \in [Connections -> States] /\ told \in [Connections -> Answers]
        /\ pending \in BOOLEAN /\ posted \in BOOLEAN /\ installed \in BOOLEAN
    BY DEF MailboxInit, States, Answers
  <1>4. /\ mailbox \in Seq(Connections) /\ Len(mailbox) <= MaxPending
        /\ sent \in Seq(Connections) /\ done \in Seq(Connections)
        /\ Cardinality(Busy) <= MaxConnections
    BY <1>1, MailboxAssumption DEF MailboxInit
  <1>5. MailInv
    BY <1>1, <1>3, <1>4 DEF MailInv, MailboxType
  <1> QED  BY <1>2, <1>5 DEF MailboxInit, AnswersAreTrue, ThreadsInv

-----------------------------------------------------------------------------
(* The window.                                                             *)
\* The loop leaves "opening" by installing the wake.
OpenedInstalled == installed = (host # "opening")

\* Once a drain has reset the flag, a set flag means a wake on its way.
FlagMeansWake ==
  pending /\ host \in Draining \cup {"waiting"} =>
    posted \/ \E c \in Connections : conn[c] = "won"

\* While the loop sleeps, a request in the mailbox has set the flag or its
\* thread is about to.
MailMeansFlag ==
  host = "waiting" /\ mailbox # <<>> =>
    pending \/ \E c \in Connections : conn[c] = "sent"

GuiIInv == /\ MailInv /\ host \in Phases
        /\ AnswersAreTrue /\ ThreadsInv
        /\ GuiNothingLost
        /\ OpenedInstalled /\ FlagMeansWake /\ MailMeansFlag

-----------------------------------------------------------------------------
\* A thread's step moves neither the loop nor the order of the requests, and
\* passes the duty to wake on without dropping it.
LEMMA GuiThreadKeeps ==
  ASSUME GuiIInv, NEW c \in Connections, ThreadStep(c, TRUE), UNCHANGED host
  PROVE  GuiIInv'
  <1>0. /\ conn \in [Connections -> States] /\ mailbox \in Seq(Connections)
        /\ done \in Seq(Connections) /\ pending \in BOOLEAN /\ posted \in BOOLEAN
        /\ installed \in BOOLEAN
    BY DEF GuiIInv, MailInv, MailboxType
  <1>1. MailInv' /\ AnswersAreTrue' /\ ThreadsInv'
    BY ThreadMail, ThreadAnswers DEF GuiIInv
  <1>2. /\ UNCHANGED <<installed, done>>
        /\ \/ UNCHANGED <<mailbox, sent>>
           \/ mailbox' = Append(mailbox, c) /\ sent' = Append(sent, c)
    BY ThreadQueues
  <1>3. GuiNothingLost'
    <2>1. done \o Append(mailbox, c) = Append(done \o mailbox, c)
      BY <1>0, AppendRight
    <2>2. done \o mailbox = sent
      BY DEF GuiIInv, GuiNothingLost
    <2>3. done' \o mailbox' = sent'
      BY <1>2, <2>1, <2>2
    <2> QED  BY <2>3 DEF GuiNothingLost
  <1>4. OpenedInstalled'
    BY <1>2 DEF GuiIInv, OpenedInstalled
  <1>5. FlagMeansWake' /\ MailMeansFlag'
    <2>1. CASE request(c)
      <3>1. CASE pending
        <4>1. pending' /\ posted' = posted /\ mailbox' = mailbox
              /\ conn' = [conn EXCEPT ![c] = "waiting"] /\ conn[c] = "sent"
          BY <2>1, <3>1 DEF request
        <4> QED  BY <1>0, <3>1, <4>1 DEF GuiIInv, FlagMeansWake, MailMeansFlag
      <3>2. CASE ~pending
        <4>1. pending' /\ conn'[c] = "won"
          BY <1>0, <2>1, <3>2 DEF request
        <4> QED  BY <4>1 DEF FlagMeansWake, MailMeansFlag
      <3> QED  BY <3>1, <3>2
    <2>2. CASE wake(c)
      <3>1. /\ conn' = [conn EXCEPT ![c] = "waiting"] /\ conn[c] = "won"
            /\ posted' = (posted \/ installed) /\ UNCHANGED <<pending, mailbox>>
        BY <2>2 DEF wake
      <3>2. FlagMeansWake'
        BY <3>1 DEF GuiIInv, FlagMeansWake, OpenedInstalled, Draining
      <3>3. MailMeansFlag'
        BY <1>0, <3>1 DEF GuiIInv, MailMeansFlag
      <3> QED  BY <3>2, <3>3
    <2>3. CASE try_send(c, TRUE)
      <3>1. /\ conn' = [conn EXCEPT ![c] = "sent"] /\ conn[c] = "reading"
            /\ UNCHANGED <<pending, posted>>
        BY <2>3 DEF try_send
      <3> QED  BY <1>0, <3>1 DEF GuiIInv, FlagMeansWake, MailMeansFlag
    <2>4. CASE accept(c) \/ reject(c) \/ try_send_fails(c, TRUE) \/ receive(c)
                 \/ timeout(c) \/ close(c)
      <3>1. /\ conn[c] \notin {"sent", "won"}
            /\ \E s \in States : conn' = [conn EXCEPT ![c] = s]
            /\ UNCHANGED <<pending, posted, mailbox>>
        BY <2>4 DEF accept, reject, try_send_fails, receive, timeout, close, Tell, States
      <3> QED  BY <1>0, <3>1 DEF GuiIInv, FlagMeansWake, MailMeansFlag
    <2> QED  BY <2>1, <2>2, <2>3, <2>4 DEF ThreadStep, handle_ipc_connection
  <1> QED  BY <1>1, <1>3, <1>4, <1>5 DEF GuiIInv

\* The steps of the loop that move no request.
LEMMA GuiLoopKeeps ==
  ASSUME GuiIInv,
         open_window \/ drain_wake_and_pty \/ drained \/ woken \/ other_event
  PROVE  GuiIInv'
  <1>1. /\ UNCHANGED <<conn, told, mailbox, sent, done>>
        /\ pending' \in BOOLEAN /\ posted' \in BOOLEAN /\ installed' \in BOOLEAN
        /\ host' \in Phases
    BY DEF GuiIInv, MailInv, MailboxType, open_window, drain_wake_and_pty, drained, woken,
           other_event, mail, Phases, Draining
  <1>2. MailInv'
    BY <1>1 DEF GuiIInv, MailInv, MailboxType, Busy
  <1>3. AnswersAreTrue' /\ ThreadsInv' /\ GuiNothingLost'
    BY <1>1, HostAnswers DEF GuiIInv, GuiNothingLost
  <1>4. OpenedInstalled'
    BY DEF GuiIInv, OpenedInstalled, open_window, drain_wake_and_pty, drained, woken,
           other_event, mail, Draining
  <1>5. FlagMeansWake'
    BY <1>1 DEF GuiIInv, FlagMeansWake, open_window, drain_wake_and_pty, drained, woken,
           other_event, mail, Draining
  <1>6. MailMeansFlag'
    BY <1>1 DEF GuiIInv, MailMeansFlag, open_window, drain_wake_and_pty, drained, woken,
           other_event, mail, Draining
  <1> QED  BY <1>1, <1>2, <1>3, <1>4, <1>5, <1>6 DEF GuiIInv

\* Executing a request moves it from the mailbox to the record of what was done.
LEMMA HandleKeeps ==
  ASSUME GuiIInv, handle_ipc
  PROVE  GuiIInv'
  <1>0. /\ mailbox \in Seq(Connections) /\ mailbox # <<>> /\ done \in Seq(Connections)
        /\ done' = Append(done, Head(mailbox)) /\ mailbox' = Tail(mailbox)
        /\ UNCHANGED <<conn, told, pending, posted, installed, sent, host>>
        /\ Len(mailbox) <= MaxPending /\ host \in Draining
    BY DEF GuiIInv, MailInv, MailboxType, handle_ipc
  <1>1. /\ Head(mailbox) \in Connections /\ mailbox' \in Seq(Connections)
        /\ Len(mailbox') <= Len(mailbox) /\ done' \in Seq(Connections)
        /\ done' \o mailbox' = done \o mailbox
    <2>1. /\ Head(mailbox) \in Connections /\ Tail(mailbox) \in Seq(Connections)
          /\ Len(Tail(mailbox)) <= Len(mailbox)
          /\ Append(done, Head(mailbox)) \in Seq(Connections)
          /\ Append(done, Head(mailbox)) \o Tail(mailbox) = done \o mailbox
      BY <1>0, MoveHead, Zenon
    <2> QED  BY <1>0, <2>1, Zenon
  <1>2. Len(mailbox') <= MaxPending
    BY <1>0, <1>1, MailboxAssumption
  <1>3. MailInv'
    BY <1>0, <1>1, <1>2 DEF GuiIInv, MailInv, MailboxType, Busy
  <1>4. Elements(done') = Elements(done) \cup {Head(mailbox)}
    BY <1>0, <1>1, ElementsAppend
  <1>5. AnswersAreTrue' /\ ThreadsInv'
    BY <1>0, <1>4, HostAnswers DEF GuiIInv
  <1>6. GuiNothingLost' /\ OpenedInstalled' /\ FlagMeansWake' /\ MailMeansFlag'
    BY <1>0, <1>1 DEF GuiIInv, GuiNothingLost, OpenedInstalled, FlagMeansWake, MailMeansFlag, Draining
  <1> QED  BY <1>0, <1>3, <1>5, <1>6 DEF GuiIInv

-----------------------------------------------------------------------------
\* GuiIInv holds in every reachable state of the window's mailbox.
THEOREM GuiInductive == GuiSpec => []GuiIInv
  <1>1. GuiInit => GuiIInv
    <2> SUFFICES ASSUME GuiInit PROVE GuiIInv
      OBVIOUS
    <2>1. MailInv /\ AnswersAreTrue /\ ThreadsInv
      BY MailboxStart DEF GuiInit
    <2>2. GuiNothingLost
      BY DEF GuiInit, MailboxInit, GuiNothingLost
    <2> QED
      BY <2>1, <2>2 DEF GuiInit, MailboxInit, GuiIInv, OpenedInstalled, FlagMeansWake,
         MailMeansFlag, Phases, Draining
  <1>2. GuiIInv /\ [GuiNext]_guiVars => GuiIInv'
    <2> SUFFICES ASSUME GuiIInv, [GuiNext]_guiVars PROVE GuiIInv'
      OBVIOUS
    <2>1. CASE \E c \in Connections :
                 (accept(c) \/ handle_ipc_connection(c, TRUE)) /\ UNCHANGED host
      BY <2>1, GuiThreadKeeps DEF ThreadStep
    <2>2. CASE open_window \/ drain_wake_and_pty \/ drained \/ woken \/ other_event
      BY <2>2, GuiLoopKeeps
    <2>3. CASE handle_ipc
      BY <2>3, HandleKeeps
    <2>4. CASE UNCHANGED guiVars
      BY <2>4 DEF guiVars, GuiIInv, MailInv, MailboxType, Busy, AnswersAreTrue, ThreadsInv,
         Elements, GuiNothingLost, OpenedInstalled, FlagMeansWake, MailMeansFlag
    <2> QED  BY <2>1, <2>2, <2>3, <2>4 DEF GuiNext, GuiLoop
  <1> QED  BY <1>1, <1>2, PTL DEF GuiSpec

\* Types and limits, in particular of the permits, which accept counts and
\* every exit of a thread gives back.
THEOREM GuiTypeCorrect == GuiSpec => []GuiTypeOK
  <1>1. GuiIInv => GuiTypeOK
    BY DEF GuiIInv, MailInv, GuiTypeOK
  <1> QED  BY <1>1, GuiInductive, PTL

\* No request is left behind in the mailbox of a sleeping loop.
THEOREM NoStranding == GuiSpec => []NoneStranded
  <1>1. GuiIInv => NoneStranded
    BY DEF GuiIInv, NoneStranded, FlagMeansWake, MailMeansFlag
  <1> QED  BY <1>1, GuiInductive, PTL

\* Requests are executed once each, in the order in which they were sent.
THEOREM GuiInOrder == GuiSpec => []GuiNothingLost
  <1>1. GuiIInv => GuiNothingLost
    BY DEF GuiIInv
  <1> QED  BY <1>1, GuiInductive, PTL

\* Clients are told the truth about the execution of their requests.
THEOREM GuiTrueAnswers == GuiSpec => []AnswersAreTrue
  <1>1. GuiIInv => AnswersAreTrue
    BY DEF GuiIInv
  <1> QED  BY <1>1, GuiInductive, PTL

-----------------------------------------------------------------------------
\* A thread's step is a step of the service, or none that a client could see.
LEMMA GuiThreadServes ==
  ASSUME GuiIInv, NEW c \in Connections, ThreadStep(c, TRUE)
  PROVE  [GuiService!Next]_(GuiService!vars)
  <1>0. /\ mailbox \in Seq(Connections) /\ done \in Seq(Connections)
        /\ done \o mailbox = sent
    BY DEF GuiIInv, MailInv, MailboxType, GuiNothingLost
  <1>1. Elements(sent) = Elements(done) \cup Elements(mailbox)
    BY <1>0, ElementsConcat
  <1>2. /\ Elements(done) = GuiService!Members(done)
        /\ Elements(mailbox) = GuiService!Members(mailbox)
    BY DEF Elements, GuiService!Members
  <1>3. CASE UNCHANGED <<told, mailbox, done>>
    BY <1>3 DEF GuiService!vars
  <1>4. CASE /\ told[c] = "none" /\ c \notin Elements(sent)
             /\ UNCHANGED <<mailbox, done>>
             /\ \E v \in {"invalid", "unavailable"} : told' = [told EXCEPT ![c] = v]
    <2>1. GuiService!Refuse(c)
      BY <1>1, <1>2, <1>4 DEF GuiService!Refuse, GuiService!Untouched, GuiService!Tells
    <2> QED  BY <2>1 DEF GuiService!Next
  <1>5. CASE /\ told[c] = "none" /\ c \in Elements(done)
             /\ UNCHANGED <<mailbox, done>> /\ told' = [told EXCEPT ![c] = "response"]
    <2>1. GuiService!Respond(c)
      BY <1>2, <1>5 DEF GuiService!Respond, GuiService!Tells
    <2> QED  BY <2>1 DEF GuiService!Next
  <1>6. CASE /\ told[c] = "none" /\ c \notin Elements(done) /\ c \in Elements(sent)
             /\ UNCHANGED <<mailbox, done>> /\ told' = [told EXCEPT ![c] = "timeout"]
    <2>1. GuiService!Expire(c)
      BY <1>1, <1>2, <1>6 DEF GuiService!Expire, GuiService!Tells
    <2> QED  BY <2>1 DEF GuiService!Next
  <1>7. CASE /\ told[c] = "none" /\ c \notin Elements(sent)
             /\ mailbox' = Append(mailbox, c) /\ UNCHANGED <<told, done>>
    <2>1. GuiService!Accept(c)
      BY <1>1, <1>2, <1>7 DEF GuiService!Accept, GuiService!Untouched
    <2> QED  BY <2>1 DEF GuiService!Next
  <1>8. AnswersAreTrue /\ ThreadsInv
    BY DEF GuiIInv
  <1> QED  BY <1>3, <1>4, <1>5, <1>6, <1>7, <1>8, ThreadVerdict

\* The event loop, its wakes and its connection threads implement an ordered
\* service of requests, for every number of clients and every limit.
THEOREM GuiImplementsService == GuiSpec => GuiServesInOrder
  <1>1. GuiInit => GuiService!Init
    BY DEF GuiInit, MailboxInit, GuiService!Init
  <1>2. GuiIInv /\ [GuiNext]_guiVars => [GuiService!Next]_(GuiService!vars)
    <2> SUFFICES ASSUME GuiIInv, [GuiNext]_guiVars PROVE [GuiService!Next]_(GuiService!vars)
      OBVIOUS
    <2>1. CASE \E c \in Connections :
                 (accept(c) \/ handle_ipc_connection(c, TRUE)) /\ UNCHANGED host
      BY <2>1, GuiThreadServes DEF ThreadStep
    <2>2. CASE open_window \/ drain_wake_and_pty \/ drained \/ woken \/ other_event
      BY <2>2 DEF open_window, drain_wake_and_pty, drained, woken, other_event, mail, GuiService!vars
    <2>3. CASE handle_ipc
      <3>1. GuiService!Execute
        BY <2>3 DEF handle_ipc, GuiService!Execute
      <3> QED  BY <3>1 DEF GuiService!Next
    <2>4. CASE UNCHANGED guiVars
      BY <2>4 DEF guiVars, GuiService!vars
    <2> QED  BY <2>1, <2>2, <2>3, <2>4 DEF GuiNext, GuiLoop
  <1> QED  BY <1>1, <1>2, GuiInductive, PTL DEF GuiSpec, GuiServesInOrder, GuiService!Spec

-----------------------------------------------------------------------------
(* The headless server.                                                    *)
HostType ==
  /\ host \in {"tick", "taking", "stopped"} \cup Executing
  /\ batch \in Seq(Connections) /\ Len(batch) <= Budget

\* ServerNothingLost needs only the permits' and queues' types besides itself.
ServerIInv == /\ MailInv /\ HostType
        /\ AnswersAreTrue /\ ThreadsInv
        /\ ServerNothingLost

-----------------------------------------------------------------------------
\* A thread adds to the end of the mailbox, and not any more once the server
\* has stopped.
LEMMA ServerThreadKeeps ==
  ASSUME ServerIInv, NEW c \in Connections, ThreadStep(c, Up), UNCHANGED <<host, batch>>
  PROVE  ServerIInv'
  <1>0. /\ mailbox \in Seq(Connections) /\ done \in Seq(Connections)
        /\ batch \in Seq(Connections)
    BY DEF ServerIInv, MailInv, MailboxType, HostType
  <1>1. MailInv' /\ AnswersAreTrue' /\ ThreadsInv'
    BY ThreadMail, ThreadAnswers DEF ServerIInv
  <1>2. HostType'
    BY DEF ServerIInv, HostType
  <1>3. /\ UNCHANGED done /\ Up' = Up
        /\ \/ UNCHANGED <<mailbox, sent>>
           \/ mailbox' = Append(mailbox, c) /\ sent' = Append(sent, c)
    BY ThreadQueues DEF Up
  <1>4. ~Up => UNCHANGED sent
    BY DEF ThreadStep, handle_ipc_connection, accept, reject, try_send_fails, try_send,
           request, wake, receive, timeout, close, Tell
  <1>5. CASE Up
    <2>1. done \o batch \in Seq(Connections)
      BY <1>0, ConcatProperties
    <2>2. (done \o batch) \o Append(mailbox, c) = Append((done \o batch) \o mailbox, c)
      BY <1>0, <2>1, AppendRight
    <2>3. (done \o batch) \o mailbox = sent
      BY <1>5 DEF ServerIInv, ServerNothingLost
    <2>4. (done' \o batch') \o mailbox' = sent'
      BY <1>3, <2>2, <2>3
    <2>5. ServerNothingLost'
      BY <1>3, <1>5, <2>4 DEF ServerNothingLost
    <2> QED  BY <1>1, <1>2, <2>5 DEF ServerIInv
  <1>6. CASE ~Up
    <2>1. ServerNothingLost'
      BY <1>3, <1>4, <1>6 DEF ServerIInv, ServerNothingLost
    <2> QED  BY <1>1, <1>2, <2>1 DEF ServerIInv
  <1> QED  BY <1>5, <1>6

\* The steps of the loop that move no request.
LEMMA ServerLoopKeeps ==
  ASSUME ServerIInv, drain \/ collected
  PROVE  ServerIInv'
  <1>1. /\ UNCHANGED <<conn, told, mailbox, posted, installed, sent, done, batch>>
        /\ pending' \in BOOLEAN /\ Up /\ Up'
        /\ host' \in {"tick", "taking", "stopped"} \cup Executing
    BY DEF ServerIInv, MailInv, MailboxType, drain, collected, Executing, Up
  <1>2. MailInv' /\ HostType'
    BY <1>1 DEF ServerIInv, MailInv, MailboxType, Busy, HostType
  <1>3. AnswersAreTrue' /\ ThreadsInv'
    BY <1>1, HostAnswers DEF ServerIInv
  <1>4. ServerNothingLost'
    BY <1>1 DEF ServerIInv, ServerNothingLost
  <1> QED  BY <1>2, <1>3, <1>4 DEF ServerIInv

\* Taking an envelope moves it from the mailbox to the batch.
LEMMA TakeKeeps ==
  ASSUME ServerIInv, take
  PROVE  ServerIInv'
  <1>0. /\ mailbox \in Seq(Connections) /\ mailbox # <<>> /\ done \in Seq(Connections)
        /\ batch \in Seq(Connections) /\ Len(batch) < Budget
        /\ batch' = Append(batch, Head(mailbox)) /\ mailbox' = Tail(mailbox)
        /\ UNCHANGED <<conn, told, pending, posted, installed, sent, done, host>>
        /\ Len(mailbox) <= MaxPending /\ Up /\ Up'
    BY DEF ServerIInv, MailInv, MailboxType, HostType, take, Up
  <1>1. /\ Head(mailbox) \in Connections /\ Tail(mailbox) \in Seq(Connections)
        /\ Len(Tail(mailbox)) <= Len(mailbox)
        /\ Append(batch, Head(mailbox)) \in Seq(Connections)
        /\ Append(batch, Head(mailbox)) \o Tail(mailbox) = batch \o mailbox
    BY <1>0, MoveHead, Zenon
  <1>2. Len(Append(batch, Head(mailbox))) = Len(batch) + 1 /\ Len(batch) \in Nat
        /\ Len(mailbox) \in Nat /\ Len(Tail(mailbox)) \in Nat
    BY <1>0, <1>1, AppendProperties, LenProperties
  <1>3. MailInv' /\ HostType'
    <2>1. Len(Tail(mailbox)) <= MaxPending /\ Len(batch) + 1 <= Budget
      BY <1>0, <1>1, <1>2, MailboxAssumption, ServerAssumption
    <2>2. mailbox' \in Seq(Connections) /\ Len(mailbox') <= MaxPending
          /\ batch' \in Seq(Connections) /\ Len(batch') <= Budget
      BY <1>0, <1>1, <1>2, <2>1
    <2> QED  BY <1>0, <2>2 DEF ServerIInv, MailInv, MailboxType, Busy, HostType
  <1>4. AnswersAreTrue' /\ ThreadsInv'
    BY <1>0, HostAnswers DEF ServerIInv
  <1>5. ServerNothingLost'
    <2>1. (done \o batch) \o mailbox = sent
      BY <1>0 DEF ServerIInv, ServerNothingLost
    <2>0. \A s, t, u \in Seq(Connections) : (s \o t) \o u = s \o (t \o u)
      BY ConcatAssociative
    <2>2. (done \o batch) \o mailbox = done \o (batch \o mailbox)
      BY <1>0, <2>0
    <2>3. (done \o Append(batch, Head(mailbox))) \o Tail(mailbox)
            = done \o (Append(batch, Head(mailbox)) \o Tail(mailbox))
      BY <1>0, <1>1, <2>0, Zenon
    <2>4. (done' \o batch') \o mailbox' = sent'
      BY <1>0, <1>1, <2>1, <2>2, <2>3
    <2> QED  BY <1>0, <2>4 DEF ServerNothingLost
  <1> QED  BY <1>3, <1>4, <1>5 DEF ServerIInv

\* Executing a request moves it from the batch to the record of what was done.
LEMMA ExecuteKeeps ==
  ASSUME ServerIInv, execute_request
  PROVE  ServerIInv'
  <1>0. /\ mailbox \in Seq(Connections) /\ done \in Seq(Connections)
        /\ batch \in Seq(Connections) /\ batch # <<>> /\ Len(batch) <= Budget
        /\ done' = Append(done, Head(batch)) /\ batch' = Tail(batch)
        /\ UNCHANGED <<conn, told, mailbox, pending, posted, installed, sent, host>>
        /\ Up /\ Up'
    BY DEF ServerIInv, MailInv, MailboxType, HostType, execute_request, Up, Executing
  <1>1. /\ Head(batch) \in Connections /\ Tail(batch) \in Seq(Connections)
        /\ Len(Tail(batch)) <= Len(batch)
        /\ Append(done, Head(batch)) \in Seq(Connections)
        /\ Append(done, Head(batch)) \o Tail(batch) = done \o batch
    BY <1>0, MoveHead, Zenon
  <1>2. MailInv' /\ HostType'
    <2>1. Len(Tail(batch)) \in Nat /\ Len(batch) \in Nat
      BY <1>0, <1>1, LenProperties
    <2>2. Len(Tail(batch)) <= Budget
      BY <1>0, <1>1, <2>1, ServerAssumption
    <2>3. batch' \in Seq(Connections) /\ Len(batch') <= Budget /\ done' \in Seq(Connections)
      BY <1>0, <1>1, <2>2
    <2> QED  BY <1>0, <2>3 DEF ServerIInv, MailInv, MailboxType, Busy, HostType
  <1>3. AnswersAreTrue' /\ ThreadsInv'
    <2>1. Elements(Append(done, Head(batch))) = Elements(done) \cup {Head(batch)}
      BY <1>0, <1>1, ElementsAppend
    <2> QED  BY <1>0, <2>1, HostAnswers DEF ServerIInv
  <1>4. ServerNothingLost'
    <2>1. (done \o batch) \o mailbox = sent
      BY <1>0 DEF ServerIInv, ServerNothingLost
    <2>2. (done' \o batch') \o mailbox' = sent'
      BY <1>0, <1>1, <2>1
    <2> QED  BY <1>0, <2>2 DEF ServerNothingLost
  <1> QED  BY <1>2, <1>3, <1>4 DEF ServerIInv

\* The end of a drain; at the end of the loop the mailbox is dropped and what
\* was done is the beginning of what was sent.
LEMMA TickKeeps ==
  ASSUME ServerIInv, tick
  PROVE  ServerIInv'
  <1>0. /\ mailbox \in Seq(Connections) /\ done \in Seq(Connections) /\ batch = <<>>
        /\ UNCHANGED <<conn, told, posted, installed, sent, done, batch>>
        /\ pending' \in BOOLEAN /\ Up
        /\ \/ host' = "tick" /\ mailbox' = mailbox
           \/ host' = "stopped" /\ mailbox' = <<>>
    BY DEF ServerIInv, MailInv, MailboxType, HostType, tick, Up, Executing
  <1>1. MailInv' /\ HostType'
    <2>1. mailbox' \in Seq(Connections) /\ Len(mailbox') <= MaxPending
      <3>1. Len(mailbox) <= MaxPending /\ <<>> \in Seq(Connections) /\ Len(<<>>) <= MaxPending
        BY MailboxAssumption DEF ServerIInv, MailInv, MailboxType
      <3> QED  BY <1>0, <3>1
    <2> QED  BY <1>0, <2>1 DEF ServerIInv, MailInv, MailboxType, Busy, HostType
  <1>2. AnswersAreTrue' /\ ThreadsInv'
    BY <1>0, HostAnswers DEF ServerIInv
  <1>3. done \o mailbox = sent
    <2>1. (done \o batch) \o mailbox = sent
      BY <1>0 DEF ServerIInv, ServerNothingLost
    <2>2. done \o <<>> = done
      BY <1>0, ConcatEmptySeq
    <2> QED  BY <1>0, <2>1, <2>2
  <1>4. \A i \in 1..Len(done) : done[i] = sent[i]
    BY <1>0, <1>3, ConcatProperties
  <1>5. ServerNothingLost'
    <2>1. CASE host' = "tick" /\ mailbox' = mailbox
      BY <1>0, <2>1 DEF ServerIInv, ServerNothingLost, Up
    <2>2. CASE host' = "stopped"
      BY <1>0, <1>4, <2>2 DEF ServerNothingLost, Up
    <2> QED  BY <1>0, <2>1, <2>2
  <1> QED  BY <1>1, <1>2, <1>5 DEF ServerIInv

\* The process takes its threads with it.
LEMMA ExitKeeps ==
  ASSUME ServerIInv, Exit
  PROVE  ServerIInv'
  <1>0. /\ conn \in [Connections -> States]
        /\ conn' = [c \in Connections |-> IF c \in Busy THEN "closed" ELSE conn[c]]
        /\ UNCHANGED <<told, mailbox, pending, posted, installed, sent, done, host, batch>>
    BY DEF ServerIInv, MailInv, MailboxType, Exit
  <1>1. conn' \in [Connections -> States] /\ Busy' \subseteq Busy
    BY <1>0 DEF Busy, States
  <1>2. MailInv'
    BY <1>0, <1>1, PermitsShrink DEF ServerIInv, MailInv, MailboxType
  <1>3. AnswersAreTrue' /\ ThreadsInv'
    BY <1>0 DEF ServerIInv, AnswersAreTrue, ThreadsInv, Elements, Busy
  <1>4. HostType' /\ ServerNothingLost'
    BY <1>0 DEF ServerIInv, HostType, ServerNothingLost, Up
  <1> QED  BY <1>2, <1>3, <1>4 DEF ServerIInv

-----------------------------------------------------------------------------
\* ServerIInv holds in every reachable state of the server's loop.
THEOREM ServerInductive == ServerSpec => []ServerIInv
  <1>1. ServerInit => ServerIInv
    <2> SUFFICES ASSUME ServerInit PROVE ServerIInv
      OBVIOUS
    <2>1. MailInv /\ AnswersAreTrue /\ ThreadsInv
      BY MailboxStart DEF ServerInit
    <2>2. ServerNothingLost
      BY DEF ServerInit, MailboxInit, ServerNothingLost, Up
    <2>3. HostType
      BY ServerAssumption DEF ServerInit, HostType
    <2> QED  BY <2>1, <2>2, <2>3 DEF ServerIInv
  <1>2. ServerIInv /\ [ServerNext]_serverVars => ServerIInv'
    <2> SUFFICES ASSUME ServerIInv, [ServerNext]_serverVars PROVE ServerIInv'
      OBVIOUS
    <2>1. CASE \E c \in Connections :
                 (accept(c) \/ handle_ipc_connection(c, Up)) /\ UNCHANGED <<host, batch>>
      BY <2>1, ServerThreadKeeps DEF ThreadStep
    <2>2. CASE drain \/ collected
      BY <2>2, ServerLoopKeeps
    <2>3. CASE take
      BY <2>3, TakeKeeps
    <2>4. CASE execute_request
      BY <2>4, ExecuteKeeps
    <2>5. CASE tick
      BY <2>5, TickKeeps
    <2>6. CASE Exit
      BY <2>6, ExitKeeps
    <2>7. CASE UNCHANGED serverVars
      BY <2>7 DEF serverVars, ServerIInv, MailInv, MailboxType, Busy, HostType, AnswersAreTrue,
         ThreadsInv, Elements, ServerNothingLost, Up
    <2> QED  BY <2>1, <2>2, <2>3, <2>4, <2>5, <2>6, <2>7 DEF ServerNext, ServerLoop
  <1> QED  BY <1>1, <1>2, PTL DEF ServerSpec

\* Types and limits, the budget of a batch among them.
THEOREM ServerTypeCorrect == ServerSpec => []ServerTypeOK
  <1>1. ServerIInv => ServerTypeOK
    BY DEF ServerIInv, MailInv, HostType, ServerTypeOK
  <1> QED  BY <1>1, ServerInductive, PTL

\* Requests are executed once each, in the order in which they were sent, and
\* none is lost before the shutdown.
THEOREM ServerInOrder == ServerSpec => []ServerNothingLost
  <1>1. ServerIInv => ServerNothingLost
    BY DEF ServerIInv
  <1> QED  BY <1>1, ServerInductive, PTL

\* Clients are told the truth about the execution of their requests.
THEOREM ServerTrueAnswers == ServerSpec => []AnswersAreTrue
  <1>1. ServerIInv => AnswersAreTrue
    BY DEF ServerIInv
  <1> QED  BY <1>1, ServerInductive, PTL

-----------------------------------------------------------------------------
\* The end of the loop leaves nothing queued, and nothing executed that was
\* not sent.
Settled ==
  ~Up => /\ batch = <<>> /\ mailbox = <<>>
         /\ Elements(done) \subseteq Elements(sent)

\* While the loop runs, what was sent is what was done and what is queued.
LEMMA SentWhileUp ==
  ASSUME ServerIInv, Up
  PROVE  /\ batch \o mailbox \in Seq(Connections)
         /\ Elements(sent) = Elements(done) \cup Elements(batch \o mailbox)
  <1>0. /\ mailbox \in Seq(Connections) /\ done \in Seq(Connections)
        /\ batch \in Seq(Connections) /\ (done \o batch) \o mailbox = sent
    BY DEF ServerIInv, MailInv, MailboxType, HostType, ServerNothingLost
  <1>1. batch \o mailbox \in Seq(Connections)
    BY <1>0, ConcatProperties
  <1>2. done \o (batch \o mailbox) = sent
    <2>1. \A s, t, u \in Seq(Connections) : (s \o t) \o u = s \o (t \o u)
      BY ConcatAssociative
    <2> QED  BY <1>0, <2>1
  <1>3. Elements(done \o (batch \o mailbox)) = Elements(done) \cup Elements(batch \o mailbox)
    <2>1. \A s, t \in Seq(Connections) : Elements(s \o t) = Elements(s) \cup Elements(t)
      BY ElementsConcat
    <2> QED  BY <1>0, <1>1, <2>1, Zenon
  <1> QED  BY <1>1, <1>2, <1>3

\* Only the last tick stops the loop, and threads add nothing afterwards.
LEMMA SettledKeeps ==
  ASSUME ServerIInv, Settled, [ServerNext]_serverVars
  PROVE  Settled'
  <1>1. CASE \E c \in Connections :
               (accept(c) \/ handle_ipc_connection(c, Up)) /\ UNCHANGED <<host, batch>>
    <2>1. Up' = Up /\ UNCHANGED <<batch, done>>
      BY <1>1, ThreadQueues DEF ThreadStep, Up
    <2>2. ~Up => UNCHANGED <<sent, mailbox>>
      BY <1>1 DEF handle_ipc_connection, accept, reject, try_send_fails, try_send,
             request, wake, receive, timeout, close, Tell
    <2> QED  BY <2>1, <2>2 DEF Settled, Elements
  <1>2. CASE drain \/ take \/ collected \/ execute_request
    BY <1>2 DEF drain, take, collected, execute_request, Executing, Settled, Up
  <1>3. CASE tick
    <2>1. /\ Up /\ UNCHANGED <<sent, done, batch>> /\ batch = <<>>
          /\ ~Up' => mailbox' = <<>>
      BY <1>3 DEF tick, Up, Executing
    <2>2. Elements(done) \subseteq Elements(sent)
      BY <2>1, SentWhileUp
    <2> QED  BY <2>1, <2>2 DEF Settled, Elements
  <1>4. CASE Exit \/ UNCHANGED serverVars
    BY <1>4 DEF Exit, serverVars, Settled, Up, Elements
  <1> QED  BY <1>1, <1>2, <1>3, <1>4 DEF ServerNext, ServerLoop

\* A thread's step is a step of the service, or none that a client could see;
\* after the end of the loop it can only be a refusal or a verdict.
LEMMA ServerThreadServes ==
  ASSUME ServerIInv, Settled, NEW c \in Connections, ThreadStep(c, Up),
         UNCHANGED <<host, batch>>
  PROVE  [ServerService!Next]_(ServerService!vars)
  <1>0. /\ Up' = Up
        /\ mailbox \in Seq(Connections) /\ batch \in Seq(Connections)
    BY DEF Up, ServerIInv, MailInv, MailboxType, HostType
  <1>1. /\ Elements(done) = ServerService!Members(done)
        /\ Elements(batch \o mailbox) = ServerService!Members(batch \o mailbox)
    BY DEF Elements, ServerService!Members
  <1>2. /\ Elements(done) \subseteq Elements(sent)
        /\ Elements(batch \o mailbox) \subseteq Elements(sent)
        /\ Up => Elements(sent) = Elements(done) \cup Elements(batch \o mailbox)
    <2>1. CASE Up
      BY <2>1, SentWhileUp
    <2>2. CASE ~Up
      <3>1. batch \o mailbox = <<>>
        BY <2>2 DEF Settled
      <3> QED  BY <2>2, <3>1 DEF Settled, Elements
    <2> QED  BY <2>1, <2>2
  <1>3. CASE UNCHANGED <<told, mailbox, done>>
    BY <1>0, <1>3 DEF ServerService!vars
  <1>4. CASE /\ told[c] = "none" /\ c \notin Elements(sent)
             /\ UNCHANGED <<mailbox, done>>
             /\ \E v \in {"invalid", "unavailable"} : told' = [told EXCEPT ![c] = v]
    <2>1. ServerService!Refuse(c)
      BY <1>0, <1>1, <1>2, <1>4 DEF ServerService!Refuse, ServerService!Untouched, ServerService!Tells
    <2> QED  BY <2>1 DEF ServerService!Next
  <1>5. CASE /\ told[c] = "none" /\ c \in Elements(done)
             /\ UNCHANGED <<mailbox, done>> /\ told' = [told EXCEPT ![c] = "response"]
    <2>1. ServerService!Respond(c)
      BY <1>0, <1>1, <1>5 DEF ServerService!Respond, ServerService!Tells
    <2> QED  BY <2>1 DEF ServerService!Next
  <1>6. CASE /\ told[c] = "none" /\ c \notin Elements(done) /\ c \in Elements(sent)
             /\ UNCHANGED <<mailbox, done>> /\ told' = [told EXCEPT ![c] = "timeout"]
    <2>1. ServerService!Expire(c)
      BY <1>0, <1>1, <1>2, <1>6 DEF ServerService!Expire, ServerService!Tells
    <2> QED  BY <2>1 DEF ServerService!Next
  <1>7. CASE /\ Up /\ told[c] = "none" /\ c \notin Elements(sent)
             /\ mailbox' = Append(mailbox, c) /\ UNCHANGED <<told, done>>
    <2>1. batch \o Append(mailbox, c) = Append(batch \o mailbox, c)
      BY <1>0, AppendRight
    <2>2. ServerService!Accept(c)
      BY <1>0, <1>1, <1>2, <1>7, <2>1 DEF ServerService!Accept, ServerService!Untouched
    <2> QED  BY <2>2 DEF ServerService!Next
  <1>8. AnswersAreTrue /\ ThreadsInv
    BY DEF ServerIInv
  <1> QED  BY <1>3, <1>4, <1>5, <1>6, <1>7, <1>8, ThreadVerdict

\* Taking into the batch is invisible, executing from it serves the head, and
\* the tick that ends the loop stops the service.
LEMMA LoopServes ==
  ASSUME ServerIInv, ServerLoop
  PROVE  [ServerService!Next]_(ServerService!vars)
  <1>0. mailbox \in Seq(Connections) /\ batch \in Seq(Connections)
    BY DEF ServerIInv, MailInv, MailboxType, HostType
  <1>1. CASE drain \/ collected
    BY <1>1 DEF drain, collected, ServerService!vars, Up, Executing
  <1>2. CASE take
    <2>1. /\ mailbox # <<>> /\ UNCHANGED <<told, done, host>>
          /\ batch' = Append(batch, Head(mailbox)) /\ mailbox' = Tail(mailbox)
      BY <1>2 DEF take
    <2>2. Append(batch, Head(mailbox)) \o Tail(mailbox) = batch \o mailbox
      BY <1>0, <2>1, MoveHead, Zenon
    <2> QED  BY <2>1, <2>2 DEF ServerService!vars, Up
  <1>3. CASE execute_request
    <2>1. /\ batch # <<>> /\ UNCHANGED <<told, mailbox, host>> /\ Up
          /\ done' = Append(done, Head(batch)) /\ batch' = Tail(batch)
      BY <1>3 DEF execute_request, Up, Executing
    <2>2. /\ batch \o mailbox # <<>> /\ Head(batch \o mailbox) = Head(batch)
          /\ Tail(batch \o mailbox) = Tail(batch) \o mailbox
      BY <1>0, <2>1
    <2>3. ServerService!Execute
      BY <2>1, <2>2 DEF ServerService!Execute, Up
    <2> QED  BY <2>3 DEF ServerService!Next
  <1>4. CASE tick
    <2>1. /\ batch = <<>> /\ UNCHANGED <<told, done, batch>> /\ Up
          /\ \/ Up' /\ mailbox' = mailbox
             \/ ~Up' /\ mailbox' = <<>>
      BY <1>4 DEF tick, Up, Executing
    <2>2. CASE Up' /\ mailbox' = mailbox
      BY <2>1, <2>2 DEF ServerService!vars
    <2>3. CASE ~Up' /\ mailbox' = <<>>
      <3>1. ServerService!Stop
        BY <2>1, <2>3 DEF ServerService!Stop
      <3> QED  BY <3>1 DEF ServerService!Next
    <2> QED  BY <2>1, <2>2, <2>3
  <1> QED  BY <1>1, <1>2, <1>3, <1>4 DEF ServerLoop

\* The loop of the headless server, its batches and its connection threads
\* implement the same ordered service as the window, for every number of
\* clients, every limit and every budget, up to and after the shutdown.
THEOREM ServerImplementsService == ServerSpec => ServerServesInOrder
  <1>1. ServerInit => ServerService!Init /\ Settled
    BY DEF ServerInit, MailboxInit, ServerService!Init, Up, Settled
  <1>2. ServerIInv /\ Settled /\ [ServerNext]_serverVars => Settled'
    BY SettledKeeps
  <1>3. ServerIInv /\ Settled /\ [ServerNext]_serverVars => [ServerService!Next]_(ServerService!vars)
    <2> SUFFICES ASSUME ServerIInv, Settled, [ServerNext]_serverVars PROVE [ServerService!Next]_(ServerService!vars)
      OBVIOUS
    <2>1. CASE \E c \in Connections :
                 (accept(c) \/ handle_ipc_connection(c, Up)) /\ UNCHANGED <<host, batch>>
      BY <2>1, ServerThreadServes DEF ThreadStep
    <2>2. CASE ServerLoop
      BY <2>2, LoopServes
    <2>3. CASE Exit \/ UNCHANGED serverVars
      BY <2>3 DEF Exit, serverVars, Up, ServerService!vars
    <2> QED  BY <2>1, <2>2, <2>3 DEF ServerNext
  <1> QED  BY <1>1, <1>2, <1>3, ServerInductive, PTL DEF ServerSpec, ServerServesInOrder, ServerService!Spec
=============================================================================
