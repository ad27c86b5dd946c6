------------------------------- MODULE Mailbox -------------------------------
(***************************************************************************)
(* The server side of the IPC transport (src/platform/ipc_transport_impl)  *)
(* and the wake signal (src/wake_signal.rs): one thread per connection     *)
(* reads a request, puts it into the bounded mailbox of the host thread,   *)
(* wakes the host and waits for the answer, at most IPC_TIMEOUT.  What the *)
(* host does with the mailbox is in GuiHost and ServerHost.                *)
(*                                                                         *)
(* A connection carries one request, so its id also names the envelope.    *)
(* sent and done are history variables: the envelopes ever put into the    *)
(* mailbox and the requests executed, in order.                            *)
(***************************************************************************)
EXTENDS Integers, Sequences, FiniteSets

CONSTANTS
  Connections,
  MaxConnections,  \* IPC_MAX_CONCURRENT_CONNECTIONS, 32 in the code
  MaxPending       \* IPC_MAX_PENDING_REQUESTS, 64 in the code

ASSUME MailboxAssumption == MaxConnections \in Nat /\ MaxPending \in Nat

VARIABLES
  conn,          \* per connection, where its thread is
  told,          \* per connection, the answer its client gets
  mailbox,       \* the sync_channel
  pending,       \* WakeSignal.pending
  posted,        \* a wake event is queued in the host's event loop
  installed,     \* install_unix_wake has been called
  sent,
  done,
  host           \* where the loop of the host is

mail == <<conn, told, mailbox, pending, posted, installed, sent, done>>

States == {"new", "refused", "reading", "sent", "won", "waiting", "writing", "closed"}
Answers == {"none", "invalid", "unavailable", "response", "timeout"}

\* The threads that hold an IpcConnectionPermit.
Busy == {c \in Connections : conn[c] \notin {"new", "refused", "closed"}}

Elements(s) == {s[i] : i \in 1..Len(s)}

MailboxInit ==
  /\ conn = [c \in Connections |-> "new"]
  /\ told = [c \in Connections |-> "none"]
  /\ mailbox = <<>> /\ sent = <<>> /\ done = <<>>
  /\ pending = FALSE /\ posted = FALSE /\ installed = FALSE

-----------------------------------------------------------------------------
\* The listener thread: a connection over the limit is dropped unanswered.
accept(c) ==
  /\ conn[c] = "new"
  /\ conn' = [conn EXCEPT ![c] =
       IF Cardinality(Busy) < MaxConnections THEN "reading" ELSE "refused"]
  /\ UNCHANGED <<told, mailbox, pending, posted, installed, sent, done>>

Tell(c, answer) ==
  /\ conn' = [conn EXCEPT ![c] = "writing"]
  /\ told' = [told EXCEPT ![c] = answer]
  /\ UNCHANGED <<mailbox, pending, posted, installed, sent, done>>

\* read_bounded_ipc_line or the parser fails.
reject(c) == conn[c] = "reading" /\ Tell(c, "invalid")

\* try_send: the mailbox is full, or its receiver is gone.
try_send_fails(c, up) ==
  /\ conn[c] = "reading" /\ (Len(mailbox) >= MaxPending \/ ~up)
  /\ Tell(c, "unavailable")

try_send(c, up) ==
  /\ conn[c] = "reading" /\ Len(mailbox) < MaxPending /\ up
  /\ conn' = [conn EXCEPT ![c] = "sent"]
  /\ mailbox' = Append(mailbox, c)
  /\ sent' = Append(sent, c)
  /\ UNCHANGED <<told, pending, posted, installed, done>>

\* WakeSignal::request: the compare_exchange succeeds for one producer.
request(c) ==
  /\ conn[c] = "sent"
  /\ conn' = [conn EXCEPT ![c] = IF pending THEN "waiting" ELSE "won"]
  /\ pending' = TRUE
  /\ UNCHANGED <<told, mailbox, posted, installed, sent, done>>

\* The producer that won posts the wake, if the host has installed one.
wake(c) ==
  /\ conn[c] = "won"
  /\ conn' = [conn EXCEPT ![c] = "waiting"]
  /\ posted' = (posted \/ installed)
  /\ UNCHANGED <<told, mailbox, pending, installed, sent, done>>

receive(c) == conn[c] = "waiting" /\ c \in Elements(done) /\ Tell(c, "response")

\* Slip: the deadline is looked at before the channel.
timeout_first(c) == conn[c] = "waiting" /\ Tell(c, "timeout")

\* recv_timeout without an answer: the time is up, or the envelope was dropped.
timeout(c) == conn[c] = "waiting" /\ c \notin Elements(done) /\ Tell(c, "timeout")

\* The answer is written and the permit dropped.
close(c) ==
  /\ conn[c] = "writing"
  /\ conn' = [conn EXCEPT ![c] = "closed"]
  /\ UNCHANGED <<told, mailbox, pending, posted, installed, sent, done>>

\* Steps of a thread that does not block; receive waits for the host.
handle_ipc_connection(c, up) ==
  \/ reject(c) \/ try_send_fails(c, up) \/ try_send(c, up)
  \/ request(c) \/ wake(c) \/ receive(c) \/ timeout(c) \/ close(c)

Wakes(c) == request(c) \/ wake(c)

-----------------------------------------------------------------------------
MailboxType ==
  /\ conn \in [Connections -> States]
  /\ told \in [Connections -> Answers]
  /\ mailbox \in Seq(Connections) /\ Len(mailbox) <= MaxPending
  /\ Cardinality(Busy) <= MaxConnections
  /\ pending \in BOOLEAN /\ posted \in BOOLEAN /\ installed \in BOOLEAN
  /\ sent \in Seq(Connections) /\ done \in Seq(Connections)

\* What a client is told is true, whatever its thread, the host and the
\* timeout did in between: a response means that its request was executed, a
\* refusal that it never will be, and before the answer it is not lost.
AnswersAreTrue ==
  \A c \in Connections :
    /\ told[c] = "response" => c \in Elements(done)
    /\ told[c] \in {"invalid", "unavailable"} \/ conn[c] = "refused"
         => c \notin Elements(sent)
    /\ conn[c] \in {"sent", "won", "waiting"} => c \in Elements(sent)
=============================================================================
