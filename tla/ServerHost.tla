----------------------------- MODULE ServerHost -----------------------------
(***************************************************************************)
(* The loop of the headless server as the host of a mailbox (run_server    *)
(* and drain of src/server_app.rs): every tick it takes at most Budget     *)
(* envelopes, executes all of them, and sleeps.  The wake is never         *)
(* installed; the tick alone keeps the loop going.  A shutdown request     *)
(* stops the loop after the batch that holds it.                           *)
(***************************************************************************)
EXTENDS Mailbox

CONSTANTS
  Budget,        \* IPC_REQUESTS_PER_TICK, 16 in the code
  Shutdowns      \* the connections whose request is shutdown

ASSUME ServerAssumption == Budget \in Nat \ {0} /\ Shutdowns \subseteq Connections

VARIABLE
  batch          \* the envelopes collected in this drain

serverVars == <<conn, told, mailbox, pending, posted, installed, sent, done, host, batch>>

Up == host # "stopped"

ServerInit == MailboxInit /\ host = "tick" /\ batch = <<>>

drain ==
  /\ host = "tick"
  /\ pending' = FALSE
  /\ host' = "taking"
  /\ UNCHANGED <<conn, told, mailbox, posted, installed, sent, done, batch>>

\* try_iter().take(IPC_REQUESTS_PER_TICK), one envelope at a time
take ==
  /\ host = "taking" /\ mailbox # <<>> /\ Len(batch) < Budget
  /\ batch' = Append(batch, Head(mailbox))
  /\ mailbox' = Tail(mailbox)
  /\ UNCHANGED <<conn, told, pending, posted, installed, sent, done, host>>

\* rearm_if(budget_exhausted) sets the flag; its result is not used.
collected ==
  /\ host = "taking" /\ (mailbox = <<>> \/ Len(batch) = Budget)
  /\ host' = IF Len(batch) = Budget THEN "rearming" ELSE "executing"
  /\ UNCHANGED <<conn, told, mailbox, pending, posted, installed, sent, done, batch>>

Executing == {"executing", "rearming"}

\* The for loop: execute, answer, next; a shutdown does not leave it.
execute_request ==
  /\ host \in Executing /\ batch # <<>>
  /\ done' = Append(done, Head(batch))
  /\ batch' = Tail(batch)
  /\ UNCHANGED <<conn, told, mailbox, pending, posted, installed, sent, host>>

shutdown_requested == Elements(done) \cap Shutdowns # {}

\* Slip: the loop waits to be woken, and an exhausted budget does not count.
tick_without_rearm ==
  /\ host \in Executing /\ batch = <<>>
  /\ pending \/ shutdown_requested
  /\ host' = IF shutdown_requested THEN "stopped" ELSE "tick"
  /\ mailbox' = IF shutdown_requested THEN <<>> ELSE mailbox
  /\ UNCHANGED <<conn, told, pending, posted, installed, sent, done, batch>>

\* The drain is over: the next tick, or the end of the loop, where the receiver
\* is dropped with whatever the mailbox holds.
tick ==
  /\ host \in Executing /\ batch = <<>>
  /\ host' = IF shutdown_requested THEN "stopped" ELSE "tick"
  /\ pending' = (pending \/ host = "rearming")
  /\ mailbox' = IF shutdown_requested THEN <<>> ELSE mailbox
  /\ UNCHANGED <<conn, told, posted, installed, sent, done, batch>>

\* The process exits: the threads still running go down with it, their clients
\* see the connection end.
Exit ==
  /\ host = "stopped" /\ Busy # {}
  /\ conn' = [c \in Connections |-> IF c \in Busy THEN "closed" ELSE conn[c]]
  /\ UNCHANGED <<told, mailbox, pending, posted, installed, sent, done, host, batch>>

ServerLoop == drain \/ take \/ collected \/ execute_request \/ tick

ServerNext ==
  \/ \E c \in Connections :
       /\ accept(c) \/ handle_ipc_connection(c, Up)
       /\ UNCHANGED <<host, batch>>
  \/ ServerLoop
  \/ Exit

ServerSpec == ServerInit /\ [][ServerNext]_serverVars

\* run_server loops until the shutdown; threads are scheduled.
ServerFairSpec ==
  /\ ServerSpec
  /\ WF_serverVars(ServerLoop)
  /\ \A c \in Connections :
       WF_serverVars((Wakes(c) \/ receive(c) \/ close(c)) /\ UNCHANGED <<host, batch>>)

-----------------------------------------------------------------------------
\* Types, and the bounds on threads, mailbox and batch.
ServerTypeOK ==
  /\ MailboxType
  /\ host \in {"tick", "taking", "stopped"} \cup Executing
  /\ batch \in Seq(Connections) /\ Len(batch) <= Budget

\* Requests are executed once each and in the order in which they entered the
\* mailbox, although they move through it and a batch; until the end nothing
\* that entered is lost, and a stopped server has executed a prefix.
ServerNothingLost ==
  IF Up THEN (done \o batch) \o mailbox = sent
  ELSE \A i \in 1..Len(done) : done[i] = sent[i]

\* The server is an ordered service of requests that stops once: its queue is
\* what the batch and the mailbox hold together, and the end of the loop drops
\* both and turns away whoever comes later.
ServerService == INSTANCE OrderedService
             WITH Clients <- Connections, queue <- batch \o mailbox, executed <- done,
                  verdict <- told, open <- Up
ServerServesInOrder == ServerService!Spec

\* A request that was taken into the mailbox is executed unless a shutdown is
\* executed before it, however much keeps coming in.
ServerServed ==
  \A c \in Connections :
    c \in Elements(mailbox) ~> c \in Elements(done) \/ ~Up
=============================================================================
