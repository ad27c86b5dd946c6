------------------------------- MODULE GuiHost -------------------------------
(***************************************************************************)
(* The event loop of the Unix window as the host of a mailbox: it sleeps   *)
(* until an event arrives (PixelWindowDirective::Wait, without a timer),   *)
(* empties the mailbox when it handles a wake and once more before it      *)
(* sleeps.  A request must not be left behind in the mailbox while the     *)
(* loop sleeps: nothing but a wake is sure to end the sleep.               *)
(***************************************************************************)
EXTENDS Mailbox

guiVars == <<conn, told, mailbox, pending, posted, installed, sent, done, host>>

\* The handlers' drains, and where the loop goes when they are through.
Draining == {"event_draining", "idle_draining"}
Phases == {"opening", "event", "idle", "waiting"} \cup Draining

GuiInit == MailboxInit /\ host = "opening"

\* open_window installs the wake; requests may have come in before.
open_window ==
  /\ host = "opening"
  /\ installed' = TRUE
  /\ host' = "idle"
  /\ UNCHANGED <<conn, told, mailbox, pending, posted, sent, done>>

\* Slip: the flag is not reset.
drain_wake_and_pty_forgets ==
  /\ host \in {"event", "idle"}
  /\ host' = IF host = "event" THEN "event_draining" ELSE "idle_draining"
  /\ UNCHANGED mail

\* drain_wake_and_pty: first the flag ...
drain_wake_and_pty ==
  /\ host \in {"event", "idle"}
  /\ host' = IF host = "event" THEN "event_draining" ELSE "idle_draining"
  /\ pending' = FALSE
  /\ UNCHANGED <<conn, told, mailbox, posted, installed, sent, done>>

\* ... then request after request ...
handle_ipc ==
  /\ host \in Draining /\ mailbox # <<>>
  /\ done' = Append(done, Head(mailbox))
  /\ mailbox' = Tail(mailbox)
  /\ UNCHANGED <<conn, told, pending, posted, installed, sent, host>>

\* ... until try_recv finds nothing.
drained ==
  /\ host \in Draining /\ mailbox = <<>>
  /\ host' = IF host = "event_draining" THEN "idle" ELSE "waiting"
  /\ UNCHANGED mail

\* PixelWindowEvent::Wake
woken ==
  /\ host = "waiting" /\ posted
  /\ posted' = FALSE
  /\ host' = "event"
  /\ UNCHANGED <<conn, told, mailbox, pending, installed, sent, done>>

\* Input, redraws and timers; none of them has to come.
other_event ==
  /\ host = "waiting"
  /\ host' = "event"
  /\ UNCHANGED mail

GuiLoop == open_window \/ drain_wake_and_pty \/ handle_ipc \/ drained \/ woken

GuiNext ==
  \/ \E c \in Connections :
       /\ accept(c) \/ handle_ipc_connection(c, TRUE)
       /\ UNCHANGED host
  \/ GuiLoop
  \/ other_event

GuiSpec == GuiInit /\ [][GuiNext]_guiVars

\* Threads are scheduled, and the loop runs unless it sleeps.
GuiFairSpec == /\ GuiSpec
            /\ WF_guiVars(GuiLoop)
            /\ \A c \in Connections : WF_guiVars(Wakes(c) /\ UNCHANGED host)

-----------------------------------------------------------------------------
\* Types, and the bounds on threads and on the mailbox.
GuiTypeOK == MailboxType /\ host \in Phases

\* Every request that entered the mailbox is executed once, in the order of
\* entry, or still waits there.
GuiNothingLost == done \o mailbox = sent

\* "Already-queued work cannot be stranded": when the loop sleeps while the
\* mailbox is not empty, a wake event is on its way, or the thread of a request
\* is about to post one, however the coalescing of wakes went.
NoneStranded ==
  host = "waiting" /\ mailbox # <<>> =>
    posted \/ \E c \in Connections :
                conn[c] = "won" \/ (conn[c] = "sent" /\ ~pending)

\* The window is an ordered service of requests that never stops: a request is
\* in the queue from try_send to handle_ipc, and the verdicts of the threads
\* are those of the service although they are reached without its lock.
GuiService == INSTANCE OrderedService
             WITH Clients <- Connections, queue <- mailbox, executed <- done,
                  verdict <- told, open <- TRUE
GuiServesInOrder == GuiService!Spec

\* A request in the mailbox is executed although only a wake ends the sleep.
GuiServed == \A c \in Connections : c \in Elements(mailbox) ~> c \in Elements(done)
=============================================================================
