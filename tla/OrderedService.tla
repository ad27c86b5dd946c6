--------------------------- MODULE OrderedService ---------------------------
(***************************************************************************)
(* What a host of requests promises its clients, whatever threads, wakes,  *)
(* batches and timeouts it is built from: a request is taken on once or    *)
(* never, those taken on are executed in order, one by one, and a client   *)
(* gets one verdict, which is true when it is given and, if it is a        *)
(* refusal, for ever.  A host that stops drops what it has taken on.       *)
(*                                                                         *)
(* The event loop of the window (GuiHost) and the loop of the headless     *)
(* server (ServerHost) both implement it.                                  *)
(***************************************************************************)
EXTENDS Naturals, Sequences

CONSTANT Clients   \* each with one request

VARIABLES
  queue,     \* requests taken on and not yet executed
  executed,  \* requests executed, in order
  verdict,   \* what each client was told
  open       \* does the host still run?

vars == <<queue, executed, verdict, open>>

Members(s) == {s[i] : i \in 1..Len(s)}

Init ==
  /\ queue = <<>> /\ executed = <<>>
  /\ verdict = [c \in Clients |-> "none"]
  /\ open = TRUE

Untouched(c) == verdict[c] = "none" /\ c \notin Members(queue) /\ c \notin Members(executed)

Accept(c) ==
  /\ open
  /\ Untouched(c)
  /\ queue' = Append(queue, c)
  /\ UNCHANGED <<executed, verdict, open>>

Execute ==
  /\ open
  /\ queue # <<>>
  /\ executed' = Append(executed, Head(queue))
  /\ queue' = Tail(queue)
  /\ UNCHANGED <<verdict, open>>

Tells(c, v) ==
  /\ verdict' = [verdict EXCEPT ![c] = v]
  /\ UNCHANGED <<queue, executed, open>>

\* Never taken on, and after this verdict never to be.
Refuse(c) == Untouched(c) /\ \E v \in {"invalid", "unavailable"} : Tells(c, v)

Respond(c) == verdict[c] = "none" /\ c \in Members(executed) /\ Tells(c, "response")

\* Not executed yet; it may be later, unless the host has stopped.
Expire(c) ==
  /\ verdict[c] = "none"
  /\ c \notin Members(executed)
  /\ open => c \in Members(queue)
  /\ Tells(c, "timeout")

Stop ==
  /\ open
  /\ open' = FALSE
  /\ queue' = <<>>
  /\ UNCHANGED <<executed, verdict>>

Next ==
  \/ \E c \in Clients : Accept(c) \/ Refuse(c) \/ Respond(c) \/ Expire(c)
  \/ Execute
  \/ Stop

Spec == Init /\ [][Next]_vars
=============================================================================
