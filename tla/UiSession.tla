------------------------------ MODULE UiSession ------------------------------
(***************************************************************************)
(* GUI clients and requesters at work on the relay of one server.  A       *)
(* client attaches, renews its lease, publishes its projection, polls one  *)
(* command at a time, carries it out and completes it (src/ui_client.rs,   *)
(* driven by tick and process_client_command of the Windows frontend); it  *)
(* may crash, and every answer of the server to it may be lost, which the  *)
(* code treats as a failed call.  Requesters queue commands and collect    *)
(* their results.                                                          *)
(***************************************************************************)
EXTENDS UiRelay

CONSTANTS
  RequestKinds,    \* the kinds of commands that are requested
  MaxRequests,     \* bound: requests queued in a run
  MaxLeases        \* bound: leases granted in a run

ASSUME SessionAssumption == RequestKinds \subseteq Kinds /\ MaxRequests \in Nat /\ MaxLeases \in Nat

VARIABLES
  server,
  alive,           \* the client processes that run
  held,            \* per client, the id of the lease it believes to hold, or 0
  got,             \* per client, the command it polled and the response it gives
  asked,           \* history: per request, its kind and the command id it was given
  effects,         \* history: per request, how often the server carried it out
  seen             \* history: per request, the answers its requester collected

vars == <<server, alive, held, got, asked, effects, seen>>

Requests == 1..MaxRequests
Nothing == [command |-> [id |-> 0, req |-> 0], response |-> "none"]
KindOf(command) == asked[command.req].kind

Init ==
  /\ server = NewServer /\ alive = Clients
  /\ held = [c \in Clients |-> 0]
  /\ got = [c \in Clients |-> Nothing]
  /\ asked = <<>>
  /\ effects = [n \in Requests |-> 0]
  /\ seen = [n \in Requests |-> {}]

Running(c) == c \in alive /\ ~server.shutdown
Idle(c) == Running(c) /\ got[c] = Nothing
Owner(c) == verify_owner(server, held[c], c)

-----------------------------------------------------------------------------
\* connect: the answer may be lost, and the table may be full.
connect(c, delivered) ==
  /\ Idle(c) /\ held[c] = 0 /\ server.next_lease <= MaxLeases
  /\ server' = attach(reap_stale_ui_lease(server, alive), c)
  /\ held' = [held EXCEPT ![c] = IF delivered THEN LeaseOf(server', c) ELSE 0]
  /\ UNCHANGED <<alive, got, asked, effects, seen>>

\* maintain_lease_if_due, acknowledge_observed and every ui-interact: a client
\* that is told that its lease is gone, or is told nothing, connects anew.
maintain_lease(c, delivered) ==
  /\ Idle(c) /\ held[c] # 0
  /\ LET reaped == reap_stale_ui_lease(server, alive)
         valid == verify_owner(reaped, held[c], c)
     IN /\ server' = IF valid THEN heartbeat(reaped, held[c]) ELSE reaped
        /\ held' = [held EXCEPT ![c] = IF valid /\ delivered THEN @ ELSE 0]
  /\ UNCHANGED <<alive, got, asked, effects, seen>>

publish_snapshot(c, visible) ==
  /\ Idle(c) /\ Owner(c)
  /\ server' = [server EXCEPT !.snapshot = [lease |-> held[c], visible |-> visible]]
  /\ UNCHANGED <<alive, held, got, asked, effects, seen>>

\* Slip: only the owner of the projection is given commands.
poll_client_command_owner(c, delivered) ==
  /\ Idle(c) /\ Owner(c) /\ server.pending # <<>> /\ server.snapshot.lease = held[c]
  /\ server' = poll(server)
  /\ got' = IF delivered THEN [got EXCEPT ![c].command = Head(server.pending)] ELSE got
  /\ UNCHANGED <<alive, held, asked, effects, seen>>

poll_client_command(c, delivered) ==
  /\ Idle(c) /\ Owner(c) /\ server.pending # <<>>
  /\ server' = poll(server)
  /\ got' = IF delivered THEN [got EXCEPT ![c].command = Head(server.pending)] ELSE got
  /\ UNCHANGED <<alive, held, asked, effects, seen>>

\* Slip: the answer of the preapply is not looked up.
apply_client_command_again(c) ==
  /\ Running(c) /\ got[c] # Nothing /\ got[c].response = "none"
  /\ requires_server_preapply(KindOf(got[c].command))
  /\ Owner(c) /\ got[c].command \in server.in_flight
  /\ effects' = [effects EXCEPT ![got[c].command.req] = IF @ = 2 THEN 2 ELSE @ + 1]
  /\ UNCHANGED <<server, alive, held, got, asked, seen>>

\* The client asks the server to apply the command: answered from preapplied,
\* carried out if it is not there.
apply_client_command(c) ==
  /\ Running(c) /\ got[c] # Nothing /\ got[c].response = "none"
  /\ requires_server_preapply(KindOf(got[c].command))
  /\ Owner(c) /\ got[c].command \in server.in_flight
  /\ effects' = IF got[c].command.id \in server.preapplied THEN effects
                ELSE [effects EXCEPT ![got[c].command.req] = @ + 1]
  /\ UNCHANGED <<server, alive, held, got, asked, seen>>

\* One try of complete_client_command; a retry repeats the response.  A
\* client that closes its window exits once the completion is acknowledged.
complete_client_command(c, response, failing, delivered) ==
  /\ Running(c) /\ got[c] # Nothing
  /\ got[c].response \in {"none", response} /\ response \in Responses(KindOf(got[c].command))
  /\ failing <= Stamps(KindOf(got[c].command), response)
  /\ UNCHANGED <<held, asked, effects, seen>>
  /\ \E command \in {got[c].command}, kind \in {KindOf(got[c].command)} :
     \E accepted \in {Owner(c) /\ can_complete(server, command, response)} :
     \E acknowledged \in {accepted /\ failing = 0 /\ delivered} :
        /\ got' = [got EXCEPT ![c] = IF acknowledged THEN Nothing
                                     ELSE [@ EXCEPT !.response = response]]
        /\ alive' = IF acknowledged /\ Closes(kind, response) THEN alive \ {c} ELSE alive
        /\ server' = IF accepted
                     THEN execute_complete(server, held[c], command, kind, response, failing) ELSE server

\* The third try has failed; tick reports the error and goes on.
give_up(c) ==
  /\ Running(c) /\ got[c].response # "none"
  /\ got' = [got EXCEPT ![c] = Nothing]
  /\ UNCHANGED <<server, alive, held, asked, effects, seen>>

\* The window is closed by its user.
detach(c) ==
  /\ Idle(c) /\ held[c] # 0
  /\ LET reaped == reap_stale_ui_lease(server, alive)
     IN server' = IF verify_owner(reaped, held[c], c) THEN Released(reaped, {held[c]}) ELSE reaped
  /\ alive' = alive \ {c} /\ held' = [held EXCEPT ![c] = 0]
  /\ UNCHANGED <<got, asked, effects, seen>>

crash(c) ==
  /\ Running(c)
  /\ alive' = alive \ {c}
  /\ held' = [held EXCEPT ![c] = 0] /\ got' = [got EXCEPT ![c] = Nothing]
  /\ UNCHANGED <<server, asked, effects, seen>>

\* UI_LEASE_TTL_MS pass without a renewal.
expire(l) ==
  /\ l \in server.leases /\ ~l.expired /\ ~server.shutdown
  /\ server' = [server EXCEPT !.leases = (@ \ {l}) \union {[l EXCEPT !.expired = TRUE]}]
  /\ UNCHANGED <<alive, held, got, asked, effects, seen>>

-----------------------------------------------------------------------------
\* A request with no client attached, with no visible window to hand over to,
\* or with a full queue, is refused; the reaping has happened.  The preapply is
\* recorded, or refused, or carried out with an answer too long to record, and
\* then the command is discarded too.
enqueue_ui_client_command(kind, preapply) ==
  /\ ~server.shutdown /\ Len(asked) < MaxRequests
  /\ LET reaped == reap_stale_ui_lease(server, alive)
         n == Len(asked) + 1
         taken == /\ reaped.leases # {}
                  /\ kind = "handoff" => reaped.snapshot.visible
                  /\ room(reaped)
         queued == taken /\ (requires_server_preapply(kind) => preapply = "recorded")
     IN /\ server' = IF queued THEN enqueue(reaped, n, kind)
                     ELSE IF taken THEN enqueue_discarded(reaped) ELSE reaped
        /\ asked' = IF taken
                    THEN Append(asked, [kind |-> kind, id |-> IF queued THEN reaped.next_id ELSE 0])
                    ELSE asked
        /\ effects' = IF taken /\ requires_server_preapply(kind) /\ preapply # "refused"
                      THEN [effects EXCEPT ![n] = 1] ELSE effects
  /\ UNCHANGED <<alive, held, got, seen>>

\* What a requester reads, without the event position in it.
AnswerOf(entry) == [req |-> entry.req, response |-> entry.response]

\* await_ui_client_relay: one look at the result.
await_ui_client_relay(n) ==
  /\ ~server.shutdown /\ n \in DOMAIN asked /\ asked[n].id # 0
  /\ Completed(server, asked[n].id) # {}
  /\ server' = execute_result(server, asked[n].id)
  /\ seen' = [seen EXCEPT ![n] = @ \union
       {AnswerOf(server.completed[i]) : i \in Completed(server, asked[n].id)}]
  /\ UNCHANGED <<alive, held, got, asked, effects>>

-----------------------------------------------------------------------------
Client(c) ==
  \/ \E delivered \in BOOLEAN :
       \/ connect(c, delivered) \/ maintain_lease(c, delivered)
       \/ poll_client_command(c, delivered)
       \/ \E response \in {"visible", "hidden", "output", "failed"}, failing \in 0..2 :
            complete_client_command(c, response, failing, delivered)
  \/ \E visible \in BOOLEAN : publish_snapshot(c, visible)
  \/ apply_client_command(c) \/ give_up(c) \/ detach(c) \/ crash(c)

Next ==
  \/ \E c \in Clients : Client(c)
  \/ \E l \in server.leases : expire(l)
  \/ \E kind \in RequestKinds, preapply \in {"recorded", "refused", "unrecorded"} :
       enqueue_ui_client_command(kind, preapply)
  \/ \E n \in Requests : await_ui_client_relay(n)

Spec == Init /\ [][Next]_vars

\* The timer of a window keeps calling tick, which polls when it holds nothing
\* and otherwise finishes what it holds within three tries.
FairSpec ==
  /\ Spec
  /\ \A c \in Clients :
       /\ WF_vars(poll_client_command(c, TRUE))
       /\ WF_vars(\E response \in Responses("local") :
                    complete_client_command(c, response, 0, TRUE) \/ give_up(c))

-----------------------------------------------------------------------------
Queued == {m.id : m \in Range(server.pending)}
InFlight == {m.id : m \in server.in_flight}
Finished == {m.id : m \in Range(server.completed)}

\* A relayed command is at one place only, whoever polled, completed, gave up
\* or left (UiClientCommandQueue keeps four collections that have to agree):
\* waiting, in flight or completed, and once there; a preapplied answer is
\* kept exactly as long as it may be asked for.  And a client has one lease.
OneFate ==
  /\ Queued \intersect InFlight = {} /\ Finished \intersect (Queued \union InFlight) = {}
  /\ \A i, j \in DOMAIN server.pending : server.pending[i].id = server.pending[j].id => i = j
  /\ \A m, k \in server.in_flight : m.id = k.id => m = k
  /\ \A i, j \in DOMAIN server.completed :
       server.completed[i].id = server.completed[j].id => i = j
  /\ server.preapplied \subseteq Queued \union InFlight
  /\ \A l, k \in server.leases : l.id = k.id \/ l.client = k.client => l = k

\* Whoever asks for a result by its command id gets the answer to its own
\* request and, if it asks again, the same answer up to the event position in
\* it, also when the queue was cleared and filled again or the completion was
\* repeated in between.
OwnResult ==
  \A n \in Requests :
    /\ \A r \in seen[n] : r.req = n
    /\ \A r, s \in seen[n] : r = s

\* The server carries out a preapplied command when it is queued and never
\* again, whatever the client that polled it does (apply in server_app.rs), and
\* one that was refused at most once.
AppliedOnce ==
  \A n \in DOMAIN asked :
    effects[n] \in IF ~requires_server_preapply(asked[n].kind) THEN {0}
                   ELSE IF asked[n].id # 0 THEN {1} ELSE {0, 1}

\* The last window.visibility event says whether a GUI is attached; the event
\* is committed at four places (attach, detach, complete --detach, reaping).
VisibilityTruth == server.visibility <=> server.leases # {}

Attached(c) == c \in alive /\ Owner(c)

Waits(n) == \E m \in Range(server.pending) : m.req = n

\* If some client stays attached, whatever becomes of the others, a queued
\* command does not wait for ever: it is taken by someone or dropped with the
\* queue, even if the lease table also names dead clients.
Taken ==
  (\E c \in Clients : <>[](Attached(c) /\ ~server.shutdown))
    => \A n \in Requests : Waits(n) ~> ~Waits(n)
=============================================================================
