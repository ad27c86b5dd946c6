------------------------------- MODULE UiRelay -------------------------------
(***************************************************************************)
(* What the server keeps about its GUI clients: the leases                 *)
(* (src/ui_lease.rs), the projection one of them published, and the queue  *)
(* of commands relayed to them (src/ui_command.rs), with the handlers of   *)
(* src/server_app.rs that change them.  The server is a record and every   *)
(* handler a function of it, so that a handler that first reaps stale      *)
(* leases is a composition.                                                *)
(*                                                                         *)
(* A lease is [id, client, expired]; expired stands for expires_unix_ms <= *)
(* now.  The table is a set: only a status report looks at its order.      *)
(* Time is not modelled otherwise: any set of live clients can let its     *)
(* leases expire while the others renew theirs.                            *)
(*                                                                         *)
(* A command is [id, req]: id is the command_id the server gave it, req    *)
(* the number of the request it came from, which the code does not have;   *)
(* it tells requests apart even where ids would not.                       *)
(***************************************************************************)
EXTENDS Integers, Sequences, FiniteSets, Functions

CONSTANTS
  Clients,         \* GUI processes
  MaxClients,      \* UI_LEASE_MAX_CLIENTS, 16 in the code
  QueueLimit       \* UI_CLIENT_COMMAND_QUEUE_LIMIT, 64 in the code

ASSUME RelayAssumption == MaxClients \in Nat \ {0} /\ QueueLimit \in Nat \ {0}

\* What a requester can ask for.  "applied": the server carries it out and the
\* client follows (focus, select-tab, new-tab...); "local": only the client
\* can (screenshot, settings...); "handoff": __focus and __show-no-activate;
\* "keep" and "stop" close the window and keep or stop the server.
Kinds == {"local", "applied", "handoff", "keep", "stop"}

requires_server_preapply(kind) == kind = "applied"

\* The projections in an answer ("visible", "hidden") are installed as the
\* client's snapshot; "output" is any other success.
Responses(kind) ==
  {"failed", "hidden"} \union (IF kind \in {"keep", "stop"} THEN {} ELSE {"visible"})
                       \union (IF kind = "local" THEN {"output"} ELSE {})

Projection(response) == response \in {"visible", "hidden"}

\* --detach goes with the completion of a command that closes the window.
Closes(kind, response) == kind \in {"keep", "stop"} /\ response # "failed"

NoSnapshot == [lease |-> 0, visible |-> FALSE]

NewServer ==
  [leases |-> {}, next_lease |-> 1, snapshot |-> NoSnapshot,
   pending |-> <<>>, in_flight |-> {}, preapplied |-> {}, completed |-> <<>>, next_id |-> 1,
   shutdown_after |-> 0, shutdown |-> FALSE,
   visibility |-> FALSE]       \* the last window.visibility event of the journal

-----------------------------------------------------------------------------
verify_owner(s, id, c) == \E l \in s.leases : l.id = id /\ l.client = c

Renewed(leases, ids) ==
  {IF l.id \in ids THEN [l EXCEPT !.expired = FALSE] ELSE l : l \in leases}

\* Slip: the queue starts over with the number of its first command.
clear_active_renumbers(s) ==
  [s EXCEPT !.pending = <<>>, !.in_flight = {}, !.preapplied = {}, !.next_id = 1]

clear_active(s) == [s EXCEPT !.pending = <<>>, !.in_flight = {}, !.preapplied = {}]

\* The whole queue is cleared, but only by the owner of the projection.
clear_ui_client_snapshot_for(s, id) ==
  IF s.snapshot.lease = id THEN [clear_active(s) EXCEPT !.snapshot = NoSnapshot] ELSE s

\* Leases are taken away and their end published.
Released(s, ids) ==
  LET t == IF s.snapshot.lease \in ids THEN clear_ui_client_snapshot_for(s, s.snapshot.lease) ELSE s
      kept == {l \in s.leases : l.id \notin ids}
  IN [t EXCEPT !.leases = kept,
               !.visibility = IF ids # {} /\ kept = {} THEN FALSE ELSE @]

reap_stale(s, alive) == {l.id : l \in {k \in s.leases : k.expired \/ k.client \notin alive}}

\* Slip: the window event is only published by an explicit detach.
reap_stale_ui_lease_silent(s, alive) ==
  [Released(s, reap_stale(s, alive)) EXCEPT !.visibility = s.visibility]

reap_stale_ui_lease(s, alive) == Released(s, reap_stale(s, alive))

OwnLeases(s, c) == {l \in s.leases : l.client = c}

Granted(s, c) ==
  [s EXCEPT !.leases = @ \union {[id |-> s.next_lease, client |-> c, expired |-> FALSE]},
            !.next_lease = @ + 1, !.visibility = TRUE]

\* A lease of the same client is renewed; the table may be full.
attach(s, c) ==
  IF OwnLeases(s, c) # {} THEN [s EXCEPT !.leases = Renewed(@, {l.id : l \in OwnLeases(s, c)})]
  ELSE IF Cardinality(s.leases) >= MaxClients THEN s ELSE Granted(s, c)

\* The lease in the grant; 0 when attach has refused.
LeaseOf(s, c) ==
  IF OwnLeases(s, c) # {} THEN (CHOOSE l \in OwnLeases(s, c) : TRUE).id ELSE 0

heartbeat(s, id) == [s EXCEPT !.leases = Renewed(@, {id})]

-----------------------------------------------------------------------------
room(s) == Len(s.pending) + Cardinality(s.in_flight) < QueueLimit

enqueue(s, req, kind) ==
  [s EXCEPT !.pending = Append(@, [id |-> s.next_id, req |-> req]),
            !.next_id = @ + 1,
            !.preapplied = IF requires_server_preapply(kind) THEN @ \union {s.next_id} ELSE @]

\* discard_pending: the preapply was refused, only the number is used up.
enqueue_discarded(s) == [s EXCEPT !.next_id = @ + 1]

\* Slip: the command stays in the queue until it is completed.
poll_keeps(s) == [s EXCEPT !.in_flight = @ \union {Head(s.pending)}]

poll(s) == [s EXCEPT !.pending = Tail(@), !.in_flight = @ \union {Head(s.pending)}]

Completed(s, id) == {i \in DOMAIN s.completed : s.completed[i].id = id}

Trimmed(q) == IF Len(q) > QueueLimit THEN Tail(q) ELSE q

\* UiClientCommandQueue::complete of a command in flight.  `stamped`: the
\* server has put its own event position into the stored response.
complete(s, command, response) ==
  [s EXCEPT !.in_flight = @ \ {command}, !.preapplied = @ \ {command.id},
            !.completed = Trimmed(Append(@, [id |-> command.id, req |-> command.req,
                                             response |-> response, stamped |-> FALSE]))]

\* replace_completed: the stored response with the event position of now, which
\* is later each time; that difference is not modelled.
Stamped(s, id) ==
  [s EXCEPT !.completed =
     [i \in DOMAIN @ |-> IF @[i].id = id
                        THEN [@[i] EXCEPT !.stamped = TRUE] ELSE @[i]]]

\* A projection is stamped, and once more after a detach.
Stamps(kind, response) ==
  IF Projection(response) THEN IF Closes(kind, response) THEN 2 ELSE 1 ELSE 0

\* In flight, or a replay of the completion with the same response.
can_complete(s, command, response) ==
  IF Completed(s, command.id) # {}
  THEN \A i \in Completed(s, command.id) : s.completed[i].response = response
  ELSE command \in s.in_flight

\* ui-client-command complete, of a command in flight or again: --detach for
\* "keep" and "stop", --shutdown-after-result for "stop"; a projection in the
\* answer becomes the snapshot, after the detach.  A stamped response may be
\* over the byte budget: at that stamp, `failing` if it is not 0, the handler
\* fails with what it has done so far.
execute_complete(s, lease, command, kind, response, failing) ==
  LET done == IF command \in s.in_flight THEN complete(s, command, response) ELSE s
      first == IF Projection(response) THEN Stamped(done, command.id) ELSE done
      left == IF Closes(kind, response) THEN Released(first, {lease}) ELSE first
      again == IF Closes(kind, response) THEN Stamped(left, command.id) ELSE left
  IN IF failing = 0
     THEN [again EXCEPT
             !.shutdown_after = IF Closes(kind, response) /\ kind = "stop" THEN command.id ELSE @,
             !.snapshot = IF Projection(response)
                          THEN [lease |-> lease, visible |-> response = "visible"] ELSE @]
     ELSE IF failing = 1 THEN done ELSE left

result(s, id) ==
  IF Completed(s, id) # {} THEN s.completed[CHOOSE i \in Completed(s, id) : TRUE].response
  ELSE IF \E m \in s.in_flight : m.id = id THEN "in_flight"
  ELSE IF \E m \in Range(s.pending) : m.id = id THEN "pending"
  ELSE "unknown"

\* A requester that collects the awaited result stops the server.
execute_result(s, id) ==
  IF Completed(s, id) # {} /\ s.shutdown_after = id
  THEN [s EXCEPT !.shutdown_after = 0, !.shutdown = TRUE] ELSE s
=============================================================================
