------------------------------ MODULE UiMirror ------------------------------
(***************************************************************************)
(* A GUI client that mirrors the server's workspace (src/ui_client.rs): it *)
(* takes a bootstrap snapshot and then applies delta batches, each built   *)
(* by the server (ui_delta_batch of src/control_dispatch.rs) from journal  *)
(* events and the *current* state of the tabs those events are about.  Any *)
(* error makes the client drop its model and connect anew.                 *)
(***************************************************************************)
EXTENDS Workspace

VARIABLES
  mirror,        \* the client's snapshot: [tabs, collapsed, active, position]
  link           \* "up", or "down": the client has dropped its model

mirror_vars == <<tabs, collapsed, active, next_id, saved, journal, killed, torn,
                 mirror, link>>

\* ui_bootstrap_snapshot: the collapsed flag is that of a tab.
Snapshot == [tabs |-> tabs, collapsed |-> collapsed \cap Ids, active |-> active,
             position |-> position(journal)]

NoMirror == [tabs |-> no_tabs, collapsed |-> {}, active |-> NoTab,
             position |-> [epoch |-> 0, sequence |-> 0]]

MirrorInit == WorkspaceInit /\ mirror = Snapshot /\ link = "up"

\* UiClientModel::connect
Connect ==
  /\ link = "down" /\ link' = "up" /\ UNCHANGED workspace
  /\ validate(tabs, active)
  /\ mirror' = Snapshot

-----------------------------------------------------------------------------
\* Slip: a closed tab is not reported.
ui_delta_batch_without_closed(events) ==
  LET affected == {events[i].about : i \in 1..Len(events)}
  IN  [updates |-> affected \cap Ids, closed |-> {},
       active |-> active,
       through |-> IF events = <<>> THEN mirror.position.sequence
                   ELSE events[Len(events)].sequence]

\* Post-state of the tabs the events are about, and the current active tab.
ui_delta_batch(events) ==
  LET affected == {events[i].about : i \in 1..Len(events)}
  IN  [updates |-> affected \cap Ids, closed |-> affected \ Ids,
       active |-> active,
       through |-> IF events = <<>> THEN mirror.position.sequence
                   ELSE events[Len(events)].sequence]

apply_delta(batch) ==
  LET kept == (DOMAIN mirror.tabs) \ batch.closed
  IN  [tabs |-> [t \in kept \cup batch.updates |->
                   IF t \in batch.updates THEN tabs[t] ELSE mirror.tabs[t]],
       collapsed |-> ((mirror.collapsed \cap kept) \ batch.updates)
                       \cup (collapsed \cap batch.updates),
       active |-> batch.active,
       position |-> [mirror.position EXCEPT !.sequence = batch.through]]

\* Slip: a batch that does not fit the model is left aside for the next poll.
poll_deltas_lenient(n) ==
  /\ link = "up" /\ UNCHANGED workspace
  /\ \E answer \in {read_after(journal, mirror.position.epoch, mirror.position.sequence, n)} :
     \E batch \in {ui_delta_batch(answer.events)} :
     \E after \in {apply_delta(batch)} :
       \/ /\ answer.code # "ok"
          /\ link' = "down" /\ mirror' = NoMirror
       \/ /\ answer.code = "ok"
          /\ mirror' = IF validate(after.tabs, after.active) THEN after ELSE mirror
          /\ UNCHANGED link

\* One round of poll_deltas.  The server sends the events after the client's
\* position, or fewer: up to the limit, and as many as fit the byte limit.  It
\* fails when not even one event and its tab do.
poll_deltas(n) ==
  /\ link = "up" /\ UNCHANGED workspace
  /\ \E answer \in {read_after(journal, mirror.position.epoch, mirror.position.sequence, n)} :
     \E batch \in {ui_delta_batch(answer.events)} :
     \E after \in {apply_delta(batch)} :
       \/ /\ \/ answer.code # "ok"
             \/ answer.code = "ok" /\ n = 1 /\ answer.events # <<>>
             \/ answer.code = "ok" /\ ~validate(after.tabs, after.active)
          /\ link' = "down" /\ mirror' = NoMirror
       \/ /\ answer.code = "ok" /\ validate(after.tabs, after.active)
          /\ mirror' = after
          /\ UNCHANGED link

\* More than the journal holds is never sent.
Limits == 1..capacity

MirrorNext ==
  \/ WorkspaceNext /\ UNCHANGED <<mirror, link>>
  \/ Connect
  \/ \E n \in Limits : poll_deltas(n)

MirrorSpec == MirrorInit /\ [][MirrorNext]_mirror_vars

\* The timer of the client keeps calling tick, which polls while the client is
\* connected and otherwise connects.
tick == Connect \/ \E n \in Limits : poll_deltas(n)

MirrorFairSpec == MirrorSpec /\ WF_mirror_vars(tick)

-----------------------------------------------------------------------------
\* A connected client that has seen every event shows exactly the server's
\* tabs, tree, flags and active tab: no change of the server escapes the
\* events without at least being noticed as an invalid snapshot.  The one
\* exception is kill-session and kill-server, which announce nothing.
MirrorExact ==
  link = "up" /\ mirror.position = position(journal) => killed \/ mirror = Snapshot

\* The client always gets back in step with the server, whatever made it drop
\* its model, unless the server is about to stop or refuses its own snapshot.
InStepAgain ==
  []<>(killed \/ ~validate(tabs, active) \/ (link = "up" /\ mirror = Snapshot))
=============================================================================
