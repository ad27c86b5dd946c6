--------------------------- MODULE ServerLifecycle ---------------------------
(***************************************************************************)
(* The lives of the servers of one logical instance, the registry that     *)
(* lists them (instances.rs), and the windows that attach to them, start   *)
(* one when there is none and start another when theirs has crashed, but   *)
(* not when it was stopped on purpose (frontend_server.rs and the tick of  *)
(* the remote frontend).                                                   *)
(*                                                                         *)
(* There is one endpoint, which the operating system gives to one listener *)
(* at a time.  Process ids are used again.  A server is numbered by its    *)
(* incarnation, which stands for the start identity, nonce and epoch in    *)
(* its record; a chassis image is what client and server must agree on.    *)
(***************************************************************************)
EXTENDS Integers

CONSTANTS
  Guis,        \* the windows
  Images,      \* chassis images
  Pids,        \* process ids of servers
  own,         \* own[g]: the image of a window
  MaxServers,  \* bound: server processes ever started
  None

ASSUME LifecycleAssumption ==
  /\ MaxServers \in Nat
  /\ own \in [Guis -> Images]
  /\ Images # {} /\ Pids # {}
  /\ None \notin Pids \cup Images

Servers == 1..MaxServers

VARIABLES
  life,       \* life[s]: unborn, new, bound, registered, serving, stopping, left, dead
  pid,        \* pid[s], None before it starts
  image,      \* image[s], None when it does not run
  records,    \* the servers with a registration file
  marker,     \* the process id in the shutdown marker, or None
  pruned,     \* list-instances --prune removed a record, and not yet the marker
  pc,         \* pc[g]: off, launch, discover, start, ready, check, attach,
              \*        verify, attached, lost, recover
  trying,     \* trying[g]: is this the first connect, or a reconnect?
  lease,      \* lease[g]: the server it attached to last, 0 for none
  suppressed, \* suppressed[g]: server_restart_suppressed
  stopped,    \* history: the servers told to stop
  told        \* history: the windows that were attached when their server was
              \* told to stop, and nothing has lifted that since

servervars == <<life, pid, image>>
guivars == <<pc, trying, lease, suppressed>>
vars == <<servervars, records, marker, pruned, guivars, stopped, told>>

Alive(s) == life[s] \notin {"unborn", "dead"}
Born == {s \in Servers : life[s] # "unborn"}

\* The server that holds the endpoint, and the one whose loop runs.
Listening == {s \in Servers : life[s] \in {"bound", "registered", "serving", "stopping"}}
Serving == {s \in Servers : life[s] = "serving"}

\* A server that was told to stop still answers the rest of its batch.
Answering == {s \in Servers : life[s] \in {"serving", "stopping"}}
Occupied == Listening # {}

Init ==
  /\ life = [s \in Servers |-> "unborn"]
  /\ pid = [s \in Servers |-> None] /\ image = [s \in Servers |-> None]
  /\ records = {} /\ marker = None /\ pruned = FALSE
  /\ pc = [g \in Guis |-> "off"] /\ trying = [g \in Guis |-> "first"]
  /\ lease = [g \in Guis |-> 0] /\ suppressed = [g \in Guis |-> FALSE]
  /\ stopped = {} /\ told = {}

-----------------------------------------------------------------------------
(***************************************************************************)
(* A server: run_server and ServerState::new.                              *)
(***************************************************************************)
\* A new process with an image and a process id that no live server has.
Spawned(i) ==
  \E s \in Servers, p \in Pids :
    /\ life[s] = "unborn" /\ \A t \in Servers : t < s => life[t] # "unborn"
    /\ \A t \in Servers : Alive(t) => pid[t] # p
    /\ pid' = [pid EXCEPT ![s] = p]
    /\ image' = [image EXCEPT ![s] = i]
    /\ life' = [life EXCEPT ![s] = "new"]

Becomes(s, l) ==
  /\ life' = [life EXCEPT ![s] = l]
  /\ image' = [image EXCEPT ![s] = IF l = "dead" THEN None ELSE @]
  /\ UNCHANGED pid

\* The user, or a command, starts a server.
LaunchServer ==
  /\ \E i \in Images : Spawned(i)
  /\ UNCHANGED <<records, marker, pruned, guivars, stopped, told>>

\* start_ipc_server: the endpoint is taken, or the process ends.
Bind(s) ==
  /\ life[s] = "new"
  /\ Becomes(s, IF Occupied THEN "dead" ELSE "bound")
  /\ UNCHANGED <<records, marker, pruned, guivars, stopped, told>>

\* Slip: a record is stale when its server does not answer.
Stale_silent(s) == life[s] # "serving"

\* registration_owner_state: the process is gone, or its id belongs to another.
Stale(s) == ~Alive(s)

\* Slip: an old marker is left where it is.
MarkersRemoved_kept == UNCHANGED <<marker, told>>

\* remove_intentional_shutdown_markers
MarkersRemoved == marker' = None /\ told' = {}

\* register_typed_instance, prune_replaced_stale_registrations.
Register(s) ==
  /\ life[s] = "bound"
  /\ Becomes(s, "registered")
  /\ MarkersRemoved
  /\ records' = {t \in records : pid[t] = pid[s] \/ ~Stale(t)} \cup {s}
  /\ UNCHANGED <<pruned, guivars, stopped>>

\* The terminals are restored and the loop runs.
Serve(s) ==
  /\ life[s] = "registered"
  /\ Becomes(s, "serving")
  /\ UNCHANGED <<records, marker, pruned, guivars, stopped, told>>

\* shutdown, kill-server: the intent is on disk before the loop ends.
Shutdown(s) ==
  /\ life[s] = "serving"
  /\ Becomes(s, "stopping")
  /\ marker' = pid[s]
  /\ stopped' = stopped \cup {s}
  /\ told' = told \cup {g \in Guis : pc[g] = "attached" /\ lease[g] = s}
  /\ UNCHANGED <<records, pruned, guivars>>

\* The fields are dropped in their order: the listener, then the registration.
Leave(s) ==
  /\ life[s] = "stopping"
  /\ Becomes(s, "left")
  /\ UNCHANGED <<records, marker, pruned, guivars, stopped, told>>

Unregister(s) ==
  /\ life[s] = "left"
  /\ Becomes(s, "dead")
  /\ records' = records \ {s}
  /\ UNCHANGED <<marker, pruned, guivars, stopped, told>>

Crash(s) ==
  /\ Alive(s)
  /\ Becomes(s, "dead")
  /\ UNCHANGED <<records, marker, pruned, guivars, stopped, told>>

-----------------------------------------------------------------------------
(***************************************************************************)
(* list-instances --prune.                                                 *)
(***************************************************************************)
\* cleanup_instance: the record of a dead server goes, then the marker of its
\* scope.  A record is looked at again before it is removed, so that when it
\* was first seen does not matter.
PruneRecord ==
  /\ ~pruned
  /\ \E s \in records :
       /\ Stale(s)
       /\ records' = records \ {s}
  /\ pruned' = TRUE
  /\ UNCHANGED <<servervars, marker, guivars, stopped, told>>

PruneMarkers ==
  /\ pruned
  /\ pruned' = FALSE
  /\ MarkersRemoved
  /\ UNCHANGED <<servervars, records, guivars, stopped>>

-----------------------------------------------------------------------------
(***************************************************************************)
(* A window.                                                               *)
(***************************************************************************)
Goes(g, to) == pc' = [pc EXCEPT ![g] = to]
GuiOnly == UNCHANGED <<servervars, records, marker, pruned, stopped, told>>

\* An attach that failed: the process ends at its start, or has to recover.
Failed(g) == Goes(g, IF trying[g] = "first" THEN "off" ELSE "recover")

\* connect_or_start_with
LaunchGui(g) ==
  /\ pc[g] = "off"
  /\ Goes(g, "launch")
  /\ trying' = [trying EXCEPT ![g] = "first"]
  /\ suppressed' = [suppressed EXCEPT ![g] = FALSE]
  /\ UNCHANGED lease /\ GuiOnly

Look(g) ==
  /\ pc[g] = "launch"
  /\ Goes(g, IF Occupied THEN "check" ELSE "discover")
  /\ UNCHANGED <<trying, lease, suppressed>> /\ GuiOnly

\* Slip: whoever is registered counts as a live peer.
LivePeer_registered(answering) == records # {}

\* find_live_endpoint_for_logical_instance: registered, not stale, answering.
LivePeer(answering) == \E s \in records : ~Stale(s) /\ s \in answering

\* discover_peer; the registry may also be unreadable.
Discover(g) ==
  /\ pc[g] = "discover"
  /\ \/ LivePeer(Answering) /\ Goes(g, "check")
     \/ ~LivePeer(Serving) /\ Goes(g, "start")
     \/ Goes(g, "off")
  /\ UNCHANGED <<trying, lease, suppressed>> /\ GuiOnly

\* start_frontend_server_process, which looks for a live peer once more.
Started(g) == ~LivePeer(Serving) /\ Spawned(own[g])

\* It fails: there is a live peer, or the process cannot be started.
NotStarted == UNCHANGED servervars

Start(g) ==
  /\ pc[g] = "start"
  /\ \/ Started(g) /\ Goes(g, "ready")
     \/ NotStarted /\ Goes(g, "off")
  /\ UNCHANGED <<trying, lease, suppressed, records, marker, pruned, stopped, told>>

Ready(g) ==
  /\ pc[g] = "ready"
  /\ Answering # {}
  /\ Goes(g, "check")
  /\ UNCHANGED <<trying, lease, suppressed>> /\ GuiOnly

ReadyTimeout(g) ==
  /\ pc[g] = "ready"
  /\ Goes(g, "off")
  /\ UNCHANGED <<trying, lease, suppressed>> /\ GuiOnly

\* verified_attach, in three requests: the image, the attach, the image.  Each
\* may also fail at a server that answers: the lease table is full, the client
\* cannot be set up, the answer is late.
SameImage(g) == \E s \in Answering : image[s] = own[g]

Check(g) ==
  /\ pc[g] = "check"
  /\ \/ SameImage(g) /\ Goes(g, "attach")
     \/ Failed(g)
  /\ UNCHANGED <<trying, lease, suppressed>> /\ GuiOnly

Attach(g) ==
  /\ pc[g] = "attach"
  /\ \/ \E s \in Answering : Goes(g, "verify") /\ lease' = [lease EXCEPT ![g] = s]
     \/ Failed(g) /\ UNCHANGED lease
  /\ UNCHANGED <<trying, suppressed>> /\ GuiOnly

\* Slip: the image is not read a second time.
Verified_once(g) == TRUE

Verified(g) == SameImage(g)

\* on_reconnected, or the lease is given back.
Verify(g) ==
  /\ pc[g] = "verify"
  /\ \/ /\ Verified(g)
        /\ Goes(g, "attached")
        /\ suppressed' = [suppressed EXCEPT ![g] = FALSE]
        /\ told' = told \ {g}
        /\ UNCHANGED lease
     \/ /\ Failed(g)
        /\ lease' = [lease EXCEPT ![g] = 0]
        /\ UNCHANGED <<suppressed, told>>
  /\ UNCHANGED <<trying, servervars, records, marker, pruned, stopped>>

\* Slip: the client is dropped before its server's process id is read.
OnDisconnected_forgot(g) == UNCHANGED suppressed

\* on_disconnected, intentional_shutdown_matches
OnDisconnected(g) ==
  suppressed' = [suppressed EXCEPT ![g] = @ \/ marker = pid[lease[g]]]

\* The tick's poll fails: the lease is unknown there, nobody answers, or the
\* answer is late.
PollFails(g) ==
  /\ pc[g] = "attached"
  /\ Goes(g, "lost")
  /\ OnDisconnected(g)
  /\ trying' = [trying EXCEPT ![g] = "again"]
  /\ UNCHANGED lease /\ GuiOnly

Reconnect(g) ==
  /\ pc[g] = "lost"
  /\ Goes(g, "check")
  /\ UNCHANGED <<trying, lease, suppressed>> /\ GuiOnly

\* maybe_recover: not suppressed, nobody at the endpoint, no live peer.  What
\* failed is tried again later.
Recover(g) ==
  /\ pc[g] = "recover"
  /\ Goes(g, "lost")
  /\ \/ ~suppressed[g] /\ ~Occupied /\ Started(g)
     \/ NotStarted
  /\ UNCHANGED <<trying, lease, suppressed, records, marker, pruned, stopped, told>>

\* The user closes the window.
CloseGui(g) ==
  /\ pc[g] \in {"attached", "lost"}
  /\ Goes(g, "off")
  /\ lease' = [lease EXCEPT ![g] = 0]
  /\ told' = told \ {g}
  /\ UNCHANGED <<trying, suppressed, servervars, records, marker, pruned, stopped>>

-----------------------------------------------------------------------------
ServerStep(s) == Bind(s) \/ Register(s) \/ Serve(s) \/ Leave(s) \/ Unregister(s)

GuiStep(g) ==
  \/ Look(g) \/ Discover(g) \/ Start(g) \/ Ready(g) \/ Check(g) \/ Attach(g) \/ Verify(g)
  \/ Reconnect(g) \/ Recover(g)

Next ==
  \/ LaunchServer
  \/ \E s \in Servers : ServerStep(s) \/ Shutdown(s) \/ Crash(s)
  \/ PruneRecord \/ PruneMarkers
  \/ \E g \in Guis :
       GuiStep(g) \/ LaunchGui(g) \/ ReadyTimeout(g) \/ PollFails(g) \/ CloseGui(g)

Spec == Init /\ [][Next]_vars

\* Processes that run, run on; a window whose server is gone finds out.
Fairness ==
  /\ \A s \in Servers : WF_vars(ServerStep(s))
  /\ \A g \in Guis : WF_vars(GuiStep(g))
  /\ \A g \in Guis : WF_vars(lease[g] \notin Serving /\ PollFails(g))

FairSpec == Spec /\ Fairness

-----------------------------------------------------------------------------
Lives == {"unborn", "new", "bound", "registered", "serving", "stopping", "left", "dead"}

\* The types; servers are born in order, the endpoint belongs to one of them,
\* and the process id of a live server to no other.
TypeOK ==
  /\ life \in [Servers -> Lives]
  /\ pid \in [Servers -> Pids \cup {None}] /\ image \in [Servers -> Images \cup {None}]
  /\ records \subseteq Born /\ marker \in Pids \cup {None} /\ pruned \in BOOLEAN
  /\ pc \in [Guis -> {"off", "launch", "discover", "start", "ready", "check", "attach", "verify",
                      "attached", "lost", "recover"}]
  /\ trying \in [Guis -> {"first", "again"}] /\ suppressed \in [Guis -> BOOLEAN]
  /\ lease \in [Guis -> Servers \cup {0}]
  /\ stopped \subseteq Servers /\ told \subseteq Guis
  /\ \A s \in Born, t \in Servers : t < s => t \in Born
  /\ \A s, t \in Listening : s = t
  /\ \A s, t \in Servers : Alive(s) /\ Alive(t) /\ s # t => pid[s] # pid[t]

\* A window and the server it is attached to run the same image, whatever
\* servers came and went while it looked and attached.
ImageMatches ==
  \A g \in Guis : pc[g] = "attached" /\ lease[g] \in Serving => image[lease[g]] = own[g]

\* The server that answers is listed, whatever is pruned meanwhile: a window
\* or a command that looks for it finds it, and no second one is started.
LiveIsListed == Serving \subseteq records

\* A window whose server was stopped on purpose while it was attached does
\* not start it again by itself: when it has noticed, it is suppressed.
StoppedStaysStopped == \A g \in told : pc[g] # "attached" => suppressed[g]

\* A window gives up recovery only when its server, or a later one, was told
\* to stop: never because of an earlier one that had the same process id.
SuppressedOnlyIfStopped ==
  \A g \in Guis :
    pc[g] = "lost" /\ suppressed[g] => \E s \in stopped : s >= lease[g]

\* The window is turned away: a request fails at a serving server of its image,
\* or a server it may start does not start.
TurnedAway(g) ==
  \/ (\E s \in Serving : image[s] = own[g]) /\ Check(g) /\ Failed(g)
  \/ (\E s \in Serving : image[s] = own[g]) /\ Attach(g) /\ Failed(g)
  \/ (\E s \in Serving : image[s] = own[g]) /\ Verify(g) /\ Failed(g)
  \/ ~suppressed[g] /\ ~Occupied /\ ~LivePeer(Serving) /\ Recover(g) /\ NotStarted

\* A window that has lost its server is attached again, unless it is turned
\* away again and again, it is closed or suppressed, another image holds the
\* endpoint, or the bound is reached.
Recovers ==
  \A g \in Guis :
    \/ []<><<TurnedAway(g)>>_vars
    \/ pc[g] = "lost" ~> \/ pc[g] \in {"attached", "off"} \/ suppressed[g]
                         \/ \E s \in Listening : image[s] # own[g]
                         \/ Born = Servers
=============================================================================
