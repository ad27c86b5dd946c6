----------------------- MODULE ServerLifecycleProofs -----------------------
(***************************************************************************)
(* For any number of windows, servers, images and process ids, however     *)
(* process ids are used again: a window runs the image of its server, the  *)
(* server that answers is listed, and recovery is suppressed when, and     *)
(* only when, a server was stopped on purpose.                             *)
(***************************************************************************)
EXTENDS ServerLifecycle, TLAPS

\* A server is listed from its registration to its end.
Listed ==
  \A s \in Servers :
    life[s] \in {"registered", "serving", "stopping", "left"} => s \in records

\* A server has a process id, which is not given away while it lives.
Births ==
  /\ \A s \in Born : pid[s] \in Pids
  /\ \A s, t \in Born : s < t /\ Alive(s) => pid[s] # pid[t]

\* What happens to servers and records in a step.
ServerMove(s) ==
  \/ Bind(s) \/ Register(s) \/ Serve(s) \/ Shutdown(s) \/ Leave(s)
  \/ Unregister(s) \/ Crash(s)

SpawnStep == (\E i \in Images : Spawned(i)) /\ UNCHANGED <<records, marker, pruned, stopped, told>>

-----------------------------------------------------------------------------
\* Every step is one of a server, a spawn, a prune or one that leaves both
\* alone.
LEMMA Moves ==
  ASSUME Next
  PROVE  \/ UNCHANGED <<servervars, records>>
         \/ SpawnStep
         \/ \E s \in Servers : ServerMove(s)
         \/ PruneRecord
  <1>1. CASE LaunchServer
    BY <1>1 DEF LaunchServer, SpawnStep
  <1>2. CASE \E s \in Servers : ServerStep(s) \/ Shutdown(s) \/ Crash(s)
    BY <1>2 DEF ServerStep, ServerMove
  <1>3. CASE PruneRecord \/ PruneMarkers
    BY <1>3 DEF PruneMarkers, servervars
  <1>4. ASSUME NEW g \in Guis, Start(g) \/ Recover(g)
        PROVE  UNCHANGED <<servervars, records>> \/ SpawnStep
    <2>1. own[g] \in Images
      BY LifecycleAssumption
    <2> QED  BY <1>4, <2>1 DEF Start, Recover, Started, NotStarted, SpawnStep
  <1>5. ASSUME NEW g \in Guis, Look(g) \/ Discover(g) \/ Ready(g) \/ Check(g) \/ Attach(g) \/ Verify(g)
                 \/ Reconnect(g) \/ LaunchGui(g) \/ ReadyTimeout(g) \/ PollFails(g) \/ CloseGui(g)
        PROVE  UNCHANGED <<servervars, records>>
    BY <1>5 DEF Look, Discover, Ready, Check, Attach, Verify, Reconnect, LaunchGui, ReadyTimeout,
                PollFails, CloseGui, GuiOnly
  <1> QED  BY <1>1, <1>2, <1>3, <1>4, <1>5 DEF Next, GuiStep

\* The server's part of the type invariant.
ServerTypes ==
  /\ life \in [Servers -> Lives]
  /\ pid \in [Servers -> Pids \cup {None}] /\ image \in [Servers -> Images \cup {None}]
  /\ records \subseteq Born
  /\ \A s \in Born, t \in Servers : t < s => t \in Born
  /\ \A s, t \in Listening : s = t
  /\ \A s, t \in Servers : Alive(s) /\ Alive(t) /\ s # t => pid[s] # pid[t]

\* A new server is the next in order and has a process id of its own.
LEMMA SpawnKeeps ==
  ASSUME ServerTypes, Listed, Births, SpawnStep
  PROVE  ServerTypes' /\ Listed' /\ Births'
  <1>1. PICK i \in Images, s \in Servers, p \in Pids :
          /\ life[s] = "unborn" /\ \A t \in Servers : t < s => life[t] # "unborn"
          /\ \A t \in Servers : Alive(t) => pid[t] # p
          /\ pid' = [pid EXCEPT ![s] = p]
          /\ image' = [image EXCEPT ![s] = i]
          /\ life' = [life EXCEPT ![s] = "new"]
    BY DEF SpawnStep, Spawned
  <1>2. /\ life' \in [Servers -> Lives] /\ pid' \in [Servers -> Pids \cup {None}]
        /\ image' \in [Servers -> Images \cup {None}]
    BY <1>1 DEF ServerTypes, Lives
  <1>3. Born' = Born \cup {s} /\ Listening' = Listening /\ records' = records
    BY <1>1 DEF ServerTypes, Born, Listening, SpawnStep
  <1>4. \A t \in Born' : t = s \/ t < s
    BY <1>1, <1>3 DEF ServerTypes, Born, Servers
  <1>5. \A t \in Servers : Alive(t)' <=> t = s \/ Alive(t)
    BY <1>1 DEF ServerTypes, Alive
  <1>6. \A t \in Servers : t # s => pid'[t] = pid[t] /\ life'[t] = life[t]
    BY <1>1 DEF ServerTypes
  <1>7. pid'[s] = p /\ life'[s] = "new" /\ \A t \in Servers : Alive(t) => pid[t] # p
    BY <1>1 DEF ServerTypes
  <1>8. s \in Servers /\ Born \subseteq Servers
    BY DEF Born
  <1>9. \A a \in Born', t \in Servers : t < a => t \in Born'
    BY <1>1, <1>3 DEF ServerTypes, Born, Servers
  <1>10. \A a, t \in Servers : Alive(a)' /\ Alive(t)' /\ a # t => pid'[a] # pid'[t]
    BY <1>5, <1>6, <1>7 DEF ServerTypes
  <1>11. Births'
    <2>0. \A a \in Born' : pid'[a] \in Pids
      BY <1>3, <1>6, <1>7, <1>8 DEF Births
    <2> SUFFICES ASSUME NEW a \in Born', NEW t \in Born', a < t, Alive(a)'
                 PROVE  pid'[a] # pid'[t]
      BY <2>0 DEF Births
    <2>1. a \in Servers /\ t \in Servers /\ a # s
      BY <1>3, <1>4, <1>8 DEF Servers
    <2>2. Alive(a) /\ a \in Born /\ pid'[a] = pid[a]
      BY <1>3, <1>5, <1>6, <2>1
    <2>3. CASE t = s
      BY <1>7, <2>1, <2>2, <2>3
    <2>4. CASE t # s
      BY <1>3, <1>6, <2>1, <2>2, <2>4 DEF Births
    <2> QED  BY <2>3, <2>4
  <1>12. Listed'
    BY <1>3, <1>6, <1>7 DEF Listed
  <1>13. ServerTypes'
    BY <1>2, <1>3, <1>9, <1>10 DEF ServerTypes
  <1> QED  BY <1>11, <1>12, <1>13

\* The life of one server moves on: nobody is born, nobody comes back, and the
\* endpoint is taken only when it is free.
LEMMA MoveKeeps ==
  ASSUME ServerTypes, Listed, Births, NEW s \in Servers, ServerMove(s)
  PROVE  ServerTypes' /\ Listed' /\ Births'
  <1>1. PICK l \in Lives :
          /\ Becomes(s, l) /\ l # "unborn" /\ life[s] \notin {"unborn", "dead"}
          /\ l \in {"bound", "registered", "serving", "stopping"} =>
               s \in Listening \/ Listening = {}
    BY DEF ServerMove, Bind, Register, Serve, Shutdown, Leave, Unregister, Crash, Alive, Lives,
           Occupied, Listening
  <1>2. /\ life' \in [Servers -> Lives] /\ UNCHANGED pid
        /\ image' \in [Servers -> Images \cup {None}]
    BY <1>1 DEF Becomes, ServerTypes
  <1>3. \A t \in Servers : life'[t] = IF t = s THEN l ELSE life[t]
    BY <1>1 DEF Becomes, ServerTypes
  <1>4. Born' = Born /\ Born \subseteq Servers
    BY <1>1, <1>3 DEF Born
  <1>5. Listening' \subseteq Listening \/ (Listening = {} /\ Listening' \subseteq {s})
    BY <1>1, <1>3 DEF Listening
  <1>6. \A t \in Servers : Alive(t)' => Alive(t)
    BY <1>1, <1>3 DEF Alive
  <1>7. records' \subseteq Born
    BY <1>1 DEF ServerMove, Bind, Register, Serve, Shutdown, Leave, Unregister, Crash, ServerTypes,
                Born
  <1>8. Births'
    BY <1>2, <1>4, <1>6 DEF Births
  <1>9. ServerTypes'
    BY <1>2, <1>4, <1>5, <1>6, <1>7 DEF ServerTypes
  <1>10. Listed'
    <2>1. CASE Register(s)
      BY <2>1, <1>3 DEF Register, Listed, Stale, Alive
    <2>2. CASE Unregister(s)
      BY <2>2, <1>3 DEF Unregister, Listed, Becomes, ServerTypes
    <2>3. CASE Bind(s) \/ Serve(s) \/ Shutdown(s) \/ Leave(s) \/ Crash(s)
      BY <2>3 DEF Bind, Serve, Shutdown, Leave, Crash, Listed, Becomes, ServerTypes
    <2> QED  BY <2>1, <2>2, <2>3 DEF ServerMove
  <1> QED  BY <1>8, <1>9, <1>10

\* Pruning removes records of dead servers only.
LEMMA PruneKeeps ==
  ASSUME ServerTypes, Listed, Births, PruneRecord
  PROVE  ServerTypes' /\ Listed' /\ Births'
  <1>1. UNCHANGED <<life, pid, image>> /\ records' \subseteq records
    BY DEF PruneRecord, servervars
  <1>2. ServerTypes' /\ Births'
    BY <1>1 DEF ServerTypes, Births, Born, Alive, Listening
  <1>3. Listed'
    BY DEF PruneRecord, Listed, Stale, Alive, servervars
  <1> QED  BY <1>2, <1>3

LEMMA ServersKeep ==
  ASSUME ServerTypes, Listed, Births, [Next]_vars
  PROVE  ServerTypes' /\ Listed' /\ Births'
  <1>1. CASE UNCHANGED <<servervars, records>>
    BY <1>1 DEF servervars, ServerTypes, Listed, Births, Born, Alive, Listening
  <1>2. CASE SpawnStep
    BY <1>2, SpawnKeeps
  <1>3. CASE \E s \in Servers : ServerMove(s)
    BY <1>3, MoveKeeps
  <1>4. CASE PruneRecord
    BY <1>4, PruneKeeps
  <1>5. CASE UNCHANGED vars
    BY <1>1, <1>5 DEF vars
  <1> QED  BY <1>1, <1>2, <1>3, <1>4, <1>5, Moves

-----------------------------------------------------------------------------
(* The windows.                                                            *)
Attaching == {"check", "attach", "verify"}

GuiTypes ==
  /\ marker \in Pids \cup {None} /\ pruned \in BOOLEAN
  /\ pc \in [Guis -> {"off", "launch", "discover", "start", "ready", "check", "attach", "verify",
                      "attached", "lost", "recover"}]
  /\ trying \in [Guis -> {"first", "again"}] /\ suppressed \in [Guis -> BOOLEAN]
  /\ lease \in [Guis -> Servers \cup {0}]
  /\ stopped \subseteq Servers /\ told \subseteq Guis

\* A lease is of a server that has served, and will not serve again.
LeaseServed ==
  \A g \in Guis : lease[g] # 0 => life[lease[g]] \in {"serving", "stopping", "left", "dead"}

AttachedLeased == \A g \in Guis : pc[g] \in {"verify", "attached"} => lease[g] # 0

\* After a stop nobody serves until somebody registers, which takes the marker
\* away; until then a window that is still attached has the marker to read.
ToldInv ==
  /\ told # {} => \A s \in Servers : life[s] \notin {"registered", "serving"}
  /\ \A g \in told :
       IF pc[g] = "attached" THEN marker = pid[lease[g]]
       ELSE suppressed[g] /\ trying[g] = "again" /\ pc[g] \in Attaching \cup {"lost", "recover"}

\* The marker is of a stopped server, and no later one with that process id has
\* registered or has a window.
MarkerInv ==
  marker # None =>
    \E s \in stopped :
      /\ s \in Born /\ pid[s] = marker
      /\ \A t \in Born : t > s /\ pid[t] = pid[s] => life[t] \in {"new", "bound", "dead"}
      /\ \A g \in Guis : lease[g] > s => pid[lease[g]] # pid[s]

Justified(g) == suppressed[g] => \E s \in stopped : s >= lease[g]

\* Suppression is decided when the poll fails and lasts until the next attach.
SuppressInv ==
  \A g \in Guis :
    /\ pc[g] \in {"attached", "launch", "discover", "start", "ready"} => ~suppressed[g]
    /\ pc[g] \in {"lost", "check", "attach", "recover"} => Justified(g)
    /\ pc[g] = "verify" /\ suppressed[g] => stopped # {}

GuiInv == GuiTypes /\ LeaseServed /\ AttachedLeased /\ ImageMatches /\ ToldInv
             /\ MarkerInv /\ SuppressInv

ServerInv == ServerTypes /\ Listed /\ Births

\* Servers that were born stay as they are.
OldSame ==
  /\ \A t \in Born : life'[t] = life[t] /\ pid'[t] = pid[t] /\ image'[t] = image[t]
  /\ \A t \in Servers \ Born : life'[t] \in {"unborn", "new"}

LEMMA SameOrSpawned ==
  ASSUME ServerTypes, UNCHANGED servervars \/ SpawnStep
  PROVE  OldSame
  BY DEF SpawnStep, Spawned, OldSame, servervars, Born, ServerTypes

\* What follows for leases, whatever the windows do meanwhile.
LEMMA OldLeases ==
  ASSUME ServerTypes, GuiTypes, LeaseServed, OldSame, NEW g \in Guis, lease[g] # 0
  PROVE  /\ lease[g] \in Born
         /\ life'[lease[g]] = life[lease[g]] /\ pid'[lease[g]] = pid[lease[g]]
         /\ image'[lease[g]] = image[lease[g]]
  BY DEF LeaseServed, OldSame, GuiTypes, Born

\* The moves of a window that decide nothing.
CalmMove(g) ==
  \E to \in {"off", "discover", "start", "ready", "check", "attach", "lost", "recover"} :
    /\ pc' = [pc EXCEPT ![g] = to]
    /\ \/ pc[g] = "launch" /\ to \in {"check", "discover"}
       \/ pc[g] = "discover" /\ to \in {"check", "start", "off"}
       \/ pc[g] = "start" /\ to \in {"ready", "off"}
       \/ pc[g] = "ready" /\ to \in {"check", "off"}
       \/ pc[g] = "check" /\ to = "attach"
       \/ pc[g] \in {"check", "attach"} /\ to = IF trying[g] = "first" THEN "off" ELSE "recover"
       \/ pc[g] = "lost" /\ to = "check"
       \/ pc[g] = "recover" /\ to = "lost"

Calm ==
  /\ OldSame
  /\ pruned' \in BOOLEAN
  /\ UNCHANGED <<marker, trying, lease, suppressed, stopped, told>>
  /\ UNCHANGED pc \/ \E g \in Guis : CalmMove(g)

\* Leases and their servers are as before: what depends on these alone stays.
LEMMA LeasesKeep ==
  ASSUME ServerTypes, GuiInv, OldSame, UNCHANGED <<marker, lease, stopped>>
  PROVE  LeaseServed' /\ MarkerInv'
  <1>1. LeaseServed'
    BY OldLeases DEF GuiInv, LeaseServed
  <1>2. CASE marker = None
    BY <1>1, <1>2 DEF MarkerInv
  <1>3. CASE marker # None
    <2>1. PICK s \in stopped :
            /\ s \in Born /\ pid[s] = marker
            /\ \A t \in Born : t > s /\ pid[t] = pid[s] => life[t] \in {"new", "bound", "dead"}
            /\ \A g \in Guis : lease[g] > s => pid[lease[g]] # pid[s]
      BY <1>3 DEF GuiInv, MarkerInv
    <2>2. s \in Born' /\ pid'[s] = marker'
      BY <2>1 DEF OldSame, Born
    <2>3. \A t \in Born' : t > s /\ pid'[t] = pid'[s] => life'[t] \in {"new", "bound", "dead"}
      BY <2>1 DEF OldSame, Born
    <2>4. \A g \in Guis : lease'[g] > s => pid'[lease'[g]] # pid'[s]
      <3> SUFFICES ASSUME NEW g \in Guis, lease[g] > s  PROVE pid'[lease[g]] # pid'[s]
        OBVIOUS
      <3>1. lease[g] # 0
        BY <2>1 DEF Born, Servers
      <3> QED  BY <2>1, <3>1, OldLeases DEF GuiInv, OldSame
    <2>5. s \in stopped'
      BY <2>1
    <2> QED  BY <1>1, <2>2, <2>3, <2>4, <2>5 DEF MarkerInv
  <1> QED  BY <1>1, <1>2, <1>3

LEMMA CalmKeeps ==
  ASSUME ServerTypes, GuiInv, Calm
  PROVE  GuiInv'
  <1>0. OldSame /\ UNCHANGED <<marker, trying, lease, suppressed, stopped, told>>
    BY DEF Calm
  <1>1. LeaseServed' /\ MarkerInv'
    BY <1>0, LeasesKeep
  <1>2. GuiTypes'
    BY DEF Calm, CalmMove, GuiInv, GuiTypes
  <1>3. \A g \in Guis : \/ pc'[g] = pc[g]
                        \/ pc[g] \notin {"off", "verify", "attached"} /\ pc'[g] \notin {"verify", "attached"}
    BY DEF Calm, CalmMove, GuiInv, GuiTypes
  <1>4. AttachedLeased'
    BY <1>0, <1>3 DEF GuiInv, AttachedLeased
  <1>5. ImageMatches'
    <2> SUFFICES ASSUME NEW g \in Guis, pc'[g] = "attached", lease[g] \in Serving'
                 PROVE  image'[lease[g]] = own[g]
      BY <1>0 DEF ImageMatches
    <2>1. pc[g] = "attached" /\ lease[g] # 0
      BY <1>3 DEF GuiInv, AttachedLeased
    <2>2. lease[g] \in Serving
      BY <1>0, <2>1, OldLeases DEF GuiInv, Serving
    <2> QED  BY <1>0, <2>1, <2>2, OldLeases DEF GuiInv, ImageMatches
  <1>6. ToldInv'
    <2>1. told # {} => \A s \in Servers : life'[s] \notin {"registered", "serving"}
      BY <1>0 DEF GuiInv, ToldInv, OldSame
    <2>2. ASSUME NEW g \in told, pc[g] = "attached"
          PROVE  pc'[g] = "attached" /\ marker = pid'[lease[g]]
      <3>1. g \in Guis /\ lease[g] # 0
        BY <2>2 DEF GuiInv, GuiTypes, AttachedLeased
      <3> QED  BY <1>0, <1>3, <2>2, <3>1, OldLeases DEF GuiInv, ToldInv
    <2>3. ASSUME NEW g \in told, pc[g] # "attached"
          PROVE  /\ suppressed[g] /\ trying[g] = "again"
                 /\ pc'[g] \in Attaching \cup {"lost", "recover"}
      BY <2>3 DEF GuiInv, GuiTypes, ToldInv, Calm, CalmMove, Attaching
    <2> QED  BY <1>0, <2>1, <2>2, <2>3, Zenon DEF ToldInv, Attaching
  <1>7. SuppressInv'
    <2> SUFFICES ASSUME NEW g \in Guis
                 PROVE  /\ pc'[g] \in {"attached", "launch", "discover", "start", "ready"} => ~suppressed[g]
                        /\ pc'[g] \in {"lost", "check", "attach", "recover"} => Justified(g)
                        /\ pc'[g] = "verify" /\ suppressed[g] => stopped # {}
      BY <1>0 DEF SuppressInv, Justified
    <2>1. CASE pc'[g] = pc[g]
      BY <2>1 DEF GuiInv, SuppressInv
    <2>2. CASE pc'[g] # pc[g]
      <3>1. CalmMove(g)
        BY <2>2 DEF Calm, CalmMove, GuiInv, GuiTypes
      <3>2. \/ /\ pc[g] \in {"launch", "discover", "start"}
               /\ pc'[g] \in {"discover", "start", "ready", "check", "off"}
            \/ pc[g] = "ready" /\ pc'[g] \in {"check", "off"}
            \/ pc[g] \in {"check", "attach", "lost", "recover"}
               /\ pc'[g] \in {"attach", "off", "recover", "check", "lost"}
        BY <3>1 DEF CalmMove, GuiInv, GuiTypes
      <3> QED  BY <3>2 DEF GuiInv, SuppressInv, Justified
    <2> QED  BY <2>1, <2>2
  <1> QED  BY <1>1, <1>2, <1>4, <1>5, <1>6, <1>7 DEF GuiInv
-----------------------------------------------------------------------------
(* What a window decides, the servers staying as they are.                 *)
LEMMA LaunchGuiKeeps ==
  ASSUME ServerInv, GuiInv, NEW g \in Guis, LaunchGui(g)
  PROVE  GuiInv'
  <1>1. /\ pc[g] = "off" /\ pc' = [pc EXCEPT ![g] = "launch"]
        /\ trying' = [trying EXCEPT ![g] = "first"]
        /\ suppressed' = [suppressed EXCEPT ![g] = FALSE]
        /\ UNCHANGED <<life, pid, image, marker, pruned, lease, stopped, told>>
    BY DEF LaunchGui, Goes, GuiOnly, servervars
  <1>2. LeaseServed' /\ MarkerInv'
    BY <1>1 DEF GuiInv, LeaseServed, MarkerInv, Born
  <1>3. GuiTypes'
    BY <1>1 DEF GuiInv, GuiTypes
  <1>4. AttachedLeased' /\ ImageMatches'
    BY <1>1 DEF GuiInv, GuiTypes, AttachedLeased, ImageMatches, Serving
  <1>5. g \notin told
    BY <1>1 DEF GuiInv, ToldInv, Attaching
  <1>6. \A h \in told : pc'[h] = pc[h] /\ trying'[h] = trying[h] /\ suppressed'[h] = suppressed[h]
    BY <1>1, <1>5 DEF GuiInv, GuiTypes
  <1>7. ToldInv'
    BY <1>1, <1>6 DEF GuiInv, GuiTypes, ToldInv
  <1>8. SuppressInv'
    BY <1>1 DEF GuiInv, GuiTypes, SuppressInv, Justified
  <1> QED  BY <1>2, <1>3, <1>4, <1>7, <1>8 DEF GuiInv

LEMMA CloseGuiKeeps ==
  ASSUME ServerInv, GuiInv, NEW g \in Guis, CloseGui(g)
  PROVE  GuiInv'
  <1>1. /\ pc' = [pc EXCEPT ![g] = "off"] /\ lease' = [lease EXCEPT ![g] = 0]
        /\ told' = told \ {g}
        /\ UNCHANGED <<life, pid, image, marker, pruned, trying, suppressed, stopped>>
    BY DEF CloseGui, Goes, servervars
  <1>2. GuiTypes'
    BY <1>1 DEF GuiInv, GuiTypes
  <1>3. \A h \in Guis : h # g => pc'[h] = pc[h] /\ lease'[h] = lease[h]
    BY <1>1 DEF GuiInv, GuiTypes
  <1>4. pc'[g] = "off" /\ lease'[g] = 0
    BY <1>1 DEF GuiInv, GuiTypes
  <1>5. LeaseServed' /\ AttachedLeased' /\ ImageMatches'
    BY <1>1, <1>3, <1>4 DEF GuiInv, LeaseServed, AttachedLeased, ImageMatches, Serving
  <1>6. ToldInv'
    BY <1>1, <1>3 DEF GuiInv, GuiTypes, ToldInv
  <1>7. SuppressInv'
    BY <1>1, <1>3, <1>4 DEF GuiInv, SuppressInv, Justified
  <1>8. MarkerInv'
    <2> SUFFICES ASSUME marker # None  PROVE MarkerInv'
      BY <1>1 DEF MarkerInv
    <2>1. PICK s \in stopped :
            /\ s \in Born /\ pid[s] = marker
            /\ \A t \in Born : t > s /\ pid[t] = pid[s] => life[t] \in {"new", "bound", "dead"}
            /\ \A h \in Guis : lease[h] > s => pid[lease[h]] # pid[s]
      BY DEF GuiInv, MarkerInv
    <2>2. ~(0 > s)
      BY <2>1 DEF Born, Servers
    <2>3. \A h \in Guis : lease'[h] > s => pid[lease'[h]] # pid[s]
      BY <1>3, <1>4, <2>1, <2>2
    <2> QED  BY <1>1, <2>1, <2>3 DEF MarkerInv, Born
  <1> QED  BY <1>2, <1>5, <1>6, <1>7, <1>8 DEF GuiInv

\* Whoever answers has not the process id of the marker's server.
LEMMA AttachKeeps ==
  ASSUME ServerInv, GuiInv, NEW g \in Guis, NEW s \in Answering, pc[g] = "attach",
         Goes(g, "verify"), lease' = [lease EXCEPT ![g] = s],
         UNCHANGED <<trying, suppressed>>, GuiOnly
  PROVE  GuiInv'
  <1>1. /\ pc' = [pc EXCEPT ![g] = "verify"] /\ lease' = [lease EXCEPT ![g] = s]
        /\ UNCHANGED <<life, pid, image, marker, pruned, trying, suppressed, stopped, told>>
    BY DEF Goes, GuiOnly, servervars
  <1>2. s \in Servers /\ life[s] \in {"serving", "stopping"} /\ s # 0 /\ s \in Born
    BY DEF Answering, Servers, Born
  <1>3. GuiTypes'
    BY <1>1, <1>2 DEF GuiInv, GuiTypes
  <1>4. \A h \in Guis : h # g => pc'[h] = pc[h] /\ lease'[h] = lease[h]
    BY <1>1 DEF GuiInv, GuiTypes
  <1>5. pc'[g] = "verify" /\ lease'[g] = s
    BY <1>1 DEF GuiInv, GuiTypes
  <1>6. LeaseServed' /\ AttachedLeased' /\ ImageMatches'
    BY <1>1, <1>2, <1>4, <1>5 DEF GuiInv, LeaseServed, AttachedLeased, ImageMatches, Serving
  <1>7. ToldInv'
    BY <1>1, <1>2, <1>4, <1>5 DEF GuiInv, ToldInv, Attaching
  <1>8. SuppressInv'
    BY <1>1, <1>4, <1>5 DEF GuiInv, SuppressInv, Justified
  <1>9. MarkerInv'
    <2> SUFFICES ASSUME marker # None  PROVE MarkerInv'
      BY <1>1 DEF MarkerInv
    <2>1. PICK w \in stopped :
            /\ w \in Born /\ pid[w] = marker
            /\ \A t \in Born : t > w /\ pid[t] = pid[w] => life[t] \in {"new", "bound", "dead"}
            /\ \A h \in Guis : lease[h] > w => pid[lease[h]] # pid[w]
      BY DEF GuiInv, MarkerInv
    <2>2. s > w => pid[s] # pid[w]
      BY <1>2, <2>1
    <2>3. \A h \in Guis : lease'[h] > w => pid[lease'[h]] # pid[w]
      BY <1>4, <1>5, <2>1, <2>2
    <2> QED  BY <1>1, <2>1, <2>3 DEF MarkerInv, Born
  <1> QED  BY <1>3, <1>6, <1>7, <1>8, <1>9 DEF GuiInv

\* The image that is read the second time is that of the server of the lease,
\* if that still serves: the endpoint has one listener.
LEMMA VerifyKeeps ==
  ASSUME ServerInv, GuiInv, NEW g \in Guis, Verify(g)
  PROVE  GuiInv'
  <1>1. /\ pc[g] = "verify"
        /\ UNCHANGED <<life, pid, image, marker, pruned, trying, stopped>>
    BY DEF Verify, servervars
  <1>2. CASE /\ SameImage(g) /\ Goes(g, "attached") /\ UNCHANGED lease
             /\ suppressed' = [suppressed EXCEPT ![g] = FALSE] /\ told' = told \ {g}
    <2>1. /\ pc' = [pc EXCEPT ![g] = "attached"] /\ UNCHANGED lease
          /\ suppressed' = [suppressed EXCEPT ![g] = FALSE] /\ told' = told \ {g}
      BY <1>2 DEF Goes
    <2>2. GuiTypes'
      BY <1>1, <2>1 DEF GuiInv, GuiTypes
    <2>3. /\ \A h \in Guis : h # g => pc'[h] = pc[h] /\ suppressed'[h] = suppressed[h]
          /\ pc'[g] = "attached" /\ ~suppressed'[g]
      BY <2>1 DEF GuiInv, GuiTypes
    <2>4. LeaseServed' /\ MarkerInv' /\ AttachedLeased'
      BY <1>1, <2>1, <2>3 DEF GuiInv, LeaseServed, MarkerInv, AttachedLeased, Born
    <2>5. lease[g] \in Serving => image[lease[g]] = own[g]
      <3>1. PICK s \in Answering : image[s] = own[g]
        BY <1>2 DEF SameImage
      <3>2. \A t \in Serving : t = s
        BY <3>1 DEF ServerInv, ServerTypes, Serving, Answering, Listening
      <3> QED  BY <3>1, <3>2
    <2>6. ImageMatches'
      BY <1>1, <2>1, <2>3, <2>5 DEF GuiInv, ImageMatches, Serving
    <2>7. ToldInv'
      BY <1>1, <2>1, <2>3 DEF GuiInv, GuiTypes, ToldInv
    <2>8. SuppressInv'
      BY <1>1, <2>1, <2>3 DEF GuiInv, SuppressInv, Justified
    <2> QED  BY <2>2, <2>4, <2>6, <2>7, <2>8 DEF GuiInv
  <1>3. CASE Failed(g) /\ lease' = [lease EXCEPT ![g] = 0] /\ UNCHANGED <<suppressed, told>>
    <2>1. /\ pc' = [pc EXCEPT ![g] = IF trying[g] = "first" THEN "off" ELSE "recover"]
          /\ lease' = [lease EXCEPT ![g] = 0] /\ UNCHANGED <<suppressed, told>>
      BY <1>3 DEF Goes, Failed
    <2>2. GuiTypes'
      BY <1>1, <2>1 DEF GuiInv, GuiTypes
    <2>3. /\ \A h \in Guis : h # g => pc'[h] = pc[h] /\ lease'[h] = lease[h]
          /\ pc'[g] \in {"off", "recover"} /\ lease'[g] = 0
          /\ trying[g] = "again" => pc'[g] = "recover"
      BY <2>1 DEF GuiInv, GuiTypes
    <2>4. LeaseServed' /\ AttachedLeased' /\ ImageMatches'
      BY <1>1, <2>3 DEF GuiInv, LeaseServed, AttachedLeased, ImageMatches, Serving
    <2>5. ToldInv'
      BY <1>1, <2>1, <2>3 DEF GuiInv, GuiTypes, ToldInv, Attaching
    <2>6. suppressed[g] => \E s \in stopped : s >= 0
      <3>1. suppressed[g] => stopped # {}
        BY <1>1 DEF GuiInv, SuppressInv
      <3>2. \A s \in stopped : s >= 0
        BY DEF GuiInv, GuiTypes, Servers
      <3> QED  BY <3>1, <3>2
    <2>7. SuppressInv'
      BY <1>1, <2>1, <2>3, <2>6 DEF GuiInv, SuppressInv, Justified
    <2>8. MarkerInv'
      <3> SUFFICES ASSUME marker # None  PROVE MarkerInv'
        BY <1>1 DEF MarkerInv
      <3>1. PICK s \in stopped :
              /\ s \in Born /\ pid[s] = marker
              /\ \A t \in Born : t > s /\ pid[t] = pid[s] => life[t] \in {"new", "bound", "dead"}
              /\ \A h \in Guis : lease[h] > s => pid[lease[h]] # pid[s]
        BY DEF GuiInv, MarkerInv
      <3>2. ~(0 > s)
        BY <3>1 DEF Born, Servers
      <3>3. \A h \in Guis : lease'[h] > s => pid[lease'[h]] # pid[s]
        BY <2>3, <3>1, <3>2
      <3> QED  BY <1>1, <3>1, <3>3 DEF MarkerInv, Born
    <2> QED  BY <2>2, <2>4, <2>5, <2>7, <2>8 DEF GuiInv
  <1> QED  BY <1>2, <1>3 DEF Verify, Verified

\* A marker with the process id of the window's server was written by that
\* server or by a later one.
LEMMA PollFailsKeeps ==
  ASSUME ServerInv, GuiInv, NEW g \in Guis, PollFails(g)
  PROVE  GuiInv'
  <1>1. /\ pc[g] = "attached" /\ pc' = [pc EXCEPT ![g] = "lost"]
        /\ suppressed' = [suppressed EXCEPT ![g] = @ \/ marker = pid[lease[g]]]
        /\ trying' = [trying EXCEPT ![g] = "again"]
        /\ UNCHANGED <<life, pid, image, marker, pruned, lease, stopped, told>>
    BY DEF PollFails, Goes, OnDisconnected, GuiOnly, servervars
  <1>2. GuiTypes'
    BY <1>1 DEF GuiInv, GuiTypes
  <1>3. \A h \in Guis : h # g => /\ pc'[h] = pc[h] /\ suppressed'[h] = suppressed[h]
                                 /\ trying'[h] = trying[h]
    BY <1>1 DEF GuiInv, GuiTypes
  <1>4. /\ pc'[g] = "lost" /\ trying'[g] = "again"
        /\ suppressed'[g] <=> marker = pid[lease[g]]
    BY <1>1 DEF GuiInv, GuiTypes, SuppressInv
  <1>5. LeaseServed' /\ MarkerInv' /\ AttachedLeased' /\ ImageMatches'
    BY <1>1, <1>3, <1>4 DEF GuiInv, LeaseServed, MarkerInv, AttachedLeased, ImageMatches, Born,
                            Serving
  <1>6. ToldInv'
    BY <1>1, <1>3, <1>4 DEF GuiInv, GuiTypes, ToldInv
  <1>7. marker = pid[lease[g]] => \E s \in stopped : s >= lease[g]
    <2> SUFFICES ASSUME marker = pid[lease[g]]
                 PROVE  \E s \in stopped : s >= lease[g]
      OBVIOUS
    <2>1. lease[g] \in Born
      BY <1>1 DEF GuiInv, GuiTypes, AttachedLeased, LeaseServed, Born
    <2>2. marker # None
      BY <2>1, LifecycleAssumption DEF ServerInv, Births
    <2>3. PICK s \in stopped :
            /\ s \in Born /\ pid[s] = marker
            /\ \A h \in Guis : lease[h] > s => pid[lease[h]] # pid[s]
      BY <2>2 DEF GuiInv, MarkerInv
    <2>4. ~(lease[g] > s)
      BY <2>3
    <2> QED  BY <2>1, <2>3, <2>4 DEF Born, Servers
  <1>8. SuppressInv'
    BY <1>1, <1>3, <1>4, <1>7 DEF GuiInv, SuppressInv, Justified
  <1> QED  BY <1>2, <1>5, <1>6, <1>8 DEF GuiInv

-----------------------------------------------------------------------------
(* What a server does, the windows standing still.                         *)
WindowsStill == UNCHANGED <<pc, trying, lease, suppressed, pid, pruned>>

\* A server that moves on, and does not register or stop on purpose.
LEMMA QuietMoveKeeps ==
  ASSUME ServerInv, GuiInv, NEW s \in Servers,
         Bind(s) \/ Serve(s) \/ Leave(s) \/ Unregister(s) \/ Crash(s)
  PROVE  GuiInv'
  <1>1. PICK l \in Lives :
          /\ Becomes(s, l)
          /\ \/ life[s] = "new" /\ l = "bound"
             \/ life[s] = "registered" /\ l = "serving"
             \/ life[s] = "stopping" /\ l = "left"
             \/ Alive(s) /\ l = "dead"
    BY DEF Bind, Serve, Leave, Unregister, Crash, Alive, Lives
  <1>2. WindowsStill /\ UNCHANGED <<marker, stopped, told>>
    BY <1>1 DEF Bind, Serve, Leave, Unregister, Crash, Becomes, guivars, WindowsStill
  <1>3. /\ \A t \in Servers : t # s => life'[t] = life[t] /\ image'[t] = image[t]
        /\ life'[s] = l /\ l # "dead" => image'[s] = image[s]
    BY <1>1 DEF Becomes, ServerInv, ServerTypes
  <1>4. life'[s] = l
    BY <1>1 DEF Becomes, ServerInv, ServerTypes
  <1>5. \A t \in Servers : (t \in Born' <=> t \in Born)
    BY <1>1, <1>3, <1>4 DEF Born, Alive
  <1>6. GuiTypes'
    BY <1>2 DEF GuiInv, GuiTypes, WindowsStill
  <1>7. LeaseServed'
    <2> SUFFICES ASSUME NEW g \in Guis, lease[g] # 0
                 PROVE  life'[lease[g]] \in {"serving", "stopping", "left", "dead"}
      BY <1>2 DEF LeaseServed, WindowsStill
    <2>1. lease[g] \in Servers /\ life[lease[g]] \in {"serving", "stopping", "left", "dead"}
      BY DEF GuiInv, GuiTypes, LeaseServed
    <2> QED  BY <1>1, <1>3, <1>4, <2>1
  <1>8. AttachedLeased'
    BY <1>2 DEF GuiInv, AttachedLeased, WindowsStill
  <1>9. ImageMatches'
    <2> SUFFICES ASSUME NEW g \in Guis, pc[g] = "attached", lease[g] \in Serving'
                 PROVE  image'[lease[g]] = own[g]
      BY <1>2 DEF ImageMatches, WindowsStill
    <2>1. lease[g] \in Servers /\ life'[lease[g]] = "serving"
      BY DEF Serving
    <2>2. lease[g] # 0 /\ life[lease[g]] \in {"serving", "stopping", "left", "dead"}
      BY <2>1 DEF GuiInv, LeaseServed, AttachedLeased
    <2>3. lease[g] # s
      BY <1>1, <1>4, <2>1, <2>2
    <2>4. lease[g] \in Serving /\ image'[lease[g]] = image[lease[g]]
      BY <1>3, <2>1, <2>3 DEF Serving
    <2> QED  BY <2>4 DEF GuiInv, ImageMatches
  <1>10. ToldInv'
    <2>1. told # {} => \A t \in Servers : life'[t] \notin {"registered", "serving"}
      BY <1>1, <1>3, <1>4 DEF GuiInv, ToldInv
    <2>2. UNCHANGED <<pc, marker, pid, lease, suppressed, trying, told>>
      BY <1>2 DEF WindowsStill
    <2> QED  BY <2>1, <2>2 DEF GuiInv, ToldInv
  <1>11. SuppressInv'
    BY <1>2 DEF GuiInv, SuppressInv, Justified, WindowsStill
  <1>12. MarkerInv'
    <2>0. UNCHANGED <<marker, pid, lease, stopped>>
      BY <1>2 DEF WindowsStill
    <2> SUFFICES ASSUME marker # None  PROVE MarkerInv'
      BY <2>0 DEF MarkerInv
    <2>1. PICK w \in stopped :
            /\ w \in Born /\ pid[w] = marker
            /\ \A t \in Born : t > w /\ pid[t] = pid[w] => life[t] \in {"new", "bound", "dead"}
            /\ \A h \in Guis : lease[h] > w => pid[lease[h]] # pid[w]
      BY DEF GuiInv, MarkerInv
    <2>2. \A t \in Born' : t > w /\ pid[t] = pid[w] => life'[t] \in {"new", "bound", "dead"}
      <3> SUFFICES ASSUME NEW t \in Born', t > w, pid[t] = pid[w]
                   PROVE  life'[t] \in {"new", "bound", "dead"}
        OBVIOUS
      <3>1. t \in Servers /\ t \in Born
        BY <1>5 DEF Born
      <3>2. life[t] \in {"new", "bound", "dead"}
        BY <2>1, <3>1
      <3> QED  BY <1>1, <1>3, <1>4, <3>1, <3>2
    <2>3. w \in Born'
      BY <1>5, <2>1 DEF Born
    <2> QED  BY <2>0, <2>1, <2>2, <2>3 DEF MarkerInv
  <1> QED  BY <1>6, <1>7, <1>8, <1>9, <1>10, <1>11, <1>12 DEF GuiInv

\* Registering takes the marker away, and with it what anybody was told.
LEMMA RegisterKeeps ==
  ASSUME ServerInv, GuiInv, NEW s \in Servers, Register(s)
  PROVE  GuiInv'
  <1>1. /\ life[s] = "bound" /\ life' = [life EXCEPT ![s] = "registered"]
        /\ image' = [image EXCEPT ![s] = @] /\ marker' = None /\ told' = {}
        /\ WindowsStill /\ UNCHANGED stopped
    BY DEF Register, Becomes, MarkersRemoved, guivars, WindowsStill
  <1>2. /\ \A t \in Servers : t # s => life'[t] = life[t]
        /\ \A t \in Servers : image'[t] = image[t]
        /\ life'[s] = "registered"
    BY <1>1 DEF ServerInv, ServerTypes
  <1>3. GuiTypes' /\ AttachedLeased' /\ SuppressInv'
    BY <1>1 DEF GuiInv, GuiTypes, AttachedLeased, SuppressInv, Justified, WindowsStill
  <1>4. MarkerInv' /\ ToldInv'
    BY <1>1 DEF MarkerInv, ToldInv
  <1>5. LeaseServed'
    BY <1>1, <1>2 DEF GuiInv, GuiTypes, LeaseServed, WindowsStill
  <1>6. \A t \in Serving' : t \in Serving /\ t \in Servers
    BY <1>2 DEF Serving
  <1>7. ImageMatches'
    BY <1>1, <1>2, <1>6 DEF GuiInv, ImageMatches, WindowsStill
  <1> QED  BY <1>3, <1>4, <1>5, <1>7 DEF GuiInv

\* The marker names the server that stops; it lives, so that nobody after it
\* has its process id.
LEMMA ShutdownKeeps ==
  ASSUME ServerInv, GuiInv, NEW s \in Servers, Shutdown(s)
  PROVE  GuiInv'
  <1>1. /\ life[s] = "serving" /\ life' = [life EXCEPT ![s] = "stopping"]
        /\ image' = [image EXCEPT ![s] = @] /\ marker' = pid[s]
        /\ stopped' = stopped \cup {s} /\ WindowsStill
        /\ told' = told \cup {g \in Guis : pc[g] = "attached" /\ lease[g] = s}
    BY DEF Shutdown, Becomes, guivars, WindowsStill
  <1>2. /\ \A t \in Servers : t # s => life'[t] = life[t]
        /\ \A t \in Servers : image'[t] = image[t]
        /\ life'[s] = "stopping"
    BY <1>1 DEF ServerInv, ServerTypes
  <1>3. s \in Born /\ Alive(s) /\ pid[s] \in Pids
    BY <1>1 DEF Born, Alive, ServerInv, Births
  <1>4. UNCHANGED <<pc, trying, lease, suppressed, pid, pruned>>
    BY <1>1 DEF WindowsStill
  <1>5. GuiTypes'
    BY <1>1, <1>3, <1>4 DEF GuiInv, GuiTypes
  <1>6. AttachedLeased' /\ SuppressInv'
    BY <1>1, <1>4 DEF GuiInv, AttachedLeased, SuppressInv, Justified
  <1>7. LeaseServed'
    BY <1>2, <1>4 DEF GuiInv, GuiTypes, LeaseServed
  <1>8. \A t \in Serving' : t \in Serving /\ t \in Servers
    BY <1>2 DEF Serving
  <1>9. ImageMatches'
    BY <1>2, <1>4, <1>8 DEF GuiInv, ImageMatches
  <1>10. told = {}
    BY <1>1 DEF GuiInv, ToldInv
  <1>11. \A t \in Servers : life'[t] \notin {"registered", "serving"}
    <2> SUFFICES ASSUME NEW t \in Servers, t # s, life[t] \in {"registered", "serving"}
                 PROVE  FALSE
      BY <1>2
    <2>1. s \in Listening /\ t \in Listening
      BY <1>1 DEF Listening
    <2> QED  BY <2>1 DEF ServerInv, ServerTypes
  <1>12. ToldInv'
    BY <1>1, <1>4, <1>10, <1>11 DEF ToldInv
  <1>13. MarkerInv'
    <2>1. Born' = Born
      BY <1>1, <1>2 DEF Born
    <2>2. \A t \in Born : t > s => pid[t] # pid[s]
      BY <1>3 DEF ServerInv, Births, Born, Servers
    <2>3. \A g \in Guis : lease[g] > s => lease[g] \in Born
      BY DEF GuiInv, GuiTypes, LeaseServed, Born, Servers
    <2>4. s \in stopped'
      BY <1>1
    <2> QED  BY <1>1, <1>3, <1>4, <2>1, <2>2, <2>3, <2>4 DEF MarkerInv
  <1> QED  BY <1>5, <1>6, <1>7, <1>9, <1>12, <1>13 DEF GuiInv

LEMMA PruneMarkersKeeps ==
  ASSUME ServerInv, GuiInv, PruneMarkers
  PROVE  GuiInv'
  <1>1. /\ marker' = None /\ told' = {} /\ pruned' = FALSE
        /\ UNCHANGED <<life, pid, image, pc, trying, lease, suppressed, stopped>>
    BY DEF PruneMarkers, MarkersRemoved, servervars, guivars
  <1>2. MarkerInv' /\ ToldInv'
    BY <1>1 DEF MarkerInv, ToldInv
  <1>3. GuiTypes' /\ AttachedLeased' /\ SuppressInv' /\ LeaseServed' /\ ImageMatches'
    BY <1>1 DEF GuiInv, GuiTypes, AttachedLeased, SuppressInv, Justified, LeaseServed,
                ImageMatches, Serving
  <1> QED  BY <1>2, <1>3 DEF GuiInv

-----------------------------------------------------------------------------
(* Every step that decides nothing is calm.                                *)
LEMMA CalmSteps ==
  ASSUME ServerInv, GuiInv,
         \/ LaunchServer \/ PruneRecord \/ UNCHANGED vars
         \/ \E g \in Guis :
              \/ Look(g) \/ Discover(g) \/ Start(g) \/ Ready(g) \/ ReadyTimeout(g) \/ Check(g)
              \/ Reconnect(g) \/ Recover(g)
              \/ Attach(g) /\ Failed(g) /\ UNCHANGED lease
  PROVE  Calm
  <1>0. ServerTypes /\ pruned \in BOOLEAN
    BY DEF ServerInv, GuiInv, GuiTypes
  <1>1. CASE LaunchServer
    <2>1. SpawnStep /\ UNCHANGED guivars
      BY <1>1 DEF LaunchServer, SpawnStep
    <2> QED  BY <1>0, <2>1, SameOrSpawned DEF SpawnStep, Calm, guivars
  <1>2. CASE PruneRecord \/ UNCHANGED vars
    <2>1. UNCHANGED servervars
      BY <1>2 DEF PruneRecord, vars
    <2> QED  BY <1>0, <1>2, <2>1, SameOrSpawned DEF PruneRecord, vars, guivars, Calm
  <1>3. ASSUME NEW g \in Guis,
               \/ Look(g) \/ Discover(g) \/ Ready(g) \/ ReadyTimeout(g) \/ Check(g) \/ Reconnect(g)
               \/ Attach(g) /\ Failed(g) /\ UNCHANGED lease
        PROVE  Calm
    <2>1. UNCHANGED <<servervars, marker, pruned, trying, lease, suppressed, stopped, told>>
      BY <1>3 DEF Look, Discover, Ready, ReadyTimeout, Check, Reconnect, Attach, GuiOnly
    <2>2. CalmMove(g)
      BY <1>3 DEF Look, Discover, Ready, ReadyTimeout, Check, Reconnect, Attach, Goes, Failed, CalmMove
    <2> QED  BY <1>0, <2>1, <2>2, SameOrSpawned DEF Calm
  <1>4. ASSUME NEW g \in Guis, Start(g) \/ Recover(g)
        PROVE  Calm
    <2>1. own[g] \in Images
      BY LifecycleAssumption
    <2>2. UNCHANGED <<records, marker, pruned, trying, lease, suppressed, stopped, told>>
      BY <1>4 DEF Start, Recover
    <2>3. UNCHANGED servervars \/ SpawnStep
      BY <1>4, <2>1, <2>2 DEF Start, Recover, Started, NotStarted, SpawnStep
    <2>4. CalmMove(g)
      BY <1>4 DEF Start, Recover, Goes, CalmMove
    <2> QED  BY <1>0, <2>2, <2>3, <2>4, SameOrSpawned DEF Calm
  <1> QED  BY <1>1, <1>2, <1>3, <1>4

LEMMA WindowsKeep ==
  ASSUME ServerInv, GuiInv, [Next]_vars
  PROVE  GuiInv'
  <1>1. CASE LaunchServer \/ PruneRecord \/ UNCHANGED vars
    BY <1>1, CalmSteps, CalmKeeps DEF ServerInv
  <1>2. ASSUME NEW s \in Servers, ServerStep(s) \/ Shutdown(s) \/ Crash(s)
        PROVE  GuiInv'
    BY <1>2, QuietMoveKeeps, RegisterKeeps, ShutdownKeeps DEF ServerStep
  <1>3. CASE PruneMarkers
    BY <1>3, PruneMarkersKeeps
  <1>4. ASSUME NEW g \in Guis,
               \/ Look(g) \/ Discover(g) \/ Start(g) \/ Ready(g) \/ ReadyTimeout(g) \/ Check(g)
               \/ Reconnect(g) \/ Recover(g)
        PROVE  GuiInv'
    BY <1>4, CalmSteps, CalmKeeps DEF ServerInv
  <1>5. ASSUME NEW g \in Guis, Attach(g)
        PROVE  GuiInv'
    <2>1. CASE Failed(g) /\ UNCHANGED lease
      BY <1>5, <2>1, CalmSteps, CalmKeeps DEF ServerInv
    <2>2. ASSUME NEW s \in Answering, Goes(g, "verify") /\ lease' = [lease EXCEPT ![g] = s]
          PROVE  GuiInv'
      BY <1>5, <2>2, AttachKeeps DEF Attach
    <2> QED  BY <1>5, <2>1, <2>2 DEF Attach
  <1>6. ASSUME NEW g \in Guis, Verify(g) \/ LaunchGui(g) \/ PollFails(g) \/ CloseGui(g)
        PROVE  GuiInv'
    BY <1>6, VerifyKeeps, LaunchGuiKeeps, PollFailsKeeps, CloseGuiKeeps
  <1> QED  BY <1>1, <1>2, <1>3, <1>4, <1>5, <1>6 DEF Next, GuiStep

LEMMA Inductive == Spec => [](ServerInv /\ GuiInv)
  <1>1. Init => ServerInv /\ GuiInv
    <2> SUFFICES ASSUME Init  PROVE ServerInv /\ GuiInv
      OBVIOUS
    <2>1. ServerInv
      BY DEF Init, ServerInv, ServerTypes, Listed, Births, Born, Alive, Listening, Lives
    <2>2. GuiInv
      BY DEF Init, GuiInv, GuiTypes, LeaseServed, AttachedLeased, ImageMatches, ToldInv,
             MarkerInv, SuppressInv, Justified
    <2> QED  BY <2>1, <2>2
  <1>2. ServerInv /\ GuiInv /\ [Next]_vars => (ServerInv /\ GuiInv)'
    BY ServersKeep, WindowsKeep DEF ServerInv
  <1> QED  BY <1>1, <1>2, PTL DEF Spec

\* The types; servers are born in order, one listens at the endpoint, and live
\* servers have different process ids, whoever starts them.
THEOREM TypeCorrect == Spec => []TypeOK
  <1>1. ServerInv /\ GuiInv => TypeOK
    BY DEF ServerInv, GuiInv, ServerTypes, GuiTypes, TypeOK
  <1> QED  BY <1>1, Inductive, PTL

\* The window that is attached runs the image of its server: verified_attach
\* reads it before and after it attaches.
THEOREM AttachedImage == Spec => []ImageMatches
  <1>1. GuiInv => ImageMatches
    BY DEF GuiInv
  <1> QED  BY <1>1, Inductive, PTL

\* The server that answers has its registration, whatever other servers do
\* when they register and whatever list-instances prunes.
THEOREM AnsweringIsListed == Spec => []LiveIsListed
  <1>1. ServerInv => LiveIsListed
    BY DEF ServerInv, Listed, LiveIsListed, Serving
  <1> QED  BY <1>1, Inductive, PTL

\* A window that was attached when its server was told to stop is suppressed
\* when it has lost it: maybe_recover does not start another.
THEOREM StopIsRespected == Spec => []StoppedStaysStopped
  <1>1. GuiInv => StoppedStaysStopped
    BY DEF GuiInv, ToldInv, StoppedStaysStopped
  <1> QED  BY <1>1, Inductive, PTL

\* intentional_shutdown_matches compares process ids, which are used again; a
\* window is all the same suppressed only by its own server or a later one.
THEOREM NoFalseStop == Spec => []SuppressedOnlyIfStopped
  <1>1. GuiInv => SuppressedOnlyIfStopped
    BY DEF GuiInv, SuppressInv, Justified, SuppressedOnlyIfStopped
  <1> QED  BY <1>1, Inductive, PTL

============================================================================
