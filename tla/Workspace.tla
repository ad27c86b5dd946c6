------------------------------ MODULE Workspace ------------------------------
(***************************************************************************)
(* The tab tree of the headless server (ServerState of src/server_app.rs): *)
(* tabs with an index and a parent, the collapsed ones, the active one,    *)
(* the saved workspace file and the journal events each operation commits. *)
(* A server may crash at any time; the next one restores what was saved,   *)
(* and may fail midway.  Title, note, draft and screen of a tab are its    *)
(* text: it changes with an event about that tab.                          *)
(***************************************************************************)
EXTENDS Journal, FiniteSets, Functions

CONSTANTS
  NoTab,
  Texts,         \* what a tab may show: title, note, draft and screen
  Plain,         \* what the first tab of a new workspace shows
  Titles,        \* bound: the texts a new tab may show
  Oversized,     \* the texts with a title, note or screen over its limit
  Bytes,         \* the encoded size of a text
  MaxTabs,       \* UI_BOOTSTRAP_MAX_TABS
  MaxBytes,      \* UI_BOOTSTRAP_MAX_BYTES
  MaxId,         \* bound: tab ids handed out
  MaxSequence,   \* bound: events after which no operation starts
  MaxLater,      \* the same for a server that was started again
  MaxEpoch       \* bound: server starts

ASSUME WorkspaceAssumption ==
  /\ NoTab \notin Nat /\ Plain \in Texts /\ Titles \subseteq Texts
  /\ Bytes \in [Texts -> Nat] /\ MaxTabs \in Nat /\ MaxBytes \in Nat
  /\ MaxId \in Nat \ {0} /\ MaxSequence \in Nat /\ MaxLater \in Nat
  /\ MaxEpoch \in Nat \ {0}

VARIABLES
  tabs,          \* id -> [parent, index, text] of the open tabs
  collapsed,     \* collapsed_tabs
  active,        \* active tab or NoTab
  next_id,
  saved,         \* workspace.json: [tabs, collapsed, active, torn]
  journal,
  killed,        \* kill-session or kill-server has asked the server to stop
  torn           \* ghost: the workspace goes back to a start that failed midway

workspace == <<tabs, collapsed, active, next_id, saved, journal, killed, torn>>

Ids == DOMAIN tabs
Children(t) == {c \in Ids : tabs[c].parent = t}

\* The vector is kept sorted by index, and indices are unique.
FirstOf(ts, S) == CHOOSE t \in S : \A u \in S : ts[t].index <= ts[u].index
LastOf(ts, S) == CHOOSE t \in S : \A u \in S : ts[t].index >= ts[u].index

\* The tabs that no other tab precedes by n places or more.
first_tabs(ts, n) ==
  [t \in {t \in DOMAIN ts :
            Cardinality({u \in DOMAIN ts : ts[u].index < ts[t].index}) < n} |-> ts[t]]

no_tabs == [t \in {} |-> NoTab]

empty_workspace ==
  [tabs |-> no_tabs, collapsed |-> {}, active |-> NoTab, torn |-> FALSE]

default_workspace ==
  [tabs |-> [t \in {1} |-> [parent |-> NoTab, index |-> 0, text |-> Plain]],
   collapsed |-> {}, active |-> 1, torn |-> FALSE]

\* load_workspace refuses a workspace without tabs.
load_workspace(file) == IF DOMAIN file.tabs = {} THEN default_workspace ELSE file

\* ServerState::new: restore_tab commits one event for every saved tab; a
\* server started with --empty looks at no file.
Started(start_empty, file, epoch) ==
  LET w == IF start_empty THEN empty_workspace ELSE load_workspace(file)
      ids == DOMAIN w.tabs
      nth(k) == CHOOSE t \in ids :
                  Cardinality({u \in ids : w.tabs[u].index < w.tabs[t].index}) = k - 1
      restored[k \in 0..Cardinality(ids)] ==
        IF k = 0 THEN with_epoch(epoch) ELSE commit(restored[k-1], nth(k))
  IN  [tabs |-> w.tabs, collapsed |-> w.collapsed,
       active |-> IF w.active \in ids THEN w.active
                  ELSE IF ids = {} THEN NoTab ELSE FirstOf(w.tabs, ids),
       next_id |-> Max(ids \cup {0}) + 1, torn |-> w.torn,
       journal |-> restored[Cardinality(ids)]]

\* A start that cannot spawn the terminal of a saved tab gives up; its drop
\* saves the tabs it had, with all of the collapsed ids and the active tab.
Abandoned(file) ==
  LET w == load_workspace(file)
  IN  {[w EXCEPT !.tabs = first_tabs(@, n), !.torn = TRUE] :
         n \in 0..(Cardinality(DOMAIN w.tabs) - 1)}

Become(s) ==
  /\ tabs' = s.tabs /\ collapsed' = s.collapsed /\ active' = s.active
  /\ next_id' = s.next_id /\ journal' = s.journal
  /\ torn' = s.torn /\ killed' = FALSE

WorkspaceInit ==
  \E s \in {Started(start_empty, default_workspace, 1) : start_empty \in BOOLEAN} :
    /\ tabs = s.tabs /\ collapsed = s.collapsed /\ active = s.active
    /\ next_id = s.next_id /\ journal = s.journal /\ torn = s.torn /\ killed = FALSE
    /\ saved = default_workspace

\* A bound: no operation starts once an epoch has so many events.
Room == journal.sequence < IF journal.epoch = 1 THEN MaxSequence ELSE MaxLater

-----------------------------------------------------------------------------
FreeIndex == Min({i \in 0..Cardinality(Ids) : \A t \in Ids : tabs[t].index # i})

\* create_tab: the child of a collapsed parent expands it.
create_tab(parent, select, text) ==
  LET id == next_id
      expanded == IF parent \in collapsed THEN commit(journal, parent) ELSE journal
      created == commit(expanded, id)
  IN  /\ Room /\ id <= MaxId
      /\ parent \in Ids \cup {NoTab}
      /\ next_id' = id + 1
      /\ tabs' = [t \in Ids \cup {id} |->
           IF t = id THEN [parent |-> parent, index |-> FreeIndex, text |-> text]
           ELSE tabs[t]]
      /\ collapsed' = collapsed \ {parent}
      /\ active' = IF select THEN id ELSE active
      /\ journal' = IF select THEN commit(created, id) ELSE created
      /\ UNCHANGED <<saved, killed, torn>>

\* A terminal that cannot be spawned has used up its id.
create_tab_fails ==
  /\ Room /\ next_id <= MaxId
  /\ next_id' = next_id + 1
  /\ UNCHANGED <<tabs, collapsed, active, saved, journal, killed, torn>>

\* The children of a closed tab move up to its parent.
Promoted(id) ==
  [t \in Ids \ {id} |->
     IF tabs[t].parent = id THEN [tabs[t] EXCEPT !.parent = tabs[id].parent]
     ELSE tabs[t]]

\* The next tab in the vector takes over, or else the previous one.
ActiveAfterClose(id) ==
  LET rest == Ids \ {id}
      after == {t \in rest : tabs[t].index > tabs[id].index}
  IN  IF active # id THEN active
      ELSE IF after # {} THEN FirstOf(tabs, after)
      ELSE IF rest # {} THEN LastOf(tabs, rest)
      ELSE NoTab

\* One event, about the closed tab; the promoted children get none.
close_tab(id) ==
  /\ Room /\ id \in Ids
  /\ tabs' = Promoted(id)
  /\ collapsed' = collapsed \ {id}
  /\ active' = ActiveAfterClose(id)
  /\ journal' = commit(journal, id)
  /\ UNCHANGED <<next_id, saved, killed, torn>>

select_tab(id) ==
  /\ Room /\ id \in Ids
  /\ active' = id
  /\ journal' = commit(journal, id)
  /\ UNCHANGED <<tabs, collapsed, next_id, saved, killed, torn>>

\* Slip: only the direct parent is looked at.
would_create_cycle_shallow(child, parent) ==
  child = parent \/ tabs[parent].parent = child

\* The walk from `parent` towards the root, at most one step per tab.
would_create_cycle(child, parent) ==
  LET n == Cardinality(Ids)
      walk[k \in 0..n] ==
        IF k = 0 THEN parent
        ELSE IF walk[k-1] \in Ids THEN tabs[walk[k-1]].parent ELSE NoTab
  IN  \/ child = parent
      \/ \E k \in 0..n : walk[k] = child
      \/ \A k \in 0..n : walk[k] # NoTab

set_tab_parent(child, parent) ==
  /\ Room /\ child \in Ids /\ parent \in Ids \cup {NoTab}
  /\ parent \in Ids => ~would_create_cycle(child, parent)
  /\ tabs' = [tabs EXCEPT ![child].parent = parent]
  /\ journal' = commit(journal, child)
  /\ UNCHANGED <<collapsed, active, next_id, saved, killed, torn>>

toggle_tab_collapsed(id) ==
  /\ Room /\ id \in Ids /\ Children(id) # {}
  /\ collapsed' = (collapsed \ {id}) \cup ({id} \ collapsed)
  /\ journal' = commit(journal, id)
  /\ UNCHANGED <<tabs, active, next_id, saved, killed, torn>>

\* rename-window, set-tab-note, drafts and output; no limit is looked at here.
set_tab_text(id, text) ==
  /\ Room /\ id \in Ids
  /\ tabs' = [tabs EXCEPT ![id].text = text]
  /\ journal' = commit(journal, id)
  /\ UNCHANGED <<collapsed, active, next_id, saved, killed, torn>>

\* kill-session, kill-server: no event, and the collapsed ids stay.  The rest
\* of the batch is still answered before the server stops.
kill_server ==
  /\ killed' = TRUE
  /\ tabs' = no_tabs /\ active' = NoTab
  /\ UNCHANGED <<collapsed, next_id, saved, journal, torn>>

saved_workspace ==
  [tabs |-> tabs, collapsed |-> collapsed, active |-> active, torn |-> torn]

\* save-workspace (and shutdown, before the server stops)
persist_workspace ==
  /\ Room
  /\ saved' = saved_workspace
  /\ journal' = commit(journal, NoTab)
  /\ UNCHANGED <<tabs, collapsed, active, next_id, killed, torn>>

\* The server crashes, or it stops and saves on the way out, which may fail.
\* Some starts may fail midway before the next server runs; a server started
\* with --empty after such a failure is the one started after a server that
\* ran and crashed at once.
Restart ==
  /\ journal.epoch < MaxEpoch
  /\ \E file \in {saved, saved_workspace} :
       \/ /\ saved' \in {file} \cup Abandoned(file)
          /\ Become(Started(FALSE, saved', journal.epoch + 1))
       \/ /\ saved' = file
          /\ Become(Started(TRUE, saved', journal.epoch + 1))

WorkspaceNext ==
  \/ \E p \in Ids \cup {NoTab}, select \in BOOLEAN, text \in Titles :
       create_tab(p, select, text)
  \/ create_tab_fails
  \/ \E id \in Ids : close_tab(id) \/ select_tab(id) \/ toggle_tab_collapsed(id)
  \/ \E child \in Ids, p \in Ids \cup {NoTab} : set_tab_parent(child, p)
  \/ \E id \in Ids, text \in Texts : set_tab_text(id, text)
  \/ persist_workspace
  \/ kill_server
  \/ Restart

-----------------------------------------------------------------------------
\* The limits of UiBootstrapSnapshot::validate: the number of tabs, the title,
\* note and screen of each, and the encoded size of all.
within_limits(ts) ==
  /\ Cardinality(DOMAIN ts) <= MaxTabs
  /\ \A t \in DOMAIN ts : ts[t].text \notin Oversized
  /\ SumFunction([t \in DOMAIN ts |-> Bytes[ts[t].text]]) <= MaxBytes

\* Indices are unique and the active tab exists.
well_indexed(ts, act) ==
  /\ \A t, u \in DOMAIN ts : ts[t].index = ts[u].index => t = u
  /\ act \in DOMAIN ts \cup {NoTab}

\* Parents exist and differ from the tab.
parents_exist(ts) ==
  \A t \in DOMAIN ts : ts[t].parent \in (DOMAIN ts \cup {NoTab}) \ {t}

\* The snapshot rules of UiBootstrapSnapshot::validate.
validate(ts, act) ==
  within_limits(ts) /\ well_indexed(ts, act) /\ parents_exist(ts)

\* Every tab reaches the root.
Forest(ts) ==
  \A S \in SUBSET DOMAIN ts : S # {} => \E t \in S : ts[t].parent \notin S

\* Whatever sequence of creating, closing, moving, killing, saving and
\* restarting led here, nothing but its size keeps the server from serving its
\* snapshot: indices and the active tab are in order, no open tab's id can be
\* handed out again, parents exist, the tree has no cycle (also after a parent
\* in the middle was closed) and no tab to come is collapsed before it exists.
\* Only of a workspace that a start has failed to restore and saved in part
\* the first three are all that is left.
BootstrapServes ==
  /\ well_indexed(tabs, active)
  /\ \A t \in Ids : t < next_id
  /\ \/ torn
     \/ /\ parents_exist(tabs)
        /\ Forest(tabs)
        /\ \A t \in collapsed : t < next_id
=============================================================================
