---------------------------- MODULE ControlPlane ----------------------------
(***************************************************************************)
(* The authority of the headless server over control requests: the replay  *)
(* window, the receipts that wait for a terminal (ControlAuthority), the   *)
(* commands that start, disturb or end a composer submission, and the      *)
(* terminal poll that finishes it.  One drain of the server executes one   *)
(* request at a time, so every request is one step; requests come from any *)
(* number of clients, in any order, and may be repeated at any time (a     *)
(* client that timed out, a duplicated call).                              *)
(*                                                                         *)
(* runs, told and effect are history variables, per call since it was last *)
(* admitted: how often it ran, what its clients were told, and how far its *)
(* text got.  A call is what the window can tell apart: request id and     *)
(* dedupe key; a retry may carry another deadline.                         *)
(***************************************************************************)
EXTENDS ReplayWindow

CONSTANTS
  Tabs,          \* tab ids; the server never reuses one
  Requests,      \* the control requests clients may send
  Plain,         \* [op, tab] of the requests that may come without a contract
  NoRequest,
  MaxNow         \* bound: clock values

Ops == {"set-composer", "send-composer", "send-keys", "kill-window",
        "cwd-send", "show-composer"}

ASSUME RequestsAssumption ==
  /\ Requests \subseteq [id : STRING, op : Ops, tab : Tabs,
                         deadline : Nat \cup {NoDeadline}]
  /\ Plain \subseteq [op : Ops, tab : Tabs]
  /\ NoRequest \notin Requests
  /\ MaxNow \in Nat

VARIABLES
  now,           \* unix_time_ms
  tabs,          \* per tab: state, writable terminal, draft, submission
  window,        \* ControlAuthority.replay_window
  pending,       \* ControlAuthority.pending_submissions
  runs,          \* history: executions since admission
  told,          \* history: answers given since admission
  effect         \* history: "none", "written" or "entered"

Call(q) == <<q.id, dedupe_key(q)>>
Calls == {Call(q) : q \in Requests}

vars == <<now, tabs, window, pending, runs, told, effect>>

Unborn == [state |-> "unborn", writable |-> FALSE, draft |-> FALSE,
           submitting |-> FALSE, author |-> NoRequest]

Init ==
  /\ now = 0
  /\ tabs = [t \in Tabs |-> Unborn]
  /\ window = <<>>
  /\ pending = [t \in Tabs |-> NoRequest]
  /\ runs = [k \in Calls |-> 0]
  /\ told = [k \in Calls |-> {}]
  /\ effect = [k \in Calls |-> "none"]

-----------------------------------------------------------------------------
(* Commands.  Each yields the tab after it, whether it succeeded, the      *)
(* error category on the wire ("" when the failure is untyped) and whether *)
(* text reached the terminal.  `accepts` is how many writes the PTY takes  *)
(* before it breaks.                                                       *)
Done(tab, wrote) == [tab |-> tab, ok |-> TRUE, category |-> "", wrote |-> wrote]
Failed(tab, category, wrote) ==
  [tab |-> tab, ok |-> FALSE, category |-> category, wrote |-> wrote]

Broken(tab) == [tab EXCEPT !.writable = FALSE]

\* TerminalTab::submit: the text now, Enter when the poll finds it due.
submit(tab, by, accepts) ==
  IF tab.submitting \/ ~tab.writable THEN Failed(tab, "", FALSE)
  ELSE IF accepts = 0 THEN Failed(Broken(tab), "", FALSE)
  ELSE Done([tab EXCEPT !.submitting = TRUE, !.author = by], TRUE)

\* apply_set_composer, with a non-empty text
set_composer(tab) == Done([tab EXCEPT !.draft = TRUE], FALSE)

\* send_composer_at_position: an empty draft succeeds without a submission.
send_composer(tab, by, accepts) ==
  LET sent == submit(tab, by, accepts)
  IN  IF ~tab.draft THEN Done(tab, FALSE)
      ELSE IF sent.ok THEN [sent EXCEPT !.tab.draft = FALSE]
      ELSE sent

\* send-keys with two keys, each a write of its own.
send_keys(tab, accepts) ==
  IF tab.submitting THEN Failed(tab, "conflict", FALSE)
  ELSE IF ~tab.writable THEN Failed(tab, "precondition", FALSE)
  ELSE IF accepts < 2 THEN Failed(Broken(tab), "precondition", accepts > 0)
  ELSE Done(tab, TRUE)

\* close_tab: verified, or removed without complete shutdown evidence.  The
\* authority's pending_submissions are not touched.
close_tab(tab, accepts) ==
  LET gone == [Unborn EXCEPT !.state = "closed"]
  IN  IF accepts = 0 THEN Failed(gone, "internal", FALSE) ELSE Done(gone, FALSE)

NotFound(tab, op) ==
  Failed(tab, IF op = "send-keys" THEN "not_found" ELSE "", FALSE)

execute_command(tab, op, by, accepts) ==
  IF tab.state # "open" THEN NotFound(tab, op)
  ELSE CASE op = "set-composer"   -> set_composer(tab)
         [] op = "send-composer"  -> send_composer(tab, by, accepts)
         [] op = "send-keys"      -> send_keys(tab, accepts)
         [] op = "kill-window"    -> close_tab(tab, accepts)
         [] op = "cwd-send"       -> submit(tab, by, accepts)
         [] op = "show-composer"  -> Done(tab, FALSE)

-----------------------------------------------------------------------------
(* Receipts.                                                               *)
submission_wait(q, result) ==
  /\ q.op = "send-composer"
  /\ result.ok
  /\ result.tab.state = "open"
  /\ result.tab.submitting

NothingHappened == {"validation", "conflict", "not_found", "precondition",
                    "policy", "unsupported"}

outcome(q, result) ==
  IF submission_wait(q, result) THEN "accepted"
  ELSE IF result.ok THEN "committed"
  ELSE IF result.category \in NothingHappened THEN "no_op"
  ELSE "outcome_unknown"

\* Calls whose entry makes room for a request.
Evicted(w, q) == {k \in Calls :
  /\ \E i \in 1..Len(w) : <<w[i].id, w[i].key>> = k
  /\ ~\E i \in 1..Len(admit(w, q, now).window) :
        admit(w, q, now).window[i].id = k[1]}

\* A request under the control contract that the window does not let through.
Answer(q) ==
  LET a == admit(window, q, now)
  IN  /\ a.kind # "execute"
      /\ told' = [told EXCEPT ![Call(q)] = @ \cup {a.says}]
      /\ UNCHANGED <<now, tabs, window, pending, runs, effect>>

\* execute_request of an admitted request: admit, the command, its receipt,
\* and the entry in pending_submissions of an accepted one.
Controlled(q, accepts) ==
  LET a == admit(window, q, now)
      result == execute_command(tabs[q.tab], q.op, q, accepts)
      o == outcome(q, result)
      fresh == Evicted(window, q)
  IN  /\ a.kind = "execute"
      /\ tabs' = [tabs EXCEPT ![q.tab] = result.tab]
      /\ window' = IF o = "accepted" THEN update_accepted(a.window, q, o)
                   ELSE complete(a.window, q, o)
      /\ pending' = IF o = "accepted" /\ Slots(a.window, q) # {}
                    THEN [pending EXCEPT ![q.tab] = q] ELSE pending
      /\ runs' = [k \in Calls |-> IF k = Call(q) THEN runs[k] + 1
                                  ELSE IF k \in fresh THEN 0 ELSE runs[k]]
      /\ told' = [k \in Calls |-> IF k = Call(q) THEN {o}
                                  ELSE IF k \in fresh THEN {} ELSE told[k]]
      /\ effect' = [k \in Calls |->
                      IF k = Call(q) THEN IF result.wrote THEN "written" ELSE "none"
                      ELSE IF k \in fresh THEN "none" ELSE effect[k]]
      /\ UNCHANGED now

\* ControlAdmission::Uncontrolled: the command alone.
Uncontrolled(p, accepts) ==
  /\ tabs' = [tabs EXCEPT ![p.tab] =
                execute_command(@, p.op, NoRequest, accepts).tab]
  /\ UNCHANGED <<now, window, pending, runs, told, effect>>

create_tab(t) ==
  /\ tabs[t].state = "unborn"
  /\ tabs' = [tabs EXCEPT ![t] = [Unborn EXCEPT !.state = "open", !.writable = TRUE]]
  /\ UNCHANGED <<now, window, pending, runs, told, effect>>

-----------------------------------------------------------------------------
Open == {t \in Tabs : tabs[t].state = "open"}

\* Slip: the final receipt ignores whether Enter was written.
finish_outcome_optimistic(entered) == "committed"

\* finish_submission's receipt
finish_outcome(entered) == IF entered THEN "committed" ELSE "outcome_unknown"

\* poll_terminals: processes in `dying` exit or break, the submissions in `due`
\* write Enter (which fails on a terminal that is not writable any more), and
\* finish_submission settles the receipts that waited for them.
PollAndFinish(due, dying) ==
  LET entered == {t \in due : tabs[t].writable /\ t \notin dying}
      slot(t) == IF pending[t] = NoRequest THEN {} ELSE Slots(window, pending[t])
      lost == {t \in due : pending[t] # NoRequest /\ slot(t) = {}}
  IN  /\ tabs' = [t \in Tabs |->
           [tabs[t] EXCEPT !.writable = @ /\ t \notin dying /\ t \notin lost,
                           !.submitting = @ /\ t \notin due,
                           !.author = IF t \in due THEN NoRequest ELSE @]]
      /\ window' = [i \in 1..Len(window) |->
           IF \E t \in due : i \in slot(t)
           THEN Settled(window[i], finish_outcome(\E t \in entered : i \in slot(t)))
           ELSE window[i]]
      /\ pending' = [t \in Tabs |-> IF t \in due THEN NoRequest ELSE pending[t]]
      /\ effect' = [k \in Calls |->
           IF \E t \in entered : /\ tabs[t].author # NoRequest
                                 /\ Call(tabs[t].author) = k
           THEN "entered" ELSE effect[k]]
      /\ UNCHANGED <<now, runs, told>>

\* Slip: the submission of a terminal that died is never taken.
poll_terminals_skips_dead(due, dying) ==
  PollAndFinish({t \in due : tabs[t].writable /\ t \notin dying}, dying)

poll_terminals(due, dying) == PollAndFinish(due, dying)

Tick ==
  /\ now < MaxNow
  /\ now' = now + 1
  /\ UNCHANGED <<tabs, window, pending, runs, told, effect>>

PollTerminals ==
  \E due \in SUBSET {t \in Open : tabs[t].submitting},
     dying \in SUBSET {t \in Open : tabs[t].writable} :
    /\ due # {} \/ dying # {}
    /\ poll_terminals(due, dying)

Next ==
  \/ \E q \in Requests : Answer(q)
  \/ \E q \in Requests, accepts \in 0..2 : Controlled(q, accepts)
  \/ \E p \in Plain, accepts \in 0..2 : Uncontrolled(p, accepts)
  \/ \E t \in Tabs : create_tab(t)
  \/ PollTerminals
  \/ Tick

Spec == Init /\ [][Next]_vars

\* The server loop keeps draining, and an Enter is due after a fixed delay.
FairSpec ==
  /\ Spec
  /\ \A t \in Tabs :
       WF_vars(\E due \in SUBSET {u \in Open : tabs[u].submitting},
                  dying \in SUBSET {u \in Open : tabs[u].writable} :
                 t \in due /\ poll_terminals(due, dying))

-----------------------------------------------------------------------------
EntryOf(i, k) == <<window[i].id, window[i].key>> = k

OneEntryPerId ==
  \A i, k \in 1..Len(window) : window[i].id = window[k].id => i = k

\* "Retrying the same ID and payload cannot repeat a side effect": as long as
\* the receipt of a call is retained the call has run exactly once, no matter how
\* often and with which deadlines it is sent, also while it is still being
\* processed.
AtMostOnce ==
  /\ OneEntryPerId
  /\ \A k \in Calls :
       runs[k] = IF \E i \in 1..Len(window) : EntryOf(i, k) THEN 1 ELSE 0

\* A retry is answered with the receipt: whatever clients were told about a
\* retained request since it ran, they were told that it is being processed or
\* the outcome it ended with; never a second outcome, an expired deadline, a
\* conflict with itself or a full window.
SameAnswer ==
  \A k \in Calls, i \in 1..Len(window) :
    EntryOf(i, k) => told[k] \subseteq {"accepted", window[i].outcome}

\* A request in pending_submissions will be settled, and by the right poll: it
\* waits for its own tab, while that tab is open a submission of it is in
\* progress, and the receipt that finish_submission looks for is retained and
\* not final, so it cannot have been evicted to make room either.
PendingHasReceipt ==
  \A t \in Tabs : pending[t] # NoRequest =>
    /\ pending[t].tab = t
    /\ t \in Open => tabs[t].submitting
    /\ \E i \in 1..Len(window) : EntryOf(i, Call(pending[t])) /\ ~window[i].finalized

\* A committed send-composer whose text was written also had its Enter written,
\* although other requests, polls and the death of the terminal may come
\* between the two.
CommittedMeansEntered ==
  \A q \in Requests, i \in 1..Len(window) :
    /\ EntryOf(i, Call(q)) /\ q.op = "send-composer"
    /\ window[i].outcome = "committed" /\ effect[Call(q)] # "none"
    => effect[Call(q)] = "entered"

\* A request that waits for an open tab does not wait for ever: the receipt is
\* settled by the poll unless the tab is closed.
WaitEnds ==
  \A t \in Tabs :
    (t \in Open /\ pending[t] # NoRequest) ~> (t \notin Open \/ pending[t] = NoRequest)

-----------------------------------------------------------------------------
(* What the code's texts say and the code does not do.                     *)

\* "submission-complete wait descriptor": an accepted receipt is settled some
\* time, here for requests whose tab is never closed.
AcceptedSettles ==
  \A k \in Calls :
    (\E i \in 1..Len(window) : EntryOf(i, k) /\ ~window[i].finalized) ~>
      ~(\E i \in 1..Len(window) : EntryOf(i, k) /\ ~window[i].finalized)
=============================================================================
