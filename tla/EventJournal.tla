---------------------------- MODULE EventJournal ----------------------------
(***************************************************************************)
(* The event journal of the workspace authority and the readers that       *)
(* follow it (read-events, ui-deltas, wait-event): a reader takes a        *)
(* position from a snapshot response as its baseline and then asks for the *)
(* events after its cursor, batch by batch, while the server commits       *)
(* events, forgets the oldest ones and may be restarted under a new epoch. *)
(*                                                                         *)
(* log, base and seen are history variables: everything ever committed per *)
(* epoch, the baseline of each reader, and what it received since then.    *)
(***************************************************************************)
EXTENDS Journal

CONSTANTS
  Subjects,      \* what an event can be about
  Readers,
  Limits,        \* values of --limit the readers use
  MaxSequence,   \* bound: events committed per epoch
  MaxEpoch       \* bound: server starts

ASSUME BoundsAssumption == /\ MaxSequence \in Nat
                           /\ MaxEpoch \in Nat \ {0}
                           /\ Limits \subseteq Nat \ {0}

VARIABLES
  journal,       \* the server's EventJournal
  log,           \* history: per epoch, the subjects committed, in order
  cursor,        \* per reader, the position it asks after
  status,        \* per reader, the code of its last answer
  base,          \* history: the sequence of its baseline
  seen           \* history: the events received since the baseline

vars == <<journal, log, cursor, status, base, seen>>

Epochs == 1..MaxEpoch
Codes == {"ok", "server_restart", "journal_gap", "future_sequence"}
EventType == [epoch : Epochs, sequence : Nat, about : Subjects]

-----------------------------------------------------------------------------
Init ==
  /\ journal = with_epoch(1)
  /\ log = [e \in Epochs |-> <<>>]
  /\ cursor = [r \in Readers |-> position(journal)]
  /\ status = [r \in Readers |-> "ok"]
  /\ base = [r \in Readers |-> 0]
  /\ seen = [r \in Readers |-> <<>>]

\* Any handler of the server that commits an event (commit, commit_correlated).
Commit(about) ==
  /\ journal.sequence < MaxSequence
  /\ journal' = commit(journal, about)
  /\ log' = [log EXCEPT ![journal.epoch] = Append(@, about)]
  /\ UNCHANGED <<cursor, status, base, seen>>

\* Slip: a restarted server keeps the epoch it had.
Restart_same_epoch ==
  /\ journal.epoch < MaxEpoch
  /\ journal' = with_epoch(journal.epoch)
  /\ log' = [log EXCEPT ![journal.epoch] = <<>>]
  /\ UNCHANGED <<cursor, status, base, seen>>

\* EventJournal::new in a new server process: new_epoch() is a fresh name.
Restart ==
  /\ journal.epoch < MaxEpoch
  /\ journal' = with_epoch(journal.epoch + 1)
  /\ UNCHANGED <<log, cursor, status, base, seen>>

\* A snapshot response carries position(); the reader starts over from it.
Baseline(r) ==
  /\ cursor' = [cursor EXCEPT ![r] = position(journal)]
  /\ status' = [status EXCEPT ![r] = "ok"]
  /\ base' = [base EXCEPT ![r] = journal.sequence]
  /\ seen' = [seen EXCEPT ![r] = <<>>]
  /\ UNCHANGED <<journal, log>>

\* Slip: a reader asks only when the server's sequence is ahead of its own.
Read_only_when_ahead(r, limit) ==
  LET answer == read_after(journal, cursor[r].epoch, cursor[r].sequence, limit)
      got == answer.events
  IN  /\ status[r] = "ok" /\ journal.sequence > cursor[r].sequence
      /\ status' = [status EXCEPT ![r] = answer.code]
      /\ seen' = [seen EXCEPT ![r] = @ \o got]
      /\ cursor' = [cursor EXCEPT ![r].sequence =
                      IF got = <<>> THEN @ ELSE got[Len(got)].sequence]
      /\ UNCHANGED <<journal, log, base>>

\* One read_after answer.  A reader continues after the last event it got.
Read(r, limit) ==
  LET answer == read_after(journal, cursor[r].epoch, cursor[r].sequence, limit)
      got == answer.events
  IN  /\ status[r] = "ok"
      /\ status' = [status EXCEPT ![r] = answer.code]
      /\ seen' = [seen EXCEPT ![r] = @ \o got]
      /\ cursor' = [cursor EXCEPT ![r].sequence =
                      IF got = <<>> THEN @ ELSE got[Len(got)].sequence]
      /\ UNCHANGED <<journal, log, base>>

Next ==
  \/ \E about \in Subjects : Commit(about)
  \/ Restart
  \/ \E r \in Readers : Baseline(r)
  \/ \E r \in Readers, limit \in Limits : Read(r, limit)

Spec == Init /\ [][Next]_vars

\* Readers keep polling, and a refused reader takes a new baseline: the client
\* loops retry on a timer.  Nothing forces the server to commit or restart.
FairSpec ==
  /\ Spec
  /\ \A r \in Readers :
       /\ WF_vars(\E limit \in Limits : Read(r, limit))
       /\ WF_vars(status[r] # "ok" /\ Baseline(r))

-----------------------------------------------------------------------------
\* Types, and the bound on the retained events.
TypeOK ==
  /\ journal.epoch \in Epochs
  /\ journal.sequence \in Nat
  /\ journal.events \in Seq(EventType)
  /\ Len(journal.events) <= capacity
  /\ log \in [Epochs -> Seq(Subjects)]
  /\ cursor \in [Readers -> [epoch : Epochs, sequence : Nat]]
  /\ status \in [Readers -> Codes]
  /\ base \in [Readers -> Nat]
  /\ seen \in [Readers -> Seq(EventType)]

\* The journal is the end of what was committed in its epoch: every retained
\* envelope is the committed event of its number, none is missing in between,
\* and only a full deque has forgotten anything.
JournalIsSuffix ==
  LET n == Len(journal.events)
      forgotten == journal.sequence - n
  IN  /\ Len(log[journal.epoch]) = journal.sequence
      /\ n = IF journal.sequence < capacity THEN journal.sequence ELSE capacity
      /\ \A i \in 1..n :
           journal.events[i] = Event(journal.epoch, forgotten + i,
                                     log[journal.epoch][forgotten + i])

\* "Explicit gap/restart errors rather than silent loss": whatever a reader
\* received since its baseline is exactly what was committed from there up to
\* its cursor, in order, without a hole or a repetition, also when the journal
\* wrapped around or the server restarted between two reads.
NoSilentLoss ==
  \A r \in Readers :
    /\ cursor[r].sequence = base[r] + Len(seen[r])
    /\ cursor[r].sequence <= Len(log[cursor[r].epoch])
    /\ \A i \in 1..Len(seen[r]) :
         seen[r][i] = Event(cursor[r].epoch, base[r] + i,
                            log[cursor[r].epoch][base[r] + i])

\* The gap error is neither early nor late: a read inside the current epoch
\* succeeds exactly when the event it needs next is retained (or nothing is
\* due), and it then begins with that event.
RefusedOnlyWhenLost ==
  \A n \in 0..journal.sequence :
    LET answer == read_after(journal, journal.epoch, n, 1)
        held == \E i \in 1..Len(journal.events) :
                  journal.events[i].sequence = n + 1
    IN  /\ answer.code = "ok" <=> (n = journal.sequence \/ held)
        /\ held => /\ Len(answer.events) = 1
                   /\ answer.events[1].sequence = n + 1

\* A reader that only uses positions the server gave it is never told that its
\* position lies in the future: restarts are recognised by the epoch first.
NeverFuture == \A r \in Readers : status[r] # "future_sequence"

\* A reader that keeps asking gets to the end of the journal, over and over.
CatchesUp == \A r \in Readers : []<>(cursor[r] = position(journal))
=============================================================================
