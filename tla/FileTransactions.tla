-------------------------- MODULE FileTransactions --------------------------
(***************************************************************************)
(* The recoverable file-copy and file-move of agenterm-cu                  *)
(* (file_transactions.rs, file_move_transactions.rs): apply, recover,      *)
(* rollback and finalize, over a file system of names and objects.         *)
(*                                                                         *)
(* A command may stop after any effect on the file system: the process is  *)
(* killed, a call fails, a check of apply fails.  What is left is the      *)
(* receipt last stored and the names as they stand.  The commands exclude  *)
(* one another by locks on paths, which end with the process; the user's   *)
(* own programs know nothing of them.                                      *)
(***************************************************************************)
EXTENDS Integers, FiniteSets

CONSTANTS
  Transactions,   \* bound: transaction ids that are drawn
  Paths,          \* the user's path names
  MaxObjects,     \* bound: file objects that are told apart
  MaxUserActs,    \* bound: changes the user makes with other programs
  Intrusive       \* does the user change paths a command has locked?

ASSUME FileAssumption ==
  /\ MaxObjects \in Nat /\ MaxUserActs \in Nat
  /\ Intrusive \in BOOLEAN
  /\ IsFiniteSet(Paths) /\ Cardinality(Paths) <= MaxObjects

VARIABLES
  fs,        \* the object each name stands for, 0 for none
  data,      \* the content of each object
  rec,       \* the receipts
  pc,        \* where the command at work on a transaction is
  acts,      \* user actions so far
  precious,  \* history: what the user's files are, as the user left them
  touched,   \* history: transactions whose paths others have meddled with
  refused    \* history: transactions a recovery of which was refused

vars == <<fs, data, rec, pc, acts, precious, touched, refused>>

-----------------------------------------------------------------------------
Objects == 1..MaxObjects

\* The private names of a transaction, in the directories of its paths.
Tmp(t) == <<"tmp", t>>
Staging(t) == <<"marker", t>>
Backup(t) == <<"backup", t>>
SourceBackup(t) == <<"source", t>>
PrivateNames(t) == {Tmp(t), Staging(t), Backup(t), SourceBackup(t)}
Names == Paths \cup UNION {PrivateNames(t) : t \in Transactions}

\* A private name holds the id of its transaction: no path of the user is one.
ASSUME NamesAssumption == \A t \in Transactions : Paths \cap PrivateNames(t) = {}

\* What is in a file: its first content, the full marker of a transaction, a
\* marker that was cut short, a copy that is not complete, or what the user
\* has written, which is something new every time.
First(p) == <<"first", p>>
Marker(t) == <<"marker", t>>
TornMarker == <<"torn", 0>>
Partial == <<"partial", 0>>
Written(k) == <<"user", k>>
NoData == <<"none", 0>>

\* A snapshot is the identity and the content of what a name stands for.
NoSnap == <<0, NoData>>
snapshot(n) == IF fs[n] = 0 THEN NoSnap ELSE <<fs[n], data[fs[n]]>>

NoReceipt == [state |-> "none", kind |-> "none", src |-> "none", dst |-> "none",
              source |-> NoSnap, old |-> NoSnap, ident |-> 0, prepared |-> NoSnap,
              result |-> NoSnap]

InUse ==
  {fs[n] : n \in Names}
    \cup UNION {{rec[t].source[1], rec[t].old[1], rec[t].ident} : t \in Transactions}
FreshObjects == Objects \ InUse
FreshObject == CHOOSE o \in FreshObjects : TRUE

Finished(t) == rec[t].state \in {"none", "rolled_back", "finalized"}
IsMove(t) == rec[t].kind = "move"

\* Slip: a move locks its destination only.
LockedPaths_destination(kind, src, dst) == {dst}

\* destination_lock and path_locks.
LockedPaths(kind, src, dst) == IF kind = "move" THEN {src, dst} ELSE {dst}

Held == UNION {LockedPaths(rec[t].kind, rec[t].src, rec[t].dst) :
                 t \in {u \in Transactions : pc[u] # "none"}}

\* The steps of a command: where it goes, what it stores, what it names.
Goto(t, next) == pc' = [pc EXCEPT ![t] = next]
Persist(t, receipt) == rec' = [rec EXCEPT ![t] = receipt]
Name(n, o) == fs' = [fs EXCEPT ![n] = o]
Rename(from, to) == fs' = [fs EXCEPT ![to] = fs[from], ![from] = 0]

NoHistory == UNCHANGED <<acts, precious, touched, refused>>

\* Some of the paths exist, each an object of its own with its own content.
Init ==
  /\ \E first \in [Paths -> 0..Cardinality(Paths)] :
       /\ \E p \in Paths : first[p] # 0
       /\ \A p, q \in Paths : first[p] = first[q] /\ first[p] # 0 => p = q
       /\ \A p \in Paths : first[p] <= Cardinality({q \in Paths : first[q] # 0})
       /\ fs = [n \in Names |-> IF n \in Paths THEN first[n] ELSE 0]
       /\ data = [o \in Objects |-> IF \E p \in Paths : first[p] = o
                                   THEN First(CHOOSE p \in Paths : first[p] = o) ELSE NoData]
  /\ rec = [t \in Transactions |-> NoReceipt]
  /\ pc = [t \in Transactions |-> "none"]
  /\ acts = 0
  /\ precious = {snapshot(p) : p \in {q \in Paths : fs[q] # 0}}
  /\ touched = {} /\ refused = {}

-----------------------------------------------------------------------------
(***************************************************************************)
(* apply.                                                                  *)
(***************************************************************************)

\* The plan is made again under the locks and the receipt stored.  The
\* destination exists only if --replace was given.
Begin(t, kind, src, dst) ==
  LET locks == LockedPaths(kind, src, dst)
      met == {u \in Transactions : ~Finished(u) /\ {rec[u].src, rec[u].dst} \cap {src, dst} # {}}
  IN  /\ rec[t].state = "none"
      /\ src # dst /\ fs[src] # 0
      /\ locks \cap Held = {}
      /\ Persist(t, [NoReceipt EXCEPT !.state = "reserved", !.kind = kind, !.src = src,
                       !.dst = dst, !.source = snapshot(src), !.old = snapshot(dst)])
      /\ Goto(t, "stage")
      /\ touched' = IF met = {} THEN touched ELSE touched \cup met \cup {t}
      /\ UNCHANGED <<fs, data, acts, precious, refused>>

\* stage_marker: created exclusively, then written and synced.  A crash in
\* between leaves a marker that is not fully written.
StageMarker(t) ==
  /\ pc[t] = "stage"
  /\ FreshObjects # {}
  /\ Name(Staging(t), FreshObject)
  /\ \/ /\ data' = [data EXCEPT ![FreshObject] = Marker(t)]
        /\ Goto(t, "link_marker")
     \/ /\ data' = [data EXCEPT ![FreshObject] = TornMarker]
        /\ Goto(t, "none")
  /\ UNCHANGED rec /\ NoHistory

\* publish_marker: a link, then the staging name goes.
LinkMarker(t) ==
  /\ pc[t] = "link_marker"
  /\ fs[Tmp(t)] = 0
  /\ Name(Tmp(t), fs[Staging(t)])
  /\ Goto(t, "unstage")
  /\ UNCHANGED <<data, rec>> /\ NoHistory

UnstageMarker(t) ==
  /\ pc[t] = "unstage"
  /\ Name(Staging(t), 0)
  /\ Goto(t, "identify")
  /\ UNCHANGED <<data, rec>> /\ NoHistory

\* The identity of the open object is stored before its marker goes.
Identify(t) ==
  /\ pc[t] = "identify"
  /\ Persist(t, [rec[t] EXCEPT !.ident = fs[Tmp(t)]])
  /\ Goto(t, "truncate")
  /\ UNCHANGED <<fs, data>> /\ NoHistory

\* The temporary is emptied and the source, reopened, is what was planned.
Truncate(t) ==
  /\ pc[t] = "truncate"
  /\ data' = [data EXCEPT ![fs[Tmp(t)]] = Partial]
  /\ Goto(t, IF snapshot(rec[t].src) = rec[t].source THEN "copy" ELSE "none")
  /\ UNCHANGED <<fs, rec>> /\ NoHistory

\* The copy reads the opened source; its checksum is compared.
Copy(t) ==
  LET content == data[rec[t].source[1]]
  IN  /\ pc[t] = "copy"
      /\ data' = [data EXCEPT ![fs[Tmp(t)]] = content]
      /\ Goto(t, IF content = rec[t].source[2] THEN "prepared" ELSE "none")
      /\ UNCHANGED <<fs, rec>> /\ NoHistory

Prepared(t) ==
  /\ pc[t] = "prepared"
  /\ Persist(t, [rec[t] EXCEPT !.state = "copy_prepared", !.prepared = snapshot(Tmp(t))])
  /\ Goto(t, IF rec[t].old = NoSnap THEN "publish" ELSE "retire")
  /\ UNCHANGED <<fs, data>> /\ NoHistory

\* retire_regular_no_replace: both names stand for the object for a moment,
\* and the old one goes only when both are seen to.
Link(t, from, to, expected, next) ==
  /\ snapshot(from) = expected /\ fs[to] = 0
  /\ Name(to, fs[from])
  /\ Goto(t, next)
  /\ UNCHANGED <<data, rec>>

Unlink(t, from, to, expected, next) ==
  /\ snapshot(from) = expected /\ snapshot(to) = expected
  /\ Name(from, 0)
  /\ Goto(t, next)
  /\ UNCHANGED <<data, rec>>

RetireOld(t) ==
  /\ \/ pc[t] = "retire" /\ Link(t, rec[t].dst, Backup(t), rec[t].old, "unlink")
     \/ pc[t] = "unlink" /\ Unlink(t, rec[t].dst, Backup(t), rec[t].old, "moved")
  /\ NoHistory

BackupMoved(t) ==
  /\ pc[t] = "moved"
  /\ Persist(t, [rec[t] EXCEPT !.state = "backup_moved"])
  /\ Goto(t, "publish")
  /\ UNCHANGED <<fs, data>> /\ NoHistory

\* publish_file, which replaces whatever the destination is.  A move looks
\* at its temporary once more.
Publish(t) ==
  /\ pc[t] = "publish"
  /\ IsMove(t) => snapshot(Tmp(t)) = rec[t].prepared
  /\ Rename(Tmp(t), rec[t].dst)
  /\ Goto(t, "readback")
  /\ UNCHANGED <<data, rec>> /\ NoHistory

Readback(t) ==
  LET now == snapshot(rec[t].dst)
  IN  /\ pc[t] = "readback"
      /\ now # NoSnap /\ now[2] = rec[t].source[2]
      /\ Persist(t, [rec[t] EXCEPT !.result = now,
                       !.state = IF IsMove(t) THEN "installed" ELSE "completed"])
      /\ Goto(t, IF IsMove(t) THEN "retire_src" ELSE "none")
      /\ UNCHANGED <<fs, data>> /\ NoHistory

RetireSource(t) ==
  /\ \/ pc[t] = "retire_src" /\ Link(t, rec[t].src, SourceBackup(t), rec[t].source, "unlink_src")
     \/ pc[t] = "unlink_src" /\ Unlink(t, rec[t].src, SourceBackup(t), rec[t].source, "complete")
  /\ NoHistory

Complete(t) ==
  /\ pc[t] = "complete"
  /\ Persist(t, [rec[t] EXCEPT !.state = "completed"])
  /\ Goto(t, "none")
  /\ UNCHANGED <<fs, data>> /\ NoHistory

\* Any command stops here: killed, or a call or a check has failed.
Interrupted(t) ==
  /\ pc[t] # "none"
  /\ Goto(t, "none")
  /\ UNCHANGED <<fs, data, rec>> /\ NoHistory

-----------------------------------------------------------------------------
(***************************************************************************)
(* recover, rollback and finalize.  `ok` is the check of the code; when it *)
(* fails the command is refused and nothing more is done.                  *)
(***************************************************************************)
Refuse(t) ==
  /\ Goto(t, "none")
  /\ refused' = refused \cup {t}
  /\ UNCHANGED <<fs, data, rec, acts, precious, touched>>

Quiet == UNCHANGED <<data, acts, precious, touched, refused>>

\* locked_receipt: the locks, then the receipt as it is under them.
Locked(t) ==
  /\ pc[t] = "none"
  /\ LockedPaths(rec[t].kind, rec[t].src, rec[t].dst) \cap Held = {}

\* Slip: recovery does not know the moment when both names exist.
Restorable_one_name(at, bak, expected) ==
  <<snapshot(at), snapshot(bak)>> \in {<<expected, NoSnap>>, <<NoSnap, expected>>}

\* The cases of restore_retired_regular and of verify_source_for_rollback.
Restorable(at, bak, expected) ==
  <<snapshot(at), snapshot(bak)>> \in
    {<<expected, NoSnap>>, <<NoSnap, expected>>, <<expected, expected>>}

\* restore_retired_regular: back by a link that replaces nothing, then the
\* backup name goes; `half` is the moment in between.
Restore(t, at, bak, half, next) ==
  /\ IF fs[at] = 0 THEN Name(at, fs[bak]) ELSE Name(bak, 0)
  /\ Goto(t, IF fs[at] = 0 THEN half ELSE next)
  /\ UNCHANGED rec /\ Quiet

Installed(t) ==
  LET now == snapshot(rec[t].dst)
  IN  now # NoSnap /\ now[2] = rec[t].source[2] /\ now[1] = rec[t].ident

verify_backup(t) == rec[t].old # NoSnap => snapshot(Backup(t)) = rec[t].old
verify_source_for_rollback(t) ==
  IsMove(t) => Restorable(rec[t].src, SourceBackup(t), rec[t].source)

RollBackFrom(t, result) ==
  /\ Persist(t, [rec[t] EXCEPT !.state = "rolling_back", !.result = result])
  /\ Goto(t, IF IsMove(t) THEN "restore_src" ELSE "restore_old")
  /\ UNCHANGED fs /\ Quiet

\* recover before the destination was read back: recover_reserved.
RecoverReserved(t) ==
  /\ Locked(t)
  /\ rec[t].state \in {"reserved", "copy_prepared", "backup_moved"}
  /\ \/ /\ Installed(t)
        /\ IF verify_backup(t) /\ verify_source_for_rollback(t)
           THEN RollBackFrom(t, snapshot(rec[t].dst)) ELSE Refuse(t)
     \/ /\ ~Installed(t) /\ rec[t].old = NoSnap
        /\ IF fs[rec[t].dst] = 0
           THEN Goto(t, "clean") /\ UNCHANGED <<fs, rec>> /\ Quiet
           ELSE Refuse(t)
     \/ /\ ~Installed(t) /\ rec[t].old # NoSnap
        /\ IF Restorable(rec[t].dst, Backup(t), rec[t].old)
           THEN Restore(t, rec[t].dst, Backup(t), "undo_link", "clean")
           ELSE Refuse(t)

UndoLink(t) ==
  /\ pc[t] = "undo_link"
  /\ IF snapshot(rec[t].dst) = rec[t].old /\ snapshot(Backup(t)) = rec[t].old
     THEN Name(Backup(t), 0) /\ Goto(t, "clean") /\ UNCHANGED rec /\ Quiet
     ELSE Refuse(t)

\* remove_marker_owned: only the full marker of this transaction proves it.
OwnedByMarker(t, n) == fs[n] = 0 \/ data[fs[n]] = Marker(t)

CleanStaging(t) ==
  /\ pc[t] = "clean"
  /\ IF OwnedByMarker(t, Staging(t))
     THEN Name(Staging(t), 0) /\ Goto(t, "clean_tmp") /\ UNCHANGED rec /\ Quiet
     ELSE Refuse(t)

CleanTmp(t) ==
  /\ pc[t] = "clean_tmp"
  /\ IF \/ fs[Tmp(t)] = 0
        \/ rec[t].ident = 0 /\ OwnedByMarker(t, Tmp(t))
        \/ rec[t].ident # 0 /\ fs[Tmp(t)] = rec[t].ident
     THEN Name(Tmp(t), 0) /\ Goto(t, "rolled_back") /\ UNCHANGED rec /\ Quiet
     ELSE Refuse(t)

\* rollback of a completed transaction, and recover of a move whose source
\* is not retired for certain.
RollBack(t) ==
  /\ Locked(t)
  /\ rec[t].state \in {"completed", "installed"}
  /\ IF /\ snapshot(rec[t].dst) = rec[t].result
        /\ verify_backup(t) /\ verify_source_for_rollback(t)
     THEN RollBackFrom(t, rec[t].result) ELSE Refuse(t)

\* recover of an interrupted rollback.
ResumeRollBack(t) ==
  /\ Locked(t)
  /\ rec[t].state = "rolling_back"
  /\ Goto(t, IF IsMove(t) THEN "restore_src" ELSE "restore_old")
  /\ UNCHANGED <<fs, rec>> /\ Quiet

\* finish_rollback, first the source of a move.
RestoreSource(t) ==
  /\ pc[t] \in {"restore_src", "undo_src"}
  /\ IF /\ Restorable(rec[t].src, SourceBackup(t), rec[t].source)
        /\ pc[t] = "undo_src" => fs[rec[t].src] # 0 /\ fs[SourceBackup(t)] # 0
     THEN Restore(t, rec[t].src, SourceBackup(t), "undo_src", "restore_old")
     ELSE Refuse(t)

\* Slip: what was published is removed without a look at it.
Removable_unseen(t) == TRUE

\* A destination that was new may go if it is still what was published.
Removable(t) == snapshot(rec[t].dst) \in {NoSnap, rec[t].result}

\* finish_rollback, the destination.
RestoreOld(t) ==
  LET now == snapshot(rec[t].dst)
  IN  /\ pc[t] = "restore_old"
      /\ \/ /\ rec[t].old = NoSnap
            /\ IF Removable(t)
               THEN Name(rec[t].dst, 0) /\ Goto(t, "rolled_back") /\ UNCHANGED rec /\ Quiet
               ELSE Refuse(t)
         \/ /\ rec[t].old # NoSnap
            /\ IF now = rec[t].old /\ fs[Backup(t)] = 0
               THEN Goto(t, "rolled_back") /\ UNCHANGED <<fs, rec>> /\ Quiet
               ELSE IF now = rec[t].result /\ snapshot(Backup(t)) = rec[t].old
               THEN /\ Rename(Backup(t), rec[t].dst)
                    /\ Goto(t, "rolled_back") /\ UNCHANGED rec /\ Quiet
               ELSE Refuse(t)

RolledBack(t) ==
  /\ pc[t] = "rolled_back"
  /\ Persist(t, [rec[t] EXCEPT !.state = "rolled_back"])
  /\ Goto(t, "none")
  /\ UNCHANGED fs /\ Quiet

\* finalize, and recover of an interrupted one.
Finalize(t) ==
  /\ Locked(t)
  /\ rec[t].state = "completed"
  /\ IF /\ snapshot(rec[t].dst) = rec[t].result
        /\ verify_backup(t)
        /\ IsMove(t) => /\ snapshot(SourceBackup(t)) = rec[t].source
                        /\ fs[rec[t].src] = 0
     THEN /\ Persist(t, [rec[t] EXCEPT !.state = "finalizing"])
          /\ Goto(t, "drop_source") /\ UNCHANGED fs /\ Quiet
     ELSE Refuse(t)

ResumeFinalize(t) ==
  /\ Locked(t)
  /\ rec[t].state = "finalizing"
  /\ IF snapshot(rec[t].dst) = rec[t].result
     THEN Goto(t, "drop_source") /\ UNCHANGED <<fs, rec>> /\ Quiet
     ELSE Refuse(t)

\* finish_finalize: a backup that is as it was stored, or gone already.
DropBackup(t) ==
  \/ /\ pc[t] = "drop_source"
     /\ IF IsMove(t) => snapshot(SourceBackup(t)) \in {NoSnap, rec[t].source}
        THEN Name(SourceBackup(t), 0) /\ Goto(t, "drop_old") /\ UNCHANGED rec /\ Quiet
        ELSE Refuse(t)
  \/ /\ pc[t] = "drop_old"
     /\ IF rec[t].old # NoSnap => snapshot(Backup(t)) \in {NoSnap, rec[t].old}
        THEN Name(Backup(t), 0) /\ Goto(t, "finalized") /\ UNCHANGED rec /\ Quiet
        ELSE Refuse(t)

Finalized(t) ==
  /\ pc[t] = "finalized"
  /\ Persist(t, [rec[t] EXCEPT !.state = "finalized"])
  /\ Goto(t, "none")
  /\ UNCHANGED fs /\ Quiet

-----------------------------------------------------------------------------
(***************************************************************************)
(* The user's other programs: a file is written in place, put in place of  *)
(* another or removed.                                                     *)
(***************************************************************************)
UserActs(p) ==
  LET old == {s \in precious : s[1] = fs[p]}
      meddled == {t \in Transactions : ~Finished(t) /\ p \in {rec[t].src, rec[t].dst}}
  IN  /\ acts < MaxUserActs
      /\ acts' = acts + 1
      /\ Intrusive \/ p \notin Held
      /\ \/ /\ fs[p] # 0                                         \* in place
            /\ data' = [data EXCEPT ![fs[p]] = Written(acts')]
            /\ precious' = (precious \ old) \cup {<<fs[p], Written(acts')>>}
            /\ UNCHANGED fs
         \/ /\ FreshObjects # {}                                  \* anew
            /\ data' = [data EXCEPT ![FreshObject] = Written(acts')]
            /\ Name(p, FreshObject)
            /\ precious' = (precious \ old) \cup {<<FreshObject, Written(acts')>>}
         \/ /\ fs[p] # 0                                         \* removed
            /\ Name(p, 0)
            /\ precious' = precious \ old
            /\ UNCHANGED data
      /\ touched' = touched \cup meddled
      /\ UNCHANGED <<rec, pc, refused>>

-----------------------------------------------------------------------------
Apply(t) ==
  \/ \E kind \in {"copy", "move"}, src, dst \in Paths : Begin(t, kind, src, dst)
  \/ StageMarker(t) \/ LinkMarker(t) \/ UnstageMarker(t) \/ Identify(t)
  \/ Truncate(t) \/ Copy(t) \/ Prepared(t) \/ RetireOld(t) \/ BackupMoved(t)
  \/ Publish(t) \/ Readback(t) \/ RetireSource(t) \/ Complete(t)

Settle(t) ==
  \/ RecoverReserved(t) \/ UndoLink(t) \/ CleanStaging(t) \/ CleanTmp(t)
  \/ RollBack(t) \/ ResumeRollBack(t) \/ RestoreSource(t) \/ RestoreOld(t)
  \/ RolledBack(t) \/ Finalize(t) \/ ResumeFinalize(t) \/ DropBackup(t)
  \/ Finalized(t)

Next ==
  \/ \E t \in Transactions : Apply(t) \/ Settle(t) \/ Interrupted(t)
  \/ \E p \in Paths : UserActs(p)

Spec == Init /\ [][Next]_vars

-----------------------------------------------------------------------------
\* Nothing of the user's is lost: every file, as the user last left it, is
\* still there under some name, until a finalize lets go of the file that
\* was replaced or moved.
NothingLost ==
  \A s \in precious :
     \/ \E n \in Names : snapshot(n) = s
     \/ \E t \in Transactions :
           /\ rec[t].state \in {"finalizing", "finalized"}
           /\ s = rec[t].old \/ (IsMove(t) /\ s = rec[t].source)

\* A recovery is refused only when somebody else has changed the paths of
\* the transaction, or when apply was cut off while it wrote its marker, which
\* leaves a file that nothing shows to be the transaction's.  Wherever else
\* apply, rollback, finalize or recover was cut off, recover finds its way.
Torn(t) == fs[Staging(t)] # 0 /\ data[fs[Staging(t)]] = TornMarker
RefusedOnlyIfTouched == \A t \in refused : t \in touched \/ Torn(t)

\* Each end is exactly what its name says.  Rolled back: the destination is
\* the old object, or none if there was none, and no private name is left.
\* Completed: the copied content is there and what it replaced is in the
\* backups.  Finalized: the result alone is left.
EndsStep ==
  \A t \in Transactions :
    LET Becomes(state) == rec[t].state # state /\ rec'[t].state = state
        bare == \A n \in PrivateNames(t) : fs[n] = 0
    IN  /\ Becomes("rolled_back") =>
              /\ snapshot(rec[t].dst) = rec[t].old /\ bare
              /\ IsMove(t) /\ rec[t].state = "rolling_back" =>
                    snapshot(rec[t].src) = rec[t].source
        /\ Becomes("completed") =>
              /\ snapshot(rec[t].dst)[2] = rec[t].source[2]
              /\ snapshot(Backup(t)) = rec[t].old
              /\ IsMove(t) => /\ fs[rec[t].src] = 0
                              /\ snapshot(SourceBackup(t)) = rec[t].source
        /\ Becomes("finalized") =>
              snapshot(rec[t].dst) = rec[t].result /\ bare

\* Every step that ends a transaction ends it as EndsStep says.
EndsExact == [][EndsStep]_vars
=============================================================================
