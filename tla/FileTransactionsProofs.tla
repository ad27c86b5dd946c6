----------------------- MODULE FileTransactionsProofs -----------------------
(***************************************************************************)
(* No file of the user is lost by file-copy and file-move, recover finds   *)
(* its way wherever a command was cut off, and each end is what it says,   *)
(* for any number of transactions, paths, objects and user actions, as     *)
(* long as other programs keep away from the paths a command has locked at *)
(* that moment.                                                            *)
(***************************************************************************)
EXTENDS FileTransactions, FiniteSetTheorems, TLAPS

\* Contents that exist after the user has acted k times.
Contents(k) ==
  {First(p) : p \in Paths} \cup {Marker(t) : t \in Transactions}
    \cup {Written(i) : i \in 1..k} \cup {TornMarker, Partial, NoData}

Snaps(k) == (Objects \cup {0}) \X Contents(k)

States == {"none", "reserved", "copy_prepared", "backup_moved", "installed", "completed",
           "rolling_back", "rolled_back", "finalizing", "finalized"}

Receipts(k) ==
  [state : States, kind : {"none", "copy", "move"}, src : Paths \cup {"none"},
   dst : Paths \cup {"none"}, source : Snaps(k), old : Snaps(k), ident : Objects \cup {0},
   prepared : Snaps(k), result : Snaps(k)]

\* Where a command can be.
Early == {"stage", "link_marker", "unstage", "identify"}
Making == {"truncate", "copy", "prepared", "retire", "unlink", "moved", "publish"}
Moving == {"retire_src", "unlink_src", "restore_src", "undo_src"}
Dropping == {"drop_source", "drop_old", "finalized"}
Ending == {"finalizing", "finalized"}
Pcs == {"none", "readback", "complete", "undo_link", "clean", "clean_tmp", "restore_old",
        "rolled_back"} \cup Early \cup Making \cup Moving \cup Dropping

TypeOK ==
  /\ acts \in Nat
  /\ fs \in [Names -> Objects \cup {0}]
  /\ data \in [Objects -> Contents(acts)]
  /\ rec \in [Transactions -> Receipts(acts)]
  /\ pc \in [Transactions -> Pcs]
  /\ precious \subseteq Objects \X Contents(acts)
  /\ touched \subseteq Transactions /\ refused \subseteq Transactions

-----------------------------------------------------------------------------
(* The inductive invariant.                                                *)

\* A command has a receipt, and a receipt two different paths and a source.
Started(t) ==
  /\ pc[t] # "none" => rec[t].state # "none"
  /\ rec[t].state = "none" => rec[t] = NoReceipt
  /\ rec[t].state # "none" => /\ rec[t].src \in Paths /\ rec[t].dst \in Paths
                              /\ rec[t].src # rec[t].dst /\ rec[t].source[1] # 0

Locks(t) == LockedPaths(rec[t].kind, rec[t].src, rec[t].dst)

\* Commands at work have no locked path in common.
LocksApart ==
  \A t, u \in Transactions :
    t # u /\ pc[t] # "none" /\ pc[u] # "none" => Locks(t) \cap Locks(u) = {}

Scratch(t) == {Tmp(t), Staging(t)}

\* What a transaction works on is nobody else's: no other name stands for it,
\* and it is no file of the user.
ScratchApart ==
  \A t \in Transactions : \A n \in Scratch(t) : fs[n] # 0 =>
    /\ \A s \in precious : s[1] # fs[n]
    /\ \A m \in Names \ Scratch(t) : fs[m] # fs[n]

\* How far a command has come.
Phase(t) ==
  /\ pc[t] \in Making => fs[Tmp(t)] = rec[t].ident /\ rec[t].ident # 0 /\ fs[Staging(t)] = 0
  /\ pc[t] \in Early => rec[t].result = NoSnap
  /\ pc[t] = "link_marker" => fs[Staging(t)] # 0
  /\ pc[t] = "unstage" => fs[Tmp(t)] # 0
  /\ pc[t] = "identify" => fs[Tmp(t)] # 0 /\ fs[Staging(t)] = 0
  /\ pc[t] \in Moving => IsMove(t)
  /\ pc[t] \in Dropping => rec[t].state = "finalizing"
  /\ pc[t] \notin Dropping \cup {"none"} => rec[t].state \notin Ending

\* Nothing is at the destination when it is published; then the copy is.
Vacant(t) ==
  /\ pc[t] \in Early \cup Making /\ rec[t].old = NoSnap => fs[rec[t].dst] = 0
  /\ pc[t] \in {"moved", "publish"} => fs[rec[t].dst] = 0
  /\ pc[t] = "readback" => fs[rec[t].dst] = rec[t].ident /\ rec[t].ident # 0

\* A result is the copy as it was made, and that is no file of the user.
CopyIsOurs(t) ==
  /\ \/ rec[t].result = NoSnap
     \/ rec[t].ident # 0 /\ rec[t].result = <<rec[t].ident, rec[t].source[2]>>
  /\ rec[t].ident # 0 => <<rec[t].ident, rec[t].source[2]>> \notin precious

\* Backups exist only of what there was.
Backups(t) ==
  /\ fs[SourceBackup(t)] # 0 => IsMove(t)
  /\ fs[Backup(t)] # 0 => rec[t].old # NoSnap

IInv ==
  /\ TypeOK /\ LocksApart /\ ScratchApart /\ NothingLost
  /\ \A t \in Transactions : Started(t) /\ Phase(t) /\ Vacant(t) /\ CopyIsOurs(t) /\ Backups(t)

-----------------------------------------------------------------------------
(* Names, snapshots, contents.                                             *)

LEMMA NamesAre ==
  /\ Paths \subseteq Names
  /\ \A t \in Transactions :
       /\ Tmp(t) \in Names /\ Staging(t) \in Names /\ Backup(t) \in Names /\ SourceBackup(t) \in Names
       /\ Tmp(t) \notin Paths /\ Staging(t) \notin Paths
       /\ Backup(t) \notin Paths /\ SourceBackup(t) \notin Paths
  /\ \A t, u \in Transactions :
       /\ Tmp(t) \notin {Staging(u), Backup(u), SourceBackup(u)}
       /\ Staging(t) \notin {Backup(u), SourceBackup(u)} /\ Backup(t) # SourceBackup(u)
       /\ t # u => /\ Tmp(t) # Tmp(u) /\ Staging(t) # Staging(u)
                   /\ Backup(t) # Backup(u) /\ SourceBackup(t) # SourceBackup(u)
  <1>1. Paths \subseteq Names
    BY DEF Names
  <1>2. ASSUME NEW t \in Transactions
        PROVE  /\ Tmp(t) \in Names /\ Staging(t) \in Names /\ Backup(t) \in Names /\ SourceBackup(t) \in Names
               /\ Tmp(t) \notin Paths /\ Staging(t) \notin Paths
               /\ Backup(t) \notin Paths /\ SourceBackup(t) \notin Paths
    <2>1. {Tmp(t), Staging(t), Backup(t), SourceBackup(t)} \subseteq Names
      BY DEF Names, PrivateNames
    <2>2. Paths \cap {Tmp(t), Staging(t), Backup(t), SourceBackup(t)} = {}
      BY NamesAssumption DEF PrivateNames
    <2> QED  BY <2>1, <2>2
  <1>3. ASSUME NEW t \in Transactions, NEW u \in Transactions
        PROVE  /\ Tmp(t) \notin {Staging(u), Backup(u), SourceBackup(u)}
               /\ Staging(t) \notin {Backup(u), SourceBackup(u)} /\ Backup(t) # SourceBackup(u)
               /\ t # u => /\ Tmp(t) # Tmp(u) /\ Staging(t) # Staging(u)
                           /\ Backup(t) # Backup(u) /\ SourceBackup(t) # SourceBackup(u)
    BY DEF Tmp, Staging, Backup, SourceBackup
  <1> QED  BY <1>1, <1>2, <1>3

LEMMA SnapshotsAre ==
  ASSUME TypeOK, NEW n \in Names
  PROVE  /\ snapshot(n) \in Snaps(acts)
         /\ snapshot(n) = NoSnap <=> fs[n] = 0
         /\ fs[n] # 0 => /\ snapshot(n) = <<fs[n], data[fs[n]]>> /\ fs[n] \in Objects
                         /\ snapshot(n)[1] = fs[n] /\ snapshot(n)[2] = data[fs[n]]
  <1>1. fs[n] \in Objects \cup {0} /\ 0 \notin Objects
    BY DEF TypeOK, Objects
  <1>2. CASE fs[n] = 0
    BY <1>2 DEF snapshot, NoSnap, Snaps, Contents
  <1>3. CASE fs[n] # 0
    <2>1. snapshot(n) = <<fs[n], data[fs[n]]>>
      BY <1>3 DEF snapshot
    <2>2. data[fs[n]] \in Contents(acts)
      BY <1>1, <1>3 DEF TypeOK
    <2> QED  BY <1>1, <1>3, <2>1, <2>2 DEF Snaps, NoSnap
  <1> QED  BY <1>2, <1>3

\* What the user writes next is in no file and in no receipt.
LEMMA WrittenIsNew ==
  ASSUME NEW k \in Nat
  PROVE  /\ Contents(k) \subseteq Contents(k + 1) /\ Written(k + 1) \in Contents(k + 1)
         /\ Written(k + 1) \notin Contents(k)
  <1>1. 1..k \subseteq 1..(k + 1) /\ k + 1 \in 1..(k + 1) /\ k + 1 \notin 1..k
    OBVIOUS
  <1>2. Contents(k) \subseteq Contents(k + 1)
    BY <1>1 DEF Contents
  <1>3. Written(k + 1) \in Contents(k + 1)
    BY <1>1 DEF Contents
  <1>4. ASSUME Written(k + 1) \in Contents(k)  PROVE FALSE
    <2>1. \A p \in Paths : Written(k + 1) # First(p)
      BY DEF Written, First
    <2>2. \A t \in Transactions : Written(k + 1) # Marker(t)
      BY DEF Written, Marker
    <2>3. Written(k + 1) \notin {TornMarker, Partial, NoData}
      BY DEF Written, TornMarker, Partial, NoData
    <2>4. \A i \in 1..k : Written(k + 1) # Written(i)
      BY DEF Written
    <2> QED  BY <1>4, <2>1, <2>2, <2>3, <2>4 DEF Contents
  <1> QED  BY <1>2, <1>3, <1>4

\* What a finalize lets go of.
Covered(s) ==
  \E t \in Transactions :
    /\ rec[t].state \in Ending
    /\ s = rec[t].old \/ (IsMove(t) /\ s = rec[t].source)

LEMMA LostIs == NothingLost <=> \A s \in precious : (\E n \in Names : snapshot(n) = s) \/ Covered(s)
  BY DEF NothingLost, Covered, Ending

\* What a command never changes in its receipt.
SameReceipt(t, r) ==
  /\ r.kind = rec[t].kind /\ r.src = rec[t].src /\ r.dst = rec[t].dst
  /\ r.source = rec[t].source /\ r.old = rec[t].old

LEMMA CoverStays ==
  ASSUME TypeOK, NEW t \in Transactions, NEW r, rec' = [rec EXCEPT ![t] = r],
         SameReceipt(t, r), rec[t].state \in Ending => r.state \in Ending
  PROVE  \A s : Covered(s) => Covered(s)'
  <1>1. rec'[t] = r /\ \A u \in Transactions : u # t => rec'[u] = rec[u]
    BY DEF TypeOK
  <1>2. ASSUME NEW s, NEW u \in Transactions, rec[u].state \in Ending,
               s = rec[u].old \/ (IsMove(u) /\ s = rec[u].source)
        PROVE  /\ rec'[u].state \in Ending
               /\ s = rec'[u].old \/ (IsMove(u)' /\ s = rec'[u].source)
    <2>1. CASE u = t
      BY <1>1, <1>2, <2>1 DEF SameReceipt, IsMove
    <2>2. CASE u # t
      BY <1>1, <1>2, <2>2 DEF IsMove
    <2> QED  BY <2>1, <2>2
  <1> QED  BY <1>2 DEF Covered

\* Files of the user are left as they are, and keep a name.
LEMMA StillNamed ==
  ASSUME IInv, TypeOK', UNCHANGED precious, \A s : Covered(s) => Covered(s)',
         \A s \in precious : data'[s[1]] = data[s[1]],
         \A n \in Names, s \in precious :
            snapshot(n) = s => (\E m \in Names : fs'[m] = fs[n]) \/ Covered(s)'
  PROVE  NothingLost'
  <1> SUFFICES ASSUME NEW s \in precious
               PROVE  (\E m \in Names : snapshot(m)' = s) \/ Covered(s)'
    BY DEF NothingLost, Covered, Ending
  <1>0. s[1] \in Objects /\ s[1] # 0
    BY DEF IInv, TypeOK, Objects
  <1>1. ASSUME NEW m \in Names, NEW k \in Names, snapshot(m) = s, fs'[k] = fs[m]
        PROVE  snapshot(k)' = s
    <2>1. fs[m] # 0 /\ s = <<fs[m], data[fs[m]]>> /\ s[1] = fs[m]
      BY <1>0, <1>1, SnapshotsAre DEF IInv, NoSnap
    <2>2. data'[fs[m]] = data[fs[m]]
      BY <2>1
    <2>3. snapshot(k)' = <<fs'[k], data'[fs'[k]]>>
      BY <1>1, <2>1 DEF snapshot
    <2> QED  BY <1>1, <2>1, <2>2, <2>3
  <1>2. CASE Covered(s)
    BY <1>2
  <1>3. ASSUME NEW m \in Names, snapshot(m) = s
        PROVE  (\E k \in Names : snapshot(k)' = s) \/ Covered(s)'
    BY <1>1, <1>3
  <1> QED  BY <1>2, <1>3, LostIs DEF IInv

\* The same for a step that leaves all names but n alone.
LEMMA StaysNamed ==
  ASSUME IInv, TypeOK', NEW n \in Names,
         \A m \in Names \ {n} : fs[m] # 0 => fs'[m] = fs[m],
         \A s \in precious : data'[s[1]] = data[s[1]],
         UNCHANGED precious, \A s : Covered(s) => Covered(s)',
         \A s \in precious : snapshot(n) = s => (\E m \in Names : fs'[m] = fs[n]) \/ Covered(s)'
  PROVE  NothingLost'
  <1>1. ASSUME NEW m \in Names, NEW s \in precious, snapshot(m) = s
        PROVE  (\E k \in Names : fs'[k] = fs[m]) \/ Covered(s)'
    <2>1. s[1] # 0
      BY DEF IInv, TypeOK, Objects
    <2>2. fs[m] # 0
      BY <1>1, <2>1, SnapshotsAre DEF IInv, NoSnap
    <2> QED  BY <1>1, <2>2
  <1> QED  BY <1>1, StillNamed

-----------------------------------------------------------------------------
(* The shapes of a step.                                                   *)

\* Every name that stands for something stands for what a name of the same
\* sort stood for.
LEMMA ScratchStays ==
  ASSUME IInv, UNCHANGED precious,
         \A n \in Names : fs'[n] # 0 =>
            \E k \in Names : fs[k] = fs'[n] /\ \A t \in Transactions : k \in Scratch(t) <=> n \in Scratch(t)
  PROVE  ScratchApart'
  <1> SUFFICES ASSUME NEW t \in Transactions, NEW n \in Scratch(t), fs'[n] # 0
               PROVE  /\ \A s \in precious : s[1] # fs'[n]
                      /\ \A m \in Names \ Scratch(t) : fs'[m] # fs'[n]
    BY DEF ScratchApart
  <1>1. n \in Names
    BY NamesAre DEF Scratch
  <1>2. PICK k \in Names : fs[k] = fs'[n] /\ k \in Scratch(t)
    BY <1>1
  <1>3. /\ \A s \in precious : s[1] # fs[k]
        /\ \A m \in Names \ Scratch(t) : fs[m] # fs[k]
    BY <1>2 DEF IInv, ScratchApart
  <1>4. ASSUME NEW m \in Names \ Scratch(t), fs'[m] = fs'[n]  PROVE FALSE
    <2>1. PICK j \in Names : fs[j] = fs'[m] /\ j \notin Scratch(t)
      BY <1>4
    <2> QED  BY <1>2, <1>3, <1>4, <2>1
  <1> QED  BY <1>2, <1>3, <1>4

\* No name changes, and no file of the user.
LEMMA StillStep ==
  ASSUME IInv, TypeOK', UNCHANGED <<fs, precious>>, \A s : Covered(s) => Covered(s)',
         \A s \in precious : data'[s[1]] = data[s[1]]
  PROVE  ScratchApart' /\ NothingLost'
  <1>1. ScratchApart'
    BY DEF IInv, ScratchApart, Scratch, Tmp, Staging
  <1> QED  BY <1>1, StillNamed

\* A name goes.
LEMMA ClearStep ==
  ASSUME IInv, TypeOK', NEW n \in Names, fs' = [fs EXCEPT ![n] = 0],
         UNCHANGED <<data, precious>>, \A s : Covered(s) => Covered(s)',
         \A s \in precious : snapshot(n) = s =>
            (\E m \in Names \ {n} : fs[m] = fs[n]) \/ Covered(s)'
  PROVE  ScratchApart' /\ NothingLost'
  <1>1. fs'[n] = 0 /\ \A m \in Names \ {n} : fs'[m] = fs[m]
    BY DEF IInv, TypeOK
  <1>2. ScratchApart'
    BY <1>1, ScratchStays
  <1>3. NothingLost'
    BY <1>1, StaysNamed
  <1> QED  BY <1>2, <1>3

\* A second name for what a name of the same sort stands for.
LEMMA AliasStep ==
  ASSUME IInv, TypeOK', NEW from \in Names, NEW to \in Names, fs[to] = 0,
         fs' = [fs EXCEPT ![to] = fs[from]],
         \A t \in Transactions : from \in Scratch(t) <=> to \in Scratch(t),
         UNCHANGED <<data, precious>>, \A s : Covered(s) => Covered(s)'
  PROVE  ScratchApart' /\ NothingLost'
  <1>1. fs'[to] = fs[from] /\ \A m \in Names \ {to} : fs'[m] = fs[m]
    BY DEF IInv, TypeOK
  <1>2. ScratchApart'
    BY <1>1, ScratchStays
  <1>3. ASSUME NEW s \in precious  PROVE snapshot(to) # s
    <2>1. s[1] # 0
      BY DEF IInv, TypeOK, Objects
    <2> QED  BY <2>1, SnapshotsAre DEF IInv, NoSnap
  <1>4. NothingLost'
    BY <1>1, <1>3, StaysNamed
  <1> QED  BY <1>2, <1>4

\* Names of the user and of backups.
LEMMA PlainNames ==
  ASSUME NEW t \in Transactions
  PROVE  /\ \A p \in Paths : p \notin Scratch(t)
         /\ \A u \in Transactions : Backup(u) \notin Scratch(t) /\ SourceBackup(u) \notin Scratch(t)
  BY NamesAre DEF Scratch

\* A command at work, or one that gets its locks, excludes all others.
LEMMA Excludes ==
  ASSUME IInv, NEW t \in Transactions, NEW u \in Transactions, t # u,
         pc[t] # "none" \/ Locked(t), pc[u] # "none"
  PROVE  /\ Locks(t) \cap Locks(u) = {} /\ rec[u].dst \in Locks(u)
         /\ rec[u].dst \in Paths /\ rec[u].dst \notin Locks(t)
  <1>1. rec[u].dst \in Locks(u)
    BY DEF Locks, LockedPaths
  <1>2. rec[u].dst \in Paths
    BY DEF IInv, Started
  <1>3. CASE pc[t] # "none"
    BY <1>1, <1>2, <1>3 DEF IInv, LocksApart
  <1>4. CASE Locked(t)
    <2>1. Locks(u) \subseteq Held
      BY DEF Held, Locks
    <2>2. Locks(t) \cap Held = {}
      BY <1>4 DEF Locked, Locks
    <2> QED  BY <1>1, <1>2, <2>1, <2>2
  <1> QED  BY <1>3, <1>4

\* What remains to be shown for a step of transaction t: the others do not
\* notice it.
LEMMA Frame ==
  ASSUME IInv, NEW t \in Transactions, NEW r \in Receipts(acts), NEW q \in Pcs,
         rec' = [rec EXCEPT ![t] = r], pc' = [pc EXCEPT ![t] = q],
         SameReceipt(t, r), rec[t].state # "none", r.state # "none",
         pc[t] # "none" \/ Locked(t),
         TypeOK', UNCHANGED precious, ScratchApart', NothingLost',
         \A n \in Names : n \notin PrivateNames(t) \cup Locks(t) => fs'[n] = fs[n],
         Phase(t)', Vacant(t)', CopyIsOurs(t)', Backups(t)'
  PROVE  IInv'
  <1>1. /\ rec'[t] = r /\ pc'[t] = q
        /\ \A u \in Transactions : u # t => rec'[u] = rec[u] /\ pc'[u] = pc[u]
    BY DEF IInv, TypeOK
  <1>2. \A u \in Transactions : Locks(u)' = Locks(u)
    BY <1>1 DEF Locks, SameReceipt
  <1>3. LocksApart'
    <2> SUFFICES ASSUME NEW a \in Transactions, NEW b \in Transactions, a # b,
                        pc'[a] # "none", pc'[b] # "none"
                 PROVE  Locks(a) \cap Locks(b) = {}
      BY <1>2 DEF LocksApart
    <2>1. CASE a = t
      BY <1>1, <2>1, Excludes
    <2>2. CASE b = t
      BY <1>1, <2>2, Excludes
    <2>3. CASE a # t /\ b # t
      BY <1>1, <2>3 DEF IInv, LocksApart
    <2> QED  BY <2>1, <2>2, <2>3
  <1>4. Started(t)'
    BY <1>1 DEF IInv, Started, SameReceipt
  <1>5. ASSUME NEW u \in Transactions, u # t
        PROVE  Started(u)' /\ Phase(u)' /\ Vacant(u)' /\ CopyIsOurs(u)' /\ Backups(u)'
    <2>1. rec'[u] = rec[u] /\ pc'[u] = pc[u]
      BY <1>1, <1>5
    <2>2. Started(u) /\ Phase(u) /\ Vacant(u) /\ CopyIsOurs(u) /\ Backups(u)
      BY DEF IInv
    <2>3. ASSUME NEW n \in PrivateNames(u)  PROVE fs'[n] = fs[n]
      <3>1. n \in Names /\ n \notin PrivateNames(t) /\ n \notin Paths
        BY <1>5, NamesAre DEF PrivateNames
      <3>2. Locks(t) \subseteq Paths
        BY DEF Locks, LockedPaths, IInv, Started
      <3> QED  BY <3>1, <3>2
    <2>4. /\ fs'[Tmp(u)] = fs[Tmp(u)] /\ fs'[Staging(u)] = fs[Staging(u)]
          /\ fs'[Backup(u)] = fs[Backup(u)] /\ fs'[SourceBackup(u)] = fs[SourceBackup(u)]
      BY <2>3 DEF PrivateNames
    <2>5. Started(u)' /\ CopyIsOurs(u)'
      BY <2>1, <2>2 DEF Started, CopyIsOurs
    <2>6. Phase(u)'
      BY <2>1, <2>2, <2>4 DEF Phase, IsMove, Tmp, Staging
    <2>7. Backups(u)'
      BY <2>1, <2>2, <2>4 DEF Backups, IsMove, Backup, SourceBackup
    <2>8. CASE pc[u] = "none"
      <3>1. Vacant(u)'
        BY <2>1, <2>8 DEF Vacant, Early, Making
      <3> QED  BY <2>5, <2>6, <2>7, <3>1
    <2>9. CASE pc[u] # "none"
      <3>1. rec[u].dst \in Paths /\ rec[u].dst \notin Locks(t)
        BY <1>5, <2>9, Excludes
      <3>2. fs'[rec[u].dst] = fs[rec[u].dst]
        <4>1. rec[u].dst \in Names /\ rec[u].dst \notin PrivateNames(t)
          BY <3>1, NamesAre DEF PrivateNames
        <4> QED  BY <3>1, <4>1
      <3>3. Vacant(u)'
        BY <2>1, <2>2, <3>2 DEF Vacant
      <3> QED  BY <2>5, <2>6, <2>7, <3>3
    <2> QED  BY <2>8, <2>9
  <1> QED  BY <1>3, <1>4, <1>5 DEF IInv

LEMMA TypeStep ==
  ASSUME TypeOK, NEW t \in Transactions, NEW r \in Receipts(acts), NEW q \in Pcs,
         rec' = [rec EXCEPT ![t] = r], pc' = [pc EXCEPT ![t] = q],
         UNCHANGED <<acts, precious, touched>>, refused' \subseteq Transactions,
         fs' \in [Names -> Objects \cup {0}], data' \in [Objects -> Contents(acts)]
  PROVE  /\ TypeOK' /\ rec'[t] = r /\ pc'[t] = q
         /\ \A u \in Transactions : u # t => rec'[u] = rec[u] /\ pc'[u] = pc[u]
  BY DEF TypeOK

\* The command goes on to q and stores r; the file system is left alone.
LEMMA PaperStep ==
  ASSUME IInv, NEW t \in Transactions, NEW r \in Receipts(acts), NEW q \in Pcs,
         rec' = [rec EXCEPT ![t] = r], pc' = [pc EXCEPT ![t] = q],
         SameReceipt(t, r), rec[t].state # "none", r.state # "none",
         rec[t].state \in Ending => r.state \in Ending,
         pc[t] # "none" \/ Locked(t),
         UNCHANGED <<acts, precious, touched, fs, data>>, refused' \subseteq Transactions,
         Phase(t)', Vacant(t)', CopyIsOurs(t)'
  PROVE  IInv'
  <1>1. TypeOK
    BY DEF IInv
  <1>2. TypeOK' /\ rec'[t] = r
    BY <1>1, TypeStep DEF TypeOK
  <1>3. \A s : Covered(s) => Covered(s)'
    BY <1>1, CoverStays
  <1>4. ScratchApart' /\ NothingLost'
    BY <1>2, <1>3, StillStep
  <1>5. Backups(t)'
    <2>1. Backups(t)
      BY DEF IInv
    <2> QED  BY <1>2, <2>1 DEF Backups, IsMove, SameReceipt, Backup, SourceBackup
  <1> QED  BY <1>2, <1>4, <1>5, Frame

\* Where nothing is promised about the file system.
Elsewhere == {"none", "complete", "undo_link", "clean", "clean_tmp", "restore_old", "rolled_back"}

\* The receipt keeps its result.
LEMMA PlainStep ==
  ASSUME IInv, NEW t \in Transactions, NEW r \in Receipts(acts), NEW q \in Elsewhere,
         rec' = [rec EXCEPT ![t] = r], pc' = [pc EXCEPT ![t] = q],
         SameReceipt(t, r), r.result = rec[t].result, r.ident = rec[t].ident,
         rec[t].state # "none", r.state # "none",
         rec[t].state \in Ending => r.state \in Ending, q # "none" => r.state \notin Ending,
         pc[t] # "none" \/ Locked(t),
         UNCHANGED <<acts, precious, touched, fs, data>>, refused' \subseteq Transactions
  PROVE  IInv'
  <1>1. q \in Pcs /\ q \notin Early \cup Making \cup Moving \cup Dropping /\ q # "readback"
    BY DEF Elsewhere, Pcs, Early, Making, Moving, Dropping
  <1>2. rec'[t] = r /\ pc'[t] = q
    BY <1>1, TypeStep DEF IInv, TypeOK
  <1>3. Phase(t)'
    BY <1>1, <1>2 DEF Phase, Early
  <1>4. Vacant(t)'
    BY <1>1, <1>2 DEF Vacant, Making
  <1>5. CopyIsOurs(t)'
    <2>1. CopyIsOurs(t)
      BY DEF IInv
    <2> QED  BY <1>2, <2>1 DEF CopyIsOurs, SameReceipt
  <1> QED  BY <1>1, <1>3, <1>4, <1>5, PaperStep

LEMMA ReceiptIs ==
  ASSUME IInv, NEW t \in Transactions
  PROVE  /\ rec[t] \in Receipts(acts) /\ SameReceipt(t, rec[t])
         /\ rec = [rec EXCEPT ![t] = rec[t]] /\ pc[t] \in Pcs
         /\ pc[t] # "none" => rec[t].state # "none"
         /\ rec[t].state # "none" => rec[t].src \in Paths /\ rec[t].dst \in Paths /\ rec[t].src # rec[t].dst
  BY DEF IInv, TypeOK, SameReceipt, Started

\* Any command may be cut off, and any recovery refused.
LEMMA StopFine ==
  ASSUME IInv, NEW t \in Transactions, Interrupted(t) \/ Refuse(t),
         rec[t].state # "none", pc[t] # "none" \/ Locked(t)
  PROVE  IInv'
  <1>1. refused' \subseteq Transactions
    BY DEF Interrupted, Refuse, NoHistory, IInv, TypeOK
  <1>2. "none" \in Elsewhere
    BY DEF Elsewhere
  <1>3. pc' = [pc EXCEPT ![t] = "none"] /\ rec' = [rec EXCEPT ![t] = rec[t]]
        /\ UNCHANGED <<acts, precious, touched, fs, data>>
    BY ReceiptIs DEF Interrupted, Refuse, NoHistory, Goto
  <1> QED  BY <1>1, <1>2, <1>3, PlainStep, ReceiptIs

\* A receipt with another state.
LEMMA RestatedIs ==
  ASSUME IInv, NEW t \in Transactions, NEW x \in States
  PROVE  LET r == [rec[t] EXCEPT !.state = x]
         IN  /\ r \in Receipts(acts) /\ SameReceipt(t, r) /\ r.state = x
             /\ r.result = rec[t].result /\ r.ident = rec[t].ident
  BY ReceiptIs DEF Receipts, SameReceipt

\* The steps that end a command.
LEMMA EndsFine ==
  ASSUME IInv, NEW t \in Transactions, Complete(t) \/ RolledBack(t) \/ Finalized(t)
  PROVE  IInv'
  <1> DEFINE x == IF pc[t] = "complete" THEN "completed" ELSE pc[t]
             r == [rec[t] EXCEPT !.state = x]
  <1>1. pc[t] \in {"complete", "rolled_back", "finalized"}
    BY DEF Complete, RolledBack, Finalized
  <1>2. x \in States /\ x # "none"
    BY <1>1 DEF States
  <1>3. r \in Receipts(acts) /\ SameReceipt(t, r) /\ r.state = x
        /\ r.result = rec[t].result /\ r.ident = rec[t].ident
    BY <1>2, RestatedIs
  <1>4. rec' = [rec EXCEPT ![t] = r] /\ pc' = [pc EXCEPT ![t] = "none"]
        /\ UNCHANGED <<acts, precious, touched, fs, data, refused>>
    BY DEF Complete, RolledBack, Finalized, Goto, Persist, NoHistory, Quiet
  <1>5. Phase(t)
    BY DEF IInv
  <1>6. rec[t].state \in Ending => r.state \in Ending
    BY <1>1, <1>3, <1>5 DEF Phase, Dropping, Ending
  <1>7. "none" \in Elsewhere
    BY DEF Elsewhere
  <1>8. rec[t].state # "none" /\ pc[t] # "none" /\ refused' \subseteq Transactions
    BY <1>1, <1>4, ReceiptIs DEF IInv, TypeOK
  <1> HIDE DEF r, x
  <1> QED  BY <1>2, <1>3, <1>4, <1>6, <1>7, <1>8, PlainStep

-----------------------------------------------------------------------------
(* apply.                                                                  *)

LEMMA IdentifyFine ==
  ASSUME IInv, NEW t \in Transactions, Identify(t)
  PROVE  IInv'
  <1> DEFINE o == fs[Tmp(t)]
             r == [rec[t] EXCEPT !.ident = o]
  <1>1. pc[t] = "identify" /\ rec' = [rec EXCEPT ![t] = r] /\ pc' = [pc EXCEPT ![t] = "truncate"]
        /\ UNCHANGED <<acts, precious, touched, refused, fs, data>>
    BY DEF Identify, Goto, Persist, NoHistory
  <1>2. Phase(t) /\ Vacant(t) /\ TypeOK
    BY DEF IInv
  <1>3. o # 0 /\ fs[Staging(t)] = 0 /\ rec[t].result = NoSnap /\ rec[t].state \notin Ending
    BY <1>1, <1>2 DEF Phase, Early, Dropping
  <1>4. o \in Objects /\ \A s \in precious : s[1] # o
    <2>1. Tmp(t) \in Names /\ Tmp(t) \in Scratch(t)
      BY NamesAre DEF Scratch
    <2> QED  BY <1>2, <1>3, <2>1 DEF IInv, TypeOK, ScratchApart
  <1>5. r \in Receipts(acts) /\ SameReceipt(t, r) /\ r.state = rec[t].state
        /\ r.result = rec[t].result /\ r.ident = o
    BY <1>4, ReceiptIs DEF Receipts, SameReceipt
  <1>6. "truncate" \in Pcs
    BY DEF Pcs, Making
  <1>7. rec'[t] = r /\ pc'[t] = "truncate"
    BY <1>1, <1>2 DEF TypeOK
  <1> HIDE DEF r
  <1>8. Phase(t)'
    BY <1>1, <1>3, <1>5, <1>7 DEF Phase, Early, Making, Moving, Dropping, Tmp, Staging, Ending
  <1>9. Vacant(t)'
    BY <1>1, <1>2, <1>5, <1>7 DEF Vacant, Early, Making, SameReceipt
  <1>10. CopyIsOurs(t)'
    <2>1. <<o, r.source[2]>> \notin precious
      BY <1>4
    <2> HIDE DEF o
    <2> QED  BY <1>1, <1>3, <1>5, <1>7, <2>1 DEF CopyIsOurs
  <1>11. rec[t].state # "none" /\ refused' \subseteq Transactions
    BY <1>1, <1>2, ReceiptIs DEF TypeOK
  <1> QED  BY <1>1, <1>5, <1>6, <1>8, <1>9, <1>10, <1>11, PaperStep

\* The object that is written is the one made for the copy.
LEMMA WriteFine ==
  ASSUME IInv, NEW t \in Transactions, NEW x \in Contents(acts), NEW q \in {"copy", "prepared", "none"},
         pc[t] \in {"truncate", "copy"}, data' = [data EXCEPT ![fs[Tmp(t)]] = x],
         pc' = [pc EXCEPT ![t] = q], UNCHANGED <<fs, rec>>, NoHistory
  PROVE  IInv'
  <1> DEFINE o == fs[Tmp(t)]
  <1>1. Phase(t) /\ Vacant(t) /\ CopyIsOurs(t) /\ Backups(t) /\ TypeOK
    BY DEF IInv
  <1>2. o = rec[t].ident /\ o # 0 /\ fs[Staging(t)] = 0 /\ rec[t].state \notin Ending
    BY <1>1 DEF Phase, Making, Dropping
  <1>3. o \in Objects /\ \A s \in precious : s[1] # o
    <2>1. Tmp(t) \in Names /\ Tmp(t) \in Scratch(t)
      BY NamesAre DEF Scratch
    <2> QED  BY <1>1, <1>2, <2>1 DEF IInv, TypeOK, ScratchApart
  <1>4. data' \in [Objects -> Contents(acts)] /\ \A s \in precious : data'[s[1]] = data[s[1]]
    <2>1. data \in [Objects -> Contents(acts)] /\ \A s \in precious : s[1] \in Objects
      BY <1>1 DEF TypeOK
    <2> QED  BY <1>3, <2>1
  <1>5. rec' = [rec EXCEPT ![t] = rec[t]] /\ q \in Pcs
    BY ReceiptIs DEF Pcs, Making
  <1>6. UNCHANGED <<acts, precious, touched, refused>>
    BY DEF NoHistory
  <1>7. TypeOK' /\ pc'[t] = q /\ rec'[t] = rec[t]
    BY <1>1, <1>4, <1>5, <1>6, ReceiptIs, TypeStep DEF TypeOK
  <1>8. \A s : Covered(s) => Covered(s)'
    BY DEF Covered, IsMove
  <1>9. ScratchApart' /\ NothingLost'
    BY <1>4, <1>6, <1>7, <1>8, StillStep
  <1>10. Phase(t)'
    BY <1>2, <1>7 DEF Phase, Early, Making, Moving, Dropping, Tmp, Staging, Ending
  <1>11. Vacant(t)'
    BY <1>1, <1>7 DEF Vacant, Early, Making
  <1>12. CopyIsOurs(t)' /\ Backups(t)'
    BY <1>1, <1>6, <1>7 DEF CopyIsOurs, Backups, IsMove, Backup, SourceBackup
  <1>13. rec[t].state # "none" /\ pc[t] # "none"
    BY ReceiptIs
  <1> QED  BY <1>5, <1>6, <1>7, <1>9, <1>10, <1>11, <1>12, <1>13, ReceiptIs, Frame

LEMMA TruncateFine ==
  ASSUME IInv, NEW t \in Transactions, Truncate(t)
  PROVE  IInv'
  <1>1. Partial \in Contents(acts)
    BY DEF Contents
  <1> QED  BY <1>1, WriteFine DEF Truncate, Goto

LEMMA CopyFine ==
  ASSUME IInv, NEW t \in Transactions, Copy(t)
  PROVE  IInv'
  <1> DEFINE x == data[rec[t].source[1]]
  <1>1. pc[t] = "copy"
    BY DEF Copy
  <1>2. rec[t].source \in Snaps(acts) /\ rec[t].source[1] # 0
    BY <1>1, ReceiptIs DEF IInv, Started, Receipts
  <1>3. x \in Contents(acts)
    BY <1>2 DEF IInv, TypeOK, Snaps
  <1> QED  BY <1>3, WriteFine DEF Copy, Goto

LEMMA PreparedFine ==
  ASSUME IInv, NEW t \in Transactions, Prepared(t)
  PROVE  IInv'
  <1> DEFINE r == [rec[t] EXCEPT !.state = "copy_prepared", !.prepared = snapshot(Tmp(t))]
             q == IF rec[t].old = NoSnap THEN "publish" ELSE "retire"
  <1>1. pc[t] = "prepared" /\ rec' = [rec EXCEPT ![t] = r] /\ pc' = [pc EXCEPT ![t] = q]
        /\ UNCHANGED <<acts, precious, touched, refused, fs, data>>
    BY DEF Prepared, Goto, Persist, NoHistory
  <1>2. Phase(t) /\ Vacant(t) /\ CopyIsOurs(t) /\ TypeOK
    BY DEF IInv
  <1>3. snapshot(Tmp(t)) \in Snaps(acts)
    BY <1>2, NamesAre, SnapshotsAre
  <1>4. r \in Receipts(acts) /\ SameReceipt(t, r) /\ r.state = "copy_prepared"
        /\ r.result = rec[t].result /\ r.ident = rec[t].ident
    BY <1>3, ReceiptIs DEF Receipts, SameReceipt, States
  <1>5. q \in {"publish", "retire"} /\ q \in Pcs /\ (q = "publish" => rec[t].old = NoSnap)
    BY DEF Pcs, Making
  <1>6. rec'[t] = r /\ pc'[t] = q
    BY <1>1, <1>2 DEF TypeOK
  <1> HIDE DEF r, q
  <1>7. Phase(t)'
    BY <1>1, <1>2, <1>4, <1>5, <1>6 DEF Phase, Early, Making, Moving, Dropping, Tmp, Staging, Ending
  <1>8. Vacant(t)'
    BY <1>1, <1>2, <1>4, <1>5, <1>6 DEF Vacant, Early, Making, SameReceipt
  <1>9. CopyIsOurs(t)'
    BY <1>1, <1>2, <1>4, <1>6 DEF CopyIsOurs, SameReceipt
  <1>10. rec[t].state # "none" /\ rec[t].state \notin Ending /\ refused' \subseteq Transactions
    BY <1>1, <1>2, ReceiptIs DEF TypeOK, Phase, Dropping
  <1> QED  BY <1>1, <1>4, <1>5, <1>7, <1>8, <1>9, <1>10, PaperStep

LEMMA BackupMovedFine ==
  ASSUME IInv, NEW t \in Transactions, BackupMoved(t)
  PROVE  IInv'
  <1> DEFINE r == [rec[t] EXCEPT !.state = "backup_moved"]
  <1>1. pc[t] = "moved" /\ rec' = [rec EXCEPT ![t] = r] /\ pc' = [pc EXCEPT ![t] = "publish"]
        /\ UNCHANGED <<acts, precious, touched, refused, fs, data>>
    BY DEF BackupMoved, Goto, Persist, NoHistory
  <1>2. Phase(t) /\ Vacant(t) /\ CopyIsOurs(t) /\ TypeOK
    BY DEF IInv
  <1>3. "backup_moved" \in States /\ "publish" \in Pcs
    BY DEF States, Pcs, Making
  <1>4. r \in Receipts(acts) /\ SameReceipt(t, r) /\ r.state = "backup_moved"
        /\ r.result = rec[t].result /\ r.ident = rec[t].ident
    BY <1>3, RestatedIs
  <1>5. rec'[t] = r /\ pc'[t] = "publish"
    BY <1>1, <1>2 DEF TypeOK
  <1> HIDE DEF r
  <1>6. Phase(t)'
    BY <1>1, <1>2, <1>4, <1>5 DEF Phase, Early, Making, Moving, Dropping, Tmp, Staging, Ending
  <1>7. Vacant(t)'
    BY <1>1, <1>2, <1>4, <1>5 DEF Vacant, Early, Making, SameReceipt
  <1>8. CopyIsOurs(t)'
    BY <1>1, <1>2, <1>4, <1>5 DEF CopyIsOurs, SameReceipt
  <1>9. rec[t].state # "none" /\ rec[t].state \notin Ending /\ refused' \subseteq Transactions
    BY <1>1, <1>2, ReceiptIs DEF TypeOK, Phase, Dropping
  <1> QED  BY <1>1, <1>3, <1>4, <1>6, <1>7, <1>8, <1>9, PaperStep

\* What is read back is the copy, which nobody could touch since.
LEMMA ReadbackFine ==
  ASSUME IInv, NEW t \in Transactions, Readback(t)
  PROVE  IInv'
  <1> DEFINE now == snapshot(rec[t].dst)
             x == IF IsMove(t) THEN "installed" ELSE "completed"
             r == [rec[t] EXCEPT !.result = now, !.state = x]
             q == IF IsMove(t) THEN "retire_src" ELSE "none"
  <1>1. pc[t] = "readback" /\ rec' = [rec EXCEPT ![t] = r] /\ pc' = [pc EXCEPT ![t] = q]
        /\ now[2] = rec[t].source[2]
        /\ UNCHANGED <<acts, precious, touched, refused, fs, data>>
    BY DEF Readback, Goto, Persist, NoHistory
  <1>2. Phase(t) /\ Vacant(t) /\ CopyIsOurs(t) /\ TypeOK
    BY DEF IInv
  <1>3. rec[t].dst \in Names /\ fs[rec[t].dst] = rec[t].ident /\ rec[t].ident # 0
    BY <1>1, <1>2, ReceiptIs, NamesAre DEF Vacant
  <1>4. now \in Snaps(acts) /\ now = <<rec[t].ident, rec[t].source[2]>>
    BY <1>1, <1>2, <1>3, SnapshotsAre
  <1>5. x \in States /\ x \notin {"none"} \cup Ending
    BY DEF States, Ending
  <1> HIDE DEF now, x
  <1>6. r \in Receipts(acts) /\ SameReceipt(t, r) /\ r.state = x
        /\ r.result = now /\ r.ident = rec[t].ident
    BY <1>4, <1>5, ReceiptIs DEF Receipts, SameReceipt
  <1>7. q \in {"retire_src", "none"} /\ q \in Pcs /\ (q = "retire_src" => rec[t].kind = "move")
    BY DEF Pcs, Moving, IsMove
  <1>8. rec'[t] = r /\ pc'[t] = q
    BY <1>1, <1>2 DEF TypeOK
  <1> HIDE DEF r, q
  <1>9. Phase(t)'
    BY <1>5, <1>6, <1>7, <1>8 DEF Phase, Early, Making, Moving, Dropping, IsMove, SameReceipt
  <1>10. Vacant(t)'
    BY <1>7, <1>8 DEF Vacant, Early, Making
  <1>11. CopyIsOurs(t)'
    BY <1>1, <1>2, <1>3, <1>4, <1>6, <1>8 DEF CopyIsOurs, SameReceipt
  <1>12. rec[t].state # "none" /\ rec[t].state \notin Ending /\ refused' \subseteq Transactions
    BY <1>1, <1>2, ReceiptIs DEF TypeOK, Phase, Dropping
  <1> QED  BY <1>1, <1>5, <1>6, <1>7, <1>9, <1>10, <1>11, <1>12, PaperStep

-----------------------------------------------------------------------------
(* Steps that change names.                                                *)

Owned(t) == PrivateNames(t) \cup Locks(t)

LEMMA OwnedNames ==
  ASSUME IInv, NEW t \in Transactions, rec[t].state # "none"
  PROVE  /\ Owned(t) \subseteq Names /\ PrivateNames(t) \subseteq Owned(t)
         /\ rec[t].dst \in Owned(t) /\ (IsMove(t) => rec[t].src \in Owned(t))
  <1>1. rec[t].src \in Paths /\ rec[t].dst \in Paths
    BY ReceiptIs
  <1>2. Locks(t) \subseteq Paths /\ rec[t].dst \in Locks(t) /\ (IsMove(t) => rec[t].src \in Locks(t))
    BY <1>1 DEF Locks, LockedPaths, IsMove
  <1>3. PrivateNames(t) \subseteq Names
    BY NamesAre DEF PrivateNames
  <1> QED  BY <1>2, <1>3, NamesAre DEF Owned

\* The receipt stays as it is, and names of the transaction change.
LEMMA DiskStep ==
  ASSUME IInv, NEW t \in Transactions, NEW q \in Pcs,
         pc' = [pc EXCEPT ![t] = q], UNCHANGED <<rec, acts, precious, touched, refused>>,
         rec[t].state # "none", pc[t] # "none" \/ Locked(t),
         TypeOK', ScratchApart', NothingLost',
         \A n \in Names : n \notin Owned(t) => fs'[n] = fs[n],
         Phase(t)', Vacant(t)', Backups(t)'
  PROVE  IInv'
  <1>1. rec' = [rec EXCEPT ![t] = rec[t]]
    BY ReceiptIs
  <1>2. CopyIsOurs(t)'
    BY DEF IInv, CopyIsOurs
  <1> QED  BY <1>1, <1>2, ReceiptIs, Frame DEF Owned

\* A name goes, which is not the last one of a file of the user.
LEMMA DropName ==
  ASSUME IInv, NEW t \in Transactions, NEW q \in Pcs, NEW n \in Owned(t),
         fs' = [fs EXCEPT ![n] = 0],
         pc' = [pc EXCEPT ![t] = q], UNCHANGED <<data, rec, acts, precious, touched, refused>>,
         rec[t].state # "none", pc[t] # "none" \/ Locked(t),
         \A s \in precious : snapshot(n) = s =>
            (\E m \in Names \ {n} : fs[m] = fs[n]) \/ Covered(s),
         Phase(t)', Vacant(t)'
  PROVE  IInv'
  <1>1. n \in Names /\ TypeOK /\ Owned(t) \subseteq Names
    BY OwnedNames DEF IInv
  <1>2. fs' \in [Names -> Objects \cup {0}] /\ data' \in [Objects -> Contents(acts)]
        /\ refused' \subseteq Transactions
    BY <1>1 DEF TypeOK
  <1>3. rec' = [rec EXCEPT ![t] = rec[t]] /\ rec[t] \in Receipts(acts)
    BY ReceiptIs
  <1>4. TypeOK'
    BY <1>1, <1>2, <1>3, TypeStep
  <1>5. \A s : Covered(s) => Covered(s)'
    BY DEF Covered, IsMove
  <1>6. ScratchApart' /\ NothingLost'
    BY <1>1, <1>4, <1>5, ClearStep
  <1>7. \A m \in Names : (m # n => fs'[m] = fs[m]) /\ (fs[m] = 0 => fs'[m] = 0)
    BY <1>1 DEF TypeOK
  <1>8. Backups(t)'
    <2>1. Backups(t) /\ Backup(t) \in Names /\ SourceBackup(t) \in Names
      BY NamesAre DEF IInv
    <2> QED  BY <1>7, <2>1 DEF Backups, IsMove, Backup, SourceBackup
  <1>9. \A m \in Names : m \notin Owned(t) => fs'[m] = fs[m]
    BY <1>7
  <1> QED  BY <1>4, <1>6, <1>8, <1>9, DiskStep

\* A free name of the transaction gets what another one stands for.
LEMMA AddName ==
  ASSUME IInv, NEW t \in Transactions, NEW q \in Pcs, NEW from \in Names, NEW to \in Owned(t),
         fs[to] = 0, fs' = [fs EXCEPT ![to] = fs[from]],
         \A u \in Transactions : from \in Scratch(u) <=> to \in Scratch(u),
         pc' = [pc EXCEPT ![t] = q], UNCHANGED <<data, rec, acts, precious, touched, refused>>,
         rec[t].state # "none", pc[t] # "none" \/ Locked(t),
         to = SourceBackup(t) => IsMove(t), to = Backup(t) /\ fs[from] # 0 => rec[t].old # NoSnap,
         Phase(t)', Vacant(t)'
  PROVE  IInv'
  <1>1. to \in Names /\ TypeOK /\ Owned(t) \subseteq Names
    BY OwnedNames DEF IInv
  <1>2. fs' \in [Names -> Objects \cup {0}] /\ data' \in [Objects -> Contents(acts)]
        /\ refused' \subseteq Transactions
    BY <1>1 DEF TypeOK
  <1>3. rec' = [rec EXCEPT ![t] = rec[t]] /\ rec[t] \in Receipts(acts)
    BY ReceiptIs
  <1>4. TypeOK'
    BY <1>1, <1>2, <1>3, TypeStep
  <1>5. \A s : Covered(s) => Covered(s)'
    BY DEF Covered, IsMove
  <1>6. ScratchApart' /\ NothingLost'
    BY <1>1, <1>4, <1>5, AliasStep
  <1>7. fs'[to] = fs[from] /\ \A m \in Names : m # to => fs'[m] = fs[m]
    BY <1>1 DEF TypeOK
  <1>8. Backups(t)'
    <2>1. Backups(t) /\ Backup(t) \in Names /\ SourceBackup(t) \in Names
      BY NamesAre DEF IInv
    <2> QED  BY <1>7, <2>1 DEF Backups, IsMove, Backup, SourceBackup
  <1>9. \A m \in Names : m \notin Owned(t) => fs'[m] = fs[m]
    BY <1>7
  <1> QED  BY <1>4, <1>6, <1>8, <1>9, DiskStep

\* A new object is nobody's.
LEMMA FreshIs ==
  ASSUME IInv, FreshObjects # {}
  PROVE  /\ FreshObject \in Objects /\ FreshObject # 0
         /\ \A n \in Names : fs[n] # FreshObject
         /\ \A s \in precious : s[1] # FreshObject
         /\ \A t \in Transactions : rec[t].ident # FreshObject
  <1> DEFINE o == FreshObject
  <1>1. o \in Objects /\ o \notin InUse
    BY DEF FreshObject, FreshObjects
  <1> HIDE DEF o
  <1>2. o # 0
    BY <1>1 DEF Objects
  <1>3. \A n \in Names : fs[n] # o
    BY <1>1 DEF InUse
  <1>4. ASSUME NEW t \in Transactions
        PROVE  rec[t].source[1] # o /\ rec[t].old[1] # o /\ rec[t].ident # o
    <2>1. {rec[t].source[1], rec[t].old[1], rec[t].ident} \subseteq InUse
      BY DEF InUse
    <2> QED  BY <1>1, <2>1
  <1>5. ASSUME NEW s \in precious, s[1] = o  PROVE FALSE
    <2>1. CASE \E n \in Names : snapshot(n) = s
      <3>1. PICK n \in Names : snapshot(n) = s
        BY <2>1
      <3>2. fs[n] = s[1]
        BY <1>2, <1>5, <3>1, SnapshotsAre DEF IInv, NoSnap
      <3> QED  BY <1>3, <1>5, <3>2
    <2>2. CASE Covered(s)
      BY <1>4, <1>5, <2>2 DEF Covered
    <2> QED  BY <2>1, <2>2, LostIs DEF IInv
  <1> QED  BY <1>1, <1>2, <1>3, <1>4, <1>5 DEF o

LEMMA StageFine ==
  ASSUME IInv, NEW t \in Transactions, StageMarker(t)
  PROVE  IInv'
  <1> DEFINE o == FreshObject
             n == Staging(t)
  <1>1. /\ o \in Objects /\ o # 0 /\ \A m \in Names : fs[m] # o
        /\ \A s \in precious : s[1] # o
    BY FreshIs DEF StageMarker
  <1>2. pc[t] = "stage" /\ fs' = [fs EXCEPT ![n] = o]
        /\ UNCHANGED <<rec, acts, precious, touched, refused>>
    BY DEF StageMarker, Name, NoHistory
  <1>3. PICK x \in Contents(acts), q \in {"link_marker", "none"} :
          data' = [data EXCEPT ![o] = x] /\ pc' = [pc EXCEPT ![t] = q]
    <2>1. Marker(t) \in Contents(acts) /\ TornMarker \in Contents(acts)
      BY DEF Contents
    <2> QED  BY <2>1 DEF StageMarker, Goto
  <1> HIDE DEF o
  <1>4. Phase(t) /\ Vacant(t) /\ Backups(t) /\ TypeOK /\ rec[t].state # "none"
    BY <1>2, ReceiptIs DEF IInv
  <1>5. n \in Names /\ n \in Scratch(t) /\ n \in Owned(t) /\ rec[t].dst \in Names /\ rec[t].dst # n
        /\ Backup(t) \in Names \ {n} /\ SourceBackup(t) \in Names \ {n}
    BY <1>4, NamesAre, OwnedNames, ReceiptIs DEF Scratch, PrivateNames
  <1>6. fs'[n] = o /\ \A m \in Names : m # n => fs'[m] = fs[m]
    BY <1>2, <1>4, <1>5 DEF TypeOK
  <1>7. fs' \in [Names -> Objects \cup {0}] /\ data' \in [Objects -> Contents(acts)]
        /\ \A s \in precious : data'[s[1]] = data[s[1]]
    <2>1. \A s \in precious : s[1] \in Objects
      BY <1>4 DEF TypeOK
    <2> QED  BY <1>1, <1>2, <1>3, <1>4, <1>5, <2>1 DEF TypeOK
  <1>8. q \in Pcs /\ refused' \subseteq Transactions
    BY <1>2, <1>4 DEF Pcs, Early, TypeOK
  <1>10. TypeOK' /\ pc'[t] = q
    BY <1>2, <1>3, <1>4, <1>7, <1>8 DEF TypeOK
  <1> HIDE DEF n
  <1>11. NothingLost'
    <2>1. \A s : Covered(s) => Covered(s)'
      BY <1>2 DEF Covered, IsMove
    <2>2. ASSUME NEW s \in precious, snapshot(n) = s  PROVE FALSE
      <3>1. s[1] # 0
        BY <1>4 DEF TypeOK, Objects
      <3>2. fs[n] # 0 /\ s[1] = fs[n]
        BY <1>4, <1>5, <2>2, <3>1, SnapshotsAre DEF NoSnap
      <3> QED  BY <1>5, <3>2 DEF IInv, ScratchApart
    <2> QED  BY <1>2, <1>5, <1>6, <1>7, <1>10, <2>1, <2>2, StaysNamed
  <1>12. ScratchApart'
    <2> SUFFICES ASSUME NEW u \in Transactions, NEW k \in Scratch(u), fs'[k] # 0
                 PROVE  /\ \A s \in precious : s[1] # fs'[k]
                        /\ \A m \in Names \ Scratch(u) : fs'[m] # fs'[k]
      BY <1>2 DEF ScratchApart
    <2>1. k \in Names
      BY NamesAre DEF Scratch
    <2>2. CASE k = n
      <3>1. u = t
        BY <2>2, NamesAre DEF Scratch, n
      <3> QED  BY <1>1, <1>5, <1>6, <2>2, <3>1
    <2>3. CASE k # n
      <3>1. fs'[k] = fs[k]
        BY <1>6, <2>1, <2>3
      <3>2. /\ \A s \in precious : s[1] # fs[k]
            /\ \A m \in Names \ Scratch(u) : fs[m] # fs[k]
        BY <3>1 DEF IInv, ScratchApart
      <3> QED  BY <1>1, <1>6, <2>1, <3>1, <3>2
    <2> QED  BY <2>2, <2>3
  <1>13. Phase(t)'
    BY <1>1, <1>2, <1>4, <1>6, <1>10
       DEF Phase, Early, Making, Moving, Dropping, Ending, IsMove, n, Staging
  <1>14. Vacant(t)'
    <2>1. fs'[rec[t].dst] = fs[rec[t].dst]
      BY <1>5, <1>6
    <2> QED  BY <1>2, <1>4, <1>10, <2>1 DEF Vacant, Early, Making
  <1>15. Backups(t)'
    <2>1. fs'[Backup(t)] = fs[Backup(t)] /\ fs'[SourceBackup(t)] = fs[SourceBackup(t)]
      BY <1>5, <1>6
    <2> QED  BY <1>2, <1>4, <2>1 DEF Backups, IsMove, Backup, SourceBackup
  <1>16. \A m \in Names : m \notin Owned(t) => fs'[m] = fs[m]
    BY <1>5, <1>6
  <1> QED  BY <1>2, <1>3, <1>4, <1>8, <1>10, <1>11, <1>12, <1>13, <1>14, <1>15, <1>16, DiskStep

LEMMA LinkMarkerFine ==
  ASSUME IInv, NEW t \in Transactions, LinkMarker(t)
  PROVE  IInv'
  <1>1. pc[t] = "link_marker" /\ fs[Tmp(t)] = 0 /\ fs' = [fs EXCEPT ![Tmp(t)] = fs[Staging(t)]]
        /\ pc' = [pc EXCEPT ![t] = "unstage"]
        /\ UNCHANGED <<data, rec, acts, precious, touched, refused>>
    BY DEF LinkMarker, Name, Goto, NoHistory
  <1>2. Phase(t) /\ Vacant(t) /\ TypeOK /\ rec[t].state # "none"
    BY <1>1, ReceiptIs DEF IInv
  <1>3. /\ Tmp(t) \in Names /\ Staging(t) \in Names /\ Tmp(t) \in Owned(t)
        /\ rec[t].dst \in Names /\ rec[t].dst # Tmp(t)
        /\ \A u \in Transactions : Staging(t) \in Scratch(u) <=> Tmp(t) \in Scratch(u)
        /\ Tmp(t) # SourceBackup(t) /\ Tmp(t) # Backup(t)
    BY <1>2, NamesAre, OwnedNames, ReceiptIs DEF Scratch, PrivateNames
  <1>4. fs'[Tmp(t)] = fs[Staging(t)] /\ fs'[rec[t].dst] = fs[rec[t].dst] /\ pc'[t] = "unstage"
    BY <1>1, <1>2, <1>3 DEF TypeOK
  <1>5. "unstage" \in Pcs
    BY DEF Pcs, Early
  <1>6. Phase(t)'
    BY <1>1, <1>2, <1>4 DEF Phase, Early, Making, Moving, Dropping, Ending, IsMove, Tmp
  <1>7. Vacant(t)'
    BY <1>1, <1>2, <1>4 DEF Vacant, Early, Making
  <1> QED  BY <1>1, <1>2, <1>3, <1>5, <1>6, <1>7, AddName

LEMMA ScratchIsOurs ==
  ASSUME IInv, NEW t \in Transactions, NEW n \in Scratch(t), NEW s \in precious
  PROVE  snapshot(n) # s
  <1>1. SUFFICES ASSUME snapshot(n) = s  PROVE FALSE
    OBVIOUS
  <1>2. s[1] # 0
    BY DEF IInv, TypeOK, Objects
  <1>3. n \in Names
    BY NamesAre DEF Scratch
  <1>4. fs[n] # 0 /\ s[1] = fs[n]
    BY <1>1, <1>2, <1>3, SnapshotsAre DEF IInv, NoSnap
  <1> QED  BY <1>4 DEF IInv, ScratchApart

\* A snapshot of the user's is of an object.
LEMMA PreciousIs ==
  ASSUME IInv, NEW n \in Names, snapshot(n) \in precious \/ snapshot(n) # NoSnap
  PROVE  fs[n] # 0 /\ fs[n] = snapshot(n)[1]
  <1>1. CASE snapshot(n) # NoSnap
    BY <1>1, SnapshotsAre DEF IInv
  <1>2. CASE snapshot(n) \in precious
    <2>1. snapshot(n)[1] # 0
      BY <1>2 DEF IInv, TypeOK, Objects
    <2> QED  BY <2>1, SnapshotsAre DEF IInv, NoSnap
  <1> QED  BY <1>1, <1>2

LEMMA UnstageFine ==
  ASSUME IInv, NEW t \in Transactions, UnstageMarker(t)
  PROVE  IInv'
  <1>1. pc[t] = "unstage" /\ fs' = [fs EXCEPT ![Staging(t)] = 0]
        /\ pc' = [pc EXCEPT ![t] = "identify"]
        /\ UNCHANGED <<data, rec, acts, precious, touched, refused>>
    BY DEF UnstageMarker, Name, Goto, NoHistory
  <1>2. Phase(t) /\ Vacant(t) /\ TypeOK /\ rec[t].state # "none"
    BY <1>1, ReceiptIs DEF IInv
  <1>3. /\ Tmp(t) \in Names /\ Staging(t) \in Names /\ Staging(t) \in Owned(t)
        /\ rec[t].dst \in Names /\ rec[t].dst # Staging(t) /\ Tmp(t) # Staging(t)
        /\ Staging(t) \in Scratch(t)
    BY <1>2, NamesAre, OwnedNames, ReceiptIs DEF Scratch, PrivateNames
  <1>4. fs'[Tmp(t)] = fs[Tmp(t)] /\ fs'[Staging(t)] = 0 /\ fs'[rec[t].dst] = fs[rec[t].dst]
        /\ pc'[t] = "identify"
    BY <1>1, <1>2, <1>3 DEF TypeOK
  <1>5. "identify" \in Pcs
    BY DEF Pcs, Early
  <1>6. Phase(t)'
    BY <1>1, <1>2, <1>4 DEF Phase, Early, Making, Moving, Dropping, Ending, IsMove, Tmp, Staging
  <1>7. Vacant(t)'
    BY <1>1, <1>2, <1>4 DEF Vacant, Early, Making
  <1>8. \A s \in precious : snapshot(Staging(t)) # s
    BY <1>3, ScratchIsOurs
  <1> QED  BY <1>1, <1>2, <1>3, <1>5, <1>6, <1>7, <1>8, DropName

\* retire_regular_no_replace, its link.
LEMMA LinkFine ==
  ASSUME IInv, NEW t \in Transactions, NEW from \in Paths, NEW to \in {Backup(t), SourceBackup(t)},
         NEW expected, NEW next \in {"unlink", "unlink_src"},
         Link(t, from, to, expected, next), NoHistory,
         \/ pc[t] = "retire" /\ next = "unlink" /\ to = Backup(t) /\ expected = rec[t].old
         \/ pc[t] = "retire_src" /\ next = "unlink_src" /\ to = SourceBackup(t)
  PROVE  IInv'
  <1>1. /\ snapshot(from) = expected /\ fs[to] = 0 /\ fs' = [fs EXCEPT ![to] = fs[from]]
        /\ pc' = [pc EXCEPT ![t] = next]
        /\ UNCHANGED <<data, rec, acts, precious, touched, refused>>
    BY DEF Link, Name, Goto, NoHistory
  <1>2. Phase(t) /\ Vacant(t) /\ TypeOK /\ rec[t].state # "none"
    BY ReceiptIs DEF IInv
  <1>3. /\ from \in Names /\ to \in Names /\ to \in Owned(t) /\ Backup(t) # SourceBackup(t)
        /\ Tmp(t) \in Names /\ Staging(t) \in Names /\ to # Tmp(t) /\ to # Staging(t)
        /\ rec[t].dst \in Names /\ rec[t].dst # to
        /\ \A u \in Transactions : from \in Scratch(u) <=> to \in Scratch(u)
    <2>1. \A u \in Transactions : from \notin Scratch(u) /\ to \notin Scratch(u)
      BY PlainNames
    <2> QED  BY <1>2, <2>1, NamesAre, OwnedNames, ReceiptIs DEF PrivateNames
  <1>4. fs'[Tmp(t)] = fs[Tmp(t)] /\ fs'[Staging(t)] = fs[Staging(t)]
        /\ fs'[rec[t].dst] = fs[rec[t].dst] /\ pc'[t] = next
    BY <1>1, <1>2, <1>3 DEF TypeOK
  <1>5. next \in Pcs
    BY DEF Pcs, Making, Moving
  <1>6. Phase(t)'
    BY <1>1, <1>2, <1>4 DEF Phase, Early, Making, Moving, Dropping, Ending, IsMove, Tmp, Staging
  <1>7. Vacant(t)'
    BY <1>1, <1>2, <1>4 DEF Vacant, Early, Making
  <1>8. to = SourceBackup(t) => IsMove(t)
    BY <1>2, <1>3 DEF Phase, Moving
  <1>9. to = Backup(t) /\ fs[from] # 0 => rec[t].old # NoSnap
    BY <1>1, <1>2, <1>3, SnapshotsAre
  <1> QED  BY <1>1, <1>2, <1>3, <1>5, <1>6, <1>7, <1>8, <1>9, AddName

\* Its unlink: the other name is there.
LEMMA UnlinkFine ==
  ASSUME IInv, NEW t \in Transactions, NEW from \in Paths, NEW to \in {Backup(t), SourceBackup(t)},
         NEW expected, NEW next \in {"moved", "complete"},
         Unlink(t, from, to, expected, next), NoHistory,
         \/ pc[t] = "unlink" /\ next = "moved" /\ from = rec[t].dst
         \/ pc[t] = "unlink_src" /\ next = "complete" /\ from = rec[t].src
  PROVE  IInv'
  <1>1. /\ snapshot(from) = expected /\ snapshot(to) = expected /\ fs' = [fs EXCEPT ![from] = 0]
        /\ pc' = [pc EXCEPT ![t] = next]
        /\ UNCHANGED <<data, rec, acts, precious, touched, refused>>
    BY DEF Unlink, Name, Goto, NoHistory
  <1>2. Phase(t) /\ Vacant(t) /\ TypeOK /\ rec[t].state # "none"
    BY ReceiptIs DEF IInv
  <1>3. /\ from \in Names /\ to \in Names /\ from # to
        /\ Tmp(t) \in Names /\ Staging(t) \in Names /\ from # Tmp(t) /\ from # Staging(t)
        /\ rec[t].dst \in Names /\ from \in Owned(t)
    <2>1. pc[t] = "unlink_src" => IsMove(t)
      BY <1>2 DEF Phase, Moving
    <2> QED  BY <1>2, <2>1, NamesAre, OwnedNames, ReceiptIs
  <1>4. fs'[Tmp(t)] = fs[Tmp(t)] /\ fs'[Staging(t)] = fs[Staging(t)] /\ fs'[from] = 0 /\ pc'[t] = next
    BY <1>1, <1>2, <1>3 DEF TypeOK
  <1>5. next \in Pcs
    BY DEF Pcs, Making
  <1>6. Phase(t)'
    BY <1>1, <1>2, <1>4 DEF Phase, Early, Making, Moving, Dropping, Ending, IsMove, Tmp, Staging
  <1>7. Vacant(t)'
    BY <1>1, <1>4 DEF Vacant, Early, Making
  <1>8. ASSUME NEW s \in precious, snapshot(from) = s
        PROVE  \E m \in Names \ {from} : fs[m] = fs[from]
    BY <1>1, <1>3, <1>8, PreciousIs
  <1> QED  BY <1>1, <1>2, <1>3, <1>5, <1>6, <1>7, <1>8, DropName

LEMMA RetireFine ==
  ASSUME IInv, NEW t \in Transactions, RetireOld(t) \/ RetireSource(t)
  PROVE  IInv'
  <1>1. pc[t] # "none"
    BY DEF RetireOld, RetireSource
  <1>2. rec[t].src \in Paths /\ rec[t].dst \in Paths
    BY <1>1, ReceiptIs
  <1>3. CASE RetireOld(t) /\ pc[t] = "retire"
    BY <1>2, <1>3, LinkFine DEF RetireOld
  <1>4. CASE RetireOld(t) /\ pc[t] = "unlink"
    BY <1>2, <1>4, UnlinkFine DEF RetireOld
  <1>5. CASE RetireSource(t) /\ pc[t] = "retire_src"
    BY <1>2, <1>5, LinkFine DEF RetireSource
  <1>6. CASE RetireSource(t) /\ pc[t] = "unlink_src"
    BY <1>2, <1>6, UnlinkFine DEF RetireSource
  <1> QED  BY <1>3, <1>4, <1>5, <1>6 DEF RetireOld, RetireSource

LEMMA PublishFine ==
  ASSUME IInv, NEW t \in Transactions, Publish(t)
  PROVE  IInv'
  <1> DEFINE d == rec[t].dst
  <1>1. /\ pc[t] = "publish" /\ fs' = [fs EXCEPT ![d] = fs[Tmp(t)], ![Tmp(t)] = 0]
        /\ pc' = [pc EXCEPT ![t] = "readback"]
        /\ UNCHANGED <<data, rec, acts, precious, touched, refused>>
    BY DEF Publish, Rename, Goto, NoHistory
  <1>2. Phase(t) /\ Vacant(t) /\ Backups(t) /\ TypeOK /\ rec[t].state # "none"
    BY <1>1, ReceiptIs DEF IInv
  <1>3. fs[d] = 0 /\ fs[Tmp(t)] = rec[t].ident /\ rec[t].ident # 0 /\ fs[Staging(t)] = 0
        /\ rec[t].state \notin Ending
    BY <1>1, <1>2 DEF Phase, Vacant, Making, Dropping
  <1>4. /\ d \in Names /\ d \in Owned(t) /\ Tmp(t) \in Names /\ Tmp(t) \in Owned(t) /\ d # Tmp(t)
        /\ Staging(t) \in Names /\ Staging(t) \notin {d, Tmp(t)}
        /\ Backup(t) \in Names \ {d, Tmp(t)} /\ SourceBackup(t) \in Names \ {d, Tmp(t)}
        /\ \A u \in Transactions : d \notin Scratch(u) /\ (u # t => Tmp(t) \notin Scratch(u))
        /\ Tmp(t) \in Scratch(t) /\ d \in Paths
    BY <1>2, NamesAre, OwnedNames, ReceiptIs, PlainNames DEF PrivateNames, Scratch
  <1>5. /\ fs'[d] = fs[Tmp(t)] /\ fs'[Tmp(t)] = 0
        /\ \A m \in Names : m # d /\ m # Tmp(t) => fs'[m] = fs[m]
    BY <1>1, <1>2, <1>4 DEF TypeOK
  <1>6. TypeOK' /\ pc'[t] = "readback"
    <2>1. fs' \in [Names -> Objects \cup {0}]
      BY <1>1, <1>2, <1>4 DEF TypeOK
    <2>2. "readback" \in Pcs
      BY DEF Pcs
    <2> QED  BY <1>1, <1>2, <2>1, <2>2 DEF TypeOK
  <1>7. NothingLost'
    <2>1. \A s : Covered(s) => Covered(s)'
      BY <1>1 DEF Covered, IsMove
    <2>2. \A s \in precious : snapshot(Tmp(t)) # s
      BY <1>4, ScratchIsOurs
    <2>3. \A m \in Names \ {Tmp(t)} : fs[m] # 0 => fs'[m] = fs[m]
      BY <1>3, <1>5
    <2> QED  BY <1>1, <1>4, <1>6, <2>1, <2>2, <2>3, StaysNamed
  <1>8. ScratchApart'
    <2> SUFFICES ASSUME NEW u \in Transactions, NEW k \in Scratch(u), fs'[k] # 0
                 PROVE  /\ \A s \in precious : s[1] # fs'[k]
                        /\ \A m \in Names \ Scratch(u) : fs'[m] # fs'[k]
      BY <1>1 DEF ScratchApart
    <2>1. k \in Names /\ k # d
      BY <1>4, NamesAre DEF Scratch
    <2>2. u # t
      <3>1. fs'[Staging(t)] = 0 /\ fs'[Tmp(t)] = 0
        BY <1>3, <1>4, <1>5
      <3> QED  BY <3>1 DEF Scratch
    <2>3. k # Tmp(t) /\ fs'[k] = fs[k]
      BY <1>4, <1>5, <2>1, <2>2
    <2>4. /\ \A s \in precious : s[1] # fs[k]
          /\ \A m \in Names \ Scratch(u) : fs[m] # fs[k]
      BY <2>3 DEF IInv, ScratchApart
    <2> QED  BY <1>4, <1>5, <2>2, <2>3, <2>4
  <1>9. Phase(t)'
    BY <1>1, <1>3, <1>6 DEF Phase, Early, Making, Moving, Dropping
  <1>10. Vacant(t)'
    BY <1>1, <1>3, <1>5, <1>6 DEF Vacant, Early, Making
  <1>11. Backups(t)'
    <2>1. fs'[Backup(t)] = fs[Backup(t)] /\ fs'[SourceBackup(t)] = fs[SourceBackup(t)]
      BY <1>4, <1>5
    <2> QED  BY <1>1, <1>2, <2>1 DEF Backups, IsMove, Backup, SourceBackup
  <1>12. \A m \in Names : m \notin Owned(t) => fs'[m] = fs[m]
    BY <1>4, <1>5
  <1>13. "readback" \in Pcs
    BY DEF Pcs
  <1> QED  BY <1>1, <1>2, <1>6, <1>7, <1>8, <1>9, <1>10, <1>11, <1>12, <1>13, DiskStep

\* A new transaction gets its locks before it stores its receipt.
LEMMA BeginFine ==
  ASSUME IInv, NEW t \in Transactions, NEW kind \in {"copy", "move"},
         NEW src \in Paths, NEW dst \in Paths, Begin(t, kind, src, dst)
  PROVE  IInv'
  <1> DEFINE r == [NoReceipt EXCEPT !.state = "reserved", !.kind = kind, !.src = src,
                     !.dst = dst, !.source = snapshot(src), !.old = snapshot(dst)]
             locks == LockedPaths(kind, src, dst)
  <1>1. /\ rec[t].state = "none" /\ src # dst /\ fs[src] # 0 /\ locks \cap Held = {}
        /\ rec' = [rec EXCEPT ![t] = r] /\ pc' = [pc EXCEPT ![t] = "stage"]
        /\ UNCHANGED <<fs, data, acts, precious, refused>>
    BY DEF Begin, Persist, Goto
  <1>2. touched' \subseteq Transactions
    BY DEF Begin, IInv, TypeOK
  <1>3. TypeOK /\ Started(t) /\ Backups(t) /\ rec[t] = NoReceipt
    BY <1>1 DEF IInv, Started
  <1>4. src \in Names /\ dst \in Names
    BY NamesAre
  <1>5. snapshot(src) \in Snaps(acts) /\ snapshot(dst) \in Snaps(acts) /\ snapshot(src)[1] # 0
        /\ (snapshot(dst) = NoSnap => fs[dst] = 0)
    BY <1>1, <1>3, <1>4, SnapshotsAre
  <1>6. NoSnap \in Snaps(acts)
    BY DEF NoSnap, Snaps, Contents
  <1>7. /\ r \in Receipts(acts) /\ r.state = "reserved" /\ r.kind = kind /\ r.src = src /\ r.dst = dst
        /\ r.source = snapshot(src) /\ r.old = snapshot(dst) /\ r.ident = 0 /\ r.result = NoSnap
    <2>1. NoReceipt \in Receipts(acts)
      BY <1>6 DEF NoReceipt, Receipts, States
    <2>2. NoReceipt.ident = 0 /\ NoReceipt.result = NoSnap
      BY DEF NoReceipt
    <2>3. r \in Receipts(acts)
      BY <1>5, <2>1 DEF Receipts, States
    <2> QED  BY <2>1, <2>2, <2>3 DEF Receipts
  <1> HIDE DEF r, locks
  <1>8. "stage" \in Pcs /\ "stage" \in Early
    BY DEF Pcs, Early
  <1>9. /\ rec'[t] = r /\ pc'[t] = "stage" /\ TypeOK'
        /\ \A u \in Transactions : u # t => rec'[u] = rec[u] /\ pc'[u] = pc[u]
    BY <1>1, <1>2, <1>3, <1>7, <1>8 DEF TypeOK
  <1>10. \A s : Covered(s) => Covered(s)'
    <2>1. ASSUME NEW s, NEW u \in Transactions, rec[u].state \in Ending,
                 s = rec[u].old \/ (IsMove(u) /\ s = rec[u].source)
          PROVE  rec'[u] = rec[u]
      BY <1>1, <1>9, <2>1 DEF Ending
    <2> QED  BY <2>1 DEF Covered, IsMove
  <1>11. ScratchApart' /\ NothingLost'
    BY <1>1, <1>9, <1>10, StillStep
  <1>12. Locks(t)' = locks /\ \A u \in Transactions : u # t => Locks(u)' = Locks(u)
    BY <1>7, <1>9 DEF Locks, locks
  <1>13. \A u \in Transactions : pc[u] # "none" => Locks(u) \cap locks = {}
    BY <1>1 DEF Held, Locks
  <1>14. LocksApart'
    BY <1>9, <1>12, <1>13 DEF IInv, LocksApart
  <1>15. Started(t)'
    BY <1>1, <1>5, <1>7, <1>9 DEF Started
  <1>16. Phase(t)'
    BY <1>7, <1>9 DEF Phase, Early, Making, Moving, Dropping, Ending
  <1>17. Vacant(t)'
    BY <1>1, <1>5, <1>7, <1>9 DEF Vacant, Early, Making
  <1>18. CopyIsOurs(t)'
    BY <1>7, <1>9 DEF CopyIsOurs
  <1>19. Backups(t)'
    <2>1. fs[SourceBackup(t)] = 0 /\ fs[Backup(t)] = 0
      BY <1>3 DEF Backups, IsMove, NoReceipt
    <2> QED  BY <1>1, <2>1 DEF Backups, Backup, SourceBackup
  <1>20. ASSUME NEW u \in Transactions, u # t
         PROVE  Started(u)' /\ Phase(u)' /\ Vacant(u)' /\ CopyIsOurs(u)' /\ Backups(u)'
    <2>1. rec'[u] = rec[u] /\ pc'[u] = pc[u]
      BY <1>9, <1>20
    <2>2. Started(u) /\ Phase(u) /\ Vacant(u) /\ CopyIsOurs(u) /\ Backups(u)
      BY DEF IInv
    <2> QED  BY <1>1, <2>1, <2>2 DEF Started, Phase, Vacant, CopyIsOurs, Backups, IsMove,
               Tmp, Staging, Backup, SourceBackup
  <1> QED  BY <1>9, <1>11, <1>14, <1>15, <1>16, <1>17, <1>18, <1>19, <1>20 DEF IInv

-----------------------------------------------------------------------------
(* recover, rollback and finalize.                                         *)

\* Where a recovery can be, the file system is only looked at.
LEMMA AwayIs ==
  ASSUME IInv, NEW t \in Transactions, NEW q \in Elsewhere \cup Moving \cup Dropping,
         pc' = [pc EXCEPT ![t] = q],
         q \in Moving => rec'[t].kind = "move",
         q \in Dropping => rec'[t].state = "finalizing",
         q \notin Dropping \cup {"none"} => rec'[t].state \notin Ending
  PROVE  Phase(t)' /\ Vacant(t)' /\ q \in Pcs /\ pc'[t] = q
  <1>1. q \in Pcs /\ q \notin Early \cup Making /\ q # "readback"
    BY DEF Elsewhere, Pcs, Early, Making, Moving, Dropping
  <1>2. pc'[t] = q
    BY DEF IInv, TypeOK
  <1>3. Phase(t)'
    BY <1>1, <1>2 DEF Phase, Early, IsMove
  <1>4. Vacant(t)'
    BY <1>1, <1>2 DEF Vacant, Making
  <1> QED  BY <1>1, <1>2, <1>3, <1>4

\* restore_retired_regular: the backup name goes only after the link.
LEMMA RestoreFine ==
  ASSUME IInv, NEW t \in Transactions, NEW at \in Paths, NEW bak \in {Backup(t), SourceBackup(t)},
         NEW half \in {"undo_link", "undo_src"}, NEW next \in {"clean", "restore_old"}, NEW expected,
         at \in Owned(t), rec[t].state \notin Ending \cup {"none"}, pc[t] # "none" \/ Locked(t),
         half = "undo_src" => IsMove(t),
         Restorable(at, bak, expected), Restore(t, at, bak, half, next)
  PROVE  IInv'
  <1>1. /\ fs' = IF fs[at] = 0 THEN [fs EXCEPT ![at] = fs[bak]] ELSE [fs EXCEPT ![bak] = 0]
        /\ pc' = [pc EXCEPT ![t] = IF fs[at] = 0 THEN half ELSE next]
        /\ UNCHANGED <<data, rec, acts, precious, touched, refused>>
    BY DEF Restore, Name, Goto, Quiet
  <1>2. at \in Names /\ bak \in Names /\ bak \in Owned(t) /\ at # bak
        /\ at # Backup(t) /\ at # SourceBackup(t)
    BY NamesAre, OwnedNames DEF PrivateNames
  <1>3. \A u \in Transactions : at \notin Scratch(u) /\ bak \notin Scratch(u)
    BY PlainNames
  <1>4. half \in Elsewhere \cup Moving /\ next \in Elsewhere /\ half # "none" /\ next # "none"
        /\ half \notin Dropping /\ next \notin Dropping /\ next \notin Moving
        /\ (half \in Moving => half = "undo_src")
    BY DEF Elsewhere, Moving, Dropping
  <1>5. CASE fs[at] = 0
    <2>1. fs' = [fs EXCEPT ![at] = fs[bak]] /\ pc' = [pc EXCEPT ![t] = half]
      BY <1>1, <1>5
    <2>2. Phase(t)' /\ Vacant(t)' /\ half \in Pcs
      BY <1>1, <1>4, <2>1, AwayIs DEF IsMove
    <2> QED  BY <1>1, <1>2, <1>3, <1>5, <2>1, <2>2, AddName
  <1>6. CASE fs[at] # 0
    <2>1. fs' = [fs EXCEPT ![bak] = 0] /\ pc' = [pc EXCEPT ![t] = next]
      BY <1>1, <1>6
    <2>2. Phase(t)' /\ Vacant(t)' /\ next \in Pcs
      BY <1>1, <1>4, <2>1, AwayIs
    <2>3. snapshot(at) # NoSnap
      BY <1>2, <1>6, SnapshotsAre DEF IInv
    <2>4. snapshot(bak) = NoSnap \/ snapshot(bak) = snapshot(at)
      BY <2>3 DEF Restorable
    <2>5. ASSUME NEW s \in precious, snapshot(bak) = s
          PROVE  \E m \in Names \ {bak} : fs[m] = fs[bak]
      <3>1. fs[bak] # 0 /\ fs[bak] = snapshot(bak)[1]
        BY <1>2, <2>5, PreciousIs
      <3>2. snapshot(bak) # NoSnap
        BY <1>2, <3>1, SnapshotsAre DEF IInv
      <3>3. fs[at] = snapshot(at)[1]
        BY <1>2, <2>3, PreciousIs
      <3> QED  BY <1>2, <2>4, <3>1, <3>2, <3>3
    <2> QED  BY <1>1, <1>2, <2>1, <2>2, <2>5, DropName
  <1> QED  BY <1>5, <1>6

\* A name goes, and the recovery goes on or ends.
LEMMA DropOn ==
  ASSUME IInv, NEW t \in Transactions, NEW q \in Elsewhere \cup Dropping, NEW n \in Owned(t),
         Name(n, 0), Goto(t, q), UNCHANGED rec, Quiet, pc[t] # "none",
         q \in Dropping => rec[t].state = "finalizing",
         q \notin Dropping => rec[t].state \notin Ending,
         \A s \in precious : snapshot(n) = s =>
            (\E m \in Names \ {n} : fs[m] = fs[n]) \/ Covered(s)
  PROVE  IInv'
  <1>1. fs' = [fs EXCEPT ![n] = 0] /\ pc' = [pc EXCEPT ![t] = q]
        /\ UNCHANGED <<data, rec, acts, precious, touched, refused>>
    BY DEF Name, Goto, Quiet
  <1>2. q \notin Moving /\ rec[t].state # "none"
    BY ReceiptIs DEF Elsewhere, Dropping, Moving
  <1>3. Phase(t)' /\ Vacant(t)' /\ q \in Pcs
    BY <1>1, <1>2, AwayIs
  <1> QED  BY <1>1, <1>2, <1>3, DropName

\* The command goes on or stores the start of a rollback or a finalize.
LEMMA GoOn ==
  ASSUME IInv, NEW t \in Transactions, NEW r \in Receipts(acts),
         NEW q \in Elsewhere \cup Moving \cup Dropping,
         rec' = [rec EXCEPT ![t] = r], Goto(t, q), UNCHANGED fs, Quiet,
         SameReceipt(t, r), r.ident = rec[t].ident,
         \/ r.result = rec[t].result
         \/ r.ident # 0 /\ r.result = <<r.ident, r.source[2]>>,
         rec[t].state # "none", r.state # "none", pc[t] # "none" \/ Locked(t),
         rec[t].state \in Ending => r.state \in Ending,
         q \in Moving => rec[t].kind = "move",
         q \in Dropping => r.state = "finalizing",
         q \notin Dropping \cup {"none"} => r.state \notin Ending
  PROVE  IInv'
  <1>1. rec'[t] = r /\ pc' = [pc EXCEPT ![t] = q]
        /\ UNCHANGED <<data, acts, precious, touched, refused, fs>> /\ refused' \subseteq Transactions
    BY DEF Goto, Quiet, IInv, TypeOK
  <1>2. Phase(t)' /\ Vacant(t)' /\ q \in Pcs
    BY <1>1, AwayIs DEF SameReceipt
  <1>3. CopyIsOurs(t)'
    <2>1. CopyIsOurs(t)
      BY DEF IInv
    <2> QED  BY <1>1, <2>1 DEF CopyIsOurs, SameReceipt
  <1> QED  BY <1>1, <1>2, <1>3, PaperStep

\* The start of a rollback, from what was published.
LEMMA RollBackFromFine ==
  ASSUME IInv, NEW t \in Transactions, NEW result \in Snaps(acts), RollBackFrom(t, result),
         \/ result = rec[t].result
         \/ rec[t].ident # 0 /\ result = <<rec[t].ident, rec[t].source[2]>>,
         rec[t].state \notin Ending \cup {"none"}, Locked(t)
  PROVE  IInv'
  <1> DEFINE r == [rec[t] EXCEPT !.state = "rolling_back", !.result = result]
             q == IF IsMove(t) THEN "restore_src" ELSE "restore_old"
  <1>1. rec' = [rec EXCEPT ![t] = r] /\ Goto(t, q) /\ UNCHANGED fs /\ Quiet
    BY DEF RollBackFrom, Persist
  <1>2. /\ r \in Receipts(acts) /\ SameReceipt(t, r) /\ r.state = "rolling_back"
        /\ r.result = result /\ r.ident = rec[t].ident /\ r.source = rec[t].source
    BY ReceiptIs DEF Receipts, SameReceipt, States
  <1>3. /\ q \in Elsewhere \cup Moving \cup Dropping /\ q \notin Dropping \cup {"none"}
        /\ (q \in Moving => rec[t].kind = "move")
    BY DEF IsMove, Elsewhere, Moving, Dropping
  <1>4. "rolling_back" \notin Ending \cup {"none"}
    BY DEF Ending
  <1> HIDE DEF r, q
  <1> QED  BY <1>1, <1>2, <1>3, <1>4, GoOn

LEMMA RecoverReservedFine ==
  ASSUME IInv, NEW t \in Transactions, RecoverReserved(t)
  PROVE  IInv'
  <1>1. Locked(t) /\ rec[t].state \notin Ending \cup {"none"}
    BY DEF RecoverReserved, Ending
  <1>2. rec[t].dst \in Paths /\ rec[t].dst \in Names /\ rec[t].dst \in Owned(t)
    BY <1>1, ReceiptIs, NamesAre, OwnedNames
  <1>3. CASE Refuse(t)
    BY <1>1, <1>3, StopFine
  <1>4. CASE Installed(t) /\ RollBackFrom(t, snapshot(rec[t].dst))
    <2> DEFINE now == snapshot(rec[t].dst)
    <2>1. now # NoSnap /\ now[2] = rec[t].source[2] /\ now[1] = rec[t].ident
      BY <1>4 DEF Installed
    <2>2. now \in Snaps(acts) /\ now = <<fs[rec[t].dst], data[fs[rec[t].dst]]>> /\ fs[rec[t].dst] # 0
      BY <1>2, <2>1, SnapshotsAre DEF IInv
    <2>3. now = <<rec[t].ident, rec[t].source[2]>> /\ rec[t].ident # 0
      BY <2>1, <2>2
    <2> QED  BY <1>1, <1>4, <2>2, <2>3, RollBackFromFine
  <1>5. CASE Goto(t, "clean") /\ UNCHANGED <<fs, rec>> /\ Quiet
    <2>1. "clean" \in Elsewhere /\ "clean" \notin Moving \cup Dropping \cup {"none"}
      BY DEF Elsewhere, Moving, Dropping
    <2>2. rec' = [rec EXCEPT ![t] = rec[t]] /\ rec[t] \in Receipts(acts) /\ SameReceipt(t, rec[t])
      BY <1>5, ReceiptIs
    <2> QED  BY <1>1, <1>5, <2>1, <2>2, GoOn
  <1>6. CASE /\ Restorable(rec[t].dst, Backup(t), rec[t].old)
             /\ Restore(t, rec[t].dst, Backup(t), "undo_link", "clean")
    BY <1>1, <1>2, <1>6, RestoreFine
  <1> QED  BY <1>3, <1>4, <1>5, <1>6 DEF RecoverReserved

LEMMA UndoLinkFine ==
  ASSUME IInv, NEW t \in Transactions, UndoLink(t)
  PROVE  IInv'
  <1>1. pc[t] = "undo_link" /\ rec[t].state # "none" /\ rec[t].state \notin Ending
    BY ReceiptIs DEF UndoLink, IInv, Phase, Dropping
  <1>2. /\ rec[t].dst \in Names /\ Backup(t) \in Names /\ Backup(t) \in Owned(t)
        /\ rec[t].dst # Backup(t)
    BY <1>1, ReceiptIs, NamesAre, OwnedNames DEF PrivateNames
  <1>3. CASE Refuse(t)
    BY <1>1, <1>3, StopFine
  <1>4. CASE /\ snapshot(rec[t].dst) = rec[t].old /\ snapshot(Backup(t)) = rec[t].old
             /\ Name(Backup(t), 0) /\ Goto(t, "clean") /\ UNCHANGED rec /\ Quiet
    <2>1. "clean" \in Elsewhere /\ "clean" \notin Dropping
      BY DEF Elsewhere, Dropping
    <2>2. ASSUME NEW s \in precious, snapshot(Backup(t)) = s
          PROVE  \E m \in Names \ {Backup(t)} : fs[m] = fs[Backup(t)]
      BY <1>2, <1>4, <2>2, PreciousIs
    <2> QED  BY <1>1, <1>2, <1>4, <2>1, <2>2, DropOn
  <1> QED  BY <1>3, <1>4 DEF UndoLink

LEMMA CleanFine ==
  ASSUME IInv, NEW t \in Transactions, CleanStaging(t) \/ CleanTmp(t)
  PROVE  IInv'
  <1>1. pc[t] \in {"clean", "clean_tmp"} /\ rec[t].state # "none" /\ rec[t].state \notin Ending
    BY ReceiptIs DEF CleanStaging, CleanTmp, IInv, Phase, Dropping
  <1>2. Scratch(t) \subseteq Owned(t)
    BY <1>1, OwnedNames DEF Scratch, PrivateNames
  <1>3. CASE Refuse(t)
    BY <1>1, <1>3, StopFine
  <1>4. ASSUME NEW n \in Scratch(t), NEW q \in {"clean_tmp", "rolled_back"},
               Name(n, 0), Goto(t, q), UNCHANGED rec, Quiet
        PROVE  IInv'
    <2>1. q \in Elsewhere /\ q \notin Dropping
      BY DEF Elsewhere, Dropping
    <2>2. \A s \in precious : snapshot(n) # s
      BY ScratchIsOurs
    <2> QED  BY <1>1, <1>2, <1>4, <2>1, <2>2, DropOn
  <1> QED  BY <1>3, <1>4 DEF CleanStaging, CleanTmp, Scratch

\* Commands that begin to settle a transaction, or go on with it.
LEMMA SettleFine ==
  ASSUME IInv, NEW t \in Transactions,
         RollBack(t) \/ ResumeRollBack(t) \/ Finalize(t) \/ ResumeFinalize(t)
  PROVE  IInv'
  <1>1. Locked(t) /\ rec[t].state \in {"completed", "installed", "rolling_back", "finalizing"}
    BY DEF RollBack, ResumeRollBack, Finalize, ResumeFinalize
  <1>2. rec[t] \in Receipts(acts) /\ SameReceipt(t, rec[t])
    BY ReceiptIs
  <1>3. CASE Refuse(t)
    BY <1>1, <1>3, StopFine
  <1>4. CASE RollBack(t) /\ RollBackFrom(t, rec[t].result)
    <2>1. rec[t].result \in Snaps(acts) /\ rec[t].state \notin Ending \cup {"none"}
      BY <1>2, <1>4 DEF Receipts, RollBack, Ending
    <2> QED  BY <1>1, <1>4, <2>1, RollBackFromFine
  <1>5. CASE ResumeRollBack(t)
    <2> DEFINE q == IF IsMove(t) THEN "restore_src" ELSE "restore_old"
    <2>1. /\ q \in Elsewhere \cup Moving \cup Dropping /\ q \notin Dropping \cup {"none"}
          /\ (q \in Moving => rec[t].kind = "move")
      BY DEF IsMove, Elsewhere, Moving, Dropping
    <2>2. Goto(t, q) /\ UNCHANGED <<fs, rec>> /\ Quiet /\ rec[t].state = "rolling_back"
      BY <1>5 DEF ResumeRollBack
    <2>3. rec' = [rec EXCEPT ![t] = rec[t]] /\ rec[t].state \notin Ending \cup {"none"}
      BY <2>2, ReceiptIs DEF Ending
    <2> HIDE DEF q
    <2> QED  BY <1>1, <1>2, <2>1, <2>2, <2>3, GoOn
  <1>6. ASSUME NEW r \in Receipts(acts), SameReceipt(t, r), r.ident = rec[t].ident,
               r.result = rec[t].result, r.state = "finalizing",
               rec' = [rec EXCEPT ![t] = r], Goto(t, "drop_source"), UNCHANGED fs, Quiet
        PROVE  IInv'
    <2>1. /\ "drop_source" \in Dropping /\ "drop_source" \notin Moving
          /\ "finalizing" \in Ending
      BY DEF Dropping, Moving, Ending
    <2> QED  BY <1>1, <1>6, <2>1, GoOn
  <1>7. CASE Finalize(t) /\ ~Refuse(t)
    <2> DEFINE r == [rec[t] EXCEPT !.state = "finalizing"]
    <2>1. "finalizing" \in States
      BY DEF States
    <2>2. r \in Receipts(acts) /\ SameReceipt(t, r) /\ r.state = "finalizing"
          /\ r.result = rec[t].result /\ r.ident = rec[t].ident
      BY <2>1, RestatedIs
    <2>3. rec' = [rec EXCEPT ![t] = r] /\ Goto(t, "drop_source") /\ UNCHANGED fs /\ Quiet
      BY <1>7 DEF Finalize, Persist
    <2> HIDE DEF r
    <2> QED  BY <1>6, <2>2, <2>3
  <1>8. CASE ResumeFinalize(t) /\ ~Refuse(t)
    <2>1. rec' = [rec EXCEPT ![t] = rec[t]] /\ Goto(t, "drop_source") /\ UNCHANGED fs /\ Quiet
          /\ rec[t].state = "finalizing"
      BY <1>8, ReceiptIs DEF ResumeFinalize
    <2> QED  BY <1>2, <1>6, <2>1
  <1> QED  BY <1>3, <1>4, <1>5, <1>7, <1>8 DEF RollBack

LEMMA RestoreSourceFine ==
  ASSUME IInv, NEW t \in Transactions, RestoreSource(t)
  PROVE  IInv'
  <1>1. pc[t] \in {"restore_src", "undo_src"} /\ pc[t] # "none"
    BY DEF RestoreSource
  <1>2. Phase(t) /\ rec[t].state # "none"
    BY <1>1, ReceiptIs DEF IInv
  <1>3. IsMove(t) /\ rec[t].state \notin Ending \cup {"none"}
    BY <1>1, <1>2 DEF Phase, Moving, Dropping
  <1>4. rec[t].src \in Paths /\ rec[t].src \in Owned(t)
    BY <1>2, <1>3, ReceiptIs, OwnedNames
  <1>5. CASE Refuse(t)
    BY <1>1, <1>2, <1>5, StopFine
  <1>6. CASE /\ Restorable(rec[t].src, SourceBackup(t), rec[t].source)
             /\ Restore(t, rec[t].src, SourceBackup(t), "undo_src", "restore_old")
    BY <1>1, <1>3, <1>4, <1>6, RestoreFine
  <1> QED  BY <1>5, <1>6 DEF RestoreSource

\* The old file comes back over the copy, which is not the user's.
LEMMA RenameBackFine ==
  ASSUME IInv, NEW t \in Transactions, pc[t] = "restore_old",
         snapshot(rec[t].dst) = rec[t].result, Rename(Backup(t), rec[t].dst),
         Goto(t, "rolled_back"), UNCHANGED rec, Quiet
  PROVE  IInv'
  <1> DEFINE d == rec[t].dst
             b == Backup(t)
  <1>1. /\ fs' = [fs EXCEPT ![d] = fs[b], ![b] = 0] /\ pc' = [pc EXCEPT ![t] = "rolled_back"]
        /\ UNCHANGED <<data, rec, acts, precious, touched, refused>>
    BY DEF Rename, Goto, Quiet
  <1>2. Phase(t) /\ Backups(t) /\ CopyIsOurs(t) /\ TypeOK /\ rec[t].state # "none"
        /\ rec[t].state \notin Ending
    BY ReceiptIs DEF IInv, Phase, Dropping
  <1>3. /\ d \in Names /\ d \in Owned(t) /\ b \in Names /\ b \in Owned(t) /\ d # b
        /\ SourceBackup(t) \in Names \ {d, b}
        /\ \A u \in Transactions : d \notin Scratch(u) /\ b \notin Scratch(u)
    BY <1>2, NamesAre, OwnedNames, ReceiptIs, PlainNames DEF PrivateNames
  <1>4. /\ fs'[d] = fs[b] /\ fs'[b] = 0
        /\ \A m \in Names : m # d /\ m # b => fs'[m] = fs[m]
    BY <1>1, <1>2, <1>3 DEF TypeOK
  <1>5. "rolled_back" \in Elsewhere /\ "rolled_back" \notin Moving \cup Dropping \cup {"none"}
    BY DEF Elsewhere, Moving, Dropping
  <1>6. Phase(t)' /\ Vacant(t)' /\ "rolled_back" \in Pcs
    BY <1>1, <1>2, <1>5, AwayIs
  <1>7. TypeOK'
    <2>1. fs' \in [Names -> Objects \cup {0}]
      BY <1>1, <1>2, <1>3 DEF TypeOK
    <2> QED  BY <1>1, <1>2, <1>6, <2>1 DEF TypeOK
  <1>8. \A s \in precious : snapshot(d) # s
    <2>1. NoSnap \notin precious
      BY <1>2 DEF TypeOK, NoSnap, Objects
    <2> QED  BY <1>2, <2>1 DEF CopyIsOurs
  <1>9. ASSUME NEW n \in Names, NEW s \in precious, snapshot(n) = s
        PROVE  \E m \in Names : fs'[m] = fs[n]
    <2>1. n # d
      BY <1>8, <1>9
    <2> QED  BY <1>3, <1>4, <2>1
  <1>10. NothingLost'
    <2>1. \A s : Covered(s) => Covered(s)'
      BY <1>1 DEF Covered, IsMove
    <2> QED  BY <1>1, <1>7, <1>9, <2>1, StillNamed
  <1>11. ScratchApart'
    BY <1>1, <1>3, <1>4, ScratchStays
  <1>12. Backups(t)'
    <2>1. fs'[SourceBackup(t)] = fs[SourceBackup(t)]
      BY <1>3, <1>4
    <2> QED  BY <1>1, <1>2, <1>4, <2>1 DEF Backups, IsMove, Backup, SourceBackup
  <1>13. \A m \in Names : m \notin Owned(t) => fs'[m] = fs[m]
    BY <1>3, <1>4
  <1> QED  BY <1>1, <1>2, <1>6, <1>7, <1>10, <1>11, <1>12, <1>13, DiskStep

LEMMA RestoreOldFine ==
  ASSUME IInv, NEW t \in Transactions, RestoreOld(t)
  PROVE  IInv'
  <1>1. pc[t] = "restore_old" /\ rec[t].state # "none" /\ rec[t].state \notin Ending
        /\ CopyIsOurs(t) /\ TypeOK
    BY ReceiptIs DEF RestoreOld, IInv, Phase, Dropping
  <1>2. "rolled_back" \in Elsewhere /\ "rolled_back" \notin Moving \cup Dropping \cup {"none"}
    BY DEF Elsewhere, Moving, Dropping
  <1>3. CASE Refuse(t)
    BY <1>1, <1>3, StopFine
  <1>4. CASE Removable(t) /\ Name(rec[t].dst, 0) /\ Goto(t, "rolled_back") /\ UNCHANGED rec /\ Quiet
    <2>1. NoSnap \notin precious
      BY <1>1 DEF TypeOK, NoSnap, Objects
    <2>2. \A s \in precious : snapshot(rec[t].dst) # s
      BY <1>1, <1>4, <2>1 DEF CopyIsOurs, Removable
    <2>3. rec[t].dst \in Owned(t)
      BY <1>1, OwnedNames
    <2> QED  BY <1>1, <1>2, <1>4, <2>2, <2>3, DropOn
  <1>5. CASE Goto(t, "rolled_back") /\ UNCHANGED <<fs, rec>> /\ Quiet
    <2>1. rec' = [rec EXCEPT ![t] = rec[t]] /\ rec[t] \in Receipts(acts) /\ SameReceipt(t, rec[t])
      BY <1>5, ReceiptIs
    <2> QED  BY <1>1, <1>2, <1>5, <2>1, GoOn
  <1>6. CASE /\ snapshot(rec[t].dst) = rec[t].result /\ Rename(Backup(t), rec[t].dst)
             /\ Goto(t, "rolled_back") /\ UNCHANGED rec /\ Quiet
    BY <1>1, <1>6, RenameBackFine
  <1> QED  BY <1>3, <1>4, <1>5, <1>6 DEF RestoreOld

\* What a finalize drops is what its receipt names.
LEMMA DropBackupFine ==
  ASSUME IInv, NEW t \in Transactions, DropBackup(t)
  PROVE  IInv'
  <1>1. pc[t] \in {"drop_source", "drop_old"}
    BY DEF DropBackup
  <1>2. Phase(t) /\ Backups(t) /\ TypeOK
    BY DEF IInv
  <1>3. rec[t].state = "finalizing" /\ "finalizing" \in Ending /\ "finalizing" # "none"
    BY <1>1, <1>2 DEF Phase, Dropping, Ending
  <1>4. /\ Backup(t) \in Owned(t) /\ SourceBackup(t) \in Owned(t)
        /\ Backup(t) \in Names /\ SourceBackup(t) \in Names
    BY <1>3, NamesAre, OwnedNames DEF PrivateNames
  <1>5. {"drop_old", "finalized"} \subseteq Dropping
    BY DEF Dropping
  <1>6. NoSnap \notin precious
    BY <1>2 DEF TypeOK, NoSnap, Objects
  <1>7. CASE Refuse(t)
    BY <1>1, <1>3, <1>7, StopFine
  <1>8. CASE /\ IsMove(t) => snapshot(SourceBackup(t)) \in {NoSnap, rec[t].source}
             /\ Name(SourceBackup(t), 0) /\ Goto(t, "drop_old") /\ UNCHANGED rec /\ Quiet
    <2>1. ASSUME NEW s \in precious, snapshot(SourceBackup(t)) = s  PROVE Covered(s)
      <3>1. fs[SourceBackup(t)] # 0
        BY <1>4, <2>1, PreciousIs
      <3>2. IsMove(t) /\ s = rec[t].source
        BY <1>2, <1>6, <1>8, <2>1, <3>1 DEF Backups
      <3> QED  BY <1>3, <3>2 DEF Covered
    <2> QED  BY <1>1, <1>3, <1>4, <1>5, <1>8, <2>1, DropOn
  <1>9. CASE /\ rec[t].old # NoSnap => snapshot(Backup(t)) \in {NoSnap, rec[t].old}
             /\ Name(Backup(t), 0) /\ Goto(t, "finalized") /\ UNCHANGED rec /\ Quiet
    <2>1. ASSUME NEW s \in precious, snapshot(Backup(t)) = s  PROVE Covered(s)
      <3>1. fs[Backup(t)] # 0
        BY <1>4, <2>1, PreciousIs
      <3>2. s = rec[t].old
        BY <1>2, <1>6, <1>9, <2>1, <3>1 DEF Backups
      <3> QED  BY <1>3, <3>2 DEF Covered
    <2> QED  BY <1>1, <1>3, <1>4, <1>5, <1>9, <2>1, DropOn
  <1> QED  BY <1>7, <1>8, <1>9 DEF DropBackup

-----------------------------------------------------------------------------
(* The user.                                                               *)

\* No transaction mistakes what the user does for its own work.
LEMMA UserFrame ==
  ASSUME IInv, NEW p \in Paths, p \notin Held, NEW o, acts' = acts + 1, UNCHANGED <<rec, pc>>,
         TypeOK', \A n \in Names : n # p => fs'[n] = fs[n],
         precious' \subseteq precious \cup {<<o, Written(acts + 1)>>},
         ScratchApart', NothingLost'
  PROVE  IInv'
  <1>1. LocksApart'
    BY DEF IInv, LocksApart, Locks
  <1>2. ASSUME NEW t \in Transactions
        PROVE  Started(t)' /\ Phase(t)' /\ Vacant(t)' /\ CopyIsOurs(t)' /\ Backups(t)'
    <2>1. Started(t) /\ Phase(t) /\ Vacant(t) /\ CopyIsOurs(t) /\ Backups(t) /\ TypeOK
      BY DEF IInv
    <2>2. /\ fs'[Tmp(t)] = fs[Tmp(t)] /\ fs'[Staging(t)] = fs[Staging(t)]
          /\ fs'[Backup(t)] = fs[Backup(t)] /\ fs'[SourceBackup(t)] = fs[SourceBackup(t)]
      BY NamesAre
    <2>3. Started(t)' /\ Phase(t)' /\ Backups(t)'
      BY <2>1, <2>2 DEF Started, Phase, Backups, IsMove, Tmp, Staging, Backup, SourceBackup
    <2>4. Vacant(t)'
      <3>1. CASE pc[t] = "none"
        BY <3>1 DEF Vacant, Early, Making
      <3>2. CASE pc[t] # "none"
        <4>1. rec[t].dst \in Held /\ rec[t].dst \in Paths
          BY <2>1, <3>2 DEF Held, LockedPaths, Started
        <4>2. fs'[rec[t].dst] = fs[rec[t].dst]
          BY <4>1, NamesAre
        <4> QED  BY <2>1, <4>2 DEF Vacant
      <3> QED  BY <3>1, <3>2
    <2>5. CopyIsOurs(t)'
      <3>1. rec[t].source[2] \in Contents(acts) /\ acts \in Nat
        BY <2>1 DEF TypeOK, Receipts, Snaps
      <3>2. rec[t].source[2] # Written(acts + 1)
        BY <3>1, WrittenIsNew
      <3>3. <<rec[t].ident, rec[t].source[2]>> # <<o, Written(acts + 1)>>
        BY <3>2
      <3> QED  BY <2>1, <3>3 DEF CopyIsOurs
    <2> QED  BY <2>3, <2>4, <2>5
  <1> QED  BY <1>1, <1>2 DEF IInv

\* Contents only become more.
LEMMA UserTypes ==
  ASSUME TypeOK
  PROVE  /\ acts + 1 \in Nat /\ Contents(acts) \subseteq Contents(acts + 1)
         /\ data \in [Objects -> Contents(acts + 1)]
         /\ rec \in [Transactions -> Receipts(acts + 1)]
         /\ precious \subseteq Objects \X Contents(acts + 1)
  <1>1. acts \in Nat /\ Contents(acts) \subseteq Contents(acts + 1)
    BY WrittenIsNew DEF TypeOK
  <1>2. Snaps(acts) \subseteq Snaps(acts + 1)
    BY <1>1 DEF Snaps
  <1>3. Receipts(acts) \subseteq Receipts(acts + 1)
    BY <1>2 DEF Receipts
  <1> QED  BY <1>1, <1>3 DEF TypeOK

LEMMA UserFine ==
  ASSUME IInv, ~Intrusive, NEW p \in Paths, UserActs(p)
  PROVE  IInv'
  <1> DEFINE old == {s \in precious : s[1] = fs[p]}
             w == Written(acts + 1)
  <1>1. /\ acts' = acts + 1 /\ p \notin Held /\ UNCHANGED <<rec, pc, refused>>
    BY DEF UserActs
  <1>2. touched' \subseteq Transactions
    BY DEF UserActs, IInv, TypeOK
  <1>3. \/ /\ fs[p] # 0 /\ data' = [data EXCEPT ![fs[p]] = w] /\ UNCHANGED fs
           /\ precious' = (precious \ old) \cup {<<fs[p], w>>}
        \/ /\ FreshObjects # {} /\ data' = [data EXCEPT ![FreshObject] = w]
           /\ fs' = [fs EXCEPT ![p] = FreshObject]
           /\ precious' = (precious \ old) \cup {<<FreshObject, w>>}
        \/ /\ fs[p] # 0 /\ fs' = [fs EXCEPT ![p] = 0] /\ UNCHANGED data
           /\ precious' = precious \ old
    BY DEF UserActs, Name
  <1>4. TypeOK /\ p \in Names /\ w \in Contents(acts + 1)
    BY NamesAre, WrittenIsNew DEF IInv, TypeOK
  <1>5. /\ acts + 1 \in Nat /\ data \in [Objects -> Contents(acts + 1)]
        /\ rec \in [Transactions -> Receipts(acts + 1)]
        /\ precious \subseteq Objects \X Contents(acts + 1)
        /\ fs \in [Names -> Objects \cup {0}] /\ pc \in [Transactions -> Pcs]
        /\ refused \subseteq Transactions
    BY <1>4, UserTypes DEF TypeOK
  <1>6. \A s \in precious : s[1] \in Objects /\ s[1] # 0
    BY <1>4 DEF TypeOK, Objects
  <1>7. \A s : Covered(s) => Covered(s)'
    BY <1>1 DEF Covered, IsMove
  <1>8. \A t \in Transactions : p \notin Scratch(t)
    BY PlainNames
  <1>9. \A t \in Transactions : \A n \in Scratch(t) : n \in Names /\ n # p
    BY <1>8, NamesAre DEF Scratch
  \* What remains of the user's keeps its name, for it is not at p.
  <1>10. ASSUME NEW s \in precious \ old, NEW n \in Names, snapshot(n) = s,
                \A m \in Names : m # p => fs'[m] = fs[m],
                s[1] # fs[p] => data'[s[1]] = data[s[1]]
         PROVE  n # p /\ snapshot(n)' = s
    <2>1. fs[n] # 0 /\ s = <<fs[n], data[fs[n]]>> /\ s[1] = fs[n] /\ fs[n] # fs[p]
      BY <1>4, <1>6, <1>10, SnapshotsAre DEF NoSnap
    <2>2. fs'[n] = fs[n] /\ data'[fs[n]] = data[fs[n]]
      BY <1>10, <2>1
    <2> QED  BY <2>1, <2>2 DEF snapshot
  <1>11. CASE fs[p] # 0 /\ data' = [data EXCEPT ![fs[p]] = w] /\ UNCHANGED fs
              /\ precious' = (precious \ old) \cup {<<fs[p], w>>}
    <2>1. fs[p] \in Objects
      BY <1>4, <1>5, <1>11
    <2>2. data' \in [Objects -> Contents(acts + 1)] /\ data'[fs[p]] = w
          /\ \A s \in precious : s[1] # fs[p] => data'[s[1]] = data[s[1]]
      BY <1>4, <1>5, <1>6, <1>11, <2>1
    <2>3. precious' \subseteq Objects \X Contents(acts + 1)
      BY <1>4, <1>5, <1>11, <2>1
    <2>4. TypeOK'
      BY <1>1, <1>2, <1>5, <1>11, <2>2, <2>3 DEF TypeOK
    <2>5. ScratchApart'
      <3> SUFFICES ASSUME NEW t \in Transactions, NEW n \in Scratch(t), fs[n] # 0
                   PROVE  /\ \A s \in precious' : s[1] # fs[n]
                          /\ \A m \in Names \ Scratch(t) : fs[m] # fs[n]
        BY <1>11 DEF ScratchApart
      <3>1. /\ \A s \in precious : s[1] # fs[n]
            /\ \A m \in Names \ Scratch(t) : fs[m] # fs[n]
        BY DEF IInv, ScratchApart
      <3>2. fs[p] # fs[n]
        BY <1>4, <1>8, <3>1
      <3> QED  BY <1>11, <3>1, <3>2
    <2>6. NothingLost'
      <3>1. snapshot(p)' = <<fs[p], w>>
        BY <1>11, <2>2 DEF snapshot
      <3>2. ASSUME NEW s \in precious \ old  PROVE (\E n \in Names : snapshot(n)' = s) \/ Covered(s)'
        BY <1>7, <1>10, <1>11, <2>2, <3>2, LostIs DEF IInv
      <3> QED  BY <1>4, <1>11, <3>1, <3>2 DEF NothingLost, Covered, Ending
    <2>7. \A n \in Names : n # p => fs'[n] = fs[n]
      BY <1>11
    <2>8. precious' \subseteq precious \cup {<<fs[p], Written(acts + 1)>>}
      BY <1>11
    <2> QED  BY <1>1, <2>4, <2>5, <2>6, <2>7, <2>8, UserFrame
  <1>12. CASE FreshObjects # {} /\ data' = [data EXCEPT ![FreshObject] = w]
              /\ fs' = [fs EXCEPT ![p] = FreshObject]
              /\ precious' = (precious \ old) \cup {<<FreshObject, w>>}
    <2> DEFINE o == FreshObject
    <2>1. /\ o \in Objects /\ o # 0 /\ \A n \in Names : fs[n] # o
          /\ \A s \in precious : s[1] # o
      BY <1>12, FreshIs
    <2>2. data' \in [Objects -> Contents(acts + 1)] /\ data'[o] = w
          /\ \A s \in precious : data'[s[1]] = data[s[1]]
      BY <1>4, <1>5, <1>6, <1>12, <2>1
    <2>3. precious' \subseteq Objects \X Contents(acts + 1)
      BY <1>4, <1>5, <1>12, <2>1
    <2>4. /\ fs' \in [Names -> Objects \cup {0}] /\ fs'[p] = o
          /\ \A n \in Names : n # p => fs'[n] = fs[n]
      BY <1>4, <1>5, <1>12, <2>1
    <2>5. precious' = (precious \ old) \cup {<<o, w>>}
      BY <1>12
    <2> HIDE DEF o
    <2>6. TypeOK'
      BY <1>1, <1>2, <1>5, <2>2, <2>3, <2>4 DEF TypeOK
    <2>7. ScratchApart'
      <3> SUFFICES ASSUME NEW t \in Transactions, NEW n \in Scratch(t), fs'[n] # 0
                   PROVE  /\ \A s \in precious' : s[1] # fs'[n]
                          /\ \A m \in Names \ Scratch(t) : fs'[m] # fs'[n]
        BY DEF ScratchApart
      <3>1. fs'[n] = fs[n] /\ fs[n] # o
        BY <1>9, <2>1, <2>4
      <3>2. /\ \A s \in precious : s[1] # fs[n]
            /\ \A m \in Names \ Scratch(t) : fs[m] # fs[n]
        BY <3>1 DEF IInv, ScratchApart
      <3>3. <<o, w>>[1] = o
        OBVIOUS
      <3> QED  BY <2>4, <2>5, <3>1, <3>2, <3>3
    <2>8. NothingLost'
      <3>1. snapshot(p)' = <<o, w>>
        BY <2>1, <2>2, <2>4 DEF snapshot
      <3>2. ASSUME NEW s \in precious \ old  PROVE (\E n \in Names : snapshot(n)' = s) \/ Covered(s)'
        BY <1>7, <1>10, <2>2, <2>4, <3>2, LostIs DEF IInv
      <3> QED  BY <1>4, <2>5, <3>1, <3>2 DEF NothingLost, Covered, Ending
    <2>9. precious' \subseteq precious \cup {<<o, Written(acts + 1)>>}
      BY <2>5
    <2> QED  BY <1>1, <2>4, <2>6, <2>7, <2>8, <2>9, UserFrame
  <1>13. CASE fs[p] # 0 /\ fs' = [fs EXCEPT ![p] = 0] /\ UNCHANGED data /\ precious' = precious \ old
    <2>1. /\ fs' \in [Names -> Objects \cup {0}] /\ fs'[p] = 0
          /\ \A n \in Names : n # p => fs'[n] = fs[n]
      BY <1>4, <1>5, <1>13
    <2>2. precious' \subseteq precious
      BY <1>13
    <2>3. TypeOK'
      BY <1>1, <1>2, <1>5, <1>13, <2>1, <2>2 DEF TypeOK
    <2>4. ScratchApart'
      <3> SUFFICES ASSUME NEW t \in Transactions, NEW n \in Scratch(t), fs'[n] # 0
                   PROVE  /\ \A s \in precious' : s[1] # fs'[n]
                          /\ \A m \in Names \ Scratch(t) : fs'[m] # fs'[n]
        BY DEF ScratchApart
      <3>1. fs'[n] = fs[n]
        BY <1>9, <2>1
      <3>2. /\ \A s \in precious : s[1] # fs[n]
            /\ \A m \in Names \ Scratch(t) : fs[m] # fs[n]
        BY <3>1 DEF IInv, ScratchApart
      <3> QED  BY <2>1, <2>2, <3>1, <3>2
    <2>5. NothingLost'
      <3>1. ASSUME NEW s \in precious \ old  PROVE (\E n \in Names : snapshot(n)' = s) \/ Covered(s)'
        BY <1>7, <1>10, <1>13, <2>1, <3>1, LostIs DEF IInv
      <3> QED  BY <1>13, <3>1 DEF NothingLost, Covered, Ending
    <2>6. precious' \subseteq precious \cup {<<0, Written(acts + 1)>>}
      BY <2>2
    <2> QED  BY <1>1, <2>1, <2>3, <2>4, <2>5, <2>6, UserFrame
  <1> QED  BY <1>3, <1>11, <1>12, <1>13

-----------------------------------------------------------------------------
(* The theorems.                                                           *)

LEMMA InitFine ==
  ASSUME Init
  PROVE  IInv
  <1>1. PICK first \in [Paths -> 0..Cardinality(Paths)] :
          /\ fs = [n \in Names |-> IF n \in Paths THEN first[n] ELSE 0]
          /\ data = [o \in Objects |-> IF \E p \in Paths : first[p] = o
                                      THEN First(CHOOSE p \in Paths : first[p] = o) ELSE NoData]
    BY DEF Init
  <1>2. /\ rec = [t \in Transactions |-> NoReceipt] /\ pc = [t \in Transactions |-> "none"]
        /\ acts = 0 /\ precious = {snapshot(p) : p \in {q \in Paths : fs[q] # 0}}
        /\ touched = {} /\ refused = {}
    BY DEF Init
  <1>3. Cardinality(Paths) \in Nat /\ Cardinality(Paths) <= MaxObjects /\ MaxObjects \in Nat
    BY FileAssumption, FS_CardinalityType
  <1>4. \A p \in Paths : first[p] \in Objects \cup {0}
    BY <1>3 DEF Objects
  <1>5. fs \in [Names -> Objects \cup {0}]
    BY <1>1, <1>4
  <1>6. ASSUME NEW o \in Objects  PROVE data[o] \in Contents(0)
    <2>1. CASE \E p \in Paths : first[p] = o
      <3> DEFINE q == CHOOSE p \in Paths : first[p] = o
      <3>1. q \in Paths
        BY <2>1
      <3>2. data[o] = First(q)
        BY <1>1, <2>1
      <3> HIDE DEF q
      <3> QED  BY <3>1, <3>2 DEF Contents
    <2>2. CASE ~\E p \in Paths : first[p] = o
      BY <1>1, <2>2 DEF Contents
    <2> QED  BY <2>1, <2>2
  <1>7. data \in [Objects -> Contents(0)]
    <2>1. data = [o \in Objects |-> data[o]]
      BY <1>1
    <2> QED  BY <1>6, <2>1
  <1>8. ASSUME NEW s \in precious  PROVE \E n \in Names : snapshot(n) = s /\ fs[n] # 0
    BY <1>2, NamesAre
  <1>9. precious \subseteq Objects \X Contents(0)
    <2> SUFFICES ASSUME NEW s \in precious  PROVE s \in Objects \X Contents(0)
      OBVIOUS
    <2>1. PICK n \in Names : snapshot(n) = s /\ fs[n] # 0
      BY <1>8
    <2>2. s = <<fs[n], data[fs[n]]>> /\ fs[n] \in Objects
      BY <1>5, <2>1 DEF snapshot
    <2> QED  BY <1>6, <2>2
  <1>10. NoReceipt \in Receipts(0)
    <2>1. NoSnap \in Snaps(0)
      BY DEF NoSnap, Snaps, Contents
    <2> QED  BY <2>1 DEF NoReceipt, Receipts, States
  <1>11. TypeOK
    <2>1. "none" \in Pcs
      BY DEF Pcs
    <2> QED  BY <1>2, <1>5, <1>7, <1>9, <1>10, <2>1 DEF TypeOK
  <1>12. LocksApart
    BY <1>2 DEF LocksApart
  <1>13. \A t \in Transactions : \A n \in PrivateNames(t) : fs[n] = 0
    BY <1>1, NamesAssumption DEF Names
  <1>14. \A t \in Transactions : /\ fs[Tmp(t)] = 0 /\ fs[Staging(t)] = 0
                                 /\ fs[Backup(t)] = 0 /\ fs[SourceBackup(t)] = 0
    BY <1>13 DEF PrivateNames
  <1>15. ScratchApart
    BY <1>14 DEF ScratchApart, Scratch
  <1>16. NothingLost
    BY <1>8, LostIs
  <1>17. ASSUME NEW t \in Transactions
         PROVE  Started(t) /\ Phase(t) /\ Vacant(t) /\ CopyIsOurs(t) /\ Backups(t)
    <2>1. pc[t] = "none" /\ rec[t] = NoReceipt
      BY <1>2
    <2>2. /\ NoReceipt.state = "none" /\ NoReceipt.result = NoSnap /\ NoReceipt.ident = 0
      BY DEF NoReceipt
    <2>3. Started(t)
      BY <2>1, <2>2 DEF Started
    <2>4. Phase(t)
      BY <2>1 DEF Phase, Making, Early, Moving, Dropping
    <2>5. Vacant(t)
      BY <2>1 DEF Vacant, Making, Early
    <2>6. CopyIsOurs(t)
      BY <2>1, <2>2 DEF CopyIsOurs
    <2>7. Backups(t)
      BY <1>14 DEF Backups
    <2> QED  BY <2>3, <2>4, <2>5, <2>6, <2>7
  <1> QED  BY <1>11, <1>12, <1>15, <1>16, <1>17 DEF IInv

\* IInv holds in every state of a behaviour, as long as other programs keep
\* away from locked paths.  Publish is where that matters: it replaces
\* whatever is at the destination by then.
THEOREM Inductive ==
  ASSUME ~Intrusive
  PROVE  Spec => []IInv
  <1>1. Init => IInv
    BY InitFine
  <1>2. IInv /\ [Next]_vars => IInv'
    <2> SUFFICES ASSUME IInv, [Next]_vars  PROVE IInv'
      OBVIOUS
    <2>1. CASE UNCHANGED vars
      <3>1. UNCHANGED <<fs, data, rec, pc, acts, precious, touched, refused>>
        BY <2>1 DEF vars
      <3> QED  BY <3>1 DEF IInv, TypeOK, LocksApart, Locks, ScratchApart, NothingLost, snapshot,
                        Started, Phase, Vacant, CopyIsOurs, Backups, IsMove
    <2>2. ASSUME NEW t \in Transactions, Apply(t)  PROVE IInv'
      <3>1. ASSUME NEW kind \in {"copy", "move"}, NEW src \in Paths, NEW dst \in Paths,
                   Begin(t, kind, src, dst)
            PROVE  IInv'
        BY <3>1, BeginFine
      <3>2. CASE StageMarker(t) \/ LinkMarker(t) \/ UnstageMarker(t) \/ Identify(t)
        BY <3>2, StageFine, LinkMarkerFine, UnstageFine, IdentifyFine
      <3>3. CASE Truncate(t) \/ Copy(t) \/ Prepared(t) \/ RetireOld(t) \/ BackupMoved(t)
        BY <3>3, TruncateFine, CopyFine, PreparedFine, RetireFine, BackupMovedFine
      <3>4. CASE Publish(t) \/ Readback(t) \/ RetireSource(t) \/ Complete(t)
        BY <3>4, PublishFine, ReadbackFine, RetireFine, EndsFine
      <3> QED  BY <2>2, <3>1, <3>2, <3>3, <3>4 DEF Apply
    <2>3. ASSUME NEW t \in Transactions, Settle(t)  PROVE IInv'
      <3>1. CASE RecoverReserved(t) \/ UndoLink(t) \/ CleanStaging(t) \/ CleanTmp(t)
        BY <3>1, RecoverReservedFine, UndoLinkFine, CleanFine
      <3>2. CASE RollBack(t) \/ ResumeRollBack(t) \/ Finalize(t) \/ ResumeFinalize(t)
        BY <3>2, SettleFine
      <3>3. CASE RestoreSource(t) \/ RestoreOld(t) \/ DropBackup(t)
        BY <3>3, RestoreSourceFine, RestoreOldFine, DropBackupFine
      <3>4. CASE RolledBack(t) \/ Finalized(t)
        BY <3>4, EndsFine
      <3> QED  BY <2>3, <3>1, <3>2, <3>3, <3>4 DEF Settle
    <2>4. ASSUME NEW t \in Transactions, Interrupted(t)  PROVE IInv'
      <3>1. pc[t] # "none" /\ rec[t].state # "none"
        BY <2>4 DEF Interrupted, IInv, Started
      <3> QED  BY <2>4, <3>1, StopFine
    <2>5. ASSUME NEW p \in Paths, UserActs(p)  PROVE IInv'
      BY <2>5, UserFine
    <2> QED  BY <2>1, <2>2, <2>3, <2>4, <2>5 DEF Next
  <1> QED  BY <1>1, <1>2, PTL DEF Spec

\* Receipts, names and contents stay well formed.
THEOREM TypeCorrect ==
  ASSUME ~Intrusive
  PROVE  Spec => []TypeOK
  <1>1. IInv => TypeOK
    BY DEF IInv
  <1> QED  BY <1>1, Inductive, PTL

\* Wherever file-copy, file-move, recover, rollback or finalize is cut off,
\* and whatever the user does to paths that no command has locked, every file
\* is there as the user last left it, until a finalize lets go of it.
THEOREM NoFileLost ==
  ASSUME ~Intrusive
  PROVE  Spec => []NothingLost
  <1>1. IInv => NothingLost
    BY DEF IInv
  <1> QED  BY <1>1, Inductive, PTL

-----------------------------------------------------------------------------
(***************************************************************************)
(* Ends and refusals.  The second invariant says, for every place where a  *)
(* command can be, what its names stand for, and for a transaction nobody  *)
(* has touched, for every place where it can have been cut off.            *)
(***************************************************************************)

\* What the source, the destination and their backups stand for.
S(t) == snapshot(rec[t].src)
D(t) == snapshot(rec[t].dst)
B(t) == snapshot(Backup(t))
A(t) == snapshot(SourceBackup(t))

Raw == {"reserved", "copy_prepared", "backup_moved"}
Late == {"installed", "completed", "rolling_back", "finalizing"}

\* The names under which the file of path p can be found.
Kin(p) ==
  {p} \cup {Backup(u) : u \in {v \in Transactions : rec[v].dst = p}}
      \cup {SourceBackup(u) : u \in {v \in Transactions : rec[v].src = p}}

\* No object has names of two paths.
OneHome ==
  \A p \in Paths : \A n \in Kin(p), m \in Names \ Kin(p) : fs[n] # 0 => fs[n] # fs[m]

\* The receipt is in step with the command.
Abreast(t) ==
  /\ pc[t] \in Early \cup {"truncate", "copy", "prepared"} => rec[t].state = "reserved"
  /\ pc[t] \in Early => rec[t].ident = 0
  /\ pc[t] \in {"retire", "unlink", "moved"} => rec[t].state = "copy_prepared"
  /\ pc[t] \in {"publish", "readback"} => rec[t].state \in {"copy_prepared", "backup_moved"}
  /\ pc[t] \in {"retire_src", "unlink_src", "complete"} => rec[t].state = "installed"
  /\ pc[t] \in {"undo_link", "clean", "clean_tmp"} => rec[t].state \in Raw
  /\ pc[t] \in {"restore_src", "undo_src", "restore_old"} => rec[t].state = "rolling_back"
  /\ pc[t] = "rolled_back" => rec[t].state \in Raw \cup {"rolling_back"}
  /\ rec[t].state = "installed" => IsMove(t)

\* Private names that are not in use are free.
Tidy(t) ==
  /\ rec[t].ident # 0 => fs[Staging(t)] = 0 /\ fs[Tmp(t)] \in {0, rec[t].ident}
  /\ rec[t].state \in Late \cup {"none"} => fs[Tmp(t)] = 0 /\ fs[Staging(t)] = 0
  /\ rec[t].state \in Raw => fs[SourceBackup(t)] = 0

\* The temporary has a marker until it is identified, and then the copy.
Marked(t) ==
  /\ rec[t].ident = 0 /\ fs[Tmp(t)] # 0 => data[fs[Tmp(t)]] = Marker(t)
  /\ rec[t].ident = 0 /\ fs[Staging(t)] # 0 => data[fs[Staging(t)]] \in {Marker(t), TornMarker}
  /\ pc[t] = "stage" => fs[Staging(t)] = 0
  /\ pc[t] \in {"link_marker", "unstage"} => fs[Staging(t)] # 0 /\ data[fs[Staging(t)]] = Marker(t)
  /\ pc[t] \in {"prepared", "retire", "unlink", "moved", "publish"} =>
        data[fs[Tmp(t)]] = rec[t].source[2]

\* What a command at work has seen to under its locks.
Exact(t) ==
  /\ pc[t] \in {"moved", "publish", "readback", "retire_src", "unlink_src", "complete"} =>
        B(t) = rec[t].old
  /\ pc[t] \in {"retire_src", "unlink_src", "complete"} => D(t)[2] = rec[t].source[2]
  /\ pc[t] = "complete" => S(t) = NoSnap /\ A(t) = rec[t].source
  /\ pc[t] = "undo_link" => D(t) = rec[t].old /\ B(t) = rec[t].old
  /\ pc[t] = "undo_src" => S(t) = rec[t].source /\ A(t) = rec[t].source
  /\ pc[t] \in {"clean", "clean_tmp", "rolled_back"} => D(t) = rec[t].old /\ B(t) = NoSnap
  /\ pc[t] \in {"clean_tmp", "rolled_back"} => fs[Staging(t)] = 0
  /\ pc[t] = "rolled_back" => fs[Tmp(t)] = 0
  /\ pc[t] \in {"restore_old", "rolled_back"} => A(t) = NoSnap
  /\ pc[t] \in {"restore_old", "rolled_back"} /\ IsMove(t) /\ rec[t].state = "rolling_back" =>
        S(t) = rec[t].source
  /\ pc[t] \in Dropping => D(t) = rec[t].result
  /\ pc[t] \in {"drop_old", "finalized"} => A(t) = NoSnap
  /\ pc[t] = "finalized" => B(t) = NoSnap

\* The three cases of Restorable.
Fits(at, bak, expected) ==
  \/ at = expected /\ bak = NoSnap
  \/ at = NoSnap /\ bak = expected
  \/ at = expected /\ bak = expected

\* What recover finds, wherever the transaction was cut off.
Shape(t) ==
  /\ rec[t].ident # 0 => rec[t].ident # rec[t].old[1]
  /\ rec[t].state \in Raw =>
       /\ S(t) = rec[t].source
       /\ \/ /\ D(t) # NoSnap /\ D(t)[1] = rec[t].ident /\ D(t)[2] = rec[t].source[2]
             /\ B(t) = rec[t].old
          \/ Fits(D(t), B(t), rec[t].old)
  /\ rec[t].state \in {"installed", "completed"} => D(t) = rec[t].result /\ B(t) = rec[t].old
  /\ rec[t].state = "completed" /\ IsMove(t) => S(t) = NoSnap /\ A(t) = rec[t].source
  /\ rec[t].state \in {"installed", "rolling_back"} /\ IsMove(t) =>
       Fits(S(t), A(t), rec[t].source)
  /\ rec[t].state = "rolling_back" =>
       \/ D(t) = rec[t].old /\ B(t) = NoSnap
       \/ D(t) = rec[t].result /\ B(t) = rec[t].old
  /\ rec[t].state = "finalizing" =>
       /\ D(t) = rec[t].result
       /\ IsMove(t) => A(t) \in {NoSnap, rec[t].source}
       /\ B(t) \in {NoSnap, rec[t].old}

Untouched(t) == t \notin touched /\ ~Finished(t)

\* No other transaction that is not finished is about the same paths.
Alone(t) ==
  \A u \in Transactions : u # t /\ ~Finished(u) =>
    {rec[u].src, rec[u].dst} \cap {rec[t].src, rec[t].dst} = {}

Own(t) == Abreast(t) /\ Tidy(t) /\ Marked(t) /\ Exact(t) /\ (Untouched(t) => Shape(t))

HInv ==
  /\ OneHome /\ RefusedOnlyIfTouched
  /\ \A t \in Transactions : Own(t) /\ (Untouched(t) => Alone(t))

-----------------------------------------------------------------------------
LEMMA AtWork ==
  ASSUME IInv, HInv, NEW t \in Transactions, pc[t] # "none"
  PROVE  ~Finished(t)
  <1>1. pc[t] \in Pcs /\ Abreast(t) /\ Phase(t)
    BY ReceiptIs DEF HInv, Own, IInv
  <1> QED  BY <1>1 DEF Pcs, Early, Making, Moving, Dropping, Abreast, Phase, Finished, Raw

\* The six names of a transaction are different.
LEMMA SixNames ==
  ASSUME IInv, NEW t \in Transactions, rec[t].state # "none"
  PROVE  /\ rec[t].src \in Paths /\ rec[t].dst \in Paths /\ rec[t].src # rec[t].dst
         /\ {rec[t].src, rec[t].dst, Backup(t), SourceBackup(t), Tmp(t), Staging(t)} \subseteq Names
         /\ {rec[t].src, rec[t].dst} \cap {Backup(t), SourceBackup(t), Tmp(t), Staging(t)} = {}
         /\ Backup(t) # SourceBackup(t) /\ Tmp(t) # Staging(t)
         /\ {Backup(t), SourceBackup(t)} \cap {Tmp(t), Staging(t)} = {}
         /\ {rec[t].src, rec[t].dst, Backup(t), SourceBackup(t)} \cap Scratch(t) = {}
  BY ReceiptIs, NamesAre DEF Scratch

\* What no step of another transaction, and no user, changes.
LEMMA OwnStays ==
  ASSUME IInv, HInv, NEW u \in Transactions, rec'[u] = rec[u], pc'[u] = pc[u],
         \A n \in PrivateNames(u) : fs'[n] = fs[n],
         \A n \in Scratch(u) : fs[n] # 0 => data'[fs[n]] = data[fs[n]],
         touched \subseteq touched',
         pc[u] # "none" => D(u)' = D(u) /\ B(u)' = B(u) /\ A(u)' = A(u),
         pc[u] # "none" /\ IsMove(u) => S(u)' = S(u),
         Untouched(u)' => S(u)' = S(u) /\ D(u)' = D(u) /\ B(u)' = B(u) /\ A(u)' = A(u)
  PROVE  Own(u)' /\ (Untouched(u)' => Untouched(u)) /\ (Torn(u) => Torn(u)')
  <1>1. Abreast(u) /\ Tidy(u) /\ Marked(u) /\ Exact(u) /\ (Untouched(u) => Shape(u)) /\ Phase(u)
    BY DEF HInv, Own, IInv
  <1>2. /\ fs'[Tmp(u)] = fs[Tmp(u)] /\ fs'[Staging(u)] = fs[Staging(u)]
        /\ fs'[Backup(u)] = fs[Backup(u)] /\ fs'[SourceBackup(u)] = fs[SourceBackup(u)]
        /\ fs[Tmp(u)] # 0 => data'[fs[Tmp(u)]] = data[fs[Tmp(u)]]
        /\ fs[Staging(u)] # 0 => data'[fs[Staging(u)]] = data[fs[Staging(u)]]
    BY DEF PrivateNames, Scratch
  <1>3. Abreast(u)'
    BY <1>1 DEF Abreast, IsMove
  <1>4. Tidy(u)'
    BY <1>1, <1>2 DEF Tidy, Tmp, Staging, SourceBackup
  <1>5. Marked(u)'
    <2>1. pc[u] \in {"link_marker", "unstage"} => fs[Staging(u)] # 0
      BY <1>1 DEF Marked
    <2>2. pc[u] \in {"prepared", "retire", "unlink", "moved", "publish"} => fs[Tmp(u)] # 0
      BY <1>1 DEF Phase, Making
    <2> QED  BY <1>1, <1>2, <2>1, <2>2 DEF Marked, Tmp, Staging
  <1>6. Exact(u)'
    <2>1. CASE pc[u] = "none"
      BY <2>1 DEF Exact, Dropping
    <2>2. CASE pc[u] # "none"
      <3>1. (pc[u] \in {"complete", "undo_src"} => IsMove(u)) /\ IsMove(u)' = IsMove(u)
        BY <1>1 DEF Abreast, Phase, Moving, IsMove
      <3>2. D(u)' = D(u) /\ B(u)' = B(u) /\ A(u)' = A(u) /\ (IsMove(u) => S(u)' = S(u))
        BY <2>2
      <3> QED  BY <1>1, <1>2, <3>1, <3>2 DEF Exact, Tmp, Staging
    <2> QED  BY <2>1, <2>2
  <1>7. Untouched(u)' => Untouched(u)
    BY DEF Untouched, Finished
  <1>8. Untouched(u)' => Shape(u)'
    BY <1>1, <1>7 DEF Shape, IsMove
  <1>9. Torn(u) => Torn(u)'
    BY <1>2 DEF Torn, Staging
  <1> QED  BY <1>3, <1>4, <1>5, <1>6, <1>7, <1>8, <1>9 DEF Own

\* The snapshots of a transaction whose receipt names the same paths.
LEMMA Cells ==
  ASSUME IInv, NEW t \in Transactions, rec[t].state # "none",
         rec'[t].src = rec[t].src, rec'[t].dst = rec[t].dst,
         \A n \in Names \ Scratch(t) : fs[n] # 0 => data'[fs[n]] = data[fs[n]]
  PROVE  /\ fs'[rec[t].src] = fs[rec[t].src] => S(t)' = S(t)
         /\ fs'[rec[t].dst] = fs[rec[t].dst] => D(t)' = D(t)
         /\ fs'[Backup(t)] = fs[Backup(t)] => B(t)' = B(t)
         /\ fs'[SourceBackup(t)] = fs[SourceBackup(t)] => A(t)' = A(t)
         /\ fs'[rec[t].dst] = 0 => D(t)' = NoSnap
         /\ fs'[rec[t].src] = 0 => S(t)' = NoSnap
         /\ fs'[Backup(t)] = 0 => B(t)' = NoSnap
         /\ fs'[SourceBackup(t)] = 0 => A(t)' = NoSnap
         /\ fs'[rec[t].dst] = fs[Backup(t)] => D(t)' = B(t)
         /\ fs'[Backup(t)] = fs[rec[t].dst] => B(t)' = D(t)
         /\ fs'[rec[t].src] = fs[SourceBackup(t)] => S(t)' = A(t)
         /\ fs'[SourceBackup(t)] = fs[rec[t].src] => A(t)' = S(t)
  <1>1. {rec[t].src, rec[t].dst, Backup(t), SourceBackup(t)} \subseteq Names \ Scratch(t)
    BY SixNames
  <1>2. \A n \in {rec[t].src, rec[t].dst, Backup(t), SourceBackup(t)} :
          fs[n] # 0 => data'[fs[n]] = data[fs[n]]
    BY <1>1
  <1> QED  BY <1>2 DEF S, D, A, B, snapshot, Backup, SourceBackup

\* A step of t: others do not notice it.
LEMMA HFrame ==
  ASSUME IInv, HInv, NEW t \in Transactions, pc[t] # "none" \/ Locked(t), ~Finished(t),
         \A u \in Transactions : u # t => rec'[u] = rec[u] /\ pc'[u] = pc[u],
         SameReceipt(t, rec'[t]),
         \A n \in Names : n \notin Owned(t) => fs'[n] = fs[n],
         \A n \in Names \ Scratch(t) : fs[n] # 0 => data'[fs[n]] = data[fs[n]],
         UNCHANGED touched, refused' \subseteq refused \cup {t},
         t \in refused' => t \in touched \/ Torn(t)',
         OneHome', Own(t)'
  PROVE  HInv'
  <1>1. rec[t].state # "none" /\ Locks(t) \subseteq {rec[t].src, rec[t].dst} /\ Locks(t) \subseteq Paths
    BY ReceiptIs DEF Finished, Locks, LockedPaths
  <1>2. ASSUME NEW u \in Transactions, u # t
        PROVE  Own(u)' /\ (Untouched(u)' => Untouched(u)) /\ (Torn(u) => Torn(u)')
    <2>1. ASSUME NEW n \in PrivateNames(u)
          PROVE  n \in Names /\ n \notin Owned(t) /\ n \notin Scratch(t) /\ fs'[n] = fs[n]
      <3>1. n \in Names /\ n \notin PrivateNames(t) /\ n \notin Paths /\ n \notin Scratch(t)
        BY <1>2, NamesAre DEF PrivateNames, Scratch
      <3> QED  BY <1>1, <3>1 DEF Owned
    <2>2. Scratch(u) \subseteq PrivateNames(u)
      BY DEF Scratch, PrivateNames
    <2>3. ASSUME NEW p \in Paths, p \notin Locks(t)
          PROVE  fs'[p] = fs[p] /\ (fs[p] # 0 => data'[fs[p]] = data[fs[p]])
      BY <2>3, NamesAre, PlainNames DEF Owned, PrivateNames
    <2>4. B(u)' = B(u) /\ A(u)' = A(u)
      <3>1. Backup(u) \in PrivateNames(u) /\ SourceBackup(u) \in PrivateNames(u)
        BY DEF PrivateNames
      <3>2. \A n \in {Backup(u), SourceBackup(u)} :
              fs'[n] = fs[n] /\ (fs[n] # 0 => data'[fs[n]] = data[fs[n]])
        BY <2>1, <3>1
      <3> QED  BY <3>2 DEF B, A, snapshot, Backup, SourceBackup
    <2>5. rec[u].dst \in Paths /\ rec[u].dst \notin Locks(t) => D(u)' = D(u)
      BY <1>2, <2>3 DEF D, snapshot
    <2>6. rec[u].src \in Paths /\ rec[u].src \notin Locks(t) => S(u)' = S(u)
      BY <1>2, <2>3 DEF S, snapshot
    <2>7. pc[u] # "none" => D(u)' = D(u)
      BY <1>2, <2>5, Excludes
    <2>8. pc[u] # "none" /\ IsMove(u) => S(u)' = S(u)
      <3> SUFFICES ASSUME pc[u] # "none", IsMove(u)  PROVE rec[u].src \in Paths /\ rec[u].src \notin Locks(t)
        BY <2>6
      <3>1. rec[u].src \in Locks(u) /\ rec[u].src \in Paths
        BY ReceiptIs DEF Locks, LockedPaths, IsMove
      <3> QED  BY <1>2, <3>1, Excludes
    <2>9. Untouched(u)' => S(u)' = S(u) /\ D(u)' = D(u)
      <3> SUFFICES ASSUME Untouched(u)'
                   PROVE  {rec[u].src, rec[u].dst} \subseteq Paths /\ {rec[u].src, rec[u].dst} \cap Locks(t) = {}
        BY <2>5, <2>6
      <3>1. Untouched(u)
        BY <1>2 DEF Untouched, Finished
      <3>2. {rec[t].src, rec[t].dst} \cap {rec[u].src, rec[u].dst} = {}
        BY <1>2, <3>1 DEF HInv, Alone
      <3> QED  BY <1>1, <3>1, <3>2, ReceiptIs DEF Untouched, Finished
    <2> QED  BY <1>2, <2>1, <2>2, <2>4, <2>7, <2>8, <2>9, OwnStays
  <1>3. RefusedOnlyIfTouched'
    <2> SUFFICES ASSUME NEW u \in refused'  PROVE u \in touched \/ Torn(u)'
      BY DEF RefusedOnlyIfTouched
    <2>1. CASE u = t
      BY <2>1
    <2>2. CASE u # t
      <3>1. u \in refused /\ u \in Transactions
        BY <2>2 DEF IInv, TypeOK
      <3> QED  BY <1>2, <2>2, <3>1 DEF HInv, RefusedOnlyIfTouched
    <2> QED  BY <2>1, <2>2
  <1>4. ASSUME NEW u \in Transactions, Untouched(u)'  PROVE Alone(u)'
    <2>1. Untouched(u)
      BY <1>2, <1>4 DEF Untouched
    <2>2. Alone(u)
      BY <2>1 DEF HInv
    <2>3. \A v \in Transactions : rec'[v].src = rec[v].src /\ rec'[v].dst = rec[v].dst
      BY DEF SameReceipt
    <2>4. \A v \in Transactions : ~Finished(v)' => ~Finished(v)
      BY DEF Finished
    <2> QED  BY <2>2, <2>3, <2>4 DEF Alone
  <1>5. \A u \in Transactions : Own(u)'
    BY <1>2
  <1> QED  BY <1>3, <1>4, <1>5 DEF HInv

LEMMA KinAre ==
  ASSUME NEW p \in Paths
  PROVE  /\ Kin(p) \subseteq Names
         /\ \A q \in Paths : q \in Kin(p) <=> q = p
         /\ \A t \in Transactions :
              /\ Tmp(t) \notin Kin(p) /\ Staging(t) \notin Kin(p)
              /\ Backup(t) \in Kin(p) <=> rec[t].dst = p
              /\ SourceBackup(t) \in Kin(p) <=> rec[t].src = p
  <1>1. \A n : n \in Kin(p) <=> \/ n = p
                                \/ \E u \in Transactions : rec[u].dst = p /\ n = Backup(u)
                                \/ \E u \in Transactions : rec[u].src = p /\ n = SourceBackup(u)
    BY DEF Kin
  <1>2. Kin(p) \subseteq Names
    BY <1>1, NamesAre
  <1>3. \A q \in Paths : q \in Kin(p) <=> q = p
    BY <1>1, NamesAre
  <1>4. ASSUME NEW t \in Transactions
        PROVE  /\ Tmp(t) \notin Kin(p) /\ Staging(t) \notin Kin(p)
               /\ Backup(t) \in Kin(p) <=> rec[t].dst = p
               /\ SourceBackup(t) \in Kin(p) <=> rec[t].src = p
    BY <1>1, NamesAre
  <1> QED  BY <1>2, <1>3, <1>4

\* Every name stands for what a name of the same path stood for, or is the
\* only one of its object.
LEMMA HomeStays ==
  ASSUME OneHome, \A u \in Transactions : rec'[u].src = rec[u].src /\ rec'[u].dst = rec[u].dst,
         \A n \in Names : fs'[n] # 0 =>
            \/ \E k \in Names : fs[k] = fs'[n] /\ \A p \in Paths : k \in Kin(p) <=> n \in Kin(p)
            \/ \A m \in Names : m # n => fs'[m] # fs'[n]
  PROVE  OneHome'
  <1>1. ASSUME NEW p \in Paths, NEW n \in Kin(p), NEW m \in Names \ Kin(p),
               fs'[n] # 0, fs'[n] = fs'[m]
        PROVE  FALSE
    <2>1. n \in Names /\ n # m
      BY <1>1, KinAre
    <2>2. PICK k \in Names : fs[k] = fs'[n] /\ k \in Kin(p)
      BY <1>1, <2>1
    <2>3. PICK j \in Names : fs[j] = fs'[m] /\ j \notin Kin(p)
      BY <1>1, <2>1
    <2> QED  BY <1>1, <2>2, <2>3 DEF OneHome
  <1>2. \A p \in Paths : Kin(p)' = Kin(p)
    BY DEF Kin, Backup, SourceBackup
  <1> QED  BY <1>1, <1>2 DEF OneHome

LEMMA HomeKept ==
  ASSUME OneHome, \A u \in Transactions : rec'[u].src = rec[u].src /\ rec'[u].dst = rec[u].dst,
         \A n \in Names : fs'[n] # 0 => fs'[n] = fs[n]
  PROVE  OneHome'
  BY HomeStays

\* The file system stays as it is.
LEMMA HPaper ==
  ASSUME IInv, HInv, NEW t \in Transactions, pc[t] # "none" \/ Locked(t), ~Finished(t),
         \A u \in Transactions : u # t => rec'[u] = rec[u] /\ pc'[u] = pc[u],
         SameReceipt(t, rec'[t]), UNCHANGED <<fs, data, touched>>,
         refused' \subseteq refused \cup {t}, t \in refused' => t \in touched \/ Torn(t),
         S(t)' = S(t) /\ D(t)' = D(t) /\ B(t)' = B(t) /\ A(t)' = A(t) => Own(t)'
  PROVE  HInv'
  <1>1. rec[t].state # "none"
    BY DEF Finished
  <1>2. S(t)' = S(t) /\ D(t)' = D(t) /\ B(t)' = B(t) /\ A(t)' = A(t)
    BY <1>1, Cells DEF SameReceipt
  <1>3. OneHome
    BY DEF HInv
  <1>4. OneHome'
    BY <1>3, HomeKept DEF SameReceipt
  <1>5. Torn(t)' = Torn(t)
    BY DEF Torn, Staging
  <1>6. Own(t)'
    BY <1>2
  <1> QED  BY <1>4, <1>5, <1>6, HFrame

\* A command that was cut off, or refused for good reason.
LEMMA HStop ==
  ASSUME IInv, HInv, NEW t \in Transactions, pc[t] # "none" \/ Locked(t), ~Finished(t),
         \/ Interrupted(t)
         \/ Refuse(t) /\ (t \in touched \/ Torn(t))
  PROVE  HInv'
  <1>1. /\ pc' = [pc EXCEPT ![t] = "none"] /\ UNCHANGED <<fs, data, rec, touched>>
        /\ refused' \subseteq refused \cup {t}
        /\ t \in refused' => t \in refused \/ t \in touched \/ Torn(t)
    BY DEF Interrupted, Refuse, Goto, NoHistory
  <1>2. pc'[t] = "none" /\ \A u \in Transactions : u # t => pc'[u] = pc[u]
    BY <1>1 DEF IInv, TypeOK
  <1>3. t \in refused' => t \in touched \/ Torn(t)
    BY <1>1 DEF HInv, RefusedOnlyIfTouched
  <1>4. Own(t)
    BY DEF HInv
  <1>5. ASSUME S(t)' = S(t), D(t)' = D(t), B(t)' = B(t), A(t)' = A(t)  PROVE Own(t)'
    <2>1. Abreast(t)'
      BY <1>1, <1>2, <1>4 DEF Own, Abreast, Early, IsMove
    <2>2. Tidy(t)' /\ Marked(t)'
      BY <1>1, <1>2, <1>4 DEF Own, Tidy, Marked, Tmp, Staging, SourceBackup
    <2>3. Exact(t)'
      BY <1>2 DEF Exact, Dropping
    <2>4. Untouched(t)' => Shape(t)'
      BY <1>1, <1>4, <1>5 DEF Own, Untouched, Finished, Shape, IsMove
    <2> QED  BY <2>1, <2>2, <2>3, <2>4 DEF Own
  <1> QED  BY <1>1, <1>2, <1>3, <1>5, HPaper, ReceiptIs

\* A receipt that is stored again with another state, result or identity.
LEMMA Stored ==
  ASSUME IInv, NEW t \in Transactions, NEW r, NEW q, Persist(t, r), Goto(t, q)
  PROVE  /\ rec'[t] = r /\ pc'[t] = q
         /\ \A u \in Transactions : u # t => rec'[u] = rec[u] /\ pc'[u] = pc[u]
  BY DEF Persist, Goto, IInv, TypeOK

\* What stands under the temporary name has no name elsewhere.
LEMMA TmpApart ==
  ASSUME IInv, NEW t \in Transactions, rec[t].state # "none", fs[Tmp(t)] # 0
  PROVE  fs[rec[t].dst] # fs[Tmp(t)] /\ fs[Backup(t)] # fs[Tmp(t)]
  <1>1. Tmp(t) \in Scratch(t) /\ {rec[t].dst, Backup(t)} \subseteq Names \ Scratch(t)
    BY SixNames DEF Scratch
  <1> QED  BY <1>1 DEF IInv, ScratchApart

\* Snapshots and what they are of.
LEMMA CellsAre ==
  ASSUME IInv, NEW t \in Transactions, rec[t].state # "none"
  PROVE  /\ D(t) = NoSnap <=> fs[rec[t].dst] = 0
         /\ S(t) = NoSnap <=> fs[rec[t].src] = 0
         /\ B(t) = NoSnap <=> fs[Backup(t)] = 0
         /\ A(t) = NoSnap <=> fs[SourceBackup(t)] = 0
         /\ D(t) # NoSnap => D(t)[1] = fs[rec[t].dst] /\ D(t)[2] = data[fs[rec[t].dst]]
         /\ B(t) # NoSnap => B(t)[1] = fs[Backup(t)]
         /\ B(t) # NoSnap => rec[t].old # NoSnap
         /\ A(t) # NoSnap => IsMove(t)
  <1>1. {rec[t].src, rec[t].dst, Backup(t), SourceBackup(t)} \subseteq Names /\ TypeOK /\ Backups(t)
    BY SixNames DEF IInv
  <1> QED  BY <1>1, SnapshotsAre DEF D, S, B, A, Backups

\* Once the copy is published its temporary name is free.
LEMMA TmpGone ==
  ASSUME IInv, HInv, NEW t \in Transactions, rec[t].state # "none",
         rec[t].ident # 0, fs[rec[t].dst] = rec[t].ident
  PROVE  fs[Tmp(t)] = 0 /\ fs[Staging(t)] = 0
  BY TmpApart DEF HInv, Own, Tidy

LEMMA HIdentify ==
  ASSUME IInv, HInv, NEW t \in Transactions, Identify(t)
  PROVE  HInv'
  <1> DEFINE o == fs[Tmp(t)]
             r == [rec[t] EXCEPT !.ident = o]
  <1>1. pc[t] = "identify" /\ Persist(t, r) /\ Goto(t, "truncate")
        /\ UNCHANGED <<fs, data, touched, refused>>
    BY DEF Identify, NoHistory
  <1>2. /\ rec'[t] = r /\ pc'[t] = "truncate"
        /\ \A u \in Transactions : u # t => rec'[u] = rec[u] /\ pc'[u] = pc[u]
    BY <1>1, Stored
  <1>3. Own(t) /\ Phase(t) /\ rec[t] \in Receipts(acts) /\ rec[t].state = "reserved" /\ rec[t].ident = 0
        /\ o # 0 /\ fs[Staging(t)] = 0
    BY <1>1, ReceiptIs DEF HInv, IInv, Own, Abreast, Early, Phase
  <1>4. SameReceipt(t, r) /\ r.state = "reserved" /\ r.ident = o /\ r.result = rec[t].result
    BY <1>3 DEF Receipts, SameReceipt
  <1> HIDE DEF r
  <1>5. ~Finished(t) /\ pc[t] # "none"
    BY <1>1, <1>3 DEF Finished
  <1>6. Shape(t) => o # rec[t].old[1]
    <2>1. fs[rec[t].dst] # o /\ fs[Backup(t)] # o
      BY <1>3, TmpApart
    <2>2. CASE rec[t].old = NoSnap
      BY <1>3, <2>2 DEF NoSnap
    <2>3. ASSUME Shape(t), rec[t].old # NoSnap  PROVE o # rec[t].old[1]
      <3>1. \/ D(t) # NoSnap /\ D(t)[1] = 0
            \/ Fits(D(t), B(t), rec[t].old)
        BY <1>3, <2>3 DEF Shape, Raw
      <3>2. D(t) # NoSnap => D(t)[1] # 0
        BY <1>3, CellsAre
      <3>3. D(t) = rec[t].old \/ B(t) = rec[t].old
        BY <3>1, <3>2 DEF Fits
      <3> QED  BY <1>3, <2>1, <2>3, <3>3, CellsAre
    <2> QED  BY <2>2, <2>3
  <1>7. ASSUME S(t)' = S(t), D(t)' = D(t), B(t)' = B(t), A(t)' = A(t)  PROVE Own(t)'
    <2>1. Abreast(t)'
      BY <1>2, <1>4 DEF Abreast, Early, IsMove
    <2>2. Tidy(t)'
      BY <1>1, <1>2, <1>3, <1>4 DEF Own, Tidy, Late, Tmp, Staging, SourceBackup
    <2>3. Marked(t)'
      BY <1>2, <1>3, <1>4 DEF Marked
    <2>4. Exact(t)'
      BY <1>2 DEF Exact, Dropping
    <2>5. Untouched(t)' => Shape(t)'
      <3> SUFFICES ASSUME Untouched(t)'  PROVE Shape(t)'
        OBVIOUS
      <3>1. Shape(t)
        BY <1>1, <1>3, <1>5 DEF Own, Untouched
      <3>2. D(t) # NoSnap => D(t)[1] # 0
        BY <1>3, CellsAre
      <3>3. S(t) = rec[t].source /\ Fits(D(t), B(t), rec[t].old)
        BY <1>3, <3>1, <3>2 DEF Shape, Raw
      <3> QED  BY <1>2, <1>4, <1>6, <1>7, <3>1, <3>3 DEF Shape, Raw, SameReceipt
    <2> QED  BY <2>1, <2>2, <2>3, <2>4, <2>5 DEF Own
  <1>8. t \in refused' => t \in touched \/ Torn(t)
    BY <1>1 DEF HInv, RefusedOnlyIfTouched
  <1> QED  BY <1>1, <1>2, <1>4, <1>5, <1>7, <1>8, HPaper

LEMMA HPrepared ==
  ASSUME IInv, HInv, NEW t \in Transactions, Prepared(t) \/ BackupMoved(t)
  PROVE  HInv'
  <1> DEFINE x == IF pc[t] = "prepared" THEN "copy_prepared" ELSE "backup_moved"
             q == IF pc[t] = "prepared" /\ rec[t].old # NoSnap THEN "retire" ELSE "publish"
  <1>1. pc[t] \in {"prepared", "moved"} /\ UNCHANGED <<fs, data, touched, refused>>
    BY DEF Prepared, BackupMoved, NoHistory
  <1>2. PICK r : /\ Persist(t, r) /\ Goto(t, q)
                 /\ \/ r = [rec[t] EXCEPT !.state = x, !.prepared = snapshot(Tmp(t))]
                    \/ r = [rec[t] EXCEPT !.state = x]
    BY DEF Prepared, BackupMoved
  <1>3. Own(t) /\ Phase(t) /\ rec[t] \in Receipts(acts) /\ rec[t].state \in Raw /\ rec[t].ident # 0
    BY <1>1, ReceiptIs DEF HInv, IInv, Own, Abreast, Phase, Making, Raw
  <1>4. SameReceipt(t, r) /\ r.state = x /\ r.ident = rec[t].ident /\ r.result = rec[t].result
    BY <1>2, <1>3 DEF Receipts, SameReceipt
  <1>5. /\ rec'[t] = r /\ pc'[t] = q
        /\ \A u \in Transactions : u # t => rec'[u] = rec[u] /\ pc'[u] = pc[u]
    BY <1>2, Stored
  <1>6. ~Finished(t) /\ pc[t] # "none" /\ rec[t].state # "none"
    BY <1>1, <1>3 DEF Finished, Raw
  <1>7. x \in Raw /\ q \in {"retire", "publish"}
    BY DEF Raw
  <1>8. q = "publish" => B(t) = rec[t].old
    <2>1. pc[t] = "moved" => B(t) = rec[t].old
      BY <1>3 DEF Own, Exact
    <2>2. rec[t].old = NoSnap => B(t) = NoSnap
      BY <1>6, CellsAre
    <2> QED  BY <1>1, <2>1, <2>2
  <1>9. x = "copy_prepared" \/ q = "publish"
    OBVIOUS
  <1>10. data[fs[Tmp(t)]] = rec[t].source[2]
    BY <1>1, <1>3 DEF Own, Marked
  <1>11. x \notin {"reserved", "installed", "completed", "rolling_back", "finalizing", "none"}
    OBVIOUS
  <1> HIDE DEF x, q
  <1>12. ASSUME S(t)' = S(t), D(t)' = D(t), B(t)' = B(t), A(t)' = A(t)  PROVE Own(t)'
    <2>1. Abreast(t)'
      BY <1>4, <1>5, <1>7, <1>9, <1>11 DEF Abreast, Early, Raw
    <2>2. Tidy(t)'
      BY <1>1, <1>3, <1>4, <1>5, <1>7, <1>11 DEF Own, Tidy, Late, Tmp, Staging, SourceBackup
    <2>3. Marked(t)'
      BY <1>1, <1>3, <1>4, <1>5, <1>7, <1>10 DEF Marked, SameReceipt, Tmp, Staging
    <2>4. Exact(t)'
      BY <1>4, <1>5, <1>7, <1>8, <1>12 DEF Exact, Dropping, SameReceipt
    <2>5. Untouched(t)' => Shape(t)'
      <3> SUFFICES ASSUME Untouched(t)'  PROVE Shape(t)'
        OBVIOUS
      <3>1. Shape(t)
        BY <1>1, <1>3, <1>6 DEF Own, Untouched
      <3> QED  BY <1>3, <1>4, <1>5, <1>7, <1>11, <1>12, <3>1 DEF Shape, SameReceipt
    <2> QED  BY <2>1, <2>2, <2>3, <2>4, <2>5 DEF Own
  <1>13. t \in refused' => t \in touched \/ Torn(t)
    BY <1>1 DEF HInv, RefusedOnlyIfTouched
  <1> QED  BY <1>1, <1>4, <1>5, <1>6, <1>12, <1>13, HPaper

LEMMA HReadback ==
  ASSUME IInv, HInv, NEW t \in Transactions, Readback(t)
  PROVE  HInv'
  <1> DEFINE x == IF IsMove(t) THEN "installed" ELSE "completed"
             q == IF IsMove(t) THEN "retire_src" ELSE "none"
             r == [rec[t] EXCEPT !.result = D(t), !.state = x]
  <1>1. pc[t] = "readback" /\ Persist(t, r) /\ Goto(t, q) /\ UNCHANGED <<fs, data, touched, refused>>
        /\ D(t) # NoSnap /\ D(t)[2] = rec[t].source[2]
    BY DEF Readback, NoHistory, D
  <1>2. /\ rec'[t] = r /\ pc'[t] = q
        /\ \A u \in Transactions : u # t => rec'[u] = rec[u] /\ pc'[u] = pc[u]
    BY <1>1, Stored
  <1>3. Own(t) /\ Vacant(t) /\ rec[t] \in Receipts(acts) /\ rec[t].state \in Raw
    BY <1>1, ReceiptIs DEF HInv, IInv, Own, Abreast, Raw
  <1>4. SameReceipt(t, r) /\ r.state = x /\ r.ident = rec[t].ident /\ r.result = D(t)
    BY <1>3 DEF Receipts, SameReceipt
  <1>5. ~Finished(t) /\ pc[t] # "none" /\ rec[t].state # "none"
    BY <1>1, <1>3 DEF Finished, Raw
  <1>6. fs[Tmp(t)] = 0 /\ fs[Staging(t)] = 0
    BY <1>1, <1>3, <1>5, TmpGone DEF Vacant
  <1>7. B(t) = rec[t].old
    BY <1>1, <1>3 DEF Own, Exact
  <1>8. A(t) = NoSnap
    BY <1>3, <1>5, CellsAre DEF Own, Tidy
  <1> HIDE DEF r
  <1>9. ASSUME S(t)' = S(t), D(t)' = D(t), B(t)' = B(t), A(t)' = A(t)  PROVE Own(t)'
    <2>1. Abreast(t)'
      BY <1>2, <1>4 DEF Abreast, Early, SameReceipt, IsMove
    <2>2. Tidy(t)'
      BY <1>1, <1>2, <1>4, <1>6 DEF Tidy, Raw, Tmp, Staging
    <2>3. Marked(t)'
      BY <1>1, <1>2, <1>6 DEF Marked, Tmp, Staging
    <2>4. Exact(t)'
      BY <1>1, <1>2, <1>4, <1>7, <1>9 DEF Exact, Dropping, SameReceipt
    <2>5. Untouched(t)' => Shape(t)'
      <3> SUFFICES ASSUME Untouched(t)'  PROVE Shape(t)'
        OBVIOUS
      <3>1. Shape(t)
        BY <1>1, <1>3, <1>5 DEF Own, Untouched
      <3>2. S(t) = rec[t].source /\ (rec[t].ident # 0 => rec[t].ident # rec[t].old[1])
        BY <1>3, <3>1 DEF Shape
      <3> QED  BY <1>2, <1>4, <1>7, <1>8, <1>9, <3>2 DEF Shape, SameReceipt, Raw, Fits, IsMove
    <2> QED  BY <2>1, <2>2, <2>3, <2>4, <2>5 DEF Own
  <1>10. t \in refused' => t \in touched \/ Torn(t)
    BY <1>1 DEF HInv, RefusedOnlyIfTouched
  <1> QED  BY <1>1, <1>2, <1>4, <1>5, <1>9, <1>10, HPaper

\* The steps that end a command.
LEMMA HEnds ==
  ASSUME IInv, HInv, NEW t \in Transactions, Complete(t) \/ RolledBack(t) \/ Finalized(t)
  PROVE  HInv'
  <1> DEFINE x == IF pc[t] = "complete" THEN "completed" ELSE pc[t]
             r == [rec[t] EXCEPT !.state = x]
  <1>1. pc[t] \in {"complete", "rolled_back", "finalized"} /\ Persist(t, r) /\ Goto(t, "none")
        /\ UNCHANGED <<fs, data, touched, refused>>
    BY DEF Complete, RolledBack, Finalized, NoHistory, Quiet
  <1>2. /\ rec'[t] = r /\ pc'[t] = "none"
        /\ \A u \in Transactions : u # t => rec'[u] = rec[u] /\ pc'[u] = pc[u]
    BY <1>1, Stored
  <1>3. Own(t) /\ rec[t] \in Receipts(acts) /\ pc[t] # "none" /\ rec[t].state # "none" /\ ~Finished(t)
    BY <1>1, ReceiptIs, AtWork DEF HInv
  <1>4. SameReceipt(t, r) /\ r.state = x /\ r.ident = rec[t].ident /\ r.result = rec[t].result
    BY <1>3 DEF Receipts, SameReceipt
  <1>5. x \in {"completed", "rolled_back", "finalized"} /\ (x = "completed" <=> pc[t] = "complete")
    BY <1>1
  <1>6. pc[t] = "complete" => rec[t].state = "installed" /\ S(t) = NoSnap /\ A(t) = rec[t].source
    BY <1>3 DEF Own, Abreast, Exact
  <1> HIDE DEF r, x
  <1>7. ASSUME S(t)' = S(t), D(t)' = D(t), B(t)' = B(t), A(t)' = A(t)  PROVE Own(t)'
    <2>1. Abreast(t)'
      BY <1>2, <1>4, <1>5 DEF Abreast, Early
    <2>2. Tidy(t)'
      BY <1>1, <1>2, <1>3, <1>4, <1>5, <1>6 DEF Own, Tidy, Raw, Late, Tmp, Staging
    <2>3. Marked(t)'
      BY <1>1, <1>2, <1>3, <1>4 DEF Own, Marked, Tmp, Staging
    <2>4. Exact(t)'
      BY <1>2 DEF Exact, Dropping
    <2>5. Untouched(t)' => Shape(t)'
      <3> SUFFICES ASSUME Untouched(t)'  PROVE Shape(t)'
        OBVIOUS
      <3>1. x = "completed"
        BY <1>2, <1>4, <1>5 DEF Untouched, Finished
      <3>2. Shape(t)
        BY <1>1, <1>3 DEF Own, Untouched
      <3>3. D(t) = rec[t].result /\ B(t) = rec[t].old
            /\ (rec[t].ident # 0 => rec[t].ident # rec[t].old[1])
        BY <1>5, <1>6, <3>1, <3>2 DEF Shape
      <3> QED  BY <1>2, <1>4, <1>5, <1>6, <1>7, <3>1, <3>3 DEF Shape, SameReceipt, Raw
    <2> QED  BY <2>1, <2>2, <2>3, <2>4, <2>5 DEF Own
  <1>8. t \in refused' => t \in touched \/ Torn(t)
    BY <1>1 DEF HInv, RefusedOnlyIfTouched
  <1> QED  BY <1>1, <1>2, <1>3, <1>4, <1>7, <1>8, HPaper

LEMMA FitsIs ==
  ASSUME NEW t \in Transactions
  PROVE  /\ Restorable(rec[t].dst, Backup(t), rec[t].old) <=> Fits(D(t), B(t), rec[t].old)
         /\ Restorable(rec[t].src, SourceBackup(t), rec[t].source) <=> Fits(S(t), A(t), rec[t].source)
  BY DEF Restorable, Fits, S, D, A, B

\* A backup that is needed is there.
LEMMA BackupIs ==
  ASSUME IInv, NEW t \in Transactions, rec[t].state # "none"
  PROVE  verify_backup(t) <=> B(t) = rec[t].old
  <1>1. rec[t].old = NoSnap => B(t) = NoSnap
    BY CellsAre
  <1> QED  BY <1>1 DEF verify_backup, B

\* A rollback begins, or goes on.
LEMMA HRollBack ==
  ASSUME IInv, HInv, NEW t \in Transactions, NEW r, NEW q, Locked(t), ~Finished(t),
         Persist(t, r), Goto(t, q), UNCHANGED fs, Quiet,
         q = IF IsMove(t) THEN "restore_src" ELSE "restore_old",
         SameReceipt(t, r), r.state = "rolling_back", r.ident = rec[t].ident,
         \/ rec[t].state = "rolling_back" /\ r.result = rec[t].result
         \/ /\ r.result = D(t) /\ B(t) = rec[t].old
            /\ IsMove(t) => Fits(S(t), A(t), rec[t].source),
         fs[Tmp(t)] = 0, fs[Staging(t)] = 0
  PROVE  HInv'
  <1>1. /\ rec'[t] = r /\ pc'[t] = q /\ UNCHANGED <<fs, data, touched, refused>>
        /\ \A u \in Transactions : u # t => rec'[u] = rec[u] /\ pc'[u] = pc[u]
    BY Stored DEF Quiet
  <1>2. Own(t) /\ rec[t].state # "none"
    BY DEF HInv, Finished
  <1>3. ~IsMove(t) => A(t) = NoSnap
    BY <1>2, CellsAre
  <1>4. ASSUME S(t)' = S(t), D(t)' = D(t), B(t)' = B(t), A(t)' = A(t)  PROVE Own(t)'
    <2>1. Abreast(t)'
      BY <1>1 DEF Abreast, Early
    <2>2. Tidy(t)'
      BY <1>1 DEF Tidy, Raw, Tmp, Staging
    <2>3. Marked(t)'
      BY <1>1 DEF Marked, Tmp, Staging
    <2>4. Exact(t)'
      BY <1>1, <1>3, <1>4 DEF Exact, Dropping, SameReceipt, IsMove
    <2>5. Untouched(t)' => Shape(t)'
      <3> SUFFICES ASSUME Untouched(t)'  PROVE Shape(t)'
        OBVIOUS
      <3>1. Shape(t)
        BY <1>1, <1>2 DEF Own, Untouched
      <3>2. CASE rec[t].state = "rolling_back" /\ r.result = rec[t].result
        BY <1>1, <1>4, <3>1, <3>2 DEF Shape, SameReceipt, Raw, IsMove
      <3>3. CASE /\ r.result = D(t) /\ B(t) = rec[t].old
                 /\ IsMove(t) => Fits(S(t), A(t), rec[t].source)
        BY <1>1, <1>4, <3>1, <3>3 DEF Shape, SameReceipt, Raw, IsMove
      <3> QED  BY <3>2, <3>3
    <2> QED  BY <2>1, <2>2, <2>3, <2>4, <2>5 DEF Own
  <1>5. t \in refused' => t \in touched \/ Torn(t)
    BY <1>1 DEF HInv, RefusedOnlyIfTouched
  <1> QED  BY <1>1, <1>4, <1>5, HPaper

LEMMA HRollBackFrom ==
  ASSUME IInv, HInv, NEW t \in Transactions, NEW result, Locked(t), ~Finished(t),
         RollBackFrom(t, result), result = D(t), verify_backup(t), verify_source_for_rollback(t),
         fs[Tmp(t)] = 0, fs[Staging(t)] = 0
  PROVE  HInv'
  <1> DEFINE r == [rec[t] EXCEPT !.state = "rolling_back", !.result = result]
             q == IF IsMove(t) THEN "restore_src" ELSE "restore_old"
  <1>1. Persist(t, r) /\ Goto(t, q) /\ UNCHANGED fs /\ Quiet
    BY DEF RollBackFrom
  <1>2. rec[t] \in Receipts(acts) /\ rec[t].state # "none"
    BY ReceiptIs DEF Finished
  <1>3. SameReceipt(t, r) /\ r.state = "rolling_back" /\ r.ident = rec[t].ident /\ r.result = D(t)
    BY <1>2 DEF Receipts, SameReceipt
  <1>4. B(t) = rec[t].old /\ (IsMove(t) => Fits(S(t), A(t), rec[t].source))
    BY <1>2, BackupIs, FitsIs DEF verify_source_for_rollback
  <1> HIDE DEF r, q
  <1> QED  BY <1>1, <1>3, <1>4, HRollBack DEF q

LEMMA HRollBacks ==
  ASSUME IInv, HInv, NEW t \in Transactions, RollBack(t) \/ ResumeRollBack(t)
  PROVE  HInv'
  <1>1. Locked(t) /\ rec[t].state \in {"completed", "installed", "rolling_back"} /\ ~Finished(t)
        /\ rec[t].state # "none"
    BY DEF RollBack, ResumeRollBack, Finished
  <1>2. Own(t) /\ fs[Tmp(t)] = 0 /\ fs[Staging(t)] = 0
    BY <1>1 DEF HInv, Own, Tidy, Late
  <1>3. CASE ResumeRollBack(t)
    <2> DEFINE q == IF IsMove(t) THEN "restore_src" ELSE "restore_old"
    <2>1. Persist(t, rec[t]) /\ Goto(t, q) /\ UNCHANGED fs /\ Quiet
          /\ SameReceipt(t, rec[t]) /\ rec[t].state = "rolling_back"
      BY <1>3, ReceiptIs DEF ResumeRollBack, Persist
    <2> HIDE DEF q
    <2> QED  BY <1>1, <1>2, <2>1, HRollBack DEF q
  <1>4. CASE RollBack(t)
    <2>1. CASE /\ snapshot(rec[t].dst) = rec[t].result
               /\ verify_backup(t) /\ verify_source_for_rollback(t)
      <3>1. RollBackFrom(t, rec[t].result) /\ rec[t].result = D(t)
        BY <1>4, <2>1 DEF RollBack, D
      <3> QED  BY <1>1, <1>2, <2>1, <3>1, HRollBackFrom
    <2>2. CASE ~ /\ snapshot(rec[t].dst) = rec[t].result
                 /\ verify_backup(t) /\ verify_source_for_rollback(t)
      <3>1. Refuse(t)
        BY <1>4, <2>2 DEF RollBack
      <3>2. t \in touched
        <4> SUFFICES ASSUME t \notin touched  PROVE FALSE
          OBVIOUS
        <4>1. Shape(t) /\ Abreast(t) /\ rec[t].state \in {"completed", "installed"}
          BY <1>1, <1>2, <1>4 DEF Own, Untouched, RollBack
        <4>2. D(t) = rec[t].result /\ B(t) = rec[t].old
              /\ (IsMove(t) => Fits(S(t), A(t), rec[t].source))
          BY <4>1 DEF Shape, Fits
        <4> QED  BY <1>1, <2>2, <4>2, BackupIs, FitsIs DEF D, verify_source_for_rollback
      <3> QED  BY <1>1, <3>1, <3>2, HStop
    <2> QED  BY <2>1, <2>2
  <1> QED  BY <1>3, <1>4

LEMMA HFinalize ==
  ASSUME IInv, HInv, NEW t \in Transactions, Finalize(t) \/ ResumeFinalize(t)
  PROVE  HInv'
  <1> DEFINE r == IF rec[t].state = "completed" THEN [rec[t] EXCEPT !.state = "finalizing"] ELSE rec[t]
             ok == IF rec[t].state = "completed"
                   THEN /\ D(t) = rec[t].result /\ verify_backup(t)
                        /\ IsMove(t) => A(t) = rec[t].source /\ fs[rec[t].src] = 0
                   ELSE D(t) = rec[t].result
  <1>1. Locked(t) /\ rec[t].state \in {"completed", "finalizing"} /\ ~Finished(t) /\ rec[t].state # "none"
    BY DEF Finalize, ResumeFinalize, Finished
  <1>2. Own(t) /\ fs[Tmp(t)] = 0 /\ fs[Staging(t)] = 0 /\ rec[t] \in Receipts(acts)
    BY <1>1, ReceiptIs DEF HInv, Own, Tidy, Late
  <1>3. IF ok THEN Persist(t, r) /\ Goto(t, "drop_source") /\ UNCHANGED fs /\ Quiet ELSE Refuse(t)
    <2>1. CASE Finalize(t)
      BY <2>1 DEF Finalize, D, A
    <2>2. CASE ResumeFinalize(t)
      BY <2>2, ReceiptIs DEF ResumeFinalize, D, Persist
    <2> QED  BY <2>1, <2>2
  <1>4. CASE ok
    <2>1. /\ rec'[t] = r /\ pc'[t] = "drop_source" /\ UNCHANGED <<fs, data, touched, refused>>
          /\ \A u \in Transactions : u # t => rec'[u] = rec[u] /\ pc'[u] = pc[u]
      BY <1>3, <1>4, Stored DEF Quiet
    <2>2. SameReceipt(t, r) /\ r.state = "finalizing" /\ r.ident = rec[t].ident /\ r.result = rec[t].result
      BY <1>1, <1>2 DEF Receipts, SameReceipt
    <2>3. D(t) = rec[t].result
      BY <1>4
    <2>4. rec[t].state = "completed" => B(t) = rec[t].old /\ (IsMove(t) => A(t) = rec[t].source)
      BY <1>1, <1>4, BackupIs
    <2> HIDE DEF r, ok
    <2>5. ASSUME S(t)' = S(t), D(t)' = D(t), B(t)' = B(t), A(t)' = A(t)  PROVE Own(t)'
      <3>1. Abreast(t)'
        BY <2>1, <2>2 DEF Abreast, Early
      <3>2. Tidy(t)'
        BY <1>2, <2>1, <2>2 DEF Tidy, Raw, Tmp, Staging
      <3>3. Marked(t)'
        BY <1>2, <2>1 DEF Marked, Tmp, Staging
      <3>4. Exact(t)'
        BY <2>1, <2>2, <2>3, <2>5 DEF Exact, Dropping
      <3>5. Untouched(t)' => Shape(t)'
        <4> SUFFICES ASSUME Untouched(t)'  PROVE Shape(t)'
          OBVIOUS
        <4>1. Shape(t)
          BY <1>1, <1>2, <2>1 DEF Own, Untouched
        <4>2. CASE rec[t].state = "completed"
          BY <2>1, <2>2, <2>3, <2>4, <2>5, <4>1, <4>2 DEF Shape, SameReceipt, Raw, IsMove
        <4>3. CASE rec[t].state = "finalizing"
          BY <2>1, <2>2, <2>5, <4>1, <4>3 DEF Shape, SameReceipt, Raw, IsMove
        <4> QED  BY <1>1, <4>2, <4>3
      <3> QED  BY <3>1, <3>2, <3>3, <3>4, <3>5 DEF Own
    <2>6. t \in refused' => t \in touched \/ Torn(t)
      BY <2>1 DEF HInv, RefusedOnlyIfTouched
    <2> QED  BY <1>1, <2>1, <2>2, <2>5, <2>6, HPaper
  <1>5. CASE ~ok
    <2>1. t \in touched
      <3> SUFFICES ASSUME t \notin touched  PROVE FALSE
        OBVIOUS
      <3>1. Shape(t)
        BY <1>1, <1>2 DEF Own, Untouched
      <3>2. D(t) = rec[t].result
        BY <1>1, <3>1 DEF Shape
      <3>3. rec[t].state = "completed" => /\ verify_backup(t)
                                          /\ IsMove(t) => A(t) = rec[t].source /\ fs[rec[t].src] = 0
        BY <1>1, <3>1, BackupIs, CellsAre DEF Shape
      <3> QED  BY <1>5, <3>2, <3>3
    <2> QED  BY <1>1, <1>3, <1>5, <2>1, HStop
  <1> QED  BY <1>4, <1>5

\* A step that leaves the receipts alone.
LEMMA HDisk ==
  ASSUME IInv, HInv, NEW t \in Transactions, NEW q, pc[t] # "none" \/ Locked(t), ~Finished(t),
         Goto(t, q), UNCHANGED <<rec, touched, refused>>,
         \A n \in Names : n \notin Owned(t) => fs'[n] = fs[n],
         \A n \in Names \ Scratch(t) : fs[n] # 0 => data'[fs[n]] = data[fs[n]],
         Torn(t) => Torn(t)', OneHome',
         Abreast(t)', Tidy(t)', Marked(t)', Exact(t)', Untouched(t) => Shape(t)'
  PROVE  HInv'
  <1>1. pc'[t] = q /\ \A u \in Transactions : u # t => rec'[u] = rec[u] /\ pc'[u] = pc[u]
    BY DEF Goto, IInv, TypeOK
  <1>2. Untouched(t)' => Untouched(t)
    BY DEF Untouched, Finished
  <1>3. Own(t)'
    BY <1>2 DEF Own
  <1>4. t \in refused' => t \in touched \/ Torn(t)'
    BY DEF HInv, RefusedOnlyIfTouched
  <1>5. SameReceipt(t, rec'[t])
    BY ReceiptIs
  <1> QED  BY <1>1, <1>3, <1>4, <1>5, HFrame

LEMMA HWrite ==
  ASSUME IInv, HInv, NEW t \in Transactions, Truncate(t) \/ Copy(t)
  PROVE  HInv'
  <1> DEFINE x == IF pc[t] = "truncate" THEN Partial ELSE data[rec[t].source[1]]
             q == IF pc[t] = "truncate"
                  THEN IF snapshot(rec[t].src) = rec[t].source THEN "copy" ELSE "none"
                  ELSE IF x = rec[t].source[2] THEN "prepared" ELSE "none"
  <1>1. pc[t] \in {"truncate", "copy"} /\ UNCHANGED <<fs, rec, touched, refused>>
    BY DEF Truncate, Copy, NoHistory
  <1>2. /\ data' = [data EXCEPT ![fs[Tmp(t)]] = x] /\ Goto(t, q)
        /\ q \in {"copy", "prepared", "none"} /\ (q = "prepared" => x = rec[t].source[2])
    <2>1. CASE Truncate(t)
      BY <2>1 DEF Truncate
    <2>2. CASE Copy(t)
      BY <2>2 DEF Copy
    <2> QED  BY <2>1, <2>2
  <1> HIDE DEF x, q
  <1>3. Own(t) /\ Phase(t) /\ ~Finished(t) /\ rec[t].state = "reserved" /\ rec[t].ident # 0
        /\ fs[Tmp(t)] = rec[t].ident /\ fs[Staging(t)] = 0
    BY <1>1, AtWork DEF HInv, IInv, Own, Abreast, Phase, Making
  <1>4. Tmp(t) \in Names /\ Tmp(t) \in Scratch(t) /\ fs[Tmp(t)] \in Objects
    BY <1>3, NamesAre DEF Scratch, IInv, TypeOK
  <1>5. \A n \in Names \ Scratch(t) : fs[n] # 0 => data'[fs[n]] = data[fs[n]]
    <2> SUFFICES ASSUME NEW n \in Names \ Scratch(t), fs[n] # 0  PROVE data'[fs[n]] = data[fs[n]]
      OBVIOUS
    <2>1. fs[n] # fs[Tmp(t)] /\ fs[n] \in Objects
      BY <1>3, <1>4 DEF IInv, TypeOK, ScratchApart
    <2> QED  BY <1>2, <2>1 DEF IInv, TypeOK
  <1>6. S(t)' = S(t) /\ D(t)' = D(t) /\ B(t)' = B(t) /\ A(t)' = A(t)
    BY <1>1, <1>3, <1>5, Cells
  <1>7. pc'[t] = q /\ data'[fs[Tmp(t)]] = x
    BY <1>2, <1>4 DEF Goto, IInv, TypeOK
  <1>8. OneHome'
    <2>1. OneHome
      BY DEF HInv
    <2> QED  BY <1>1, <2>1, HomeKept
  <1>9. Abreast(t)'
    BY <1>1, <1>2, <1>3, <1>7 DEF Abreast, Early
  <1>10. Tidy(t)'
    BY <1>1, <1>3 DEF Own, Tidy, Tmp, Staging, SourceBackup
  <1>11. Marked(t)'
    BY <1>1, <1>2, <1>3, <1>7 DEF Marked, Tmp, Staging
  <1>12. Exact(t)'
    BY <1>2, <1>7 DEF Exact, Dropping
  <1>13. Untouched(t) => Shape(t)'
    BY <1>1, <1>3, <1>6 DEF Own, Shape, IsMove
  <1>14. Torn(t) => Torn(t)'
    BY <1>3 DEF Torn
  <1>15. pc[t] # "none"
    BY <1>1
  <1> QED  BY <1>1, <1>2, <1>3, <1>5, <1>8, <1>9, <1>10, <1>11, <1>12, <1>13, <1>14, <1>15, HDisk

LEMMA HStage ==
  ASSUME IInv, HInv, NEW t \in Transactions, StageMarker(t)
  PROVE  HInv'
  <1> DEFINE o == FreshObject
             n == Staging(t)
  <1>1. o \in Objects /\ o # 0 /\ \A m \in Names : fs[m] # o
    BY FreshIs DEF StageMarker
  <1>2. pc[t] = "stage" /\ fs' = [fs EXCEPT ![n] = o] /\ UNCHANGED <<rec, touched, refused>>
    BY DEF StageMarker, Name, NoHistory
  <1>3. PICK x \in {Marker(t), TornMarker}, q \in {"link_marker", "none"} :
          /\ data' = [data EXCEPT ![o] = x] /\ Goto(t, q)
          /\ q = "link_marker" => x = Marker(t)
    BY DEF StageMarker
  <1> HIDE DEF o
  <1>4. Own(t) /\ ~Finished(t) /\ rec[t].state = "reserved" /\ rec[t].ident = 0 /\ rec[t].state # "none"
        /\ fs[n] = 0
    BY <1>2, AtWork DEF HInv, Own, Abreast, Early, Marked
  <1>5. n \in Names /\ n \in Owned(t) /\ Tmp(t) \in Names \ {n}
        /\ {rec[t].src, rec[t].dst, Backup(t), SourceBackup(t)} \subseteq Names \ {n}
    BY <1>4, SixNames, OwnedNames DEF PrivateNames, Scratch
  <1>6. fs'[n] = o /\ \A m \in Names : m # n => fs'[m] = fs[m]
    BY <1>2, <1>5 DEF IInv, TypeOK
  <1>7. data'[o] = x /\ \A m \in Names : fs[m] # 0 => data'[fs[m]] = data[fs[m]]
    <2>1. data'[o] = x
      BY <1>1, <1>3 DEF IInv, TypeOK
    <2>2. ASSUME NEW m \in Names, fs[m] # 0  PROVE data'[fs[m]] = data[fs[m]]
      <3>1. fs[m] # o /\ fs[m] \in Objects
        BY <1>1, <2>2 DEF IInv, TypeOK
      <3> QED  BY <1>3, <3>1 DEF IInv, TypeOK
    <2> QED  BY <2>1, <2>2
  <1>8. S(t)' = S(t) /\ D(t)' = D(t) /\ B(t)' = B(t) /\ A(t)' = A(t)
    BY <1>2, <1>4, <1>5, <1>6, <1>7, Cells
  <1>9. OneHome'
    <2>1. OneHome
      BY DEF HInv
    <2>2. \A m \in Names : fs'[m] # 0 =>
            \/ \E k \in Names : fs[k] = fs'[m] /\ \A p \in Paths : k \in Kin(p) <=> m \in Kin(p)
            \/ \A k \in Names : k # m => fs'[k] # fs'[m]
      BY <1>1, <1>6
    <2> QED  BY <1>2, <2>1, <2>2, HomeStays
  <1>10. pc'[t] = q
    BY <1>3 DEF Goto, IInv, TypeOK
  <1>11. Abreast(t)'
    BY <1>2, <1>4, <1>10 DEF Abreast
  <1>12. Tidy(t)'
    BY <1>2, <1>4, <1>5, <1>6 DEF Own, Tidy, Late, SourceBackup
  <1>13. Marked(t)'
    BY <1>1, <1>2, <1>3, <1>4, <1>5, <1>6, <1>7, <1>10 DEF Own, Marked, Tmp, n, Staging
  <1>14. Exact(t)'
    BY <1>10 DEF Exact, Dropping
  <1>15. Untouched(t) => Shape(t)'
    BY <1>2, <1>4, <1>8 DEF Own, Shape, IsMove
  <1>16. Torn(t) => Torn(t)'
    BY <1>4 DEF Torn, n
  <1>17. /\ \A m \in Names : m \notin Owned(t) => fs'[m] = fs[m]
         /\ pc[t] # "none"
    BY <1>2, <1>5, <1>6
  <1> QED  BY <1>2, <1>3, <1>4, <1>7, <1>9, <1>11, <1>12, <1>13, <1>14, <1>15, <1>16, <1>17, HDisk

\* A name of the transaction changes.
LEMMA NameIs ==
  ASSUME IInv, NEW t \in Transactions, rec[t].state # "none", NEW n \in Owned(t), NEW o, Name(n, o)
  PROVE  /\ n \in Names /\ fs'[n] = o /\ \A m \in Names : m # n => fs'[m] = fs[m]
         /\ \A m \in Names : m \notin Owned(t) => fs'[m] = fs[m]
  BY OwnedNames DEF Name, IInv, TypeOK

\* The six names are the transaction's, but for the source of a copy.
LEMMA OwnedAre ==
  ASSUME IInv, NEW t \in Transactions, rec[t].state # "none"
  PROVE  /\ {rec[t].dst, Backup(t), SourceBackup(t), Tmp(t), Staging(t)} \subseteq Owned(t)
         /\ IsMove(t) => rec[t].src \in Owned(t)
  BY OwnedNames DEF PrivateNames

LEMMA HLinkMarker ==
  ASSUME IInv, HInv, NEW t \in Transactions, LinkMarker(t)
  PROVE  HInv'
  <1>1. pc[t] = "link_marker" /\ fs[Tmp(t)] = 0 /\ Name(Tmp(t), fs[Staging(t)]) /\ Goto(t, "unstage")
        /\ UNCHANGED <<data, rec, touched, refused>>
    BY DEF LinkMarker, NoHistory
  <1>2. Own(t) /\ ~Finished(t) /\ rec[t].state = "reserved" /\ rec[t].ident = 0 /\ rec[t].state # "none"
        /\ fs[Staging(t)] # 0 /\ data[fs[Staging(t)]] = Marker(t)
    BY <1>1, AtWork DEF HInv, Own, Abreast, Early, Marked
  <1>3. /\ fs'[Tmp(t)] = fs[Staging(t)] /\ \A m \in Names : m # Tmp(t) => fs'[m] = fs[m]
        /\ \A m \in Names : m \notin Owned(t) => fs'[m] = fs[m]
    BY <1>1, <1>2, OwnedAre, NameIs
  <1>4. fs'[Staging(t)] = fs[Staging(t)] /\ fs'[SourceBackup(t)] = fs[SourceBackup(t)]
        /\ S(t)' = S(t) /\ D(t)' = D(t) /\ B(t)' = B(t) /\ A(t)' = A(t)
    BY <1>1, <1>2, <1>3, SixNames, Cells
  <1>5. OneHome'
    <2>1. OneHome /\ Staging(t) \in Names /\ Tmp(t) \in Names
      BY NamesAre DEF HInv
    <2>2. \A p \in Paths : Staging(t) \notin Kin(p) /\ Tmp(t) \notin Kin(p)
      BY KinAre
    <2>3. \A m \in Names : fs'[m] # 0 =>
            \E k \in Names : fs[k] = fs'[m] /\ \A p \in Paths : k \in Kin(p) <=> m \in Kin(p)
      BY <1>3, <2>1, <2>2
    <2> QED  BY <1>1, <2>1, <2>3, HomeStays
  <1>6. pc'[t] = "unstage"
    BY <1>1 DEF Goto, IInv, TypeOK
  <1>7. Abreast(t)'
    BY <1>1, <1>2, <1>6 DEF Abreast
  <1>8. Tidy(t)'
    BY <1>1, <1>2, <1>4 DEF Own, Tidy, Late, SourceBackup
  <1>9. Marked(t)'
    BY <1>1, <1>2, <1>3, <1>4, <1>6 DEF Own, Marked, Tmp, Staging
  <1>10. Exact(t)'
    BY <1>6 DEF Exact, Dropping
  <1>11. Untouched(t) => Shape(t)'
    BY <1>1, <1>2, <1>4 DEF Own, Shape, IsMove
  <1>12. Torn(t) => Torn(t)'
    BY <1>1, <1>4 DEF Torn, Staging
  <1>13. pc[t] # "none"
    BY <1>1
  <1> QED  BY <1>1, <1>2, <1>3, <1>5, <1>7, <1>8, <1>9, <1>10, <1>11, <1>12, <1>13, HDisk

LEMMA HUnstage ==
  ASSUME IInv, HInv, NEW t \in Transactions, UnstageMarker(t)
  PROVE  HInv'
  <1>1. pc[t] = "unstage" /\ Name(Staging(t), 0) /\ Goto(t, "identify")
        /\ UNCHANGED <<data, rec, touched, refused>>
    BY DEF UnstageMarker, NoHistory
  <1>2. Own(t) /\ ~Finished(t) /\ rec[t].state = "reserved" /\ rec[t].ident = 0 /\ rec[t].state # "none"
        /\ data[fs[Staging(t)]] = Marker(t)
    BY <1>1, AtWork DEF HInv, Own, Abreast, Early, Marked
  <1>3. /\ fs'[Staging(t)] = 0 /\ \A m \in Names : m # Staging(t) => fs'[m] = fs[m]
        /\ \A m \in Names : m \notin Owned(t) => fs'[m] = fs[m]
    BY <1>1, <1>2, OwnedAre, NameIs
  <1>4. fs'[Tmp(t)] = fs[Tmp(t)] /\ fs'[SourceBackup(t)] = fs[SourceBackup(t)]
        /\ S(t)' = S(t) /\ D(t)' = D(t) /\ B(t)' = B(t) /\ A(t)' = A(t)
    BY <1>1, <1>2, <1>3, SixNames, Cells
  <1>5. OneHome'
    <2>1. OneHome /\ \A m \in Names : fs'[m] # 0 => fs'[m] = fs[m]
      BY <1>3 DEF HInv
    <2> QED  BY <1>1, <2>1, HomeKept
  <1>6. pc'[t] = "identify"
    BY <1>1 DEF Goto, IInv, TypeOK
  <1>7. Abreast(t)'
    BY <1>1, <1>2, <1>6 DEF Abreast
  <1>8. Tidy(t)'
    BY <1>1, <1>2, <1>4 DEF Own, Tidy, Late, SourceBackup
  <1>9. Marked(t)'
    BY <1>1, <1>2, <1>3, <1>4, <1>6 DEF Own, Marked, Tmp, Staging
  <1>10. Exact(t)'
    BY <1>6 DEF Exact, Dropping
  <1>11. Untouched(t) => Shape(t)'
    BY <1>1, <1>2, <1>4 DEF Own, Shape, IsMove
  <1>12. ~Torn(t)
    BY <1>2 DEF Torn, Marker, TornMarker
  <1>13. pc[t] # "none"
    BY <1>1
  <1> QED  BY <1>1, <1>2, <1>3, <1>5, <1>7, <1>8, <1>9, <1>10, <1>11, <1>12, <1>13, HDisk

\* The scratch names stay as they are, and data too.
LEMMA HPlain ==
  ASSUME IInv, HInv, NEW t \in Transactions, NEW q, pc[t] # "none" \/ Locked(t), ~Finished(t),
         Goto(t, q), UNCHANGED <<data, rec, touched, refused>>,
         \A n \in Names : n \notin Owned(t) => fs'[n] = fs[n],
         fs'[Tmp(t)] = fs[Tmp(t)], fs'[Staging(t)] = fs[Staging(t)],
         rec[t].state \in Raw => fs'[SourceBackup(t)] = 0,
         OneHome', Abreast(t)', Exact(t)', Untouched(t) => Shape(t)',
         q \notin {"stage", "link_marker", "unstage"},
         q \in {"prepared", "retire", "unlink", "moved", "publish"} =>
            pc[t] \in {"prepared", "retire", "unlink", "moved", "publish"}
  PROVE  HInv'
  <1>1. Own(t) /\ pc'[t] = q
    BY DEF HInv, Goto, IInv, TypeOK
  <1>2. Tidy(t)'
    BY <1>1 DEF Own, Tidy, Tmp, Staging, SourceBackup
  <1>3. Marked(t)'
    BY <1>1 DEF Own, Marked, Tmp, Staging
  <1>4. Torn(t) => Torn(t)'
    BY DEF Torn, Staging
  <1> QED  BY <1>2, <1>3, <1>4, HDisk

\* A second name of the same path, or one name less.
LEMMA HomeOfPair ==
  ASSUME IInv, HInv, NEW t \in Transactions, rec[t].state # "none", UNCHANGED rec,
         NEW from, NEW to, Name(to, fs[from]),
         \/ {from, to} = {rec[t].dst, Backup(t)}
         \/ {from, to} = {rec[t].src, SourceBackup(t)} /\ IsMove(t)
  PROVE  OneHome'
  <1>1. from \in Names /\ to \in Names /\ to \in Owned(t)
    BY SixNames, OwnedAre
  <1>2. fs'[to] = fs[from] /\ \A m \in Names : m # to => fs'[m] = fs[m]
    BY <1>1, NameIs
  <1>3. \A p \in Paths : from \in Kin(p) <=> to \in Kin(p)
    <2> SUFFICES ASSUME NEW p \in Paths  PROVE from \in Kin(p) <=> to \in Kin(p)
      OBVIOUS
    <2>1. /\ rec[t].dst \in Kin(p) <=> rec[t].dst = p
          /\ rec[t].src \in Kin(p) <=> rec[t].src = p
          /\ Backup(t) \in Kin(p) <=> rec[t].dst = p
          /\ SourceBackup(t) \in Kin(p) <=> rec[t].src = p
      BY SixNames, KinAre
    <2> QED  BY <2>1
  <1>4. OneHome
    BY DEF HInv
  <1>5. \A m \in Names : fs'[m] # 0 =>
          \E k \in Names : fs[k] = fs'[m] /\ \A p \in Paths : k \in Kin(p) <=> m \in Kin(p)
    BY <1>1, <1>2, <1>3
  <1> QED  BY <1>4, <1>5, HomeStays

LEMMA HomeOfFewer ==
  ASSUME IInv, HInv, NEW t \in Transactions, rec[t].state # "none", UNCHANGED rec,
         NEW n \in Owned(t), Name(n, 0)
  PROVE  OneHome'
  <1>1. OneHome /\ \A m \in Names : fs'[m] # 0 => fs'[m] = fs[m]
    BY NameIs DEF HInv
  <1> QED  BY <1>1, HomeKept

LEMMA HRetireOld ==
  ASSUME IInv, HInv, NEW t \in Transactions, RetireOld(t)
  PROVE  HInv'
  <1>1. pc[t] \in {"retire", "unlink"} /\ pc[t] # "none" /\ UNCHANGED <<data, rec, touched, refused>>
    BY DEF RetireOld, Link, Unlink, NoHistory
  <1>2. Own(t) /\ ~Finished(t) /\ rec[t].state = "copy_prepared" /\ rec[t].state # "none"
        /\ rec[t].state \in Raw /\ fs[SourceBackup(t)] = 0
    BY <1>1, AtWork DEF HInv, Own, Abreast, Tidy, Raw
  <1>3. CASE pc[t] = "retire"
    <2>1. D(t) = rec[t].old /\ fs[Backup(t)] = 0 /\ Name(Backup(t), fs[rec[t].dst]) /\ Goto(t, "unlink")
      BY <1>3 DEF RetireOld, Link, D
    <2>2. /\ fs'[Backup(t)] = fs[rec[t].dst] /\ \A m \in Names : m # Backup(t) => fs'[m] = fs[m]
          /\ \A m \in Names : m \notin Owned(t) => fs'[m] = fs[m]
      BY <1>2, <2>1, OwnedAre, NameIs
    <2>3. /\ fs'[Tmp(t)] = fs[Tmp(t)] /\ fs'[Staging(t)] = fs[Staging(t)]
          /\ fs'[SourceBackup(t)] = fs[SourceBackup(t)]
          /\ S(t)' = S(t) /\ D(t)' = D(t) /\ B(t)' = D(t)
      BY <1>1, <1>2, <2>2, SixNames, Cells
    <2>4. OneHome'
      BY <1>1, <1>2, <2>1, HomeOfPair
    <2>5. pc'[t] = "unlink"
      BY <2>1 DEF Goto, IInv, TypeOK
    <2>6. Abreast(t)' /\ Exact(t)'
      BY <1>1, <1>2, <2>5 DEF Abreast, Exact, Early, Dropping
    <2>7. Untouched(t) => Shape(t)'
      BY <1>1, <1>2, <2>1, <2>3 DEF Own, Shape, Fits, Raw
    <2> QED  BY <1>1, <1>2, <1>3, <2>1, <2>2, <2>3, <2>4, <2>6, <2>7, HPlain
  <1>4. CASE pc[t] = "unlink"
    <2>1. D(t) = rec[t].old /\ B(t) = rec[t].old /\ Name(rec[t].dst, 0) /\ Goto(t, "moved")
      BY <1>4 DEF RetireOld, Unlink, D, B
    <2>2. /\ fs'[rec[t].dst] = 0 /\ \A m \in Names : m # rec[t].dst => fs'[m] = fs[m]
          /\ \A m \in Names : m \notin Owned(t) => fs'[m] = fs[m]
      BY <1>2, <2>1, OwnedAre, NameIs
    <2>3. /\ fs'[Tmp(t)] = fs[Tmp(t)] /\ fs'[Staging(t)] = fs[Staging(t)]
          /\ fs'[SourceBackup(t)] = fs[SourceBackup(t)]
          /\ S(t)' = S(t) /\ D(t)' = NoSnap /\ B(t)' = B(t)
      BY <1>1, <1>2, <2>2, SixNames, Cells
    <2>4. OneHome'
      BY <1>1, <1>2, <2>1, OwnedAre, HomeOfFewer
    <2>5. pc'[t] = "moved"
      BY <2>1 DEF Goto, IInv, TypeOK
    <2>6. Abreast(t)' /\ Exact(t)'
      BY <1>1, <1>2, <2>1, <2>3, <2>5 DEF Abreast, Exact, Early, Dropping
    <2>7. Untouched(t) => Shape(t)'
      BY <1>1, <1>2, <2>1, <2>3 DEF Own, Shape, Fits, Raw
    <2> QED  BY <1>1, <1>2, <1>4, <2>1, <2>2, <2>3, <2>4, <2>6, <2>7, HPlain
  <1> QED  BY <1>1, <1>3, <1>4

LEMMA HRetireSource ==
  ASSUME IInv, HInv, NEW t \in Transactions, RetireSource(t)
  PROVE  HInv'
  <1>1. pc[t] \in {"retire_src", "unlink_src"} /\ pc[t] # "none" /\ UNCHANGED <<data, rec, touched, refused>>
    BY DEF RetireSource, Link, Unlink, NoHistory
  <1>2. Own(t) /\ ~Finished(t) /\ rec[t].state = "installed" /\ rec[t].state # "none"
        /\ rec[t].state \notin Raw /\ IsMove(t)
    BY <1>1, AtWork DEF HInv, Own, Abreast, Raw
  <1>3. B(t) = rec[t].old /\ D(t)[2] = rec[t].source[2]
    BY <1>1, <1>2 DEF Own, Exact
  <1>4. CASE pc[t] = "retire_src"
    <2>1. S(t) = rec[t].source /\ Name(SourceBackup(t), fs[rec[t].src]) /\ Goto(t, "unlink_src")
      BY <1>4 DEF RetireSource, Link, S
    <2>2. /\ fs'[SourceBackup(t)] = fs[rec[t].src] /\ \A m \in Names : m # SourceBackup(t) => fs'[m] = fs[m]
          /\ \A m \in Names : m \notin Owned(t) => fs'[m] = fs[m]
      BY <1>2, <2>1, OwnedAre, NameIs
    <2>3. /\ fs'[Tmp(t)] = fs[Tmp(t)] /\ fs'[Staging(t)] = fs[Staging(t)]
          /\ S(t)' = S(t) /\ D(t)' = D(t) /\ B(t)' = B(t) /\ A(t)' = S(t)
      BY <1>1, <1>2, <2>2, SixNames, Cells
    <2>4. OneHome'
      BY <1>1, <1>2, <2>1, HomeOfPair
    <2>5. pc'[t] = "unlink_src"
      BY <2>1 DEF Goto, IInv, TypeOK
    <2>6. Abreast(t)' /\ Exact(t)'
      BY <1>1, <1>2, <1>3, <2>3, <2>5 DEF Abreast, Exact, Early, Dropping, IsMove
    <2>7. Untouched(t) => Shape(t)'
      BY <1>1, <1>2, <2>1, <2>3 DEF Own, Shape, Fits, Raw, IsMove
    <2> QED  BY <1>1, <1>2, <2>1, <2>2, <2>3, <2>4, <2>6, <2>7, HPlain
  <1>5. CASE pc[t] = "unlink_src"
    <2>1. S(t) = rec[t].source /\ A(t) = rec[t].source /\ Name(rec[t].src, 0) /\ Goto(t, "complete")
      BY <1>5 DEF RetireSource, Unlink, S, A
    <2>2. /\ fs'[rec[t].src] = 0 /\ \A m \in Names : m # rec[t].src => fs'[m] = fs[m]
          /\ \A m \in Names : m \notin Owned(t) => fs'[m] = fs[m]
      BY <1>2, <2>1, OwnedAre, NameIs
    <2>3. /\ fs'[Tmp(t)] = fs[Tmp(t)] /\ fs'[Staging(t)] = fs[Staging(t)]
          /\ S(t)' = NoSnap /\ D(t)' = D(t) /\ B(t)' = B(t) /\ A(t)' = A(t)
      BY <1>1, <1>2, <2>2, SixNames, Cells
    <2>4. OneHome'
      BY <1>1, <1>2, <2>1, OwnedAre, HomeOfFewer
    <2>5. pc'[t] = "complete"
      BY <2>1 DEF Goto, IInv, TypeOK
    <2>6. Abreast(t)' /\ Exact(t)'
      BY <1>1, <1>2, <1>3, <2>1, <2>3, <2>5 DEF Abreast, Exact, Early, Dropping, IsMove
    <2>7. Untouched(t) => Shape(t)'
      BY <1>1, <1>2, <2>1, <2>3 DEF Own, Shape, Fits, Raw, IsMove
    <2> QED  BY <1>1, <1>2, <2>1, <2>2, <2>3, <2>4, <2>6, <2>7, HPlain
  <1> QED  BY <1>1, <1>4, <1>5

LEMMA HRestoreSource ==
  ASSUME IInv, HInv, NEW t \in Transactions, RestoreSource(t)
  PROVE  HInv'
  <1> DEFINE ok == /\ Fits(S(t), A(t), rec[t].source)
                   /\ pc[t] = "undo_src" => fs[rec[t].src] # 0 /\ fs[SourceBackup(t)] # 0
  <1>1. pc[t] \in {"restore_src", "undo_src"} /\ pc[t] # "none"
    BY DEF RestoreSource
  <1>2. Own(t) /\ ~Finished(t) /\ rec[t].state = "rolling_back" /\ rec[t].state # "none"
        /\ rec[t].state \notin Raw /\ IsMove(t) /\ rec[t].source # NoSnap
    BY <1>1, AtWork DEF HInv, IInv, Own, Abreast, Raw, Phase, Moving, Started, NoSnap
  <1>3. IF ok THEN Restore(t, rec[t].src, SourceBackup(t), "undo_src", "restore_old") ELSE Refuse(t)
    BY FitsIs DEF RestoreSource
  <1>4. CASE ok /\ fs[rec[t].src] = 0
    <2>1. Name(rec[t].src, fs[SourceBackup(t)]) /\ Goto(t, "undo_src")
          /\ UNCHANGED <<data, rec, touched, refused>>
      BY <1>3, <1>4 DEF Restore, Quiet
    <2>2. A(t) = rec[t].source
      BY <1>2, <1>4, CellsAre DEF Fits
    <2>3. /\ fs'[rec[t].src] = fs[SourceBackup(t)] /\ \A m \in Names : m # rec[t].src => fs'[m] = fs[m]
          /\ \A m \in Names : m \notin Owned(t) => fs'[m] = fs[m]
      BY <1>2, <2>1, OwnedAre, NameIs
    <2>4. /\ fs'[Tmp(t)] = fs[Tmp(t)] /\ fs'[Staging(t)] = fs[Staging(t)]
          /\ S(t)' = A(t) /\ D(t)' = D(t) /\ B(t)' = B(t) /\ A(t)' = A(t)
      BY <1>2, <2>1, <2>3, SixNames, Cells
    <2>5. OneHome'
      BY <1>2, <2>1, HomeOfPair
    <2>6. pc'[t] = "undo_src"
      BY <2>1 DEF Goto, IInv, TypeOK
    <2>7. Abreast(t)' /\ Exact(t)'
      BY <1>2, <2>1, <2>2, <2>4, <2>6 DEF Abreast, Exact, Early, Dropping
    <2>8. Untouched(t) => Shape(t)'
      BY <1>2, <2>1, <2>2, <2>4 DEF Own, Shape, Fits, Raw, IsMove
    <2> QED  BY <1>1, <1>2, <2>1, <2>3, <2>4, <2>5, <2>7, <2>8, HPlain
  <1>5. CASE ok /\ fs[rec[t].src] # 0
    <2>1. Name(SourceBackup(t), 0) /\ Goto(t, "restore_old")
          /\ UNCHANGED <<data, rec, touched, refused>>
      BY <1>3, <1>5 DEF Restore, Quiet
    <2>2. S(t) = rec[t].source
      BY <1>2, <1>5, CellsAre DEF Fits
    <2>3. /\ fs'[SourceBackup(t)] = 0 /\ \A m \in Names : m # SourceBackup(t) => fs'[m] = fs[m]
          /\ \A m \in Names : m \notin Owned(t) => fs'[m] = fs[m]
      BY <1>2, <2>1, OwnedAre, NameIs
    <2>4. /\ fs'[Tmp(t)] = fs[Tmp(t)] /\ fs'[Staging(t)] = fs[Staging(t)]
          /\ S(t)' = S(t) /\ D(t)' = D(t) /\ B(t)' = B(t) /\ A(t)' = NoSnap
      BY <1>2, <2>1, <2>3, SixNames, Cells
    <2>5. OneHome'
      BY <1>2, <2>1, OwnedAre, HomeOfFewer
    <2>6. pc'[t] = "restore_old"
      BY <2>1 DEF Goto, IInv, TypeOK
    <2>7. Abreast(t)' /\ Exact(t)'
      BY <1>2, <2>1, <2>2, <2>4, <2>6 DEF Abreast, Exact, Early, Dropping
    <2>8. Untouched(t) => Shape(t)'
      BY <1>2, <2>1, <2>2, <2>4 DEF Own, Shape, Fits, Raw, IsMove
    <2> QED  BY <1>1, <1>2, <2>1, <2>3, <2>4, <2>5, <2>7, <2>8, HPlain
  <1>6. CASE ~ok
    <2>1. pc[t] # "undo_src"
      <3> SUFFICES ASSUME pc[t] = "undo_src"  PROVE ok
        BY <1>6
      <3>1. S(t) = rec[t].source /\ A(t) = rec[t].source
        BY <1>2 DEF Own, Exact
      <3> QED  BY <1>2, <3>1, CellsAre DEF Fits
    <2>2. t \in touched
      BY <1>2, <1>6, <2>1 DEF Own, Untouched, Shape
    <2> QED  BY <1>1, <1>2, <1>3, <1>6, <2>2, HStop
  <1> QED  BY <1>4, <1>5, <1>6

LEMMA HUndoLink ==
  ASSUME IInv, HInv, NEW t \in Transactions, pc[t] # "none" \/ Locked(t), ~Finished(t),
         rec[t].state \in Raw, D(t) = rec[t].old,
         Name(Backup(t), 0), Goto(t, "clean"), UNCHANGED rec, Quiet
  PROVE  HInv'
  <1>1. rec[t].state # "none" /\ Own(t) /\ fs[SourceBackup(t)] = 0 /\ UNCHANGED <<data, rec, touched, refused>>
    BY DEF Raw, HInv, Own, Tidy, Quiet
  <1>2. /\ fs'[Backup(t)] = 0 /\ \A m \in Names : m # Backup(t) => fs'[m] = fs[m]
        /\ \A m \in Names : m \notin Owned(t) => fs'[m] = fs[m]
    BY <1>1, OwnedAre, NameIs
  <1>3. /\ fs'[Tmp(t)] = fs[Tmp(t)] /\ fs'[Staging(t)] = fs[Staging(t)]
        /\ fs'[SourceBackup(t)] = fs[SourceBackup(t)]
        /\ S(t)' = S(t) /\ D(t)' = D(t) /\ B(t)' = NoSnap /\ A(t)' = A(t)
    BY <1>1, <1>2, SixNames, Cells
  <1>4. OneHome'
    BY <1>1, OwnedAre, HomeOfFewer
  <1>5. pc'[t] = "clean"
    BY DEF Goto, IInv, TypeOK
  <1>6. Abreast(t)'
    BY <1>1, <1>5 DEF Own, Abreast, Early, IsMove
  <1>7. Exact(t)'
    BY <1>1, <1>3, <1>5 DEF Exact, Dropping
  <1>8. Untouched(t) => Shape(t)'
    BY <1>1, <1>3 DEF Own, Shape, Fits, Raw
  <1> QED  BY <1>1, <1>2, <1>3, <1>4, <1>6, <1>7, <1>8, HPlain

LEMMA HRecoverReserved ==
  ASSUME IInv, HInv, NEW t \in Transactions, RecoverReserved(t)
  PROVE  HInv'
  <1> DEFINE there == D(t) # NoSnap /\ D(t)[2] = rec[t].source[2] /\ D(t)[1] = rec[t].ident
  <1>1. Locked(t) /\ rec[t].state \in Raw /\ ~Finished(t) /\ rec[t].state # "none"
    BY DEF RecoverReserved, Raw, Finished
  <1>2. Own(t) /\ A(t) = NoSnap /\ fs[SourceBackup(t)] = 0
    BY <1>1, CellsAre DEF HInv, Own, Tidy
  <1>3. Installed(t) <=> there
    BY DEF Installed, D
  <1>4. t \notin touched =>
          /\ S(t) = rec[t].source /\ (rec[t].ident # 0 => rec[t].ident # rec[t].old[1])
          /\ (there /\ B(t) = rec[t].old) \/ Fits(D(t), B(t), rec[t].old)
    BY <1>1, <1>2 DEF Own, Untouched, Shape
  <1> HIDE DEF there
  <1>5. CASE there
    <2>1. D(t)[1] = fs[rec[t].dst] /\ fs[rec[t].dst] # 0 /\ fs[rec[t].dst] = rec[t].ident /\ D(t) # NoSnap
      BY <1>1, <1>5, CellsAre DEF there
    <2>2. fs[Tmp(t)] = 0 /\ fs[Staging(t)] = 0
      BY <1>1, <2>1, TmpGone
    <2>3. CASE verify_backup(t) /\ verify_source_for_rollback(t)
      <3>1. RollBackFrom(t, D(t))
        BY <1>3, <1>5, <2>3 DEF RecoverReserved, D
      <3> QED  BY <1>1, <2>2, <2>3, <3>1, HRollBackFrom
    <2>4. CASE ~(verify_backup(t) /\ verify_source_for_rollback(t))
      <3>1. Refuse(t)
        BY <1>3, <1>5, <2>4 DEF RecoverReserved
      <3>2. t \in touched
        <4> SUFFICES ASSUME t \notin touched  PROVE FALSE
          OBVIOUS
        <4>1. D(t) # rec[t].old
          BY <1>4, <2>1
        <4>2. B(t) = rec[t].old
          BY <1>4, <2>1, <4>1 DEF Fits
        <4>3. Fits(S(t), A(t), rec[t].source)
          BY <1>2, <1>4 DEF Fits
        <4> QED  BY <1>1, <2>4, <4>2, <4>3, BackupIs, FitsIs DEF verify_source_for_rollback
      <3> QED  BY <1>1, <3>1, <3>2, HStop
    <2> QED  BY <2>3, <2>4
  <1>6. CASE ~there /\ rec[t].old = NoSnap
    <2>1. CASE fs[rec[t].dst] = 0
      <3>1. Goto(t, "clean") /\ UNCHANGED <<fs, rec, data, touched, refused>>
        BY <1>3, <1>6, <2>1 DEF RecoverReserved, Quiet
      <3>2. D(t) = rec[t].old /\ B(t) = NoSnap
        BY <1>1, <1>6, <2>1, CellsAre
      <3>3. pc'[t] = "clean" /\ \A u \in Transactions : u # t => rec'[u] = rec[u] /\ pc'[u] = pc[u]
        BY <3>1 DEF Goto, IInv, TypeOK
      <3>4. ASSUME S(t)' = S(t), D(t)' = D(t), B(t)' = B(t), A(t)' = A(t)  PROVE Own(t)'
        <4>1. Abreast(t)'
          BY <1>1, <1>2, <3>1, <3>3 DEF Own, Abreast, Early, IsMove
        <4>2. Tidy(t)' /\ Marked(t)'
          BY <1>2, <3>1, <3>3 DEF Own, Tidy, Marked, Tmp, Staging, SourceBackup
        <4>3. Exact(t)'
          BY <3>1, <3>2, <3>3, <3>4 DEF Exact, Dropping
        <4>4. Untouched(t)' => Shape(t)'
          BY <1>2, <3>1, <3>4 DEF Own, Untouched, Finished, Shape, IsMove
        <4> QED  BY <4>1, <4>2, <4>3, <4>4 DEF Own
      <3>5. t \in refused' => t \in touched \/ Torn(t)
        BY <3>1 DEF HInv, RefusedOnlyIfTouched
      <3>6. SameReceipt(t, rec'[t])
        BY <3>1, ReceiptIs
      <3> QED  BY <1>1, <3>1, <3>3, <3>4, <3>5, <3>6, HPaper
    <2>2. CASE fs[rec[t].dst] # 0
      <3>1. Refuse(t)
        BY <1>3, <1>6, <2>2 DEF RecoverReserved
      <3>2. t \in touched
        BY <1>1, <1>4, <1>6, <2>2, CellsAre DEF Fits
      <3> QED  BY <1>1, <3>1, <3>2, HStop
    <2> QED  BY <2>1, <2>2
  <1>7. CASE ~there /\ rec[t].old # NoSnap
    <2>1. IF Fits(D(t), B(t), rec[t].old)
          THEN Restore(t, rec[t].dst, Backup(t), "undo_link", "clean") ELSE Refuse(t)
      BY <1>3, <1>7, FitsIs DEF RecoverReserved
    <2>2. CASE ~Fits(D(t), B(t), rec[t].old)
      <3>1. t \in touched
        BY <1>4, <1>7, <2>2
      <3> QED  BY <1>1, <2>1, <2>2, <3>1, HStop
    <2>3. CASE Fits(D(t), B(t), rec[t].old) /\ fs[rec[t].dst] # 0
      <3>1. Name(Backup(t), 0) /\ Goto(t, "clean") /\ UNCHANGED rec /\ Quiet
        BY <2>1, <2>3 DEF Restore
      <3>2. D(t) = rec[t].old
        BY <1>1, <2>3, CellsAre DEF Fits
      <3> QED  BY <1>1, <3>1, <3>2, HUndoLink
    <2>4. CASE Fits(D(t), B(t), rec[t].old) /\ fs[rec[t].dst] = 0
      <3>1. Name(rec[t].dst, fs[Backup(t)]) /\ Goto(t, "undo_link")
            /\ UNCHANGED <<data, rec, touched, refused>>
        BY <2>1, <2>4 DEF Restore, Quiet
      <3>2. B(t) = rec[t].old
        BY <1>1, <1>7, <2>4, CellsAre DEF Fits
      <3>3. /\ fs'[rec[t].dst] = fs[Backup(t)] /\ \A m \in Names : m # rec[t].dst => fs'[m] = fs[m]
            /\ \A m \in Names : m \notin Owned(t) => fs'[m] = fs[m]
        BY <1>1, <3>1, OwnedAre, NameIs
      <3>4. /\ fs'[Tmp(t)] = fs[Tmp(t)] /\ fs'[Staging(t)] = fs[Staging(t)]
            /\ fs'[SourceBackup(t)] = fs[SourceBackup(t)]
            /\ S(t)' = S(t) /\ D(t)' = B(t) /\ B(t)' = B(t) /\ A(t)' = A(t)
        BY <1>1, <3>1, <3>3, SixNames, Cells
      <3>5. OneHome'
        BY <1>1, <3>1, HomeOfPair
      <3>6. pc'[t] = "undo_link"
        BY <3>1 DEF Goto, IInv, TypeOK
      <3>7. Abreast(t)'
        BY <1>1, <1>2, <3>1, <3>6 DEF Own, Abreast, Early, IsMove
      <3>8. Exact(t)'
        BY <3>1, <3>2, <3>4, <3>6 DEF Exact, Dropping
      <3>9. Untouched(t) => Shape(t)'
        BY <1>1, <1>2, <3>1, <3>2, <3>4 DEF Own, Shape, Fits, Raw
      <3> QED  BY <1>1, <1>2, <3>1, <3>3, <3>4, <3>5, <3>7, <3>8, <3>9, HPlain
    <2> QED  BY <2>2, <2>3, <2>4
  <1> QED  BY <1>5, <1>6, <1>7

LEMMA HUndo ==
  ASSUME IInv, HInv, NEW t \in Transactions, UndoLink(t)
  PROVE  HInv'
  <1>1. pc[t] = "undo_link" /\ pc[t] # "none"
    BY DEF UndoLink
  <1>2. rec[t].state \in Raw /\ ~Finished(t) /\ D(t) = rec[t].old /\ B(t) = rec[t].old
    BY <1>1, AtWork DEF HInv, Own, Abreast, Exact
  <1>3. Name(Backup(t), 0) /\ Goto(t, "clean") /\ UNCHANGED rec /\ Quiet
    BY <1>2 DEF UndoLink, D, B
  <1> QED  BY <1>1, <1>2, <1>3, HUndoLink

\* Only a marker that was cut short cannot be told to be the transaction's.
LEMMA HCleanStaging ==
  ASSUME IInv, HInv, NEW t \in Transactions, CleanStaging(t)
  PROVE  HInv'
  <1>1. pc[t] = "clean" /\ pc[t] # "none"
    BY DEF CleanStaging
  <1>2. Own(t) /\ ~Finished(t) /\ rec[t].state \in Raw /\ rec[t].state # "none"
        /\ D(t) = rec[t].old /\ B(t) = NoSnap
    BY <1>1, AtWork DEF HInv, Own, Abreast, Exact, Raw
  <1>3. CASE OwnedByMarker(t, Staging(t))
    <2>1. Name(Staging(t), 0) /\ Goto(t, "clean_tmp") /\ UNCHANGED <<data, rec, touched, refused>>
      BY <1>3 DEF CleanStaging, Quiet
    <2>2. /\ fs'[Staging(t)] = 0 /\ \A m \in Names : m # Staging(t) => fs'[m] = fs[m]
          /\ \A m \in Names : m \notin Owned(t) => fs'[m] = fs[m]
      BY <1>2, <2>1, OwnedAre, NameIs
    <2>3. /\ fs'[Tmp(t)] = fs[Tmp(t)] /\ fs'[SourceBackup(t)] = fs[SourceBackup(t)]
          /\ S(t)' = S(t) /\ D(t)' = D(t) /\ B(t)' = B(t) /\ A(t)' = A(t)
      BY <1>2, <2>1, <2>2, SixNames, Cells
    <2>4. OneHome'
      BY <1>2, <2>1, OwnedAre, HomeOfFewer
    <2>5. pc'[t] = "clean_tmp"
      BY <2>1 DEF Goto, IInv, TypeOK
    <2>6. Abreast(t)'
      BY <1>2, <2>1, <2>5 DEF Own, Abreast, Early, IsMove
    <2>7. Tidy(t)'
      BY <1>2, <2>1, <2>2, <2>3 DEF Own, Tidy, Tmp, Staging, SourceBackup
    <2>8. Marked(t)'
      BY <1>2, <2>1, <2>2, <2>3, <2>5 DEF Own, Marked, Tmp, Staging
    <2>9. Exact(t)'
      BY <1>2, <2>1, <2>2, <2>3, <2>5 DEF Exact, Dropping, Staging
    <2>10. Untouched(t) => Shape(t)'
      BY <1>2, <2>1, <2>3 DEF Own, Shape, IsMove
    <2>11. ~Torn(t)
      BY <1>3 DEF OwnedByMarker, Torn, Marker, TornMarker
    <2> QED  BY <1>1, <1>2, <2>1, <2>2, <2>4, <2>6, <2>7, <2>8, <2>9, <2>10, <2>11, HDisk
  <1>4. CASE ~OwnedByMarker(t, Staging(t))
    <2>1. Refuse(t)
      BY <1>4 DEF CleanStaging
    <2>2. Torn(t)
      BY <1>2, <1>4 DEF Own, Tidy, Marked, OwnedByMarker, Torn
    <2> QED  BY <1>1, <1>2, <2>1, <2>2, HStop
  <1> QED  BY <1>3, <1>4

LEMMA HCleanTmp ==
  ASSUME IInv, HInv, NEW t \in Transactions, CleanTmp(t)
  PROVE  HInv'
  <1>1. pc[t] = "clean_tmp" /\ pc[t] # "none"
    BY DEF CleanTmp
  <1>2. Own(t) /\ ~Finished(t) /\ rec[t].state \in Raw /\ rec[t].state # "none"
        /\ D(t) = rec[t].old /\ B(t) = NoSnap /\ fs[Staging(t)] = 0 /\ fs[SourceBackup(t)] = 0
    BY <1>1, AtWork DEF HInv, Own, Abreast, Exact, Raw, Tidy
  <1>3. A(t) = NoSnap
    BY <1>2, CellsAre
  <1>4. \/ fs[Tmp(t)] = 0
        \/ rec[t].ident = 0 /\ OwnedByMarker(t, Tmp(t))
        \/ rec[t].ident # 0 /\ fs[Tmp(t)] = rec[t].ident
    BY <1>2 DEF Own, Tidy, Marked, OwnedByMarker
  <1>5. Name(Tmp(t), 0) /\ Goto(t, "rolled_back") /\ UNCHANGED <<data, rec, touched, refused>>
    BY <1>4 DEF CleanTmp, Quiet
  <1>6. /\ fs'[Tmp(t)] = 0 /\ \A m \in Names : m # Tmp(t) => fs'[m] = fs[m]
        /\ \A m \in Names : m \notin Owned(t) => fs'[m] = fs[m]
    BY <1>2, <1>5, OwnedAre, NameIs
  <1>7. /\ fs'[Staging(t)] = fs[Staging(t)] /\ fs'[SourceBackup(t)] = fs[SourceBackup(t)]
        /\ S(t)' = S(t) /\ D(t)' = D(t) /\ B(t)' = B(t) /\ A(t)' = A(t)
    BY <1>2, <1>5, <1>6, SixNames, Cells
  <1>8. OneHome'
    BY <1>2, <1>5, OwnedAre, HomeOfFewer
  <1>9. pc'[t] = "rolled_back"
    BY <1>5 DEF Goto, IInv, TypeOK
  <1>10. Abreast(t)'
    BY <1>2, <1>5, <1>9 DEF Own, Abreast, Early, IsMove
  <1>11. Tidy(t)'
    BY <1>2, <1>5, <1>6, <1>7 DEF Tidy, Tmp, Staging, SourceBackup
  <1>12. Marked(t)'
    BY <1>2, <1>5, <1>6, <1>7, <1>9 DEF Marked, Tmp, Staging
  <1>13. Exact(t)'
    BY <1>2, <1>3, <1>5, <1>6, <1>7, <1>9 DEF Exact, Dropping, Staging, Tmp, Raw
  <1>14. Untouched(t) => Shape(t)'
    BY <1>2, <1>5, <1>7 DEF Own, Shape, IsMove
  <1>15. ~Torn(t)
    BY <1>2 DEF Torn
  <1> QED  BY <1>1, <1>2, <1>5, <1>6, <1>8, <1>10, <1>11, <1>12, <1>13, <1>14, <1>15, HDisk

LEMMA HRestoreOld ==
  ASSUME IInv, HInv, NEW t \in Transactions, RestoreOld(t)
  PROVE  HInv'
  <1>1. pc[t] = "restore_old" /\ pc[t] # "none"
    BY DEF RestoreOld
  <1>2. Own(t) /\ ~Finished(t) /\ rec[t].state = "rolling_back" /\ rec[t].state # "none"
        /\ rec[t].state \notin Raw /\ A(t) = NoSnap /\ (IsMove(t) => S(t) = rec[t].source)
        /\ fs[Tmp(t)] = 0 /\ fs[Staging(t)] = 0
    BY <1>1, AtWork DEF HInv, Own, Abreast, Exact, Raw, Tidy, Late
  \* However the old file came back, this is the end.
  <1>3. ASSUME Goto(t, "rolled_back"), UNCHANGED rec, Quiet, OneHome',
               \A m \in Names \ {rec[t].dst, Backup(t)} : fs'[m] = fs[m],
               D(t)' = rec[t].old, B(t)' = NoSnap
        PROVE  HInv'
    <2>1. \A m \in Names : m \notin Owned(t) => fs'[m] = fs[m]
      BY <1>2, <1>3, OwnedAre
    <2>2. /\ fs'[Tmp(t)] = fs[Tmp(t)] /\ fs'[Staging(t)] = fs[Staging(t)]
          /\ fs'[SourceBackup(t)] = fs[SourceBackup(t)] /\ fs'[rec[t].src] = fs[rec[t].src]
      BY <1>2, <1>3, SixNames
    <2>3. S(t)' = S(t) /\ A(t)' = A(t) /\ UNCHANGED <<data, rec, touched, refused>>
      BY <1>2, <1>3, <2>2, Cells DEF Quiet
    <2>4. pc'[t] = "rolled_back"
      BY <1>3 DEF Goto, IInv, TypeOK
    <2>5. Abreast(t)'
      BY <1>2, <1>3, <2>4 DEF Abreast, Early
    <2>6. Exact(t)'
      BY <1>2, <1>3, <2>2, <2>3, <2>4 DEF Exact, Dropping, IsMove, Tmp, Staging
    <2>7. Untouched(t) => Shape(t)'
      BY <1>2, <1>3, <2>3 DEF Own, Shape, Raw, IsMove
    <2> QED  BY <1>1, <1>2, <1>3, <2>1, <2>2, <2>3, <2>5, <2>6, <2>7, HPlain
  <1>4. t \notin touched => \/ D(t) = rec[t].old /\ B(t) = NoSnap
                            \/ D(t) = rec[t].result /\ B(t) = rec[t].old
    BY <1>2 DEF Own, Untouched, Shape
  <1>5. CASE rec[t].old = NoSnap
    <2>1. B(t) = NoSnap /\ fs[Backup(t)] = 0
      BY <1>2, <1>5, CellsAre
    <2>2. CASE Removable(t)
      <3>1. Name(rec[t].dst, 0) /\ Goto(t, "rolled_back") /\ UNCHANGED rec /\ Quiet
        BY <1>5, <2>2 DEF RestoreOld
      <3>2. fs'[rec[t].dst] = 0 /\ \A m \in Names : m # rec[t].dst => fs'[m] = fs[m]
        BY <1>2, <3>1, OwnedAre, NameIs
      <3>3. OneHome'
        BY <1>2, <3>1, OwnedAre, HomeOfFewer
      <3>4. D(t)' = NoSnap /\ B(t)' = B(t)
        BY <1>2, <3>1, <3>2, SixNames, Cells DEF Quiet
      <3> QED  BY <1>3, <1>5, <2>1, <3>1, <3>2, <3>3, <3>4
    <2>3. CASE ~Removable(t)
      <3>1. Refuse(t)
        BY <1>5, <2>3 DEF RestoreOld
      <3>2. t \in touched
        BY <1>4, <1>5, <2>3 DEF Removable, D
      <3> QED  BY <1>1, <1>2, <3>1, <3>2, HStop
    <2> QED  BY <2>2, <2>3
  <1>6. CASE rec[t].old # NoSnap
    <2>1. CASE D(t) = rec[t].old /\ fs[Backup(t)] = 0
      <3>1. Goto(t, "rolled_back") /\ UNCHANGED <<fs, rec>> /\ Quiet
        BY <1>6, <2>1 DEF RestoreOld, D
      <3>2. OneHome'
        <4>1. OneHome
          BY DEF HInv
        <4> QED  BY <3>1, <4>1, HomeKept
      <3>3. D(t)' = D(t) /\ B(t)' = NoSnap
        BY <1>2, <2>1, <3>1, Cells DEF Quiet, Backup
      <3> QED  BY <1>3, <2>1, <3>1, <3>2, <3>3
    <2>2. CASE ~(D(t) = rec[t].old /\ fs[Backup(t)] = 0) /\ D(t) = rec[t].result /\ B(t) = rec[t].old
      <3>1. Rename(Backup(t), rec[t].dst) /\ Goto(t, "rolled_back") /\ UNCHANGED rec /\ Quiet
        BY <1>6, <2>2 DEF RestoreOld, D, B
      <3>2. rec[t].dst \in Names /\ Backup(t) \in Names /\ Backup(t) # rec[t].dst
            /\ \A p \in Paths : Backup(t) \in Kin(p) <=> rec[t].dst \in Kin(p)
        BY <1>2, SixNames, KinAre
      <3>3. fs'[rec[t].dst] = fs[Backup(t)] /\ fs'[Backup(t)] = 0
            /\ \A m \in Names : m # rec[t].dst /\ m # Backup(t) => fs'[m] = fs[m]
        BY <3>1, <3>2 DEF Rename, IInv, TypeOK
      <3>4. OneHome'
        <4>1. OneHome
          BY DEF HInv
        <4>2. \A m \in Names : fs'[m] # 0 =>
                \E k \in Names : fs[k] = fs'[m] /\ \A p \in Paths : k \in Kin(p) <=> m \in Kin(p)
          BY <3>2, <3>3
        <4> QED  BY <3>1, <4>1, <4>2, HomeStays
      <3>5. D(t)' = B(t) /\ B(t)' = NoSnap
        BY <1>2, <3>1, <3>3, Cells DEF Quiet
      <3> QED  BY <1>3, <2>2, <3>1, <3>3, <3>4, <3>5
    <2>3. CASE ~(D(t) = rec[t].old /\ fs[Backup(t)] = 0) /\ ~(D(t) = rec[t].result /\ B(t) = rec[t].old)
      <3>1. Refuse(t)
        BY <1>6, <2>3 DEF RestoreOld, D, B
      <3>2. t \in touched
        BY <1>2, <1>4, <2>3, CellsAre
      <3> QED  BY <1>1, <1>2, <3>1, <3>2, HStop
    <2> QED  BY <2>1, <2>2, <2>3
  <1> QED  BY <1>5, <1>6

LEMMA HDropBackup ==
  ASSUME IInv, HInv, NEW t \in Transactions, DropBackup(t)
  PROVE  HInv'
  <1>1. pc[t] \in {"drop_source", "drop_old"} /\ pc[t] # "none" /\ pc[t] \in Dropping
    BY DEF DropBackup, Dropping
  <1>2. Own(t) /\ ~Finished(t) /\ rec[t].state = "finalizing" /\ rec[t].state # "none"
        /\ rec[t].state \notin Raw /\ D(t) = rec[t].result
        /\ (pc[t] = "drop_old" => A(t) = NoSnap)
    BY <1>1, AtWork DEF HInv, IInv, Phase, Own, Exact, Raw
  <1>3. CASE Refuse(t)
    <2>1. t \in touched
      <3> SUFFICES ASSUME t \notin touched  PROVE FALSE
        OBVIOUS
      <3>1. (IsMove(t) => A(t) \in {NoSnap, rec[t].source}) /\ B(t) \in {NoSnap, rec[t].old}
        BY <1>2 DEF Own, Untouched, Shape
      <3>2. pc'[t] \in {"drop_old", "finalized"}
        BY <3>1 DEF DropBackup, A, B, Goto, IInv, TypeOK
      <3>3. pc'[t] = "none"
        BY <1>3 DEF Refuse, Goto, IInv, TypeOK
      <3> QED  BY <3>2, <3>3
    <2> QED  BY <1>1, <1>2, <1>3, <2>1, HStop
  <1>4. ASSUME NEW n \in {Backup(t), SourceBackup(t)}, NEW q, Name(n, 0), Goto(t, q),
               UNCHANGED rec, Quiet, q \in {"drop_old", "finalized"},
               q = "drop_old" => n = SourceBackup(t),
               q = "finalized" => n = Backup(t) /\ A(t) = NoSnap
        PROVE  HInv'
    <2>1. UNCHANGED <<data, rec, touched, refused>> /\ n \in Owned(t)
      BY <1>2, <1>4, OwnedAre DEF Quiet
    <2>2. /\ fs'[n] = 0 /\ \A m \in Names : m # n => fs'[m] = fs[m]
          /\ \A m \in Names : m \notin Owned(t) => fs'[m] = fs[m]
      BY <1>2, <1>4, <2>1, NameIs
    <2>3. /\ fs'[Tmp(t)] = fs[Tmp(t)] /\ fs'[Staging(t)] = fs[Staging(t)]
          /\ fs'[rec[t].dst] = fs[rec[t].dst]
          /\ fs'[Backup(t)] = IF n = Backup(t) THEN 0 ELSE fs[Backup(t)]
          /\ fs'[SourceBackup(t)] = IF n = SourceBackup(t) THEN 0 ELSE fs[SourceBackup(t)]
      BY <1>2, <1>4, <2>2, SixNames
    <2>4. /\ D(t)' = D(t) /\ B(t)' \in {NoSnap, B(t)} /\ A(t)' \in {NoSnap, A(t)}
          /\ n = Backup(t) => B(t)' = NoSnap
          /\ n = SourceBackup(t) => A(t)' = NoSnap
      BY <1>2, <1>4, <2>1, <2>3, Cells
    <2>5. OneHome'
      BY <1>2, <1>4, <2>1, HomeOfFewer
    <2>6. pc'[t] = q
      BY <1>4 DEF Goto, IInv, TypeOK
    <2>7. Abreast(t)'
      BY <1>2, <1>4, <2>6 DEF Abreast, Early
    <2>8. Exact(t)'
      BY <1>2, <1>4, <2>4, <2>6 DEF Exact, Dropping
    <2>9. Untouched(t) => Shape(t)'
      BY <1>2, <1>4, <2>4 DEF Own, Shape, Raw, IsMove
    <2> QED  BY <1>1, <1>2, <1>4, <2>1, <2>2, <2>3, <2>5, <2>7, <2>8, <2>9, HPlain
  <1>5. CASE Name(SourceBackup(t), 0) /\ Goto(t, "drop_old") /\ UNCHANGED rec /\ Quiet
    BY <1>4, <1>5
  <1>6. CASE /\ pc[t] = "drop_old" /\ Name(Backup(t), 0) /\ Goto(t, "finalized")
             /\ UNCHANGED rec /\ Quiet
    BY <1>2, <1>4, <1>6
  <1> QED  BY <1>3, <1>5, <1>6 DEF DropBackup

\* Publish puts the copy where nothing was.
LEMMA HPublish ==
  ASSUME IInv, HInv, NEW t \in Transactions, Publish(t)
  PROVE  HInv'
  <1> DEFINE d == rec[t].dst
  <1>1. /\ pc[t] = "publish" /\ pc[t] # "none" /\ Rename(Tmp(t), d) /\ Goto(t, "readback")
        /\ UNCHANGED <<data, rec, touched, refused>>
    BY DEF Publish, NoHistory
  <1>2. Own(t) /\ ~Finished(t) /\ rec[t].state \in Raw /\ rec[t].state # "none"
        /\ rec[t].state \in {"copy_prepared", "backup_moved"}
        /\ data[fs[Tmp(t)]] = rec[t].source[2] /\ B(t) = rec[t].old /\ fs[SourceBackup(t)] = 0
    BY <1>1, AtWork DEF HInv, Own, Abreast, Exact, Raw, Tidy, Marked
  <1>3. fs[d] = 0 /\ fs[Tmp(t)] = rec[t].ident /\ rec[t].ident # 0 /\ fs[Staging(t)] = 0
    BY <1>1 DEF IInv, Phase, Vacant, Making
  <1>4. d \in Names /\ Tmp(t) \in Names /\ d # Tmp(t) /\ Tmp(t) \in Scratch(t) /\ d \in Owned(t)
        /\ Tmp(t) \in Owned(t)
    BY <1>2, SixNames, OwnedAre DEF Scratch
  <1>5. /\ fs'[d] = rec[t].ident /\ fs'[Tmp(t)] = 0
        /\ \A m \in Names : m # d /\ m # Tmp(t) => fs'[m] = fs[m]
    BY <1>1, <1>3, <1>4 DEF Rename, IInv, TypeOK
  <1>6. /\ fs'[Staging(t)] = 0 /\ fs'[SourceBackup(t)] = 0
        /\ S(t)' = S(t) /\ B(t)' = B(t) /\ A(t)' = A(t)
    BY <1>1, <1>2, <1>3, <1>5, SixNames, Cells
  <1>7. D(t)' = <<rec[t].ident, rec[t].source[2]>>
    BY <1>1, <1>2, <1>3, <1>5 DEF D, snapshot
  <1>8. D(t)' # NoSnap /\ D(t)'[1] = rec[t].ident /\ D(t)'[2] = rec[t].source[2]
    BY <1>3, <1>7 DEF NoSnap
  <1>9. OneHome'
    <2>1. OneHome
      BY DEF HInv
    <2>2. \A m \in Names : m # d => fs'[m] # fs'[d]
      <3> SUFFICES ASSUME NEW m \in Names, m # d  PROVE fs'[m] # rec[t].ident
        BY <1>5
      <3>1. CASE m \in Scratch(t)
        BY <1>3, <1>5, <1>6, <3>1 DEF Scratch
      <3>2. CASE m \notin Scratch(t)
        <4>1. fs[m] # fs[Tmp(t)]
          BY <1>3, <1>4, <3>2 DEF IInv, ScratchApart
        <4> QED  BY <1>3, <1>4, <1>5, <3>2, <4>1
      <3> QED  BY <3>1, <3>2
    <2>3. \A m \in Names : fs'[m] # 0 =>
            \/ \E k \in Names : fs[k] = fs'[m] /\ \A p \in Paths : k \in Kin(p) <=> m \in Kin(p)
            \/ \A k \in Names : k # m => fs'[k] # fs'[m]
      BY <1>5, <2>2
    <2> QED  BY <1>1, <2>1, <2>3, HomeStays
  <1>10. pc'[t] = "readback"
    BY <1>1 DEF Goto, IInv, TypeOK
  <1>11. Abreast(t)'
    BY <1>1, <1>2, <1>10 DEF Abreast, Early
  <1>12. Tidy(t)'
    BY <1>1, <1>2, <1>5, <1>6 DEF Tidy, Tmp, Staging, SourceBackup
  <1>13. Marked(t)'
    BY <1>1, <1>3, <1>10 DEF Marked
  <1>14. Exact(t)'
    BY <1>1, <1>2, <1>6, <1>10 DEF Exact, Dropping
  <1>15. Untouched(t) => Shape(t)'
    BY <1>1, <1>2, <1>6, <1>8 DEF Own, Shape, Raw
  <1>16. ~Torn(t)
    BY <1>3 DEF Torn
  <1>17. \A m \in Names : m \notin Owned(t) => fs'[m] = fs[m]
    BY <1>4, <1>5
  <1> QED  BY <1>1, <1>2, <1>9, <1>11, <1>12, <1>13, <1>14, <1>15, <1>16, <1>17, HDisk

\* A new transaction is on record with the others about its paths.
LEMMA HBegin ==
  ASSUME IInv, HInv, NEW t \in Transactions, NEW kind \in {"copy", "move"},
         NEW src \in Paths, NEW dst \in Paths, Begin(t, kind, src, dst)
  PROVE  HInv'
  <1> DEFINE r == [NoReceipt EXCEPT !.state = "reserved", !.kind = kind, !.src = src,
                     !.dst = dst, !.source = snapshot(src), !.old = snapshot(dst)]
             met == {u \in Transactions : ~Finished(u) /\ {rec[u].src, rec[u].dst} \cap {src, dst} # {}}
  <1>1. /\ rec[t].state = "none" /\ Persist(t, r) /\ Goto(t, "stage")
        /\ UNCHANGED <<fs, data, refused>>
        /\ touched' = IF met = {} THEN touched ELSE touched \cup met \cup {t}
    BY DEF Begin
  <1>2. /\ rec'[t] = r /\ pc'[t] = "stage"
        /\ \A u \in Transactions : u # t => rec'[u] = rec[u] /\ pc'[u] = pc[u]
    BY <1>1, Stored
  <1>3. /\ r.state = "reserved" /\ r.src = src /\ r.dst = dst
        /\ r.source = snapshot(src) /\ r.old = snapshot(dst) /\ r.ident = 0
    BY DEF NoReceipt
  <1> HIDE DEF r
  <1>4. fs[Tmp(t)] = 0 /\ fs[Staging(t)] = 0 /\ fs[Backup(t)] = 0 /\ fs[SourceBackup(t)] = 0
    <2>1. rec[t] = NoReceipt /\ Backups(t) /\ Tidy(t)
      BY <1>1 DEF IInv, Started, HInv, Own
    <2> QED  BY <1>1, <2>1 DEF Tidy, Backups, IsMove, NoReceipt
  <1>5. touched \subseteq touched' /\ met \subseteq touched' /\ (t \notin touched' => met = {})
    BY <1>1
  <1>6. OneHome'
    <2>1. ASSUME NEW p \in Paths, NEW n, n \notin {Backup(t), SourceBackup(t)}
          PROVE  n \in Kin(p)' <=> n \in Kin(p)
      <3>1. n \in Kin(p) <=> \/ n = p
                             \/ \E u \in Transactions \ {t} : rec[u].dst = p /\ n = Backup(u)
                             \/ \E u \in Transactions \ {t} : rec[u].src = p /\ n = SourceBackup(u)
        BY <2>1 DEF Kin
      <3>2. n \in Kin(p)' <=> \/ n = p
                              \/ \E u \in Transactions \ {t} : rec'[u].dst = p /\ n = Backup(u)
                              \/ \E u \in Transactions \ {t} : rec'[u].src = p /\ n = SourceBackup(u)
        BY <2>1 DEF Kin, Backup, SourceBackup
      <3> QED  BY <1>2, <3>1, <3>2
    <2>2. ASSUME NEW p \in Paths, NEW n \in Kin(p)', NEW m \in Names \ Kin(p)', fs[n] # 0
          PROVE  fs[n] # fs[m]
      <3>1. n \in Kin(p)
        BY <1>4, <2>1, <2>2
      <3>2. CASE m \in {Backup(t), SourceBackup(t)}
        BY <1>4, <2>2, <3>2
      <3>3. CASE m \notin {Backup(t), SourceBackup(t)}
        <4>1. m \in Names \ Kin(p)
          BY <2>1, <3>3
        <4> QED  BY <2>2, <3>1, <4>1 DEF HInv, OneHome
      <3> QED  BY <3>2, <3>3
    <2> QED  BY <1>1, <2>2 DEF OneHome
  <1>7. RefusedOnlyIfTouched'
    BY <1>1, <1>5 DEF HInv, RefusedOnlyIfTouched, Torn, Staging
  <1>8. ASSUME NEW u \in Transactions, u # t
        PROVE  Own(u)' /\ (Untouched(u)' => Untouched(u))
    <2>1. rec'[u] = rec[u] /\ pc'[u] = pc[u]
      BY <1>2, <1>8
    <2>2. S(u)' = S(u) /\ D(u)' = D(u) /\ B(u)' = B(u) /\ A(u)' = A(u)
      BY <1>1, <2>1 DEF S, D, B, A, snapshot, Backup, SourceBackup
    <2> QED  BY <1>1, <1>5, <2>1, <2>2, OwnStays
  <1>9. Own(t)'
    <2>1. Abreast(t)' /\ Tidy(t)' /\ Marked(t)' /\ Exact(t)'
      <3>1. Abreast(t)'
        BY <1>2, <1>3 DEF Abreast, Early
      <3>2. Tidy(t)'
        BY <1>1, <1>2, <1>3, <1>4 DEF Tidy, Late, Tmp, Staging, SourceBackup
      <3>3. Marked(t)'
        BY <1>1, <1>2, <1>4 DEF Marked, Tmp, Staging
      <3>4. Exact(t)'
        BY <1>2 DEF Exact, Dropping
      <3> QED  BY <3>1, <3>2, <3>3, <3>4
    <2>2. S(t)' = r.source /\ D(t)' = r.old /\ B(t)' = NoSnap
      BY <1>1, <1>2, <1>3, <1>4 DEF S, D, B, snapshot, Backup
    <2>3. Shape(t)'
      BY <1>2, <1>3, <2>2 DEF Shape, Fits, Raw
    <2> QED  BY <2>1, <2>3 DEF Own
  <1>10. ASSUME NEW u \in Transactions, Untouched(u)'  PROVE Alone(u)'
    <2> SUFFICES ASSUME NEW v \in Transactions, v # u, ~Finished(v)'
                 PROVE  {rec'[v].src, rec'[v].dst} \cap {rec'[u].src, rec'[u].dst} = {}
      BY DEF Alone
    <2>1. u \notin touched'
      BY <1>10 DEF Untouched
    <2>2. CASE u = t
      <3>1. rec'[v] = rec[v] /\ ~Finished(v) /\ v \notin met
        BY <1>2, <1>5, <2>1, <2>2 DEF Finished
      <3> QED  BY <1>2, <1>3, <2>2, <3>1
    <2>3. CASE u # t /\ v = t
      <3>1. rec'[u] = rec[u] /\ ~Finished(u) /\ u \notin met
        BY <1>2, <1>5, <1>10, <2>1, <2>3 DEF Untouched, Finished
      <3> QED  BY <1>2, <1>3, <2>3, <3>1
    <2>4. CASE u # t /\ v # t
      <3>1. rec'[u] = rec[u] /\ rec'[v] = rec[v] /\ ~Finished(v) /\ Untouched(u)
        BY <1>2, <1>8, <1>10, <2>4 DEF Finished
      <3> QED  BY <3>1 DEF HInv, Alone
    <2> QED  BY <2>2, <2>3, <2>4
  <1> QED  BY <1>6, <1>7, <1>8, <1>9, <1>10 DEF HInv

\* What the user does to a path is seen through the names of that path only.
LEMMA HUserActs ==
  ASSUME IInv, HInv, ~Intrusive, NEW p \in Paths, UserActs(p)
  PROVE  HInv'
  <1> DEFINE w == Written(acts + 1)
             meddled == {t \in Transactions : ~Finished(t) /\ p \in {rec[t].src, rec[t].dst}}
  <1>1. /\ p \notin Held /\ UNCHANGED <<rec, pc, refused>> /\ touched' = touched \cup meddled
        /\ \/ fs[p] # 0 /\ data' = [data EXCEPT ![fs[p]] = w] /\ UNCHANGED fs
           \/ /\ FreshObjects # {} /\ data' = [data EXCEPT ![FreshObject] = w]
              /\ fs' = [fs EXCEPT ![p] = FreshObject]
           \/ fs' = [fs EXCEPT ![p] = 0] /\ UNCHANGED data
    BY DEF UserActs, Name
  <1>2. p \in Names /\ fs \in [Names -> Objects \cup {0}] /\ data \in [Objects -> Contents(acts)]
    BY NamesAre DEF IInv, TypeOK
  <1>3. \A m \in Names : m # p => fs'[m] = fs[m]
    BY <1>1, <1>2
  <1>4. \A m \in Names : fs[m] # 0 /\ fs[m] # fs[p] => data'[fs[m]] = data[fs[m]]
    <2>1. CASE fs[p] # 0 /\ data' = [data EXCEPT ![fs[p]] = w]
      BY <1>2, <2>1
    <2>2. CASE FreshObjects # {} /\ data' = [data EXCEPT ![FreshObject] = w]
      <3>1. \A m \in Names : fs[m] # FreshObject
        BY <2>2, FreshIs
      <3> QED  BY <1>2, <2>2, <3>1
    <2>3. CASE UNCHANGED data
      BY <2>3
    <2> QED  BY <1>1, <2>1, <2>2, <2>3
  <1>5. fs'[p] # 0 => fs'[p] = fs[p] \/ \A m \in Names : m # p => fs'[m] # fs'[p]
    <2>1. CASE UNCHANGED fs
      BY <2>1
    <2>2. CASE FreshObjects # {} /\ fs' = [fs EXCEPT ![p] = FreshObject]
      <3>1. \A m \in Names : fs[m] # FreshObject
        BY <2>2, FreshIs
      <3> QED  BY <1>2, <1>3, <2>2, <3>1
    <2>3. CASE fs' = [fs EXCEPT ![p] = 0]
      BY <1>2, <2>3
    <2> QED  BY <1>1, <2>1, <2>2, <2>3
  <1>6. OneHome'
    <2>1. OneHome
      BY DEF HInv
    <2>2. \A m \in Names : fs'[m] # 0 =>
            \/ \E k \in Names : fs[k] = fs'[m] /\ \A q \in Paths : k \in Kin(q) <=> m \in Kin(q)
            \/ \A k \in Names : k # m => fs'[k] # fs'[m]
      BY <1>2, <1>3, <1>5
    <2> QED  BY <1>1, <2>1, <2>2, HomeStays
  <1>7. ASSUME NEW q \in Paths, q # p, NEW n \in Kin(q)
        PROVE  fs'[n] = fs[n] /\ (fs[n] # 0 => data'[fs[n]] = data[fs[n]])
    <2>1. n \in Names /\ p \in Names \ Kin(q)
      BY <1>2, <1>7, KinAre
    <2>2. n # p /\ (fs[n] # 0 => fs[n] # fs[p])
      BY <2>1 DEF HInv, OneHome
    <2> QED  BY <1>3, <1>4, <2>1, <2>2
  <1>8. ASSUME NEW u \in Transactions
        PROVE  Own(u)' /\ (Untouched(u)' => Untouched(u)) /\ (Torn(u) => Torn(u)')
    <2>1. rec'[u] = rec[u] /\ pc'[u] = pc[u] /\ touched \subseteq touched'
      BY <1>1
    <2>2. \A n \in PrivateNames(u) : n \in Names /\ fs'[n] = fs[n]
      BY <1>3, NamesAre DEF PrivateNames
    <2>3. \A n \in Scratch(u) : fs[n] # 0 => data'[fs[n]] = data[fs[n]]
      <3> SUFFICES ASSUME NEW n \in Scratch(u), fs[n] # 0  PROVE fs[n] # fs[p] /\ n \in Names
        BY <1>4
      <3>1. p \in Names \ Scratch(u) /\ n \in Names
        BY <1>2, PlainNames, NamesAre DEF Scratch
      <3> QED  BY <3>1 DEF IInv, ScratchApart
    <2>4. rec[u].dst \in Paths /\ rec[u].dst # p => D(u)' = D(u) /\ B(u)' = B(u)
      <3> SUFFICES ASSUME rec[u].dst \in Paths, rec[u].dst # p  PROVE D(u)' = D(u) /\ B(u)' = B(u)
        OBVIOUS
      <3>1. rec[u].dst \in Kin(rec[u].dst) /\ Backup(u) \in Kin(rec[u].dst)
        BY KinAre
      <3>2. \A n \in {rec[u].dst, Backup(u)} :
              fs'[n] = fs[n] /\ (fs[n] # 0 => data'[fs[n]] = data[fs[n]])
        BY <1>7, <3>1
      <3> QED  BY <2>1, <3>2 DEF D, B, snapshot, Backup
    <2>5. rec[u].src \in Paths /\ rec[u].src # p => S(u)' = S(u) /\ A(u)' = A(u)
      <3> SUFFICES ASSUME rec[u].src \in Paths, rec[u].src # p  PROVE S(u)' = S(u) /\ A(u)' = A(u)
        OBVIOUS
      <3>1. rec[u].src \in Kin(rec[u].src) /\ SourceBackup(u) \in Kin(rec[u].src)
        BY KinAre
      <3>2. \A n \in {rec[u].src, SourceBackup(u)} :
              fs'[n] = fs[n] /\ (fs[n] # 0 => data'[fs[n]] = data[fs[n]])
        BY <1>7, <3>1
      <3> QED  BY <2>1, <3>2 DEF S, A, snapshot, SourceBackup
    <2>6. ~IsMove(u) => A(u)' = A(u)
      <3> SUFFICES ASSUME ~IsMove(u)  PROVE A(u)' = A(u)
        OBVIOUS
      <3>1. fs[SourceBackup(u)] = 0 /\ SourceBackup(u) \in PrivateNames(u)
        BY DEF IInv, Backups, PrivateNames
      <3>2. fs'[SourceBackup(u)] = 0
        BY <2>2, <3>1
      <3> QED  BY <3>1, <3>2 DEF A, snapshot, SourceBackup
    <2>7. pc[u] # "none" => rec[u].dst \in Paths /\ rec[u].dst # p
      BY <1>1, ReceiptIs DEF Held, LockedPaths
    <2>8. pc[u] # "none" /\ IsMove(u) => rec[u].src \in Paths /\ rec[u].src # p
      BY <1>1, ReceiptIs DEF Held, LockedPaths, IsMove
    <2>9. Untouched(u)' => {rec[u].src, rec[u].dst} \subseteq Paths /\ p \notin {rec[u].src, rec[u].dst}
      <3> SUFFICES ASSUME Untouched(u)'
                   PROVE  {rec[u].src, rec[u].dst} \subseteq Paths /\ p \notin {rec[u].src, rec[u].dst}
        OBVIOUS
      <3>1. ~Finished(u) /\ u \notin meddled
        BY <1>1, <2>1 DEF Untouched, Finished
      <3> QED  BY <3>1, ReceiptIs DEF Finished
    <2>10. pc[u] # "none" => D(u)' = D(u) /\ B(u)' = B(u) /\ A(u)' = A(u)
      BY <2>4, <2>5, <2>6, <2>7, <2>8
    <2>11. pc[u] # "none" /\ IsMove(u) => S(u)' = S(u)
      BY <2>5, <2>8
    <2>12. Untouched(u)' => S(u)' = S(u) /\ D(u)' = D(u) /\ B(u)' = B(u) /\ A(u)' = A(u)
      BY <2>4, <2>5, <2>9
    <2> QED  BY <2>1, <2>2, <2>3, <2>10, <2>11, <2>12, OwnStays
  <1>9. RefusedOnlyIfTouched'
    <2> SUFFICES ASSUME NEW u \in refused  PROVE u \in touched' \/ Torn(u)'
      BY <1>1 DEF RefusedOnlyIfTouched
    <2>1. u \in Transactions /\ (u \in touched \/ Torn(u))
      BY DEF IInv, TypeOK, HInv, RefusedOnlyIfTouched
    <2> QED  BY <1>1, <1>8, <2>1
  <1>10. ASSUME NEW u \in Transactions, Untouched(u)'  PROVE Alone(u)'
    <2>1. Alone(u)
      BY <1>8, <1>10 DEF HInv
    <2> QED  BY <1>1, <2>1 DEF Alone, Finished
  <1> QED  BY <1>6, <1>8, <1>9, <1>10 DEF HInv

LEMMA HInit ==
  ASSUME Init
  PROVE  HInv
  <1>1. PICK first \in [Paths -> 0..Cardinality(Paths)] :
          /\ fs = [n \in Names |-> IF n \in Paths THEN first[n] ELSE 0]
          /\ \A p, q \in Paths : first[p] = first[q] /\ first[p] # 0 => p = q
    BY DEF Init
  <1>2. /\ rec = [t \in Transactions |-> NoReceipt] /\ pc = [t \in Transactions |-> "none"]
        /\ refused = {}
    BY DEF Init
  <1>3. /\ \A n \in Names : fs[n] # 0 => n \in Paths
        /\ \A p, q \in Paths : fs[p] = fs[q] /\ fs[p] # 0 => p = q
    BY <1>1, NamesAre
  <1>4. OneHome
    <2> SUFFICES ASSUME NEW p \in Paths, NEW n \in Kin(p), NEW m \in Names \ Kin(p),
                        fs[n] # 0, fs[n] = fs[m]
                 PROVE  FALSE
      BY DEF OneHome
    <2>1. n \in Names
      BY KinAre
    <2> QED  BY <1>3, <2>1
  <1>5. RefusedOnlyIfTouched
    BY <1>2 DEF RefusedOnlyIfTouched
  <1>6. ASSUME NEW t \in Transactions  PROVE Own(t) /\ ~Untouched(t)
    <2>1. pc[t] = "none" /\ rec[t].state = "none" /\ rec[t].ident = 0
      BY <1>2 DEF NoReceipt
    <2>2. fs[Tmp(t)] = 0 /\ fs[Staging(t)] = 0 /\ fs[SourceBackup(t)] = 0
      BY <1>3, NamesAre
    <2>3. Abreast(t)
      BY <2>1 DEF Abreast, Early
    <2>4. Tidy(t) /\ Marked(t)
      BY <2>1, <2>2 DEF Tidy, Marked
    <2>5. Exact(t)
      BY <2>1 DEF Exact, Dropping
    <2>6. ~Untouched(t)
      BY <2>1 DEF Untouched, Finished
    <2> QED  BY <2>3, <2>4, <2>5, <2>6 DEF Own
  <1> QED  BY <1>4, <1>5, <1>6 DEF HInv

-----------------------------------------------------------------------------
LEMMA HNext ==
  ASSUME IInv, HInv, ~Intrusive, [Next]_vars
  PROVE  HInv'
  <1>1. CASE UNCHANGED vars
    <2>1. UNCHANGED <<fs, data, rec, pc, touched, refused>>
      BY <1>1 DEF vars
    <2>2. OneHome'
      <3>1. OneHome
        BY DEF HInv
      <3> QED  BY <2>1, <3>1, HomeKept
    <2>3. RefusedOnlyIfTouched'
      BY <2>1 DEF HInv, RefusedOnlyIfTouched, Torn, Staging
    <2>4. ASSUME NEW u \in Transactions  PROVE Own(u)' /\ (Untouched(u)' => Alone(u)')
      <3>1. S(u)' = S(u) /\ D(u)' = D(u) /\ B(u)' = B(u) /\ A(u)' = A(u)
        BY <2>1 DEF S, D, B, A, snapshot, Backup, SourceBackup
      <3>2. Own(u)' /\ (Untouched(u)' => Untouched(u))
        BY <2>1, <3>1, OwnStays
      <3>3. Untouched(u) => Alone(u)
        BY DEF HInv
      <3> QED  BY <2>1, <3>2, <3>3 DEF Alone, Finished
    <2> QED  BY <2>2, <2>3, <2>4 DEF HInv
  <1>2. ASSUME NEW t \in Transactions, Apply(t)  PROVE HInv'
    <2>1. ASSUME NEW kind \in {"copy", "move"}, NEW src \in Paths, NEW dst \in Paths,
                 Begin(t, kind, src, dst)
          PROVE  HInv'
      BY <2>1, HBegin
    <2>2. CASE StageMarker(t) \/ LinkMarker(t) \/ UnstageMarker(t) \/ Identify(t)
      BY <2>2, HStage, HLinkMarker, HUnstage, HIdentify
    <2>3. CASE Truncate(t) \/ Copy(t) \/ Prepared(t) \/ RetireOld(t) \/ BackupMoved(t)
      BY <2>3, HWrite, HPrepared, HRetireOld
    <2>4. CASE Publish(t) \/ Readback(t) \/ RetireSource(t) \/ Complete(t)
      BY <2>4, HPublish, HReadback, HRetireSource, HEnds
    <2> QED  BY <1>2, <2>1, <2>2, <2>3, <2>4 DEF Apply
  <1>3. ASSUME NEW t \in Transactions, Settle(t)  PROVE HInv'
    <2>1. CASE RecoverReserved(t) \/ UndoLink(t) \/ CleanStaging(t) \/ CleanTmp(t)
      BY <2>1, HRecoverReserved, HUndo, HCleanStaging, HCleanTmp
    <2>2. CASE RollBack(t) \/ ResumeRollBack(t) \/ Finalize(t) \/ ResumeFinalize(t)
      BY <2>2, HRollBacks, HFinalize
    <2>3. CASE RestoreSource(t) \/ RestoreOld(t) \/ DropBackup(t)
      BY <2>3, HRestoreSource, HRestoreOld, HDropBackup
    <2>4. CASE RolledBack(t) \/ Finalized(t)
      BY <2>4, HEnds
    <2> QED  BY <1>3, <2>1, <2>2, <2>3, <2>4 DEF Settle
  <1>4. ASSUME NEW t \in Transactions, Interrupted(t)  PROVE HInv'
    <2>1. pc[t] # "none" /\ ~Finished(t)
      BY <1>4, AtWork DEF Interrupted
    <2> QED  BY <1>4, <2>1, HStop
  <1>5. ASSUME NEW p \in Paths, UserActs(p)  PROVE HInv'
    BY <1>5, HUserActs
  <1> QED  BY <1>1, <1>2, <1>3, <1>4, <1>5 DEF Next

\* The steps that store one of the three ends.
LEMMA EndsAre ==
  ASSUME IInv, [Next]_vars, NEW t \in Transactions, rec'[t].state # rec[t].state,
         rec'[t].state \in {"rolled_back", "completed", "finalized"}
  PROVE  \/ RolledBack(t) /\ rec'[t].state = "rolled_back"
         \/ (Complete(t) \/ (Readback(t) /\ ~IsMove(t))) /\ rec'[t].state = "completed"
         \/ Finalized(t) /\ rec'[t].state = "finalized"
  <1>1. rec \in [Transactions -> Receipts(acts)]
    BY DEF IInv, TypeOK
  <1>2. ASSUME NEW u \in Transactions, NEW r, Persist(u, r)
        PROVE  (u # t => rec'[t] = rec[t]) /\ (u = t => rec'[t] = r)
    BY <1>1, <1>2 DEF Persist
  <1>3. rec[t] \in Receipts(acts)
    BY <1>1
  <1>4. ASSUME NEW x  PROVE [rec[t] EXCEPT !.state = x].state = x
    BY <1>3 DEF Receipts
  <1>5. ~UNCHANGED rec
    OBVIOUS
  <1>6. ASSUME NEW u \in Transactions, Apply(u)
        PROVE  u = t /\ rec'[t].state = "completed" /\ (Complete(t) \/ (Readback(t) /\ ~IsMove(t)))
    <2>1. ~\E kind \in {"copy", "move"}, src, dst \in Paths : Begin(u, kind, src, dst)
      <3> SUFFICES ASSUME NEW kind, NEW src, NEW dst, Begin(u, kind, src, dst)  PROVE FALSE
        OBVIOUS
      <3> DEFINE r == [NoReceipt EXCEPT !.state = "reserved", !.kind = kind, !.src = src,
                        !.dst = dst, !.source = snapshot(src), !.old = snapshot(dst)]
      <3>1. Persist(u, r) /\ r.state = "reserved"
        BY DEF Begin, NoReceipt
      <3> HIDE DEF r
      <3> QED  BY <1>2, <3>1
    <2>2. ~(StageMarker(u) \/ LinkMarker(u) \/ UnstageMarker(u))
      BY <1>5 DEF StageMarker, LinkMarker, UnstageMarker
    <2>3. ~Identify(u)
      <3> SUFFICES ASSUME Identify(u)  PROVE FALSE
        OBVIOUS
      <3>1. u = t /\ rec'[t] = [rec[t] EXCEPT !.ident = fs[Tmp(t)]]
        BY <1>2 DEF Identify
      <3> QED  BY <1>3, <3>1 DEF Receipts
    <2>4. ~(Truncate(u) \/ Copy(u) \/ RetireOld(u) \/ Publish(u) \/ RetireSource(u))
      BY <1>5 DEF Truncate, Copy, RetireOld, Publish, RetireSource, Link, Unlink
    <2>5. ~Prepared(u)
      <3> SUFFICES ASSUME Prepared(u)  PROVE FALSE
        OBVIOUS
      <3>1. u = t /\ rec'[t] = [rec[t] EXCEPT !.state = "copy_prepared", !.prepared = snapshot(Tmp(t))]
        BY <1>2 DEF Prepared
      <3> QED  BY <1>3, <3>1 DEF Receipts
    <2>6. ~BackupMoved(u)
      BY <1>2, <1>4 DEF BackupMoved
    <2>7. CASE Readback(u)
      <3> DEFINE x == IF IsMove(u) THEN "installed" ELSE "completed"
                 r == [rec[u] EXCEPT !.result = snapshot(rec[u].dst), !.state = x]
      <3>1. Persist(u, r)
        BY <2>7 DEF Readback
      <3>2. u = t /\ rec'[t] = r
        BY <1>2, <3>1
      <3>3. r.state = x
        BY <1>3, <3>2 DEF Receipts
      <3> QED  BY <2>7, <3>2, <3>3
    <2>8. CASE Complete(u)
      BY <1>2, <1>4, <2>8 DEF Complete
    <2> QED  BY <1>6, <2>1, <2>2, <2>3, <2>4, <2>5, <2>6, <2>7, <2>8 DEF Apply
  <1>7. ASSUME NEW u \in Transactions, Settle(u)
        PROVE  u = t /\ \/ RolledBack(t) /\ rec'[t].state = "rolled_back"
                        \/ Finalized(t) /\ rec'[t].state = "finalized"
    <2>1. ASSUME NEW result, RollBackFrom(u, result)  PROVE FALSE
      <3>1. u = t /\ rec'[t] = [rec[t] EXCEPT !.state = "rolling_back", !.result = result]
        BY <1>2, <2>1 DEF RollBackFrom
      <3> QED  BY <1>3, <3>1 DEF Receipts
    <2>2. ~Refuse(u)
      BY <1>5 DEF Refuse
    <2>3. ~(RecoverReserved(u) \/ RollBack(u) \/ ResumeRollBack(u))
      BY <1>5, <2>1, <2>2 DEF RecoverReserved, RollBack, ResumeRollBack, Restore
    <2>4. ~(UndoLink(u) \/ CleanStaging(u) \/ CleanTmp(u) \/ RestoreSource(u) \/ RestoreOld(u))
      BY <1>5, <2>2 DEF UndoLink, CleanStaging, CleanTmp, RestoreSource, RestoreOld, Restore
    <2>5. ~(Finalize(u) \/ ResumeFinalize(u))
      <3>1. ~Persist(u, [rec[u] EXCEPT !.state = "finalizing"])
        BY <1>2, <1>4
      <3> QED  BY <1>5, <2>2, <3>1 DEF Finalize, ResumeFinalize
    <2>6. ~DropBackup(u)
      BY <1>5, <2>2 DEF DropBackup
    <2>7. CASE RolledBack(u)
      BY <1>2, <1>4, <2>7 DEF RolledBack
    <2>8. CASE Finalized(u)
      BY <1>2, <1>4, <2>8 DEF Finalized
    <2> QED  BY <1>7, <2>3, <2>4, <2>5, <2>6, <2>7, <2>8 DEF Settle
  <1>8. ASSUME NEW u \in Transactions, Interrupted(u)  PROVE FALSE
    BY <1>5, <1>8 DEF Interrupted
  <1>9. ASSUME NEW p \in Paths, UserActs(p)  PROVE FALSE
    BY <1>5, <1>9 DEF UserActs
  <1>10. ~UNCHANGED vars
    BY <1>5 DEF vars
  <1> QED  BY <1>6, <1>7, <1>8, <1>9, <1>10 DEF Next

\* Every end is reached with the names as EndsStep says.
LEMMA EndsAreExact ==
  ASSUME IInv, HInv, [Next]_vars
  PROVE  EndsStep
  <1> SUFFICES ASSUME NEW t \in Transactions, rec'[t].state # rec[t].state,
                      rec'[t].state \in {"rolled_back", "completed", "finalized"}
               PROVE  /\ rec'[t].state = "rolled_back" =>
                           /\ D(t) = rec[t].old /\ \A n \in PrivateNames(t) : fs[n] = 0
                           /\ IsMove(t) /\ rec[t].state = "rolling_back" => S(t) = rec[t].source
                      /\ rec'[t].state = "completed" =>
                           /\ D(t)[2] = rec[t].source[2] /\ B(t) = rec[t].old
                           /\ IsMove(t) => fs[rec[t].src] = 0 /\ A(t) = rec[t].source
                      /\ rec'[t].state = "finalized" =>
                           D(t) = rec[t].result /\ \A n \in PrivateNames(t) : fs[n] = 0
    BY DEF EndsStep, S, D, A, B
  <1>1. Own(t)
    BY DEF HInv
  <1>2. CASE RolledBack(t) /\ rec'[t].state = "rolled_back"
    <2>1. pc[t] = "rolled_back" /\ rec[t].state # "none"
      BY <1>2, ReceiptIs DEF RolledBack
    <2>2. /\ D(t) = rec[t].old /\ B(t) = NoSnap /\ A(t) = NoSnap /\ fs[Tmp(t)] = 0 /\ fs[Staging(t)] = 0
          /\ IsMove(t) /\ rec[t].state = "rolling_back" => S(t) = rec[t].source
      BY <1>1, <2>1 DEF Own, Exact
    <2>3. fs[Backup(t)] = 0 /\ fs[SourceBackup(t)] = 0
      BY <2>1, <2>2, CellsAre
    <2> QED  BY <1>2, <2>2, <2>3 DEF PrivateNames
  <1>3. CASE Complete(t) /\ rec'[t].state = "completed"
    <2>1. pc[t] = "complete" /\ rec[t].state # "none"
      BY <1>3, ReceiptIs DEF Complete
    <2>2. D(t)[2] = rec[t].source[2] /\ B(t) = rec[t].old /\ S(t) = NoSnap /\ A(t) = rec[t].source
      BY <1>1, <2>1 DEF Own, Exact
    <2> QED  BY <1>3, <2>1, <2>2, CellsAre
  <1>4. CASE Readback(t) /\ ~IsMove(t) /\ rec'[t].state = "completed"
    <2>1. pc[t] = "readback" /\ D(t)[2] = rec[t].source[2]
      BY <1>4 DEF Readback, D
    <2>2. B(t) = rec[t].old
      BY <1>1, <2>1 DEF Own, Exact
    <2> QED  BY <1>4, <2>1, <2>2
  <1>5. CASE Finalized(t) /\ rec'[t].state = "finalized"
    <2>1. pc[t] = "finalized" /\ pc[t] \in Dropping
      BY <1>5 DEF Finalized, Dropping
    <2>2. rec[t].state = "finalizing" /\ rec[t].state # "none"
      BY <2>1 DEF IInv, Phase
    <2>3. D(t) = rec[t].result /\ A(t) = NoSnap /\ B(t) = NoSnap
          /\ fs[Tmp(t)] = 0 /\ fs[Staging(t)] = 0
      BY <1>1, <2>1, <2>2 DEF Own, Exact, Tidy, Late
    <2>4. fs[Backup(t)] = 0 /\ fs[SourceBackup(t)] = 0
      BY <2>2, <2>3, CellsAre
    <2> QED  BY <1>5, <2>3, <2>4 DEF PrivateNames
  <1> QED  BY <1>2, <1>3, <1>4, <1>5, EndsAre

\* What recover finds, and what a command at work has seen to, holds in every
\* state, as long as other programs keep away from locked paths.
THEOREM Findable ==
  ASSUME ~Intrusive
  PROVE  Spec => [](IInv /\ HInv)
  <1>1. Init => HInv
    BY HInit
  <1>2. IInv /\ HInv /\ [Next]_vars => HInv'
    BY HNext
  <1> QED  BY <1>1, <1>2, Inductive, PTL DEF Spec

\* Wherever apply, rollback, finalize or recover was cut off, recover finds
\* its way: a recovery is refused only for a transaction whose paths others
\* have changed, or whose marker was cut short.
THEOREM RecoveryFindsItsWay ==
  ASSUME ~Intrusive
  PROVE  Spec => []RefusedOnlyIfTouched
  <1>1. HInv => RefusedOnlyIfTouched
    BY DEF HInv
  <1> QED  BY <1>1, Findable, PTL

\* A receipt says rolled_back, completed or finalized only when the names are
\* exactly what that says, by whatever way, of crashes and recoveries, the
\* transaction got there.
THEOREM EndsAsStored ==
  ASSUME ~Intrusive
  PROVE  Spec => EndsExact
  <1>1. IInv /\ HInv /\ [Next]_vars => [EndsStep]_vars
    BY EndsAreExact
  <1> QED  BY <1>1, Findable, PTL DEF Spec, EndsExact
=============================================================================
