------------------------- MODULE EventJournalProofs -------------------------
(***************************************************************************)
(* For every capacity, every set of readers and subjects and all bounds:   *)
(* the journal is the end of what was committed, readers miss nothing      *)
(* silently, and the gap error is exact.                                   *)
(***************************************************************************)
EXTENDS EventJournal, TLAPS

\* Epochs that have not started yet have no events.
FutureEmpty == \A e \in Epochs : e > journal.epoch => log[e] = <<>>

\* The inductive invariant: TypeOK makes the sequence operators meaningful,
\* FutureEmpty gives a restarted journal its empty log, and JournalIsSuffix
\* gives NoSilentLoss the contents of each batch.
IInv == TypeOK /\ JournalIsSuffix /\ NoSilentLoss /\ FutureEmpty

-----------------------------------------------------------------------------
\* The effective capacity is a positive number.
LEMMA CapacityPositive == capacity \in Nat /\ capacity >= 1
  BY CapacityAssumption DEF capacity

\* What one commit does to the deque: it keeps the newest envelopes, one slot
\* further to the front when the deque was full, and ends with the new one.
LEMMA CommitFacts ==
  ASSUME NEW T, NEW s \in Seq(T), NEW x \in T, Len(s) <= capacity,
         NEW kept, kept = (IF Len(s) = capacity THEN Tail(s) ELSE s),
         NEW d, d = (IF Len(s) = capacity THEN 1 ELSE 0)
  PROVE  /\ Append(kept, x) \in Seq(T)
         /\ Len(Append(kept, x)) = Len(s) + 1 - d
         /\ Len(Append(kept, x)) <= capacity
         /\ \A i \in 1..(Len(s) - d) : Append(kept, x)[i] = s[i + d]
         /\ Append(kept, x)[Len(s) + 1 - d] = x
  <1>1. CASE Len(s) = capacity
    <2>1. s # <<>> /\ Len(s) \in Nat /\ Len(s) >= 1
      BY <1>1, CapacityPositive
    <2>2. /\ Tail(s) \in Seq(T) /\ Len(Tail(s)) = Len(s) - 1
          /\ \A i \in 1..(Len(s) - 1) : Tail(s)[i] = s[i + 1]
      BY <2>1
    <2> QED  BY <1>1, <2>1, <2>2, CapacityPositive
  <1>2. CASE Len(s) # capacity
    BY <1>2, CapacityPositive
  <1> QED  BY <1>1, <1>2

-----------------------------------------------------------------------------
LEMMA InitIInv == Init => IInv
  <1> SUFFICES ASSUME Init PROVE IInv  OBVIOUS
  <1>1. 1 \in Epochs  BY BoundsAssumption DEF Epochs
  <1>2. TypeOK
    BY <1>1, CapacityPositive
    DEF Init, TypeOK, with_epoch, position, Codes, EventType
  <1>3. JournalIsSuffix
    BY <1>1, CapacityPositive DEF Init, JournalIsSuffix, with_epoch
  <1>4. NoSilentLoss
    BY <1>1 DEF Init, NoSilentLoss, with_epoch, position
  <1>5. FutureEmpty  BY DEF Init, FutureEmpty
  <1> QED  BY <1>2, <1>3, <1>4, <1>5 DEF IInv

\* Committing an event keeps the invariant.
LEMMA CommitIInv ==
  ASSUME IInv, NEW about \in Subjects, Commit(about) PROVE IInv'
  <1> DEFINE e == journal.epoch
             n == journal.sequence
             s == journal.events
             d == IF Len(s) = capacity THEN 1 ELSE 0
             kept == IF Len(s) = capacity THEN Tail(s) ELSE s
             x == Event(e, n + 1, about)
             t == Append(kept, x)
  <1>1. /\ e \in Epochs /\ n \in Nat /\ s \in Seq(EventType)
        /\ Len(s) <= capacity /\ Len(s) \in Nat
        /\ log \in [Epochs -> Seq(Subjects)]
        /\ log[e] \in Seq(Subjects) /\ Len(log[e]) = n
    BY DEF IInv, TypeOK, JournalIsSuffix
  <1>2. x \in EventType /\ x = [epoch |-> e, sequence |-> n + 1, about |-> about]
    BY <1>1 DEF Event, EventType
  <1>3. /\ journal'.epoch = e /\ journal'.sequence = n + 1 /\ journal'.events = t
        /\ log' = [log EXCEPT ![e] = Append(@, about)]
        /\ UNCHANGED <<cursor, status, base, seen>>
    BY DEF Commit, commit
  <1>4. /\ t \in Seq(EventType)
        /\ Len(t) = Len(s) + 1 - d
        /\ Len(t) <= capacity
        /\ \A i \in 1..(Len(s) - d) : t[i] = s[i + d]
        /\ t[Len(s) + 1 - d] = x
    <2> HIDE DEF x
    <2> QED  BY <1>1, <1>2, CommitFacts
  <1>5. /\ log' \in [Epochs -> Seq(Subjects)]
        /\ log'[e] = Append(log[e], about)
        /\ Len(log'[e]) = n + 1
        /\ log'[e][n + 1] = about
        /\ \A i \in 1..n : log'[e][i] = log[e][i]
        /\ \A f \in Epochs : f # e => log'[f] = log[f]
    BY <1>1, <1>3
  <1>a. d \in {0, 1} /\ d <= Len(s) /\ (d = 1 <=> Len(s) = capacity)
    BY <1>1, CapacityPositive
  <1> HIDE DEF t, d
  <1>b. Len(t) \in Nat /\ Len(t) = Len(s) + 1 - d  BY <1>4
  <1>6. TypeOK'
    <2>1. journal'.epoch \in Epochs /\ journal'.sequence \in Nat
      BY <1>1, <1>3
    <2>2. journal'.events \in Seq(EventType) /\ Len(journal'.events) <= capacity
      BY <1>3, <1>4
    <2> QED  BY <2>1, <2>2, <1>3, <1>5 DEF IInv, TypeOK
  <1>7. JournalIsSuffix'
    <2>1. /\ Len(s) = IF n < capacity THEN n ELSE capacity
          /\ \A i \in 1..Len(s) :
               s[i] = Event(e, (n - Len(s)) + i, log[e][(n - Len(s)) + i])
      BY DEF IInv, JournalIsSuffix
    <2>2. Len(t) = IF n + 1 < capacity THEN n + 1 ELSE capacity
      BY <1>1, <1>4, <1>a, <2>1, CapacityPositive
    <2>3. (n + 1) - Len(t) = (n - Len(s)) + d
      <3>1. CASE d = 0  BY <3>1, <1>1, <1>b
      <3>2. CASE d = 1  BY <3>2, <1>1, <1>b
      <3> QED  BY <3>1, <3>2, <1>a
    <2>4. ASSUME NEW i \in 1..Len(t)
          PROVE  t[i] = Event(e, ((n + 1) - Len(t)) + i,
                              log'[e][((n + 1) - Len(t)) + i])
      <3>1. CASE i = Len(t)
        <4>1. ((n + 1) - Len(t)) + i = n + 1  BY <1>1, <1>b, <3>1
        <4>2. t[i] = x  BY <1>1, <1>4, <3>1
        <4> QED  BY <4>1, <4>2, <1>5
      <3>2. CASE i # Len(t)
        <4>1. i \in 1..(Len(s) - d) /\ i + d \in 1..Len(s)
          BY <1>1, <1>4, <1>a, <1>b, <3>2
        <4>2. t[i] = s[i + d]  BY <1>4, <4>1
        <4>3. s[i + d] = Event(e, (n - Len(s)) + (i + d),
                               log[e][(n - Len(s)) + (i + d)])
          BY <2>1, <4>1
        <4>4. /\ (n - Len(s)) + (i + d) = ((n + 1) - Len(t)) + i
              /\ (n - Len(s)) + (i + d) \in 1..n
          <5>1. n >= Len(s)  BY <1>1, <2>1, CapacityPositive
          <5>2. d \in Nat  BY <1>a
          <5>3. i \in Int /\ n \in Int /\ Len(s) \in Int /\ Len(t) \in Int
            BY <1>1, <1>b
          <5>4. (n - Len(s)) + (i + d) = ((n - Len(s)) + d) + i
            BY <5>2, <5>3
          <5>5. (n - Len(s)) + (i + d) \in 1..n
            BY <4>1, <5>1, <5>2, <5>3
          <5> QED  BY <2>3, <5>4, <5>5
        <4> QED  BY <4>2, <4>3, <4>4, <1>5
      <3> QED  BY <3>1, <3>2
    <2> QED  BY <1>3, <1>5, <2>2, <2>4 DEF JournalIsSuffix
  <1>8. NoSilentLoss'
    <2> SUFFICES ASSUME NEW r \in Readers
                 PROVE  /\ cursor[r].sequence = base[r] + Len(seen[r])
                        /\ cursor[r].sequence <= Len(log'[cursor[r].epoch])
                        /\ \A i \in 1..Len(seen[r]) :
                             seen[r][i] = Event(cursor[r].epoch, base[r] + i,
                                                log'[cursor[r].epoch][base[r] + i])
      BY <1>3 DEF NoSilentLoss
    <2>1. /\ cursor[r].sequence = base[r] + Len(seen[r])
          /\ cursor[r].sequence <= Len(log[cursor[r].epoch])
          /\ \A i \in 1..Len(seen[r]) :
               seen[r][i] = Event(cursor[r].epoch, base[r] + i,
                                  log[cursor[r].epoch][base[r] + i])
      BY DEF IInv, NoSilentLoss
    <2>2. /\ cursor[r].epoch \in Epochs /\ base[r] \in Nat
          /\ seen[r] \in Seq(EventType) /\ Len(seen[r]) \in Nat
      BY DEF IInv, TypeOK
    <2>3. CASE cursor[r].epoch # e
      BY <2>1, <2>2, <2>3, <1>5
    <2>4. CASE cursor[r].epoch = e
      <3>1. \A i \in 1..Len(seen[r]) : base[r] + i \in 1..n
        BY <2>1, <2>2, <2>4, <1>1
      <3> QED  BY <3>1, <2>1, <2>2, <2>4, <1>1, <1>5
    <2> QED  BY <2>3, <2>4
  <1>9. FutureEmpty'
    <2>1. \A f \in Epochs : f > e => f # e  BY <1>1, BoundsAssumption DEF Epochs
    <2>2. \A f \in Epochs : f > e => log[f] = <<>>
      BY DEF IInv, FutureEmpty
    <2> QED  BY <1>3, <1>5, <2>1, <2>2 DEF FutureEmpty
  <1> QED  BY <1>6, <1>7, <1>8, <1>9 DEF IInv

\* What a read returns when it is not refused: the committed events right after
\* `after`, at least one if there is any, at most `limit`.
LEMMA TakeFacts ==
  ASSUME TypeOK, JournalIsSuffix,
         NEW after \in Nat, after <= journal.sequence,
         journal.events # <<>> => after + 1 >= journal.events[1].sequence,
         NEW limit \in Nat \ {0},
         NEW g, g = TakeLater(journal, after, limit)
  PROVE  /\ g \in Seq(EventType)
         /\ Len(g) <= limit
         /\ after + Len(g) <= journal.sequence
         /\ after < journal.sequence => Len(g) >= 1
         /\ \A i \in 1..Len(g) :
              g[i] = Event(journal.epoch, after + i, log[journal.epoch][after + i])
  <1> DEFINE s == journal.events
             n == Len(s)
             f == journal.sequence - n
  <1>1. /\ journal.sequence \in Nat /\ s \in Seq(EventType) /\ n \in Nat
        /\ n = IF journal.sequence < capacity THEN journal.sequence ELSE capacity
        /\ \A i \in 1..n : s[i] = Event(journal.epoch, f + i, log[journal.epoch][f + i])
    <2>1. journal.sequence \in Nat /\ s \in Seq(EventType)  BY DEF TypeOK
    <2>2. n \in Nat  BY <2>1
    <2>3. /\ n = IF journal.sequence < capacity THEN journal.sequence ELSE capacity
          /\ \A i \in 1..n :
               s[i] = Event(journal.epoch, f + i, log[journal.epoch][f + i])
      BY Zenon DEF JournalIsSuffix
    <2> QED  BY <2>1, <2>2, <2>3, Zenon
  <1>2. f \in Nat /\ (n = 0 => journal.sequence = 0) /\ journal.sequence = f + n
    BY <1>1, CapacityPositive
  <1>3. ASSUME NEW i \in 1..n PROVE s[i].sequence = f + i
    <2>1. s[i] = [epoch |-> journal.epoch, sequence |-> f + i,
                  about |-> log[journal.epoch][f + i]]
      BY <1>1 DEF Event
    <2> HIDE DEF s, f
    <2> QED  BY <2>1
  <1>4. after >= f
    <2>1. CASE n = 0  BY <2>1, <1>1, <1>2
    <2>2. CASE n # 0
      <3>1. s # <<>> /\ 1 \in 1..n  BY <2>2, <1>1
      <3>2. s[1].sequence = f + 1  BY <3>1, <1>3
      <3> QED  BY <3>1, <3>2, <1>2
    <2> QED  BY <2>1, <2>2
  <1>5. Later(journal, after) = {i \in 1..n : f + i > after}
    BY <1>3 DEF Later
  <1> HIDE DEF n, f
  <1>6. CASE after = journal.sequence
    <2>1. \A i \in 1..n : ~(f + i > after)
      BY <1>1, <1>2, <1>6
    <2>2. Later(journal, after) = {}
      BY <2>1, <1>5
    <2>3. g = <<>>  BY <2>2 DEF TakeLater
    <2> QED  BY <2>3, <1>6
  <1>7. CASE after < journal.sequence
    <2> DEFINE first == (after - f) + 1
               last == IF first + limit - 1 < n THEN first + limit - 1 ELSE n
    <2>1. first \in 1..n /\ f + first = after + 1
      BY <1>1, <1>2, <1>4, <1>7
    <2>2. last \in first..n /\ last <= first + limit - 1
      <3> HIDE DEF first
      <3>1. first \in Nat /\ first <= n /\ n \in Nat  BY <1>1, <2>1
      <3> QED  BY <3>1
    <2> HIDE DEF first, last
    <2>3. first \in Later(journal, after)  BY <1>2, <2>1, <1>5
    <2>4. \A k \in Later(journal, after) : first <= k
      BY <1>1, <1>2, <1>5, <2>1
    <2>5. FirstLater(journal, after) = first
      <3>1. \A i \in Later(journal, after) :
              (\A k \in Later(journal, after) : i <= k) => i = first
        <4>1. Later(journal, after) \subseteq Int /\ first \in Int
          BY <1>5, <2>1, <1>1
        <4> QED  BY <2>4, <2>3, <4>1
      <3> QED  BY <2>4, <2>3, <3>1 DEF FirstLater, Min
    <2>6. g = SubSeq(s, first, last)
      <3>1. (IF limit = 0 THEN 1 ELSE limit) = limit  OBVIOUS
      <3>2. Len(journal.events) = n  BY DEF n
      <3>3. last = IF first + limit - 1 < n THEN first + limit - 1 ELSE n
        BY DEF last
      <3>4. Later(journal, after) # {}  BY <2>3
      <3>5. g = SubSeq(journal.events, first,
                       IF first + limit - 1 < Len(journal.events)
                       THEN first + limit - 1 ELSE Len(journal.events))
        BY <2>5, <3>1, <3>4 DEF TakeLater
      <3> QED  BY <3>2, <3>3, <3>5
    <2>7. /\ g \in Seq(EventType) /\ Len(g) = last - first + 1
          /\ \A i \in 1..Len(g) : g[i] = s[first + i - 1]
      <3>1. Len(s) = n  BY DEF n
      <3> HIDE DEF s
      <3> QED  BY <1>1, <2>1, <2>2, <2>6, <3>1
    <2>8. /\ Len(g) \in Nat /\ Len(g) >= 1 /\ Len(g) <= limit
          /\ after + Len(g) <= journal.sequence
      BY <1>1, <1>2, <2>1, <2>2, <2>7
    <2>9. ASSUME NEW i \in 1..Len(g)
          PROVE  g[i] = Event(journal.epoch, after + i,
                              log[journal.epoch][after + i])
      <3>1. first + i - 1 \in 1..n /\ f + (first + i - 1) = after + i
        BY <1>1, <1>2, <2>1, <2>2, <2>7
      <3>2. g[i] = s[first + i - 1]  BY <2>7
      <3> QED  BY <1>1, <3>1, <3>2
    <2> QED  BY <2>7, <2>8, <2>9
  <1> QED  BY <1>6, <1>7, <1>1

\* A restarted server begins an empty epoch; readers keep their old cursors.
LEMMA RestartIInv == ASSUME IInv, Restart PROVE IInv'
  <1>1. /\ journal'.epoch = journal.epoch + 1 /\ journal'.sequence = 0
        /\ journal'.events = <<>>
        /\ UNCHANGED <<log, cursor, status, base, seen>>
    BY DEF Restart, with_epoch
  <1>2. /\ journal.epoch \in Epochs /\ journal.epoch + 1 \in Epochs
        /\ journal.epoch + 1 > journal.epoch
    BY BoundsAssumption DEF IInv, TypeOK, Restart, Epochs
  <1>3. log[journal.epoch + 1] = <<>>
    BY <1>2 DEF IInv, FutureEmpty
  <1>4. TypeOK'
    BY <1>1, <1>2, CapacityPositive DEF IInv, TypeOK
  <1>5. JournalIsSuffix'
    BY <1>1, <1>3, CapacityPositive DEF JournalIsSuffix
  <1>6. NoSilentLoss'
    BY <1>1 DEF IInv, NoSilentLoss
  <1>7. FutureEmpty'
    <2>1. \A e \in Epochs : e > journal.epoch + 1 => e > journal.epoch
      BY <1>2, BoundsAssumption DEF Epochs
    <2> QED  BY <1>1, <2>1 DEF IInv, FutureEmpty
  <1> QED  BY <1>4, <1>5, <1>6, <1>7 DEF IInv

\* A reader that starts over has received nothing since its new baseline.
LEMMA BaselineIInv == ASSUME IInv, NEW r \in Readers, Baseline(r) PROVE IInv'
  <1>1. /\ UNCHANGED <<journal, log>>
        /\ cursor' = [cursor EXCEPT ![r] = [epoch |-> journal.epoch,
                                           sequence |-> journal.sequence]]
        /\ status' = [status EXCEPT ![r] = "ok"]
        /\ base' = [base EXCEPT ![r] = journal.sequence]
        /\ seen' = [seen EXCEPT ![r] = <<>>]
    BY DEF Baseline, position
  <1>2. TypeOK
    BY DEF IInv
  <1>3. TypeOK'
    BY <1>1, <1>2 DEF TypeOK, Codes
  <1>4. JournalIsSuffix' /\ FutureEmpty'
    BY <1>1 DEF IInv, JournalIsSuffix, FutureEmpty
  <1>5. ASSUME NEW q \in Readers
        PROVE  /\ cursor'[q].sequence = base'[q] + Len(seen'[q])
               /\ cursor'[q].sequence <= Len(log[cursor'[q].epoch])
               /\ \A i \in 1..Len(seen'[q]) :
                    seen'[q][i] = Event(cursor'[q].epoch, base'[q] + i,
                                        log[cursor'[q].epoch][base'[q] + i])
    <2>1. CASE q # r
      BY <1>1, <1>2, <2>1 DEF IInv, NoSilentLoss, TypeOK
    <2>2. CASE q = r
      <3>1. cursor'[q] = [epoch |-> journal.epoch, sequence |-> journal.sequence]
        BY <1>1, <1>2, <2>2 DEF TypeOK
      <3>2. base'[q] = journal.sequence /\ seen'[q] = <<>>
        BY <1>1, <1>2, <2>2 DEF TypeOK
      <3>3. journal.sequence \in Nat /\ Len(log[journal.epoch]) = journal.sequence
        BY <1>2 DEF IInv, TypeOK, JournalIsSuffix
      <3> QED  BY <3>1, <3>2, <3>3
    <2> QED  BY <2>1, <2>2
  <1>6. NoSilentLoss'
    BY <1>1, <1>5 DEF NoSilentLoss
  <1> QED  BY <1>3, <1>4, <1>6 DEF IInv

\* The shape of an answer: refused and empty, or the events after the cursor.
\* A position the server gave out is never in the future.
LEMMA AnswerFacts ==
  ASSUME IInv, NEW r \in Readers, NEW limit \in Nat \ {0},
         NEW a, a = read_after(journal, cursor[r].epoch, cursor[r].sequence, limit)
  PROVE  /\ a.code \in Codes /\ a.code # "future_sequence"
         /\ a.events \in Seq(EventType)
         /\ cursor[r].sequence + Len(a.events) <= Len(log[cursor[r].epoch])
         /\ \A i \in 1..Len(a.events) :
              a.events[i] = Event(cursor[r].epoch, cursor[r].sequence + i,
                                  log[cursor[r].epoch][cursor[r].sequence + i])
  <1> DEFINE after == cursor[r].sequence
  <1>1. /\ after \in Nat /\ after <= Len(log[cursor[r].epoch])
        /\ journal.sequence \in Nat /\ Len(log[journal.epoch]) = journal.sequence
    BY DEF IInv, TypeOK, NoSilentLoss, JournalIsSuffix
  <1>2. CASE cursor[r].epoch # journal.epoch
    <2>1. a = [code |-> "server_restart", events |-> <<>>]
      BY <1>2 DEF read_after, Failure
    <2> QED  BY <2>1, <1>1 DEF Codes
  <1>3. CASE cursor[r].epoch = journal.epoch
    <2>1. ~(after > journal.sequence)  BY <1>1, <1>3
    <2>2. CASE journal.events # <<>> /\ after + 1 < journal.events[1].sequence
      <3>1. a = [code |-> "journal_gap", events |-> <<>>]
        BY <1>3, <2>1, <2>2 DEF read_after, Failure
      <3> QED  BY <3>1, <1>1 DEF Codes
    <2>3. CASE ~(journal.events # <<>> /\ after + 1 < journal.events[1].sequence)
      <3>1. a = [code |-> "ok", events |-> TakeLater(journal, after, limit)]
        BY <1>3, <2>1, <2>3 DEF read_after
      <3>2. journal.events # <<>> => after + 1 >= journal.events[1].sequence
        <4>1. ASSUME journal.events # <<>>
              PROVE  journal.events[1].sequence \in Nat
          <5>1. journal.events \in Seq(EventType)  BY DEF IInv, TypeOK
          <5>2. journal.events[1] \in EventType  BY <5>1, <4>1
          <5> QED  BY <5>2 DEF EventType
        <4> QED  BY <4>1, <2>3, <1>1
      <3>3. after <= journal.sequence  BY <2>1, <1>1
      <3> DEFINE g == TakeLater(journal, after, limit)
      <3>4. /\ g \in Seq(EventType)
            /\ after + Len(g) <= journal.sequence
            /\ \A i \in 1..Len(g) :
                 g[i] = Event(journal.epoch, after + i, log[journal.epoch][after + i])
        <4> HIDE DEF g
        <4>1. g = TakeLater(journal, after, limit)  BY DEF g
        <4>2. TypeOK /\ JournalIsSuffix  BY DEF IInv
        <4>3. after \in Nat  BY <1>1
        <4> HIDE DEF after
        <4> QED  BY <3>2, <3>3, <4>1, <4>2, <4>3, TakeFacts, Zenon
      <3>5. a.events = g /\ a.code = "ok"  BY <3>1
      <3> HIDE DEF g
      <3> QED  BY <3>4, <3>5, <1>1, <1>3 DEF Codes
    <2> QED  BY <2>2, <2>3
  <1> QED  BY <1>2, <1>3

\* A read extends what the reader saw by the next committed events.
LEMMA ReadIInv ==
  ASSUME IInv, NEW r \in Readers, NEW limit \in Limits, Read(r, limit)
  PROVE  IInv'
  <1> DEFINE a == read_after(journal, cursor[r].epoch, cursor[r].sequence, limit)
             got == a.events
             c == cursor[r]
  <1>1. /\ status' = [status EXCEPT ![r] = a.code]
        /\ seen' = [seen EXCEPT ![r] = @ \o got]
        /\ cursor' = [cursor EXCEPT ![r].sequence =
                        IF got = <<>> THEN @ ELSE got[Len(got)].sequence]
        /\ UNCHANGED <<journal, log, base>>
    BY DEF Read
  <1>2. /\ a.code \in Codes
        /\ got \in Seq(EventType)
        /\ c.sequence + Len(got) <= Len(log[c.epoch])
        /\ \A i \in 1..Len(got) :
             got[i] = Event(c.epoch, c.sequence + i, log[c.epoch][c.sequence + i])
    <2>1. limit \in Nat \ {0}  BY BoundsAssumption
    <2> HIDE DEF a
    <2>2. a = read_after(journal, cursor[r].epoch, cursor[r].sequence, limit)
      BY DEF a
    <2> QED  BY <2>1, <2>2, AnswerFacts
  <1> HIDE DEF a
  <1>3. /\ c \in [epoch : Epochs, sequence : Nat]
        /\ base[r] \in Nat /\ seen[r] \in Seq(EventType)
        /\ c.sequence = base[r] + Len(seen[r])
        /\ \A i \in 1..Len(seen[r]) :
             seen[r][i] = Event(c.epoch, base[r] + i, log[c.epoch][base[r] + i])
    BY DEF IInv, TypeOK, NoSilentLoss
  <1> HIDE DEF got
  <1>4. /\ cursor' \in [Readers -> [epoch : Epochs, sequence : Nat]]
        /\ cursor'[r].epoch = c.epoch
        /\ cursor'[r].sequence = c.sequence + Len(got)
        /\ \A q \in Readers : q # r => cursor'[q] = cursor[q]
    <2>1. (IF got = <<>> THEN c.sequence ELSE got[Len(got)].sequence)
            = c.sequence + Len(got)
      <3>1. CASE got = <<>>  BY <3>1, <1>3
      <3>2. CASE got # <<>>
        <4>1. Len(got) \in 1..Len(got)  BY <3>2, <1>2
        <4>2. got[Len(got)] = Event(c.epoch, c.sequence + Len(got),
                                    log[c.epoch][c.sequence + Len(got)])
          BY <4>1, <1>2
        <4> QED  BY <3>2, <4>2 DEF Event
      <3> QED  BY <3>1, <3>2
    <2> DEFINE v == c.sequence + Len(got)
    <2>2. cursor \in [Readers -> [epoch : Epochs, sequence : Nat]]
      BY DEF IInv, TypeOK
    <2>3. v \in Nat /\ c.epoch \in Epochs
      BY <1>2, <1>3
    <2>4. cursor' = [cursor EXCEPT ![r] = [c EXCEPT !.sequence = v]]
      BY <1>1, <2>1, Zenon
    <2> HIDE DEF v
    <2>5. /\ [c EXCEPT !.sequence = v] \in [epoch : Epochs, sequence : Nat]
          /\ [c EXCEPT !.sequence = v].epoch = c.epoch
          /\ [c EXCEPT !.sequence = v].sequence = v
      BY <1>3, <2>3
    <2>6. cursor'[r] = [c EXCEPT !.sequence = v]
      BY <2>2, <2>4
    <2>7. /\ cursor' \in [Readers -> [epoch : Epochs, sequence : Nat]]
          /\ \A q \in Readers : q # r => cursor'[q] = cursor[q]
      BY <2>2, <2>4, <2>5
    <2>8. v = c.sequence + Len(got)  BY DEF v
    <2> QED  BY <2>5, <2>6, <2>7, <2>8
  <1>5. /\ seen' \in [Readers -> Seq(EventType)]
        /\ seen'[r] = seen[r] \o got
        /\ \A q \in Readers : q # r => seen'[q] = seen[q]
    <2>1. seen \in [Readers -> Seq(EventType)]  BY DEF IInv, TypeOK
    <2>2. seen[r] \o got \in Seq(EventType)  BY <1>2, <1>3
    <2>3. seen' = [seen EXCEPT ![r] = seen[r] \o got]  BY <1>1
    <2> DEFINE w == seen[r] \o got
    <2> HIDE DEF w
    <2>4. w \in Seq(EventType) /\ seen' = [seen EXCEPT ![r] = w]
      BY <2>2, <2>3 DEF w
    <2>5. /\ seen' \in [Readers -> Seq(EventType)] /\ seen'[r] = w
          /\ \A q \in Readers : q # r => seen'[q] = seen[q]
      BY <2>1, <2>4
    <2> QED  BY <2>5 DEF w
  <1>6. TypeOK'
    BY <1>1, <1>2, <1>4, <1>5 DEF IInv, TypeOK
  <1>7. JournalIsSuffix' /\ FutureEmpty'
    BY <1>1 DEF IInv, JournalIsSuffix, FutureEmpty
  <1>8. ASSUME NEW q \in Readers
        PROVE  /\ cursor'[q].sequence = base[q] + Len(seen'[q])
               /\ cursor'[q].sequence <= Len(log[cursor'[q].epoch])
               /\ \A i \in 1..Len(seen'[q]) :
                    seen'[q][i] = Event(cursor'[q].epoch, base[q] + i,
                                        log[cursor'[q].epoch][base[q] + i])
    <2>1. CASE q # r
      BY <1>4, <1>5, <2>1 DEF IInv, NoSilentLoss
    <2>2. CASE q = r
      <3>1. /\ Len(seen[r] \o got) = Len(seen[r]) + Len(got)
            /\ Len(seen[r]) \in Nat /\ Len(got) \in Nat
            /\ \A i \in 1..(Len(seen[r]) + Len(got)) :
                 (seen[r] \o got)[i] = IF i <= Len(seen[r]) THEN seen[r][i]
                                       ELSE got[i - Len(seen[r])]
        BY <1>2, <1>3
      <3>2. ASSUME NEW i \in 1..(Len(seen[r]) + Len(got))
            PROVE  (seen[r] \o got)[i] = Event(c.epoch, base[r] + i,
                                               log[c.epoch][base[r] + i])
        <4>1. CASE i <= Len(seen[r])
          BY <3>1, <4>1, <1>3
        <4>2. CASE ~(i <= Len(seen[r]))
          <5>1. /\ i - Len(seen[r]) \in 1..Len(got)
                /\ c.sequence + (i - Len(seen[r])) = base[r] + i
            BY <3>1, <4>2, <1>3
          <5>2. got[i - Len(seen[r])]
                  = Event(c.epoch, c.sequence + (i - Len(seen[r])),
                          log[c.epoch][c.sequence + (i - Len(seen[r]))])
            BY <5>1, <1>2
          <5> QED  BY <3>1, <4>2, <5>1, <5>2
        <4> QED  BY <4>1, <4>2
      <3>3. c.sequence + Len(got) = base[r] + (Len(seen[r]) + Len(got))
        BY <1>3, <3>1
      <3> QED  BY <2>2, <1>2, <1>4, <1>5, <3>1, <3>2, <3>3
    <2> QED  BY <2>1, <2>2
  <1>9. NoSilentLoss'
    BY <1>1, <1>8 DEF NoSilentLoss
  <1> QED  BY <1>6, <1>7, <1>9 DEF IInv

LEMMA NextIInv == IInv /\ [Next]_vars => IInv'
  <1> SUFFICES ASSUME IInv, [Next]_vars PROVE IInv'  OBVIOUS
  <1>1. CASE \E about \in Subjects : Commit(about)  BY <1>1, CommitIInv
  <1>2. CASE Restart  BY <1>2, RestartIInv
  <1>3. CASE \E r \in Readers : Baseline(r)  BY <1>3, BaselineIInv
  <1>4. CASE \E r \in Readers, limit \in Limits : Read(r, limit)
    BY <1>4, ReadIInv
  <1>5. CASE UNCHANGED vars
    BY <1>5 DEF vars, IInv, TypeOK, JournalIsSuffix, NoSilentLoss, FutureEmpty
  <1> QED  BY <1>1, <1>2, <1>3, <1>4, <1>5 DEF Next

-----------------------------------------------------------------------------
\* Every reachable state of EventJournal satisfies the inductive invariant.
THEOREM Inductive == Spec => []IInv
  BY InitIInv, NextIInv, PTL DEF Spec

\* Types, and the deque never holds more than its capacity.
THEOREM TypeCorrect == Spec => []TypeOK
  <1>1. IInv => TypeOK  BY DEF IInv
  <1> QED  BY <1>1, Inductive, PTL

\* The retained events are the contiguous end of what was committed.
THEOREM RetainedSuffix == Spec => []JournalIsSuffix
  <1>1. IInv => JournalIsSuffix  BY DEF IInv
  <1> QED  BY <1>1, Inductive, PTL

\* No reader loses, repeats or reorders an event between two baselines.
THEOREM ReadersMissNothing == Spec => []NoSilentLoss
  <1>1. IInv => NoSilentLoss  BY DEF IInv
  <1> QED  BY <1>1, Inductive, PTL

\* The gap error is exact: read_after refuses a position of the current epoch
\* exactly when the next event is no longer retained.
THEOREM GapIsExact == Spec => []RefusedOnlyWhenLost
  <1>1. IInv => RefusedOnlyWhenLost
    <2> SUFFICES ASSUME IInv, NEW m \in 0..journal.sequence
                 PROVE  LET answer == read_after(journal, journal.epoch, m, 1)
                            held == \E i \in 1..Len(journal.events) :
                                      journal.events[i].sequence = m + 1
                        IN  /\ answer.code = "ok" <=> (m = journal.sequence \/ held)
                            /\ held => /\ Len(answer.events) = 1
                                       /\ answer.events[1].sequence = m + 1
      BY DEF RefusedOnlyWhenLost
    <2> DEFINE s == journal.events
               n == Len(s)
               f == journal.sequence - n
               held == \E i \in 1..n : s[i].sequence = m + 1
               answer == read_after(journal, journal.epoch, m, 1)
    <2>1. /\ TypeOK /\ JournalIsSuffix
          /\ journal.sequence \in Nat /\ m \in Nat /\ s \in Seq(EventType)
          /\ m <= journal.sequence /\ ~(m > journal.sequence)
      BY DEF IInv, TypeOK
    <2>2. /\ n \in Nat /\ f \in Nat /\ journal.sequence = f + n
          /\ (n = 0 => journal.sequence = 0)
      <3>1. n = IF journal.sequence < capacity THEN journal.sequence ELSE capacity
        BY <2>1 DEF JournalIsSuffix
      <3>2. n \in Nat  BY <2>1
      <3> HIDE DEF n
      <3>3. n <= journal.sequence /\ (n = 0 => journal.sequence = 0)
        BY <2>1, <3>1, <3>2, CapacityPositive
      <3> QED  BY <2>1, <3>2, <3>3
    <2>3. ASSUME NEW i \in 1..n PROVE s[i].sequence = f + i
      <3>1. s[i] = [epoch |-> journal.epoch, sequence |-> f + i,
                    about |-> log[journal.epoch][f + i]]
        BY <2>1 DEF JournalIsSuffix, Event
      <3> HIDE DEF s, f
      <3> QED  BY <3>1
    <2>4. s # <<>> <=> n # 0  BY <2>1
    <2> HIDE DEF n, f
    <2>5. held <=> (m >= f /\ m < journal.sequence)
      <3>1. ASSUME held PROVE m >= f /\ m < journal.sequence
        BY <2>1, <2>2, <2>3, <3>1
      <3>2. ASSUME m >= f, m < journal.sequence PROVE held
        <4>1. (m - f) + 1 \in 1..n /\ f + ((m - f) + 1) = m + 1
          BY <2>1, <2>2, <3>2
        <4> QED  BY <2>3, <4>1
      <3> QED  BY <3>1, <3>2
    <2>6. CASE m < f
      <3>1. n # 0 /\ s # <<>> /\ 1 \in 1..n  BY <2>1, <2>2, <2>4, <2>6
      <3>2. s[1].sequence = f + 1  BY <2>3, <3>1
      <3>3. m + 1 < s[1].sequence  BY <2>1, <2>2, <2>6, <3>2
      <3>4. answer.code = "journal_gap"
        BY <2>1, <3>1, <3>3 DEF read_after, Failure
      <3>5. ~held /\ m # journal.sequence  BY <2>1, <2>2, <2>5, <2>6
      <3> QED  BY <3>4, <3>5 DEF n
    <2>7. CASE m >= f
      <3>1. journal.events # <<>> => m + 1 >= journal.events[1].sequence
        <4>1. ASSUME s # <<>> PROVE m + 1 >= s[1].sequence
          <5>1. 1 \in 1..n  BY <2>2, <2>4, <4>1
          <5>2. s[1].sequence = f + 1  BY <2>3, <5>1
          <5> QED  BY <5>2, <2>1, <2>2, <2>7
        <4> QED  BY <4>1
      <3>2. ~(s # <<>> /\ m + 1 < s[1].sequence)
        <4>1. ASSUME s # <<>> PROVE ~(m + 1 < s[1].sequence)
          <5>1. 1 \in 1..n  BY <2>2, <2>4, <4>1
          <5>2. s[1].sequence = f + 1  BY <2>3, <5>1
          <5> QED  BY <5>2, <2>1, <2>2, <2>7
        <4> QED  BY <4>1
      <3> DEFINE g == TakeLater(journal, m, 1)
      <3>3. answer = [code |-> "ok", events |-> g]
        BY <2>1, <3>2 DEF read_after
      <3>4. /\ g \in Seq(EventType) /\ Len(g) <= 1
            /\ (m < journal.sequence => Len(g) >= 1)
            /\ \A i \in 1..Len(g) :
                 g[i] = Event(journal.epoch, m + i, log[journal.epoch][m + i])
        <4> HIDE DEF g
        <4>1. g = TakeLater(journal, m, 1)  BY DEF g
        <4>2. 1 \in Nat \ {0}  OBVIOUS
        <4>3. TypeOK  BY <2>1
        <4>4. JournalIsSuffix  BY <2>1
        <4>5. m \in Nat /\ m <= journal.sequence  BY <2>1
        <4> QED  BY <3>1, <4>1, <4>2, <4>3, <4>4, <4>5, TakeFacts, Zenon
      <3> HIDE DEF g
      <3>5. ASSUME held PROVE Len(g) = 1 /\ g[1].sequence = m + 1
        <4>1. Len(g) \in Nat  BY <3>4
        <4>2. Len(g) = 1
          <5>1. m < journal.sequence  BY <3>5, <2>5
          <5>2. Len(g) <= 1 /\ Len(g) >= 1  BY <3>4, <5>1
          <5>3. \A x \in Nat : x <= 1 /\ x >= 1 => x = 1  OBVIOUS
          <5> QED  BY <5>2, <5>3, <4>1, Zenon
        <4>3. g[1] = Event(journal.epoch, m + 1, log[journal.epoch][m + 1])
          BY <3>4, <4>2
        <4> QED  BY <4>2, <4>3 DEF Event
      <3>6. m = journal.sequence \/ held
        BY <2>1, <2>2, <2>5, <2>7
      <3> QED  BY <3>3, <3>5, <3>6 DEF n
    <2> QED  BY <2>1, <2>2, <2>6, <2>7
  <1> QED  BY <1>1, Inductive, PTL

\* A reader that uses the server's own positions never sees future_sequence.
THEOREM ReadersNeverFuture == Spec => []NeverFuture
  <1>1. Init => NeverFuture  BY DEF Init, NeverFuture
  <1>2. ASSUME IInv, NeverFuture, [Next]_vars PROVE NeverFuture'
    <2>1. CASE \E r \in Readers, limit \in Limits : Read(r, limit)
      <3>1. PICK r \in Readers, limit \in Limits : Read(r, limit)  BY <2>1
      <3>2. limit \in Nat \ {0}  BY BoundsAssumption
      <3> DEFINE a == read_after(journal, cursor[r].epoch, cursor[r].sequence, limit)
      <3>3. status' = [status EXCEPT ![r] = a.code]  BY <3>1 DEF Read
      <3>4. a.code # "future_sequence"
        <4> HIDE DEF a
        <4>1. a = read_after(journal, cursor[r].epoch, cursor[r].sequence, limit)
          BY DEF a
        <4> QED  BY <1>2, <3>2, <4>1, AnswerFacts
      <3> HIDE DEF a
      <3> QED  BY <1>2, <3>3, <3>4 DEF NeverFuture, IInv, TypeOK
    <2>2. CASE \E r \in Readers : Baseline(r)
      BY <1>2, <2>2 DEF Baseline, NeverFuture, IInv, TypeOK
    <2>3. CASE UNCHANGED status
      BY <1>2, <2>3 DEF NeverFuture
    <2> QED  BY <1>2, <2>1, <2>2, <2>3 DEF Next, Commit, Restart, vars
  <1> QED  BY <1>1, <1>2, Inductive, PTL DEF Spec
=============================================================================
