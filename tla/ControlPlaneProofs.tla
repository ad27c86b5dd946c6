------------------------- MODULE ControlPlaneProofs -------------------------
(***************************************************************************)
(* For any window capacity, any requests and any tabs: a control request   *)
(* runs once while its receipt is retained, its clients hear one outcome,  *)
(* a waiting submission keeps its receipt, and a committed one was entered.*)
(***************************************************************************)
EXTENDS ControlPlane, SequenceTheorems, WellFoundedInduction, TLAPS

Entry == [id : STRING, key : Ops \X Tabs, outcome : Outcomes, finalized : BOOLEAN]

Tab == [state : {"unborn", "open", "closed"}, writable : BOOLEAN, draft : BOOLEAN,
        submitting : BOOLEAN, author : Requests \cup {NoRequest}]

\* What a client may be told about a request.
Says == Outcomes \cup {"request_id_conflict", "request_deadline_expired",
                       "replay_window_saturated"}

TypeOK ==
  /\ now \in Nat
  /\ tabs \in [Tabs -> Tab]
  /\ window \in Seq(Entry)
  /\ pending \in [Tabs -> Requests \cup {NoRequest}]
  /\ runs \in [Calls -> Nat]
  /\ told \in [Calls -> SUBSET Says]
  /\ effect \in [Calls -> {"none", "written", "entered"}]

\* A window within its capacity, with one entry per id; a receipt is final
\* when it says more than "accepted".
Sound(w) ==
  /\ w \in Seq(Entry)
  /\ Len(w) <= window_capacity
  /\ \A i, j \in 1..Len(w) : w[i].id = w[j].id => i = j
  /\ \A i \in 1..Len(w) : w[i].finalized <=> w[i].outcome # "accepted"

CallOf(entry) == <<entry.id, entry.key>>

\* The entry that makes room: the oldest final one of a full window.
Evictable(w, j) ==
  /\ w[j].finalized /\ Len(w) = window_capacity
  /\ \A h \in 1..j - 1 : ~w[h].finalized

\* v is w without at most its evictable entry, and with e, of a new id, at the end.
Extended(w, v, e) ==
  /\ Len(v) # 0 /\ v[Len(v)] = e
  /\ \A j \in 1..Len(w) : w[j].id # e.id
  /\ \A i \in 1..Len(v) - 1 : \E j \in 1..Len(w) : v[i] = w[j]
  /\ \A j \in 1..Len(w) : ~Evictable(w, j) => \E i \in 1..Len(v) - 1 : v[i] = w[j]

\* Calls that have an entry in w and whose id has none in v.
Dropped(w, v) ==
  {k \in Calls : /\ \E j \in 1..Len(w) : CallOf(w[j]) = k
                 /\ ~\E i \in 1..Len(v) : v[i].id = k[1]}

-----------------------------------------------------------------------------
(* Sequences and the window.                                               *)

\* Min of a set of positions is one of them, and none is before it.
LEMMA MinIn ==
  ASSUME NEW T, T \subseteq Nat, T # {}
  PROVE  Min(T) \in T /\ \A y \in T : Min(T) =< y
  <1>1. \E x \in T : \A y \in T : ~(<<y, x>> \in OpToRel(<, Nat))
    BY NatLessThanWellFounded, WFMin
  <1>2. \E x \in T : \A y \in T : x =< y
    <2>1. PICK x \in T : \A y \in T : ~(<<y, x>> \in OpToRel(<, Nat))
      BY <1>1
    <2>2. ASSUME NEW y \in T  PROVE x =< y
      <3>1. ~(y < x)
        BY <2>1 DEF OpToRel
      <3> QED  BY <3>1
    <2> QED  BY <2>2
  <1> QED  BY <1>2 DEF Min

LEMMA MinOne ==
  ASSUME NEW x \in Nat
  PROVE  Min({x}) = x
  BY MinIn

\* RemoveAt takes out one element and keeps the order of the others.
LEMMA Removed ==
  ASSUME NEW S, NEW s \in Seq(S), NEW i \in 1..Len(s)
  PROVE  /\ RemoveAt(s, i) \in Seq(S)
         /\ Len(RemoveAt(s, i)) = Len(s) - 1
         /\ \A j \in 1..Len(s) - 1 :
              RemoveAt(s, i)[j] = IF j < i THEN s[j] ELSE s[j + 1]
  <1> DEFINE a == SubSeq(s, 1, i - 1)
             b == SubSeq(s, i + 1, Len(s))
  <1>1. a \in Seq(S) /\ Len(a) = i - 1 /\ \A j \in 1..i - 1 : a[j] = s[j]
    OBVIOUS
  <1>2. /\ b \in Seq(S) /\ Len(b) = Len(s) - i
        /\ \A j \in 1..Len(s) - i : b[j] = s[i + j]
    OBVIOUS
  <1>3. RemoveAt(s, i) = a \o b
    BY DEF RemoveAt
  <1> HIDE DEF a, b
  <1>4. /\ a \o b \in Seq(S) /\ Len(a \o b) = Len(a) + Len(b)
        /\ \A j \in 1..Len(a) + Len(b) :
             (a \o b)[j] = IF j <= Len(a) THEN a[j] ELSE b[j - Len(a)]
    BY <1>1, <1>2, ConcatProperties
  <1>0. Len(s) \in Nat /\ i \in Nat /\ Len(a) + Len(b) = Len(s) - 1
    BY <1>1, <1>2
  <1>5. ASSUME NEW j \in 1..Len(s) - 1
        PROVE  (a \o b)[j] = IF j < i THEN s[j] ELSE s[j + 1]
    <2>0. j \in Nat /\ j \in 1..Len(a) + Len(b)
      BY <1>0
    <2>1. CASE j < i
      <3>1. j <= Len(a) /\ j \in 1..i - 1
        BY <2>0, <2>1, <1>0, <1>1
      <3> QED  BY <2>0, <2>1, <3>1, <1>1, <1>4
    <2>2. CASE ~(j < i)
      <3>1. /\ ~(j <= Len(a)) /\ j - Len(a) \in 1..Len(s) - i
            /\ i + (j - Len(a)) = j + 1
        BY <2>0, <2>2, <1>0, <1>1
      <3>2. b[j - Len(a)] = s[i + (j - Len(a))]
        BY <3>1, <1>2
      <3>3. (a \o b)[j] = b[j - Len(a)]
        BY <2>0, <3>1, <1>4
      <3> QED  BY <2>2, <3>1, <3>2, <3>3
    <2> QED  BY <2>1, <2>2
  <1> QED  BY <1>0, <1>3, <1>4, <1>5

\* A request's own entry is the only one the window may still write for it.
LEMMA SlotsOf ==
  ASSUME NEW w, Sound(w), NEW q \in Requests
  PROVE  Slots(w, q) = {i \in 1..Len(w) : CallOf(w[i]) = Call(q) /\ ~w[i].finalized}
  <1>1. ASSUME NEW i \in 1..Len(w), w[i].id = q.id
        PROVE  Min(SameId(w, q)) = i
    <2>1. SameId(w, q) = {i}
      BY <1>1 DEF SameId, Sound
    <2> QED  BY <2>1, MinOne DEF Sound
  <1>2. ASSUME NEW i
        PROVE  i \in Slots(w, q) <=>
                 i \in {j \in 1..Len(w) : CallOf(w[j]) = Call(q) /\ ~w[j].finalized}
    BY <1>1 DEF Slots, SameId, CallOf, Call
  <1> QED  BY <1>2

\* MakeRoom leaves a free place and drops at most the evictable entry.
LEMMA RoomMade ==
  ASSUME NEW w, Sound(w), ~(Len(w) = window_capacity /\ Finished(w) = {})
  PROVE  LET r == MakeRoom(w)
         IN  /\ r \in Seq(Entry) /\ Len(r) < window_capacity
             /\ \A i, j \in 1..Len(r) : r[i].id = r[j].id => i = j
             /\ \A i \in 1..Len(r) : \E j \in 1..Len(w) : r[i] = w[j]
             /\ \A j \in 1..Len(w) : ~Evictable(w, j) => \E i \in 1..Len(r) : r[i] = w[j]
  <1> DEFINE m == Min(Finished(w))
             r == RemoveAt(w, m)
  <1>0. window_capacity \in Nat /\ window_capacity # 0
    BY WindowAssumption DEF window_capacity
  <1>1. CASE Len(w) # window_capacity
    BY <1>0, <1>1 DEF MakeRoom, Sound
  <1>2. CASE Len(w) = window_capacity
    <2>1. m \in 1..Len(w) /\ Evictable(w, m)
      <3>1. Finished(w) \subseteq Nat /\ Finished(w) # {}
        BY <1>2 DEF Finished
      <3>2. m \in Finished(w) /\ \A y \in Finished(w) : m =< y
        BY <3>1, MinIn
      <3> HIDE DEF m
      <3>3. \A h \in 1..m - 1 : h \in 1..Len(w) /\ ~(m =< h)
        BY <3>1, <3>2 DEF Finished, Sound
      <3> QED  BY <1>2, <3>2, <3>3 DEF Finished, Evictable
    <2>2. MakeRoom(w) = r
      BY <1>2 DEF MakeRoom
    <2> HIDE DEF m
    <2>3. /\ r \in Seq(Entry) /\ Len(r) = Len(w) - 1
          /\ \A j \in 1..Len(w) - 1 : r[j] = IF j < m THEN w[j] ELSE w[j + 1]
      BY <2>1, Removed DEF Sound
    <2> HIDE DEF r
    <2>4. ASSUME NEW i \in 1..Len(r), NEW j \in 1..Len(r), r[i].id = r[j].id
          PROVE  i = j
      BY <2>1, <2>3, <2>4 DEF Sound
    <2>5. ASSUME NEW i \in 1..Len(r)  PROVE \E j \in 1..Len(w) : r[i] = w[j]
      BY <2>1, <2>3 DEF Sound
    <2>6. ASSUME NEW j \in 1..Len(w), ~Evictable(w, j)
          PROVE  \E i \in 1..Len(r) : r[i] = w[j]
      <3>1. CASE j < m
        BY <3>1, <2>1, <2>3 DEF Sound
      <3>2. CASE j > m
        <4>1. j - 1 \in 1..Len(r) /\ r[j - 1] = w[j]
          BY <3>2, <2>1, <2>3 DEF Sound
        <4> QED  BY <4>1
      <3> QED  BY <3>1, <3>2, <2>1, <2>6
    <2>7. Len(r) < window_capacity
      BY <1>0, <1>2, <2>3
    <2> QED  BY <2>2, <2>3, <2>4, <2>5, <2>6, <2>7
  <1> QED  BY <1>1, <1>2

\* Every request names an entry of the window's type.
LEMMA RequestTypes ==
  ASSUME NEW q \in Requests
  PROVE  /\ q.id \in STRING /\ q.op \in Ops /\ q.tab \in Tabs
         /\ dedupe_key(q) \in Ops \X Tabs /\ Call(q) \in Calls
         /\ Call(q) = <<q.id, <<q.op, q.tab>>>>
         /\ q # NoRequest
  BY RequestsAssumption DEF dedupe_key, Call, Calls

\* What admit answers to a request it does not let through.
LEMMA Refused ==
  ASSUME NEW w, Sound(w), NEW q \in Requests, NEW n \in Nat,
         admit(w, q, n).kind # "execute"
  PROVE  /\ admit(w, q, n).says \in Says
         /\ \A i \in 1..Len(w) :
              CallOf(w[i]) = Call(q) => admit(w, q, n).says = w[i].outcome
  <1>1. CASE SameId(w, q) = {}
    <2>1. admit(w, q, n).says \in Says
      BY <1>1 DEF admit, Reject, Execute, Says
    <2>2. \A i \in 1..Len(w) : w[i].id # q.id
      BY <1>1 DEF SameId
    <2> QED  BY <2>1, <2>2 DEF CallOf, Call
  <1>2. CASE SameId(w, q) # {}
    <2>1. PICK i \in 1..Len(w) : w[i].id = q.id
      BY <1>2 DEF SameId
    <2>2. SameId(w, q) = {i}
      BY <2>1 DEF SameId, Sound
    <2>3. Min(SameId(w, q)) = i
      BY <2>2, MinOne DEF Sound
    <2>4. w[i].outcome \in Says
      <3>1. w[i] \in Entry
        BY DEF Sound
      <3> QED  BY <3>1 DEF Entry, Says
    <2>5. ASSUME NEW j \in 1..Len(w), CallOf(w[j]) = Call(q)
          PROVE  j = i /\ w[i].key = dedupe_key(q)
      BY <2>1, <2>5 DEF CallOf, Call, Sound
    <2>6. CASE w[i].key = dedupe_key(q)
      <3>1. admit(w, q, n).says = w[i].outcome
        BY <1>2, <2>3, <2>6 DEF admit, Replay
      <3> QED  BY <3>1, <2>4, <2>5
    <2>7. CASE w[i].key # dedupe_key(q)
      <3>1. admit(w, q, n).says = "request_id_conflict"
        BY <1>2, <2>3, <2>7 DEF admit, Reject
      <3> QED  BY <3>1, <2>5, <2>7 DEF Says
    <2> QED  BY <2>6, <2>7
  <1> QED  BY <1>1, <1>2

\* An admitted request has a new id, and its reservation is the last entry.
LEMMA Admitted ==
  ASSUME NEW w, Sound(w), NEW q \in Requests, NEW n \in Nat,
         admit(w, q, n).kind = "execute"
  PROVE  LET v == admit(w, q, n).window
         IN  Sound(v) /\ Extended(w, v, Reserved(q)) /\ Slots(v, q) = {Len(v)}
  <1> DEFINE r == MakeRoom(w)
             v == Append(r, Reserved(q))
  <1>1. /\ SameId(w, q) = {} /\ ~(Len(w) = window_capacity /\ Finished(w) = {})
        /\ admit(w, q, n).window = v
    BY DEF admit, Replay, Reject, Execute
  <1>2. /\ r \in Seq(Entry) /\ Len(r) < window_capacity
        /\ \A i, j \in 1..Len(r) : r[i].id = r[j].id => i = j
        /\ \A i \in 1..Len(r) : \E j \in 1..Len(w) : r[i] = w[j]
        /\ \A j \in 1..Len(w) : ~Evictable(w, j) => \E i \in 1..Len(r) : r[i] = w[j]
    BY <1>1, RoomMade
  <1>3. Reserved(q) \in Entry /\ Reserved(q).id = q.id /\ CallOf(Reserved(q)) = Call(q)
    BY RequestTypes DEF Reserved, Entry, Outcomes, CallOf, Call
  <1>4. \A j \in 1..Len(w) : w[j].id # q.id
    BY <1>1 DEF SameId
  <1> HIDE DEF r
  <1>5. /\ v \in Seq(Entry) /\ Len(v) = Len(r) + 1 /\ Len(r) \in Nat
        /\ v[Len(v)] = Reserved(q) /\ \A i \in 1..Len(r) : v[i] = r[i]
    BY <1>2, <1>3
  <1> HIDE DEF v
  <1>6. Extended(w, v, Reserved(q))
    <2>1. Len(v) - 1 = Len(r) /\ Len(v) # 0
      BY <1>5
    <2>2. \A i \in 1..Len(r) : \E j \in 1..Len(w) : v[i] = w[j]
      BY <1>2, <1>5
    <2>3. \A j \in 1..Len(w) : ~Evictable(w, j) => \E i \in 1..Len(r) : v[i] = w[j]
      BY <1>2, <1>5
    <2> QED  BY <1>3, <1>4, <1>5, <2>1, <2>2, <2>3 DEF Extended
  <1>7. Sound(v)
    <2>1. Len(v) <= window_capacity
      BY <1>2, <1>5, WindowAssumption DEF window_capacity
    <2>2. ASSUME NEW i \in 1..Len(v), NEW j \in 1..Len(v), v[i].id = v[j].id
          PROVE  i = j
      <3>1. ASSUME NEW h \in 1..Len(r)  PROVE v[h].id # q.id
        <4>1. PICK g \in 1..Len(w) : r[h] = w[g]
          BY <1>2
        <4> QED  BY <4>1, <1>4, <1>5
      <3>2. i \in 1..Len(r) \/ i = Len(v)
        BY <1>5
      <3>3. j \in 1..Len(r) \/ j = Len(v)
        BY <1>5
      <3>4. CASE i \in 1..Len(r) /\ j \in 1..Len(r)
        BY <2>2, <3>4, <1>2, <1>5
      <3> QED  BY <2>2, <3>1, <3>2, <3>3, <3>4, <1>3, <1>5
    <2>3. ASSUME NEW i \in 1..Len(v)
          PROVE  v[i].finalized <=> v[i].outcome # "accepted"
      <3>1. CASE i \in 1..Len(r)
        BY <3>1, <1>2, <1>5 DEF Sound
      <3>2. CASE i = Len(v)
        BY <3>2, <1>5 DEF Reserved
      <3> QED  BY <3>1, <3>2, <1>5
    <2> QED  BY <1>5, <2>1, <2>2, <2>3 DEF Sound
  <1>8. Slots(v, q) = {Len(v)}
    <2>1. Slots(v, q) = {i \in 1..Len(v) : CallOf(v[i]) = Call(q) /\ ~v[i].finalized}
      BY <1>7, SlotsOf
    <2>2. CallOf(v[Len(v)]) = Call(q) /\ ~v[Len(v)].finalized /\ Len(v) \in 1..Len(v)
      BY <1>3, <1>5 DEF Reserved
    <2>3. ASSUME NEW i \in 1..Len(v), CallOf(v[i]) = Call(q)  PROVE i = Len(v)
      BY <1>7, <2>2, <2>3 DEF Sound, CallOf, Call
    <2> QED  BY <2>1, <2>2, <2>3
  <1> QED  BY <1>1, <1>6, <1>7, <1>8

\* The entry of an admitted request with its first receipt.
Receipt(q, o) ==
  IF o = "accepted" THEN [Reserved(q) EXCEPT !.outcome = o] ELSE Settled(Reserved(q), o)

LEMMA ReceiptIs ==
  ASSUME NEW q \in Requests, NEW o \in Outcomes
  PROVE  /\ Receipt(q, o) \in Entry
         /\ Receipt(q, o).id = q.id /\ Receipt(q, o).outcome = o
         /\ CallOf(Receipt(q, o)) = Call(q)
         /\ Receipt(q, o).finalized <=> o # "accepted"
  BY RequestTypes DEF Receipt, Reserved, Settled, Entry, CallOf, Call

\* The receipt of an admitted request, written at once.
LEMMA Receipted ==
  ASSUME NEW w, NEW v, NEW q \in Requests, NEW o \in Outcomes,
         Sound(v), Extended(w, v, Reserved(q)), Slots(v, q) = {Len(v)}
  PROVE  LET x == IF o = "accepted" THEN update_accepted(v, q, o) ELSE complete(v, q, o)
         IN  /\ Sound(x) /\ Extended(w, x, Receipt(q, o))
             /\ Dropped(w, x) = Dropped(w, v)
  <1> DEFINE x == IF o = "accepted" THEN update_accepted(v, q, o) ELSE complete(v, q, o)
             e == Receipt(q, o)
  <1>1. /\ Len(v) \in 1..Len(v) /\ v[Len(v)] = Reserved(q) /\ v \in Seq(Entry)
        /\ e \in Entry /\ e.id = Reserved(q).id
        /\ e.finalized <=> e.outcome # "accepted"
    BY ReceiptIs DEF Sound, Extended, Reserved
  <1>2. x = [i \in 1..Len(v) |-> IF i = Len(v) THEN e ELSE v[i]]
    BY <1>1 DEF update_accepted, complete, Receipt
  <1> HIDE DEF x, e
  <1>3. /\ x \in Seq(Entry) /\ Len(x) = Len(v) /\ Len(v) \in Nat
        /\ \A i \in 1..Len(v) : x[i] = IF i = Len(v) THEN e ELSE v[i]
    BY <1>1, <1>2
  <1>4. \A i \in 1..Len(v) : x[i].id = v[i].id
    BY <1>1, <1>3
  <1>5. Sound(x)
    BY <1>1, <1>3, <1>4 DEF Sound
  <1>6. Extended(w, x, e)
    <2>1. \A i \in 1..Len(v) - 1 : x[i] = v[i]
      BY <1>3
    <2>2. Len(x) # 0 /\ x[Len(x)] = e /\ \A j \in 1..Len(w) : w[j].id # e.id
      BY <1>1, <1>3 DEF Extended
    <2>3. \A i \in 1..Len(v) - 1 : \E j \in 1..Len(w) : x[i] = w[j]
      BY <2>1 DEF Extended
    <2>4. \A j \in 1..Len(w) : ~Evictable(w, j) => \E i \in 1..Len(v) - 1 : x[i] = w[j]
      BY <2>1 DEF Extended
    <2> QED  BY <1>3, <2>2, <2>3, <2>4 DEF Extended
  <1>7. Dropped(w, x) = Dropped(w, v)
    BY <1>3, <1>4 DEF Dropped
  <1> QED  BY <1>5, <1>6, <1>7 DEF x, e

-----------------------------------------------------------------------------
(* Commands and outcomes.                                                  *)

\* What a command does to a tab.  While a submission is in progress no other
\* one starts, and text of a send-composer starts one.
LEMMA CommandKeeps ==
  ASSUME NEW tab \in Tab, NEW op \in Ops, NEW by \in Requests \cup {NoRequest},
         NEW accepts \in 0..2
  PROVE  LET r == execute_command(tab, op, by, accepts)
         IN  /\ r.tab \in Tab
             /\ r.tab.state = "unborn" <=> tab.state = "unborn"
             /\ r.tab.state = "open" => tab.state = "open"
             /\ r.tab.state = "open" /\ tab.submitting
                  => r.tab.submitting /\ r.tab.author = tab.author
             /\ op = "send-composer" /\ r.wrote
                  => r.ok /\ r.tab.state = "open" /\ r.tab.submitting /\ r.tab.author = by
  <1>1. CASE tab.state # "open"
    <2>1. execute_command(tab, op, by, accepts) = NotFound(tab, op)
      BY <1>1 DEF execute_command
    <2>2. NotFound(tab, op).tab = tab /\ NotFound(tab, op).wrote = FALSE
      BY DEF NotFound, Failed
    <2> QED  BY <1>1, <2>1, <2>2
  <1>2. CASE tab.state = "open" /\ op = "set-composer"
    BY <1>2 DEF execute_command, set_composer, Done, Tab
  <1>3. CASE tab.state = "open" /\ op = "send-composer"
    BY <1>3 DEF execute_command, send_composer, submit, Done, Failed, Broken, Tab
  <1>4. CASE tab.state = "open" /\ op = "send-keys"
    BY <1>4 DEF execute_command, send_keys, Done, Failed, Broken, Tab
  <1>5. CASE tab.state = "open" /\ op = "kill-window"
    BY <1>5 DEF execute_command, close_tab, Unborn, Done, Failed, Tab
  <1>6. CASE tab.state = "open" /\ op = "cwd-send"
    BY <1>6 DEF execute_command, submit, Done, Failed, Broken, Tab
  <1>7. CASE tab.state = "open" /\ op = "show-composer"
    BY <1>7 DEF execute_command, Done, Tab
  <1> QED  BY <1>1, <1>2, <1>3, <1>4, <1>5, <1>6, <1>7 DEF Ops

\* A send-composer is committed at once only if it wrote nothing.
LEMMA OutcomeIs ==
  ASSUME NEW q \in Requests, NEW tab \in Tab, NEW accepts \in 0..2
  PROVE  LET r == execute_command(tab, q.op, q, accepts)
         IN  /\ outcome(q, r) \in Outcomes
             /\ outcome(q, r) = "accepted" =>
                  r.tab.state = "open" /\ r.tab.submitting
             /\ q.op = "send-composer" /\ outcome(q, r) = "committed" => ~r.wrote
             /\ outcome(q, r) = "accepted" /\ r.wrote => r.tab.author = q
  <1> DEFINE r == execute_command(tab, q.op, q, accepts)
  <1>1. q.op = "send-composer" /\ r.wrote
           => r.ok /\ r.tab.state = "open" /\ r.tab.submitting /\ r.tab.author = q
    BY CommandKeeps, RequestTypes
  <1> HIDE DEF r
  <1>2. /\ outcome(q, r) \in Outcomes
        /\ outcome(q, r) = "accepted" <=> submission_wait(q, r)
    BY DEF outcome, Outcomes
  <1> QED  BY <1>1, <1>2 DEF submission_wait, outcome, r

-----------------------------------------------------------------------------
(* The inductive invariant.                                                *)

\* Only a tab that exists is waited for.
WaitsForTab == \A t \in Tabs : tabs[t].state = "unborn" => pending[t] = NoRequest

\* The submission an open tab is waited for is the one of its terminal, unless
\* the request that waits wrote nothing.
OwnSubmission ==
  \A t \in Tabs : tabs[t].state = "open" /\ pending[t] # NoRequest =>
    \/ tabs[t].author # NoRequest /\ Call(tabs[t].author) = Call(pending[t])
    \/ effect[Call(pending[t])] # "written"

IInv ==
  /\ TypeOK /\ Sound(window)
  /\ AtMostOnce /\ SameAnswer /\ PendingHasReceipt /\ CommittedMeansEntered
  /\ WaitsForTab /\ OwnSubmission

\* A repeated or refused request is answered from the window alone.
LEMMA AnswerKeeps ==
  ASSUME IInv, NEW q \in Requests, Answer(q)
  PROVE  IInv'
  <1> DEFINE a == admit(window, q, now)
  <1>1. /\ a.kind # "execute"
        /\ told' = [told EXCEPT ![Call(q)] = @ \cup {a.says}]
        /\ UNCHANGED <<now, tabs, window, pending, runs, effect>>
    BY DEF Answer
  <1>2. /\ a.says \in Says
        /\ \A i \in 1..Len(window) : CallOf(window[i]) = Call(q) => a.says = window[i].outcome
    BY <1>1, Refused DEF IInv, TypeOK
  <1> HIDE DEF a
  <1>3. Call(q) \in Calls
    BY RequestTypes
  <1>4. TypeOK'
    BY <1>1, <1>2, <1>3 DEF IInv, TypeOK
  <1>5. SameAnswer'
    <2> SUFFICES ASSUME NEW k \in Calls, NEW i \in 1..Len(window), EntryOf(i, k)
                 PROVE  told'[k] \subseteq {"accepted", window[i].outcome}
      BY <1>1 DEF SameAnswer, EntryOf
    <2>1. told[k] \subseteq {"accepted", window[i].outcome}
      BY DEF IInv, SameAnswer
    <2>2. CASE k = Call(q)
      <3>1. a.says = window[i].outcome
        BY <1>2, <2>2 DEF EntryOf, CallOf
      <3>2. told'[k] = told[k] \cup {a.says}
        BY <1>1, <1>3, <2>2 DEF IInv, TypeOK
      <3> QED  BY <2>1, <3>1, <3>2
    <2>3. CASE k # Call(q)
      BY <1>1, <2>1, <2>3 DEF IInv, TypeOK
    <2> QED  BY <2>2, <2>3
  <1> QED
    BY <1>1, <1>4, <1>5 DEF IInv, AtMostOnce, OneEntryPerId, EntryOf, PendingHasReceipt, Open,
       CommittedMeansEntered, WaitsForTab, OwnSubmission

\* A request is executed: its call gets a new history, others lose theirs with
\* their entry.
LEMMA ControlledKeeps ==
  ASSUME IInv, NEW q \in Requests, NEW accepts \in 0..2, Controlled(q, accepts)
  PROVE  IInv'
  <1> DEFINE a == admit(window, q, now)
             r == execute_command(tabs[q.tab], q.op, q, accepts)
             o == outcome(q, r)
             x == IF o = "accepted" THEN update_accepted(a.window, q, o)
                  ELSE complete(a.window, q, o)
             fresh == Evicted(window, q)
             n == Len(window')
             e == Receipt(q, o)
  <1>1. /\ a.kind = "execute"
        /\ tabs' = [tabs EXCEPT ![q.tab] = r.tab]
        /\ window' = x
        /\ pending' = IF o = "accepted" /\ Slots(a.window, q) # {}
                      THEN [pending EXCEPT ![q.tab] = q] ELSE pending
        /\ runs' = [k \in Calls |-> IF k = Call(q) THEN runs[k] + 1
                                    ELSE IF k \in fresh THEN 0 ELSE runs[k]]
        /\ told' = [k \in Calls |-> IF k = Call(q) THEN {o}
                                    ELSE IF k \in fresh THEN {} ELSE told[k]]
        /\ effect' = [k \in Calls |->
                        IF k = Call(q) THEN IF r.wrote THEN "written" ELSE "none"
                        ELSE IF k \in fresh THEN "none" ELSE effect[k]]
        /\ now' = now
    BY DEF Controlled
  <1>2. q.tab \in Tabs /\ q.op \in Ops /\ tabs[q.tab] \in Tab /\ Call(q) \in Calls
    BY RequestTypes DEF IInv, TypeOK
  <1>3. /\ r.tab \in Tab
        /\ r.tab.state = "unborn" <=> tabs[q.tab].state = "unborn"
        /\ r.tab.state = "open" => tabs[q.tab].state = "open"
        /\ r.tab.state = "open" /\ tabs[q.tab].submitting
             => r.tab.submitting /\ r.tab.author = tabs[q.tab].author
    BY <1>2, CommandKeeps
  <1>4. /\ o \in Outcomes
        /\ o = "accepted" => r.tab.state = "open" /\ r.tab.submitting
        /\ q.op = "send-composer" /\ o = "committed" => ~r.wrote
        /\ o = "accepted" /\ r.wrote => r.tab.author = q
    BY <1>2, OutcomeIs
  <1>5. Sound(a.window) /\ Extended(window, a.window, Reserved(q))
          /\ Slots(a.window, q) = {Len(a.window)}
    BY <1>1, Admitted DEF IInv, TypeOK
  <1>6. Sound(window') /\ Extended(window, window', e) /\ fresh = Dropped(window, window')
    <2> HIDE DEF a, r, o
    <2>1. Sound(x) /\ Extended(window, x, e) /\ Dropped(window, x) = Dropped(window, a.window)
      BY <1>4, <1>5, Receipted
    <2>2. fresh = Dropped(window, a.window)
      BY DEF Evicted, Dropped, CallOf, a
    <2> HIDE DEF x
    <2> QED  BY <1>1, <2>1, <2>2
  <1>7. /\ e \in Entry /\ e.id = q.id /\ e.outcome = o /\ CallOf(e) = Call(q)
        /\ e.finalized <=> o # "accepted"
    BY <1>4, ReceiptIs
  <1>8. pending' = IF o = "accepted" THEN [pending EXCEPT ![q.tab] = q] ELSE pending
    BY <1>1, <1>5
  <1> HIDE DEF a, r, o, x, fresh, e
  <1>9. n \in Nat /\ n # 0 /\ window'[n] = e /\ window' \in Seq(Entry) /\ Sound(window)
    BY <1>6 DEF Sound, Extended, IInv
  <1>10. ASSUME NEW i \in 1..n, i # n
         PROVE  \E j \in 1..Len(window) :
                  /\ window'[i] = window[j]
                  /\ CallOf(window[j]) # Call(q)
                  /\ CallOf(window[j]) \notin fresh
    <2>1. PICK j \in 1..Len(window) : window'[i] = window[j]
      <3>1. i \in 1..n - 1
        BY <1>9, <1>10
      <3> QED  BY <3>1, <1>6 DEF Extended
    <2>2. window[j].id # q.id
      BY <1>6, <1>7 DEF Extended
    <2>3. CallOf(window[j]) # Call(q)
      BY <2>2 DEF CallOf, Call
    <2>4. CallOf(window[j]) \notin fresh
      BY <1>6, <2>1 DEF Dropped, CallOf
    <2> QED  BY <2>1, <2>3, <2>4
  <1>11. ASSUME NEW j \in 1..Len(window), ~window[j].finalized
         PROVE  /\ \E i \in 1..n : window'[i] = window[j]
                /\ CallOf(window[j]) # Call(q)
                /\ CallOf(window[j]) \notin fresh
    <2>1. PICK i \in 1..n - 1 : window'[i] = window[j]
      BY <1>6, <1>11 DEF Extended, Evictable
    <2>2. i \in 1..n /\ i # n
      BY <1>9
    <2>3. CallOf(window[j]) # Call(q)
      <3>1. window[j].id # q.id
        BY <1>6, <1>7 DEF Extended
      <3> QED  BY <3>1 DEF CallOf, Call
    <2>4. CallOf(window[j]) \notin fresh
      BY <1>6, <2>1, <2>2 DEF Dropped, CallOf
    <2> QED  BY <2>1, <2>2, <2>3, <2>4
  <1>12. TypeOK'
    <2>1. tabs' \in [Tabs -> Tab] /\ pending' \in [Tabs -> Requests \cup {NoRequest}]
      BY <1>1, <1>2, <1>3, <1>8 DEF IInv, TypeOK
    <2>2. runs' \in [Calls -> Nat] /\ effect' \in [Calls -> {"none", "written", "entered"}]
      BY <1>1 DEF IInv, TypeOK
    <2>3. told' \in [Calls -> SUBSET Says]
      BY <1>1, <1>4 DEF IInv, TypeOK, Says
    <2> QED  BY <1>1, <1>9, <2>1, <2>2, <2>3 DEF IInv, TypeOK
  <1>13. AtMostOnce'
    <2>1. OneEntryPerId'
      BY <1>6 DEF OneEntryPerId, Sound
    <2>2. ASSUME NEW k \in Calls
          PROVE  runs'[k] = IF \E i \in 1..n : CallOf(window'[i]) = k THEN 1 ELSE 0
      <3>0. runs[k] = IF \E j \in 1..Len(window) : CallOf(window[j]) = k THEN 1 ELSE 0
        BY DEF IInv, AtMostOnce, EntryOf, CallOf
      <3>1. CASE k = Call(q)
        <4>1. ~\E j \in 1..Len(window) : CallOf(window[j]) = k
          BY <3>1, <1>6, <1>7 DEF Extended, CallOf, Call
        <4>2. CallOf(window'[n]) = k /\ n \in 1..n
          BY <3>1, <1>7, <1>9
        <4>3. runs'[k] = runs[k] + 1
          BY <3>1, <1>1
        <4> QED  BY <3>0, <4>1, <4>2, <4>3
      <3>2. CASE k # Call(q) /\ \E i \in 1..n : CallOf(window'[i]) = k
        <4>1. PICK i \in 1..n : CallOf(window'[i]) = k
          BY <3>2
        <4>2. i # n
          BY <3>2, <4>1, <1>7, <1>9
        <4>3. (\E j \in 1..Len(window) : CallOf(window[j]) = k) /\ k \notin fresh
          BY <4>1, <4>2, <1>10
        <4> QED  BY <3>0, <3>2, <4>3, <1>1
      <3>3. CASE k # Call(q) /\ ~\E i \in 1..n : CallOf(window'[i]) = k
        <4>1. CASE ~\E j \in 1..Len(window) : CallOf(window[j]) = k
          BY <3>0, <3>3, <4>1, <1>1
        <4>2. CASE \E j \in 1..Len(window) : CallOf(window[j]) = k
          <5>1. PICK j \in 1..Len(window) : CallOf(window[j]) = k
            BY <4>2
          <5>2. k[1] = window[j].id
            BY <5>1 DEF CallOf
          <5>3. ASSUME NEW i \in 1..n, window'[i].id = k[1]  PROVE FALSE
            <6>1. i # n
              BY <5>2, <5>3, <1>6, <1>7, <1>9 DEF Extended
            <6>2. PICK h \in 1..Len(window) : window'[i] = window[h]
              BY <6>1, <1>10
            <6>3. h = j
              BY <5>2, <5>3, <6>2, <1>9 DEF Sound
            <6> QED  BY <3>3, <5>1, <6>2, <6>3
          <5>4. k \in fresh
            BY <4>2, <5>3, <1>6 DEF Dropped
          <5> QED  BY <3>3, <5>4, <1>1
        <4> QED  BY <4>1, <4>2
      <3> QED  BY <3>1, <3>2, <3>3
    <2> QED  BY <2>1, <2>2 DEF AtMostOnce, EntryOf, CallOf
  <1>14. SameAnswer'
    <2> SUFFICES ASSUME NEW k \in Calls, NEW i \in 1..n, CallOf(window'[i]) = k
                 PROVE  told'[k] \subseteq {"accepted", window'[i].outcome}
      BY DEF SameAnswer, EntryOf, CallOf
    <2>1. CASE i = n
      BY <2>1, <1>1, <1>7, <1>9
    <2>2. CASE i # n
      <3>1. PICK j \in 1..Len(window) :
              window'[i] = window[j] /\ k # Call(q) /\ k \notin fresh
        BY <2>2, <1>10
      <3>2. told[k] \subseteq {"accepted", window[j].outcome}
        BY <3>1 DEF IInv, SameAnswer, EntryOf, CallOf
      <3> QED  BY <3>1, <3>2, <1>1
    <2> QED  BY <2>1, <2>2
  <1>15. ASSUME NEW t \in Tabs, pending[t] # NoRequest
         PROVE  /\ pending[t] \in Requests /\ pending[t].tab = t
                /\ tabs[t].state = "open" => tabs[t].submitting
                /\ \E i \in 1..n : CallOf(window'[i]) = Call(pending[t]) /\ ~window'[i].finalized
                /\ effect'[Call(pending[t])] = effect[Call(pending[t])]
    <2>1. pending[t] \in Requests /\ Call(pending[t]) \in Calls
      BY <1>15, RequestTypes DEF IInv, TypeOK
    <2>2. /\ pending[t].tab = t
          /\ tabs[t].state = "open" => tabs[t].submitting
      BY <1>15 DEF IInv, PendingHasReceipt, Open
    <2>3. PICK j \in 1..Len(window) :
            CallOf(window[j]) = Call(pending[t]) /\ ~window[j].finalized
      BY <1>15 DEF IInv, PendingHasReceipt, EntryOf, CallOf
    <2>4. /\ \E i \in 1..n : window'[i] = window[j]
          /\ Call(pending[t]) # Call(q) /\ Call(pending[t]) \notin fresh
      BY <2>3, <1>11
    <2> QED  BY <2>1, <2>2, <2>3, <2>4, <1>1
  <1>16. ASSUME NEW t \in Tabs
         PROVE  tabs'[t] = IF t = q.tab THEN r.tab ELSE tabs[t]
    BY <1>1, <1>2 DEF IInv, TypeOK
  <1>17. ASSUME NEW t \in Tabs
         PROVE  pending'[t] = IF t = q.tab /\ o = "accepted" THEN q ELSE pending[t]
    BY <1>2, <1>8 DEF IInv, TypeOK
  <1>18. PendingHasReceipt'
    <2> SUFFICES ASSUME NEW t \in Tabs, pending'[t] # NoRequest
                 PROVE  /\ pending'[t].tab = t
                        /\ tabs'[t].state = "open" => tabs'[t].submitting
                        /\ \E i \in 1..n : /\ CallOf(window'[i]) = Call(pending'[t])
                                           /\ ~window'[i].finalized
      BY DEF PendingHasReceipt, EntryOf, CallOf, Open, Call, dedupe_key
    <2>1. CASE t = q.tab /\ o = "accepted"
      BY <2>1, <1>4, <1>7, <1>9, <1>16, <1>17
    <2>2. CASE ~(t = q.tab /\ o = "accepted")
      BY <2>2, <1>3, <1>15, <1>16, <1>17
    <2> QED  BY <2>1, <2>2
  <1>19. CommittedMeansEntered'
    <2> SUFFICES ASSUME NEW p \in Requests, NEW i \in 1..n, CallOf(window'[i]) = Call(p),
                        p.op = "send-composer", window'[i].outcome = "committed",
                        effect'[Call(p)] # "none"
                 PROVE  effect'[Call(p)] = "entered"
      BY DEF CommittedMeansEntered, EntryOf, CallOf
    <2>0. Call(p) \in Calls
      BY RequestTypes
    <2>1. CASE i = n
      <3>1. o = "committed" /\ Call(p) = Call(q)
        BY <2>1, <1>7, <1>9
      <3>2. q.op = "send-composer"
        BY <3>1, RequestTypes
      <3> QED  BY <2>0, <3>1, <3>2, <1>1, <1>4
    <2>2. CASE i # n
      <3>1. PICK j \in 1..Len(window) :
              window'[i] = window[j] /\ Call(p) # Call(q) /\ Call(p) \notin fresh
        BY <2>2, <1>10
      <3>2. effect'[Call(p)] = effect[Call(p)]
        BY <2>0, <3>1, <1>1
      <3> QED  BY <3>1, <3>2 DEF IInv, CommittedMeansEntered, EntryOf, CallOf
    <2> QED  BY <2>1, <2>2
  <1>20. WaitsForTab'
    BY <1>3, <1>4, <1>16, <1>17 DEF IInv, WaitsForTab
  <1>21. OwnSubmission'
    <2> SUFFICES ASSUME NEW t \in Tabs, tabs'[t].state = "open", pending'[t] # NoRequest
                 PROVE  \/ tabs'[t].author # NoRequest /\ Call(tabs'[t].author) = Call(pending'[t])
                        \/ effect'[Call(pending'[t])] # "written"
      BY DEF OwnSubmission, Call, dedupe_key
    <2>1. CASE t = q.tab /\ o = "accepted"
      <3>1. pending'[t] = q /\ tabs'[t] = r.tab
        BY <2>1, <1>16, <1>17
      <3>2. CASE r.wrote
        BY <2>1, <3>1, <3>2, <1>4, RequestTypes
      <3>3. CASE ~r.wrote
        BY <3>1, <3>3, <1>1, <1>2
      <3> QED  BY <3>2, <3>3
    <2>2. CASE ~(t = q.tab /\ o = "accepted")
      <3>1. pending'[t] = pending[t]
        BY <2>2, <1>17
      <3>2. tabs[t].state = "open" /\ tabs'[t].author = tabs[t].author
        BY <2>2, <3>1, <1>3, <1>15, <1>16
      <3> QED  BY <3>1, <3>2, <1>15 DEF IInv, OwnSubmission
    <2> QED  BY <2>1, <2>2
  <1> QED  BY <1>6, <1>12, <1>13, <1>14, <1>18, <1>19, <1>20, <1>21 DEF IInv

\* A step that changes tabs only, never starts a tab that is waited for anew,
\* and neither ends nor replaces a submission of a tab it leaves open.
LEMMA TabsKeep ==
  ASSUME IInv, UNCHANGED <<now, window, pending, runs, told, effect>>,
         tabs' \in [Tabs -> Tab],
         \A t \in Tabs :
           /\ tabs'[t].state = "unborn" => tabs[t].state = "unborn"
           /\ tabs'[t].state = "open" => tabs[t].state \in {"unborn", "open"}
           /\ tabs'[t].state = "open" /\ tabs[t].state = "open" /\ tabs[t].submitting
                => tabs'[t].submitting /\ tabs'[t].author = tabs[t].author
  PROVE  IInv'
  <1>1. TypeOK'
    BY DEF IInv, TypeOK
  <1>2. ASSUME NEW t \in Tabs, pending[t] # NoRequest
        PROVE  tabs'[t].state # "unborn"
                 /\ (tabs'[t].state = "open" =>
                       /\ tabs[t].state = "open" /\ tabs'[t].submitting
                       /\ tabs'[t].author = tabs[t].author)
    BY <1>2 DEF IInv, WaitsForTab, PendingHasReceipt, Open
  <1>3. PendingHasReceipt'
    BY <1>2 DEF IInv, PendingHasReceipt, EntryOf, Open
  <1>4. WaitsForTab' /\ OwnSubmission'
    BY <1>2 DEF IInv, WaitsForTab, OwnSubmission
  <1> QED
    BY <1>1, <1>3, <1>4 DEF IInv, AtMostOnce, OneEntryPerId, SameAnswer, EntryOf,
       CommittedMeansEntered

LEMMA UncontrolledKeeps ==
  ASSUME IInv, NEW p \in Plain, NEW accepts \in 0..2, Uncontrolled(p, accepts)
  PROVE  IInv'
  <1> DEFINE r == execute_command(tabs[p.tab], p.op, NoRequest, accepts)
  <1>1. p.tab \in Tabs /\ p.op \in Ops /\ tabs[p.tab] \in Tab
    BY RequestsAssumption DEF IInv, TypeOK
  <1>2. /\ r.tab \in Tab
        /\ r.tab.state = "unborn" <=> tabs[p.tab].state = "unborn"
        /\ r.tab.state = "open" => tabs[p.tab].state = "open"
        /\ r.tab.state = "open" /\ tabs[p.tab].submitting
             => r.tab.submitting /\ r.tab.author = tabs[p.tab].author
    BY <1>1, CommandKeeps
  <1>3. /\ tabs' = [tabs EXCEPT ![p.tab] = r.tab]
        /\ UNCHANGED <<now, window, pending, runs, told, effect>>
    BY DEF Uncontrolled
  <1> HIDE DEF r
  <1>4. tabs' \in [Tabs -> Tab] /\ tabs \in [Tabs -> Tab]
    BY <1>1, <1>2, <1>3 DEF IInv, TypeOK
  <1>5. ASSUME NEW t \in Tabs
        PROVE  /\ tabs'[t].state = "unborn" => tabs[t].state = "unborn"
               /\ tabs'[t].state = "open" => tabs[t].state \in {"unborn", "open"}
               /\ tabs'[t].state = "open" /\ tabs[t].state = "open" /\ tabs[t].submitting
                    => tabs'[t].submitting /\ tabs'[t].author = tabs[t].author
    BY <1>1, <1>2, <1>3, <1>4
  <1> QED  BY <1>3, <1>4, <1>5, TabsKeep

LEMMA CreateKeeps ==
  ASSUME IInv, NEW u \in Tabs, create_tab(u)
  PROVE  IInv'
  <1> DEFINE born == [Unborn EXCEPT !.state = "open", !.writable = TRUE]
  <1>1. born \in Tab /\ born.state = "open"
    BY DEF Unborn, Tab
  <1>2. /\ tabs[u].state = "unborn" /\ tabs' = [tabs EXCEPT ![u] = born]
        /\ UNCHANGED <<now, window, pending, runs, told, effect>>
    BY DEF create_tab
  <1> HIDE DEF born
  <1>3. tabs' \in [Tabs -> Tab] /\ tabs \in [Tabs -> Tab]
    BY <1>1, <1>2 DEF IInv, TypeOK
  <1>4. ASSUME NEW t \in Tabs
        PROVE  /\ tabs'[t].state = "unborn" => tabs[t].state = "unborn"
               /\ tabs'[t].state = "open" => tabs[t].state \in {"unborn", "open"}
               /\ tabs'[t].state = "open" /\ tabs[t].state = "open" /\ tabs[t].submitting
                    => tabs'[t].submitting /\ tabs'[t].author = tabs[t].author
    BY <1>1, <1>2, <1>3
  <1> QED  BY <1>2, <1>3, <1>4, TabsKeep

\* The poll settles exactly the receipts of the submissions that are due.
LEMMA PollKeeps ==
  ASSUME IInv, NEW due, NEW dying, PollAndFinish(due, dying),
         due \subseteq {t \in Open : tabs[t].submitting}
  PROVE  IInv'
  <1> DEFINE entered == {t \in due : tabs[t].writable /\ t \notin dying}
             slot(t) == IF pending[t] = NoRequest THEN {} ELSE Slots(window, pending[t])
             lost == {t \in due : pending[t] # NoRequest /\ slot(t) = {}}
             hit(i) == \E t \in due : i \in slot(t)
             in(i) == \E t \in entered : i \in slot(t)
             typed(k) == \E t \in entered : tabs[t].author # NoRequest /\ Call(tabs[t].author) = k
  <1>1. /\ tabs' = [t \in Tabs |->
              [tabs[t] EXCEPT !.writable = @ /\ t \notin dying /\ t \notin lost,
                              !.submitting = @ /\ t \notin due,
                              !.author = IF t \in due THEN NoRequest ELSE @]]
        /\ window' = [i \in 1..Len(window) |->
              IF hit(i) THEN Settled(window[i], finish_outcome(in(i))) ELSE window[i]]
        /\ pending' = [t \in Tabs |-> IF t \in due THEN NoRequest ELSE pending[t]]
        /\ effect' = [k \in Calls |-> IF typed(k) THEN "entered" ELSE effect[k]]
        /\ UNCHANGED <<now, runs, told>>
    BY DEF PollAndFinish
  <1>2. /\ Sound(window) /\ tabs \in [Tabs -> Tab] /\ effect \in [Calls -> {"none", "written", "entered"}]
        /\ pending \in [Tabs -> Requests \cup {NoRequest}] /\ window \in Seq(Entry)
        /\ due \subseteq Tabs /\ entered \subseteq due
    BY DEF IInv, TypeOK, Open
  <1>3. ASSUME NEW t \in Tabs, NEW i
        PROVE  i \in slot(t) <=> /\ pending[t] # NoRequest /\ i \in 1..Len(window)
                                 /\ CallOf(window[i]) = Call(pending[t])
                                 /\ ~window[i].finalized
    <2>1. CASE pending[t] = NoRequest
      BY <2>1
    <2>2. CASE pending[t] # NoRequest
      <3>1. pending[t] \in Requests
        BY <2>2, <1>2
      <3> QED  BY <2>2, <3>1, <1>2, SlotsOf
    <2> QED  BY <2>1, <2>2
  <1> HIDE DEF slot, lost
  <1>4. ASSUME NEW i \in 1..Len(window)
        PROVE  LET s == Settled(window[i], finish_outcome(in(i)))
               IN  /\ s \in Entry /\ s.id = window[i].id /\ CallOf(s) = CallOf(window[i])
                   /\ s.finalized /\ s.outcome # "accepted"
                   /\ s.outcome = "committed" <=> in(i)
    <2>1. window[i] \in Entry
      BY <1>2
    <2>2. /\ finish_outcome(in(i)) \in Outcomes \ {"accepted"}
          /\ finish_outcome(in(i)) = "committed" <=> in(i)
      BY DEF finish_outcome, Outcomes
    <2> HIDE DEF in
    <2> QED  BY <2>1, <2>2 DEF Settled, Entry, CallOf
  <1>5. /\ Len(window') = Len(window) /\ window' \in Seq(Entry)
        /\ \A i \in 1..Len(window) :
             /\ hit(i) => /\ window'[i].finalized /\ window'[i].outcome # "accepted"
                          /\ window'[i].outcome = "committed" <=> in(i)
             /\ ~hit(i) => window'[i] = window[i]
             /\ window'[i].id = window[i].id /\ CallOf(window'[i]) = CallOf(window[i])
    <2> HIDE DEF hit, in
    <2> DEFINE g(i) == IF hit(i) THEN Settled(window[i], finish_outcome(in(i))) ELSE window[i]
    <2>1. \A i \in 1..Len(window) : g(i) \in Entry
      BY <1>2, <1>4
    <2>2. Len(window') = Len(window) /\ window' \in Seq(Entry)
      <3>1. window' = [i \in 1..Len(window) |-> g(i)]
        BY <1>1
      <3>2. Len(window) \in Nat
        BY <1>2
      <3> HIDE DEF g
      <3> QED  BY <2>1, <3>1, <3>2
    <2>3. \A i \in 1..Len(window) :
            window'[i] = IF hit(i) THEN Settled(window[i], finish_outcome(in(i))) ELSE window[i]
      BY <1>1
    <2> QED  BY <1>4, <2>2, <2>3
  <1>6. Sound(window')
    <2> HIDE DEF hit, in
    <2> QED  BY <1>2, <1>5 DEF Sound
  <1>7. ASSUME NEW t \in Tabs
        PROVE  /\ tabs'[t] \in Tab
               /\ tabs'[t].state = tabs[t].state
               /\ t \notin due => /\ tabs'[t].submitting = tabs[t].submitting
                                  /\ tabs'[t].author = tabs[t].author
               /\ pending'[t] = IF t \in due THEN NoRequest ELSE pending[t]
    <2>1. tabs[t] \in Tab
      BY <1>2
    <2> QED  BY <2>1, <1>1 DEF Tab
  <1>8. TypeOK'
    <2>1. tabs' \in [Tabs -> Tab]
      <3>1. \A t \in Tabs :
              [tabs[t] EXCEPT !.writable = @ /\ t \notin dying /\ t \notin lost,
                              !.submitting = @ /\ t \notin due,
                              !.author = IF t \in due THEN NoRequest ELSE @] \in Tab
        BY <1>1, <1>7
      <3> QED  BY <3>1, <1>1
    <2>2. pending' \in [Tabs -> Requests \cup {NoRequest}]
      BY <1>1, <1>2
    <2>3. effect' \in [Calls -> {"none", "written", "entered"}]
      BY <1>1, <1>2
    <2> QED  BY <1>1, <1>5, <2>1, <2>2, <2>3 DEF IInv, TypeOK
  <1>9. AtMostOnce'
    <2>1. OneEntryPerId'
      BY <1>6 DEF Sound, OneEntryPerId
    <2>2. ASSUME NEW k \in Calls
          PROVE  runs'[k] = IF \E i \in 1..Len(window') : CallOf(window'[i]) = k THEN 1 ELSE 0
      <3>1. runs[k] = IF \E i \in 1..Len(window) : CallOf(window[i]) = k THEN 1 ELSE 0
        BY DEF IInv, AtMostOnce, EntryOf, CallOf
      <3>2. /\ Len(window') = Len(window)
            /\ \A i \in 1..Len(window) : CallOf(window'[i]) = CallOf(window[i])
        BY <1>5
      <3> QED  BY <3>1, <3>2, <1>1
    <2> QED  BY <2>1, <2>2 DEF AtMostOnce, EntryOf, CallOf
  <1>10. SameAnswer'
    <2> SUFFICES ASSUME NEW k \in Calls, NEW i \in 1..Len(window), CallOf(window[i]) = k
                 PROVE  told[k] \subseteq {"accepted", window'[i].outcome}
      <3>1. /\ told' = told /\ Len(window') = Len(window)
            /\ \A i \in 1..Len(window) : CallOf(window'[i]) = CallOf(window[i])
        BY <1>1, <1>5
      <3> QED  BY <3>1 DEF SameAnswer, EntryOf, CallOf
    <2>1. told[k] \subseteq {"accepted", window[i].outcome}
      BY DEF IInv, SameAnswer, EntryOf, CallOf
    <2>2. CASE hit(i)
      <3>1. ~window[i].finalized
        BY <2>2, <1>2, <1>3
      <3>2. window[i].outcome = "accepted"
        BY <3>1, <1>2 DEF Sound
      <3> QED  BY <2>1, <3>2
    <2>3. CASE ~hit(i)
      BY <2>1, <2>3, <1>5
    <2> QED  BY <2>2, <2>3
  <1>11. ASSUME NEW t \in Tabs, pending[t] # NoRequest
         PROVE  /\ pending[t] \in Requests /\ pending[t].tab = t
                /\ tabs[t].state = "open" => tabs[t].submitting
                /\ \E i \in 1..Len(window) :
                     CallOf(window[i]) = Call(pending[t]) /\ ~window[i].finalized
    BY <1>2, <1>11 DEF IInv, PendingHasReceipt, EntryOf, CallOf, Open
  <1>12. PendingHasReceipt'
    <2> SUFFICES ASSUME NEW t \in Tabs, t \notin due, pending[t] # NoRequest
                 PROVE  /\ pending[t].tab = t
                        /\ tabs'[t].state = "open" => tabs'[t].submitting
                        /\ \E i \in 1..Len(window') : /\ CallOf(window'[i]) = Call(pending[t])
                                                      /\ ~window'[i].finalized
      <3>1. ASSUME NEW t \in Tabs, pending'[t] # NoRequest
            PROVE  t \notin due /\ pending'[t] = pending[t]
        BY <3>1, <1>7
      <3>2. ASSUME NEW t \in Tabs, pending'[t] # NoRequest
            PROVE  /\ pending'[t].tab = t
                   /\ tabs'[t].state = "open" => tabs'[t].submitting
                   /\ \E i \in 1..Len(window') : /\ CallOf(window'[i]) = Call(pending'[t])
                                                 /\ ~window'[i].finalized
        BY <3>1, <3>2
      <3> QED  BY <3>2 DEF PendingHasReceipt, EntryOf, CallOf, Open, Call, dedupe_key
    <2>1. PICK i \in 1..Len(window) :
            CallOf(window[i]) = Call(pending[t]) /\ ~window[i].finalized
      BY <1>11
    <2>2. ~hit(i)
      <3> SUFFICES ASSUME NEW u \in due, i \in slot(u)  PROVE FALSE
        OBVIOUS
      <3>1. pending[u] # NoRequest /\ Call(pending[u]) = Call(pending[t]) /\ u \in Tabs
        BY <2>1, <1>2, <1>3
      <3>2. pending[u].tab = u /\ pending[t].tab = t
              /\ pending[u] \in Requests /\ pending[t] \in Requests
        BY <3>1, <1>11
      <3>3. pending[u].tab = pending[t].tab
        BY <3>1, <3>2, RequestTypes
      <3> QED  BY <3>2, <3>3
    <2> QED  BY <2>1, <2>2, <1>5, <1>7, <1>11
  <1>13. CommittedMeansEntered'
    <2> SUFFICES ASSUME NEW p \in Requests, NEW i \in 1..Len(window),
                        CallOf(window[i]) = Call(p), p.op = "send-composer",
                        window'[i].outcome = "committed", effect'[Call(p)] # "none"
                 PROVE  effect'[Call(p)] = "entered"
      BY <1>5 DEF CommittedMeansEntered, EntryOf, CallOf
    <2>0. Call(p) \in Calls
      BY RequestTypes
    <2>1. CASE typed(Call(p))
      BY <2>0, <2>1, <1>1
    <2>2. CASE ~typed(Call(p)) /\ ~hit(i)
      <3>1. effect'[Call(p)] = effect[Call(p)] /\ window'[i] = window[i]
        BY <2>0, <2>2, <1>1, <1>5
      <3> QED  BY <3>1 DEF IInv, CommittedMeansEntered, EntryOf, CallOf
    <2>3. CASE ~typed(Call(p)) /\ hit(i)
      <3>1. in(i)
        BY <2>3, <1>5
      <3>2. PICK t \in entered : i \in slot(t)
        BY <3>1
      <3>3. t \in Tabs /\ tabs[t].state = "open"
        BY <1>2 DEF Open
      <3>4. pending[t] # NoRequest /\ Call(pending[t]) = Call(p)
        BY <3>2, <3>3, <1>3
      <3>5. effect[Call(p)] # "written"
        BY <2>3, <3>3, <3>4 DEF IInv, OwnSubmission
      <3>6. effect'[Call(p)] = effect[Call(p)] /\ effect[Call(p)] \in {"none", "written", "entered"}
        BY <2>0, <2>3, <1>1, <1>2
      <3> QED  BY <3>5, <3>6
    <2> QED  BY <2>1, <2>2, <2>3
  <1>14. WaitsForTab'
    BY <1>7 DEF IInv, WaitsForTab
  <1>15. OwnSubmission'
    <2> SUFFICES ASSUME NEW t \in Tabs, t \notin due, tabs[t].state = "open", pending[t] # NoRequest
                 PROVE  \/ tabs[t].author # NoRequest /\ Call(tabs[t].author) = Call(pending[t])
                        \/ effect'[Call(pending[t])] # "written"
      BY <1>7 DEF OwnSubmission, Call, dedupe_key
    <2>1. Call(pending[t]) \in Calls
      BY <1>11, RequestTypes
    <2>2. effect'[Call(pending[t])] \in {"entered", effect[Call(pending[t])]}
      BY <2>1, <1>1
    <2> QED  BY <2>2 DEF IInv, OwnSubmission
  <1> QED
    BY <1>6, <1>8, <1>9, <1>10, <1>12, <1>13, <1>14, <1>15 DEF IInv

\* Under any number of retries, polls and deaths of terminals the invariant holds.
THEOREM Inductive == Spec => []IInv
  <1>1. Init => IInv
    <2> SUFFICES ASSUME Init  PROVE IInv
      OBVIOUS
    <2>1. Unborn \in Tab /\ Unborn.state = "unborn"
      BY DEF Unborn, Tab
    <2>2. window = <<>> /\ window \in Seq(Entry) /\ Len(window) = 0
      BY DEF Init
    <2>3. Sound(window)
      BY <2>2, WindowAssumption DEF Sound, window_capacity
    <2>4. TypeOK
      BY <2>1, <2>2 DEF Init, TypeOK
    <2>5. AtMostOnce /\ SameAnswer /\ CommittedMeansEntered
      BY <2>2 DEF Init, AtMostOnce, OneEntryPerId, SameAnswer, CommittedMeansEntered
    <2>6. PendingHasReceipt /\ WaitsForTab /\ OwnSubmission
      BY DEF Init, PendingHasReceipt, WaitsForTab, OwnSubmission
    <2> QED  BY <2>3, <2>4, <2>5, <2>6 DEF IInv
  <1>2. IInv /\ [Next]_vars => IInv'
    <2> SUFFICES ASSUME IInv, [Next]_vars  PROVE IInv'
      OBVIOUS
    <2>1. CASE UNCHANGED vars
      BY <2>1 DEF vars, IInv, TypeOK, AtMostOnce, OneEntryPerId, SameAnswer, EntryOf,
         PendingHasReceipt, Open, CommittedMeansEntered, WaitsForTab, OwnSubmission
    <2>2. CASE Tick
      BY <2>2 DEF Tick, IInv, TypeOK, AtMostOnce, OneEntryPerId, SameAnswer, EntryOf,
         PendingHasReceipt, Open, CommittedMeansEntered, WaitsForTab, OwnSubmission
    <2>3. CASE PollTerminals
      BY <2>3, PollKeeps DEF PollTerminals, poll_terminals
    <2> QED
      BY <2>1, <2>2, <2>3, AnswerKeeps, ControlledKeeps, UncontrolledKeeps, CreateKeeps DEF Next
  <1> QED  BY <1>1, <1>2, PTL DEF Spec

\* The clock, the tabs, the receipts and what clients are told keep their types.
THEOREM TypeCorrect == Spec => []TypeOK
  <1>1. IInv => TypeOK
    BY DEF IInv
  <1> QED  BY <1>1, Inductive, PTL

\* A retry of a request whose receipt is retained does not run it again.
THEOREM RunsOnce == Spec => []AtMostOnce
  <1>1. IInv => AtMostOnce
    BY DEF IInv
  <1> QED  BY <1>1, Inductive, PTL

\* Clients of a retained request are told "accepted" or its one outcome.
THEOREM OneAnswer == Spec => []SameAnswer
  <1>1. IInv => SameAnswer
    BY DEF IInv
  <1> QED  BY <1>1, Inductive, PTL

\* finish_submission finds the receipt of whatever waits for a terminal.
THEOREM WaitingIsRetained == Spec => []PendingHasReceipt
  <1>1. IInv => PendingHasReceipt
    BY DEF IInv
  <1> QED  BY <1>1, Inductive, PTL

\* A send-composer that is reported committed and wrote its text wrote Enter too.
THEOREM CommittedIsEntered == Spec => []CommittedMeansEntered
  <1>1. IInv => CommittedMeansEntered
    BY DEF IInv
  <1> QED  BY <1>1, Inductive, PTL

\* The replay window never exceeds its capacity, although receipts that wait
\* are never evicted: admit refuses instead.
THEOREM WindowBounded == Spec => [](Len(window) <= window_capacity)
  <1>1. IInv => Len(window) <= window_capacity
    BY DEF IInv, Sound
  <1> QED  BY <1>1, Inductive, PTL

\* What a step may do to the receipts it finds: a final one stays exactly as it
\* is, a waiting one keeps its place in the window, and only the oldest final
\* receipt of a full window goes.
ReceiptsStay ==
  \A i \in 1..Len(window) :
    \/ \E k \in 1..Len(window') :
         /\ CallOf(window'[k]) = CallOf(window[i])
         /\ window[i].finalized => window'[k] = window[i]
    \/ Evictable(window, i)

\* complete, update_accepted and finish_submission never rewrite a final receipt,
\* and admit drops no other than the oldest final one, and that only when the
\* window is full: what a client was told at the end stays what a retry is told.
THEOREM FinalIsFinal == Spec => [][ReceiptsStay]_vars
  <1>1. ASSUME IInv, UNCHANGED window  PROVE ReceiptsStay
    BY <1>1 DEF ReceiptsStay
  <1>2. ASSUME IInv, NEW q \in Requests, NEW accepts \in 0..2, Controlled(q, accepts)
        PROVE  ReceiptsStay
    <2> DEFINE a == admit(window, q, now)
               r == execute_command(tabs[q.tab], q.op, q, accepts)
               o == outcome(q, r)
               x == IF o = "accepted" THEN update_accepted(a.window, q, o)
                    ELSE complete(a.window, q, o)
    <2>1. a.kind = "execute" /\ window' = x
      BY <1>2 DEF Controlled
    <2>2. q.tab \in Tabs /\ q.op \in Ops /\ tabs[q.tab] \in Tab
      BY <1>2, RequestTypes DEF IInv, TypeOK
    <2>3. o \in Outcomes
      BY <2>2, OutcomeIs
    <2>4. Sound(a.window) /\ Extended(window, a.window, Reserved(q))
            /\ Slots(a.window, q) = {Len(a.window)}
      BY <1>2, <2>1, Admitted DEF IInv, TypeOK
    <2> HIDE DEF a, o
    <2>5. Sound(x) /\ Extended(window, x, Receipt(q, o))
      BY <2>3, <2>4, Receipted
    <2> HIDE DEF x
    <2>6. Len(window') \in Nat /\ Extended(window, window', Receipt(q, o))
      BY <2>1, <2>5 DEF Sound
    <2>7. ASSUME NEW i \in 1..Len(window), ~Evictable(window, i)
          PROVE  \E k \in 1..Len(window') : window'[k] = window[i]
      <3>1. PICK k \in 1..Len(window') - 1 : window'[k] = window[i]
        BY <2>6, <2>7 DEF Extended
      <3>2. k \in 1..Len(window')
        BY <2>6
      <3> QED  BY <3>1, <3>2
    <2> QED  BY <2>7 DEF ReceiptsStay
  <1>3. ASSUME IInv, NEW due, NEW dying, PollAndFinish(due, dying),
               due \subseteq {t \in Open : tabs[t].submitting}
        PROVE  ReceiptsStay
    <2> DEFINE entered == {t \in due : tabs[t].writable /\ t \notin dying}
               slot(t) == IF pending[t] = NoRequest THEN {} ELSE Slots(window, pending[t])
               hit(i) == \E t \in due : i \in slot(t)
               in(i) == \E t \in entered : i \in slot(t)
    <2>1. window' = [i \in 1..Len(window) |->
              IF hit(i) THEN Settled(window[i], finish_outcome(in(i))) ELSE window[i]]
      BY <1>3 DEF PollAndFinish
    <2>2. Sound(window) /\ window \in Seq(Entry) /\ due \subseteq Tabs
            /\ pending \in [Tabs -> Requests \cup {NoRequest}]
      BY <1>3 DEF IInv, TypeOK, Open
    <2>3. ASSUME NEW i \in 1..Len(window), hit(i)  PROVE ~window[i].finalized
      <3>1. PICK t \in due : pending[t] # NoRequest /\ i \in Slots(window, pending[t])
        BY <2>3
      <3>2. pending[t] \in Requests
        BY <3>1, <2>2
      <3> QED  BY <3>1, <3>2, <2>2, SlotsOf
    <2> HIDE DEF hit, in
    <2>4. Len(window') = Len(window)
      BY <2>1, <2>2
    <2>5. ASSUME NEW i \in 1..Len(window)
          PROVE  /\ CallOf(window'[i]) = CallOf(window[i])
                 /\ window[i].finalized => window'[i] = window[i]
      <3>1. window[i] \in Entry
        BY <2>2
      <3>2. window'[i] = IF hit(i) THEN Settled(window[i], finish_outcome(in(i))) ELSE window[i]
        BY <2>1
      <3>3. CallOf(Settled(window[i], finish_outcome(in(i)))) = CallOf(window[i])
        BY <3>1 DEF Settled, CallOf, Entry
      <3> QED  BY <2>3, <3>2, <3>3
    <2> QED  BY <2>4, <2>5 DEF ReceiptsStay
  <1>4. IInv /\ [Next]_vars => [ReceiptsStay]_vars
    <2> SUFFICES ASSUME IInv, Next  PROVE ReceiptsStay
      OBVIOUS
    <2>1. CASE PollTerminals
      BY <2>1, <1>3 DEF PollTerminals, poll_terminals
    <2>2. CASE (\E q \in Requests : Answer(q)) \/ Tick
      BY <2>2, <1>1 DEF Answer, Tick
    <2>3. CASE \/ \E p \in Plain, accepts \in 0..2 : Uncontrolled(p, accepts)
               \/ \E t \in Tabs : create_tab(t)
      BY <2>3, <1>1 DEF Uncontrolled, create_tab
    <2> QED  BY <2>1, <2>2, <2>3, <1>2 DEF Next
  <1> QED  BY <1>4, Inductive, PTL DEF Spec

=============================================================================
