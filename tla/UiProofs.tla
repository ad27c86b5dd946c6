------------------------------ MODULE UiProofs ------------------------------
(***************************************************************************)
(* The GUI clients of a server.  Part one, for any number of clients,      *)
(* requests and leases and any limits: a relayed command is at one place,  *)
(* its requester gets the one answer to its own request, the server        *)
(* carries a preapplied command out once, and the visibility event tells   *)
(* whether a GUI is attached.  Part two, for any number of tabs and any    *)
(* journal: the server can always serve its workspace, and a client that   *)
(* has seen every event shows it.                                          *)
(***************************************************************************)
EXTENDS UiSession, UiMirror, SequenceTheorems, FiniteSetTheorems, TLAPS

Results == {"visible", "hidden", "output", "failed"}
Leases == [id : Nat, client : Clients, expired : BOOLEAN]
Commands == [id : Nat, req : Nat]
Answers == [id : Nat, req : Nat, response : Results, stamped : BOOLEAN]
Reads == [req : Nat, response : Results]
Asks == [kind : Kinds, id : Nat]

Servers ==
  [leases : SUBSET Leases, next_lease : Nat,
   snapshot : [lease : Nat, visible : BOOLEAN],
   pending : Seq(Commands), in_flight : SUBSET Commands, preapplied : SUBSET Nat,
   completed : Seq(Answers), next_id : Nat \ {0},
   shutdown_after : Nat, shutdown : BOOLEAN, visibility : BOOLEAN]

TypeOK ==
  /\ server \in Servers /\ alive \subseteq Clients
  /\ held \in [Clients -> Nat]
  /\ got \in [Clients -> [command : Commands, response : Results \cup {"none"}]]
  /\ asked \in Seq(Asks) /\ Len(asked) <= MaxRequests
  /\ effects \in [Requests -> Nat]
  /\ seen \in [Requests -> SUBSET Reads]

-----------------------------------------------------------------------------
(* The inductive invariant.  The server is a record that every handler     *)
(* transforms, often in two stages, so its parts are about a server value. *)

\* The lease table: ids and clients are unique, and the last event is true.
LeasesFine(s) ==
  /\ s.visibility <=> s.leases # {}
  /\ \A l \in s.leases : l.id < s.next_lease
  /\ \A l, k \in s.leases : l.id = k.id \/ l.client = k.client => l = k

Active(s) == Range(s.pending) \cup s.in_flight

\* Every command and every result is that of the request it names.
Known(s, a) ==
  \A m \in Active(s) \cup Range(s.completed) :
    m.id # 0 /\ m.id < s.next_id /\ m.req \in DOMAIN a /\ a[m.req].id = m.id

\* Command ids are never given twice.
AskedOnce(s, a) ==
  /\ \A n \in DOMAIN a : a[n].id < s.next_id
  /\ \A n, k \in DOMAIN a : a[n].id = a[k].id /\ a[n].id # 0 => n = k

\* Where a command is, it is nowhere else.
Apart(s) ==
  /\ \A i, j \in DOMAIN s.pending : s.pending[i].id = s.pending[j].id => i = j
  /\ \A m \in Range(s.pending), k \in s.in_flight : m.id # k.id
  /\ \A m \in Active(s), r \in Range(s.completed) : m.id # r.id
  /\ \A i, j \in DOMAIN s.completed : s.completed[i].id = s.completed[j].id => i = j

\* preapplied holds exactly the active commands the server has carried out.
Preapplied(s, a) ==
  /\ \A i \in s.preapplied : \E m \in Active(s) : m.id = i
  /\ \A m \in Active(s) : requires_server_preapply(a[m.req].kind) => m.id \in s.preapplied

\* What was carried out, and how often.
Carried(a, e) ==
  /\ \A n \in DOMAIN a :
       e[n] \in IF ~requires_server_preapply(a[n].kind) THEN {0}
               ELSE IF a[n].id # 0 THEN {1} ELSE {0, 1}
  /\ \A n \in Requests : n > Len(a) => e[n] = 0

\* What a requester has seen is over, and stays the only answer.
Collected(s, a, sn) ==
  \A n \in Requests : \A r \in sn[n] :
    /\ n \in DOMAIN a /\ r.req = n /\ a[n].id # 0
    /\ \A m \in Active(s) : m.id # a[n].id
    /\ \A q \in Range(s.completed) : q.id = a[n].id => AnswerOf(q) = r
    /\ \A q \in sn[n] : q = r

QueueFine(s, a, e, sn) ==
  /\ Known(s, a) /\ AskedOnce(s, a) /\ Apart(s) /\ Preapplied(s, a)
  /\ Carried(a, e) /\ Collected(s, a, sn)

IInv == TypeOK /\ LeasesFine(server) /\ QueueFine(server, asked, effects, seen)

-----------------------------------------------------------------------------
(* The lease table.                                                        *)

\* t has the queue of s, or none: what a change of leases may do to the queue.
Quiet(s, t) ==
  /\ t.completed = s.completed /\ t.next_id = s.next_id
  /\ \/ t.pending = s.pending /\ t.in_flight = s.in_flight /\ t.preapplied = s.preapplied
     \/ t.pending = <<>> /\ t.in_flight = {} /\ t.preapplied = {}

LEMMA QuietTwice ==
  ASSUME NEW s, NEW t, NEW u, Quiet(s, t), Quiet(t, u)
  PROVE  Quiet(s, u)
  BY DEF Quiet

\* Taking leases away: the event is published when the last one goes.
LEMMA ReleasedIs ==
  ASSUME NEW s \in Servers, LeasesFine(s), NEW ids
  PROVE  /\ Released(s, ids) \in Servers /\ LeasesFine(Released(s, ids))
         /\ Quiet(s, Released(s, ids))
  <1> DEFINE t == IF s.snapshot.lease \in ids
                  THEN clear_ui_client_snapshot_for(s, s.snapshot.lease) ELSE s
             kept == {l \in s.leases : l.id \notin ids}
             u == [t EXCEPT !.leases = kept,
                            !.visibility = IF ids # {} /\ kept = {} THEN FALSE ELSE @]
  <1>1. /\ t \in Servers /\ Quiet(s, t)
        /\ t.leases = s.leases /\ t.next_lease = s.next_lease
        /\ t.visibility = s.visibility
    <2>1. CASE s.snapshot.lease \in ids
      <3> DEFINE v == [s EXCEPT !.pending = <<>>, !.in_flight = {}, !.preapplied = {}]
      <3>0. <<>> \in Seq(Commands)
        OBVIOUS
      <3>1. v \in Servers /\ Quiet(s, v) /\ v.leases = s.leases
            /\ v.next_lease = s.next_lease /\ v.visibility = s.visibility
        <4>1. v \in Servers
          BY <3>0 DEF Servers
        <4>2. Quiet(s, v)
          BY DEF Servers, Quiet
        <4>3. v.leases = s.leases /\ v.next_lease = s.next_lease
          BY DEF Servers
        <4>4. v.visibility = s.visibility
          BY DEF Servers
        <4> QED  BY <4>1, <4>2, <4>3, <4>4
      <3>2. t = [v EXCEPT !.snapshot = NoSnapshot]
        BY <2>1 DEF clear_ui_client_snapshot_for, clear_active
      <3>3. NoSnapshot \in [lease : Nat, visible : BOOLEAN]
        BY DEF NoSnapshot
      <3> HIDE DEF v, t
      <3> QED  BY <3>1, <3>2, <3>3 DEF Servers, Quiet
    <2>2. CASE s.snapshot.lease \notin ids
      BY <2>2 DEF Quiet
    <2> QED  BY <2>1, <2>2
  <1>2. Released(s, ids) = u
    BY DEF Released
  <1> HIDE DEF t
  <1>3. kept \subseteq s.leases /\ (ids = {} => kept = s.leases)
    OBVIOUS
  <1>4. (IF ids # {} /\ kept = {} THEN FALSE ELSE t.visibility) \in BOOLEAN
    BY <1>1 DEF Servers
  <1>5. s.leases \subseteq Leases
    BY DEF Servers
  <1> HIDE DEF kept
  <1>6. u \in Servers /\ Quiet(t, u)
    BY <1>1, <1>3, <1>4, <1>5 DEF Servers, Quiet
  <1>7. /\ u.leases = kept /\ u.next_lease = s.next_lease
        /\ u.visibility = IF ids # {} /\ kept = {} THEN FALSE ELSE s.visibility
    BY <1>1 DEF Servers
  <1>8. LeasesFine(u)
    BY <1>3, <1>7 DEF LeasesFine
  <1> QED  BY <1>1, <1>2, <1>6, <1>8, QuietTwice

\* Renewing leases, or letting one expire, changes no id and no client.
LEMMA TouchedIs ==
  ASSUME NEW s \in Servers, LeasesFine(s), NEW L \in SUBSET Leases,
         \A l \in L : \E k \in s.leases : l.id = k.id /\ l.client = k.client,
         \A l, k \in L : l.id = k.id => l = k,
         L = {} <=> s.leases = {}
  PROVE  LET t == [s EXCEPT !.leases = L]
         IN  t \in Servers /\ LeasesFine(t) /\ Quiet(s, t)
  <1> DEFINE t == [s EXCEPT !.leases = L]
  <1>1. /\ t \in Servers /\ Quiet(s, t) /\ t.leases = L
        /\ t.next_lease = s.next_lease /\ t.visibility = s.visibility
    BY DEF Servers, Quiet
  <1> HIDE DEF t
  <1>2. \A l \in L : l.id < s.next_lease
    BY DEF LeasesFine
  <1>3. ASSUME NEW l \in L, NEW k \in L, l.client = k.client
        PROVE  l.id = k.id
    <2>1. PICK x \in s.leases : l.id = x.id /\ l.client = x.client
      OBVIOUS
    <2>2. PICK y \in s.leases : k.id = y.id /\ k.client = y.client
      OBVIOUS
    <2>3. x.client = y.client
      BY <1>3, <2>1, <2>2
    <2>4. x = y
      BY <2>3 DEF LeasesFine
    <2> QED  BY <2>1, <2>2, <2>4
  <1>4. LeasesFine(t)
    BY <1>1, <1>2, <1>3 DEF LeasesFine
  <1> QED  BY <1>1, <1>4 DEF t

LEMMA RenewedIs ==
  ASSUME NEW s \in Servers, LeasesFine(s), NEW ids
  PROVE  LET t == [s EXCEPT !.leases = Renewed(@, ids)]
         IN  t \in Servers /\ LeasesFine(t) /\ Quiet(s, t)
  <1> DEFINE new(l) == IF l.id \in ids THEN [l EXCEPT !.expired = FALSE] ELSE l
             L == {new(l) : l \in s.leases}
  <1>1. \A l \in s.leases : new(l) \in Leases /\ new(l).id = l.id /\ new(l).client = l.client
    BY DEF Servers, Leases
  <1>2. Renewed(s.leases, ids) = L
    BY DEF Renewed
  <1> HIDE DEF new
  <1>3. L \in SUBSET Leases /\ (L = {} <=> s.leases = {})
    BY <1>1
  <1>4. \A l \in L : \E k \in s.leases : l.id = k.id /\ l.client = k.client
    BY <1>1
  <1>5. \A l, k \in L : l.id = k.id => l = k
    BY <1>1 DEF LeasesFine
  <1> HIDE DEF L
  <1> QED  BY <1>2, <1>3, <1>4, <1>5, TouchedIs

LEMMA ExpiredIs ==
  ASSUME NEW s \in Servers, LeasesFine(s), NEW l \in s.leases
  PROVE  LET t == [s EXCEPT !.leases = (@ \ {l}) \union {[l EXCEPT !.expired = TRUE]}]
         IN  t \in Servers /\ LeasesFine(t) /\ Quiet(s, t)
  <1> DEFINE x == [l EXCEPT !.expired = TRUE]
             L == (s.leases \ {l}) \union {x}
  <1>1. x \in Leases /\ x.id = l.id /\ x.client = l.client
    BY DEF Servers, Leases
  <1> HIDE DEF x
  <1>2. L \in SUBSET Leases /\ L # {} /\ s.leases # {}
    BY <1>1 DEF Servers
  <1>3. \A k \in L : \E h \in s.leases : k.id = h.id /\ k.client = h.client
    BY <1>1
  <1>4. \A k, h \in L : k.id = h.id => k = h
    BY <1>1 DEF LeasesFine
  <1> HIDE DEF L
  <1>5. LET t == [s EXCEPT !.leases = L]
        IN  t \in Servers /\ LeasesFine(t) /\ Quiet(s, t)
    BY <1>2, <1>3, <1>4, TouchedIs
  <1> QED  BY <1>5 DEF L, x

\* A client that asks for a lease gets a new one only if it has none.
LEMMA AttachIs ==
  ASSUME NEW s \in Servers, LeasesFine(s), NEW c \in Clients
  PROVE  attach(s, c) \in Servers /\ LeasesFine(attach(s, c)) /\ Quiet(s, attach(s, c))
  <1>1. CASE OwnLeases(s, c) # {}
    BY <1>1, RenewedIs DEF attach
  <1>2. CASE OwnLeases(s, c) = {} /\ Cardinality(s.leases) >= MaxClients
    BY <1>2 DEF attach, Quiet
  <1>3. CASE OwnLeases(s, c) = {} /\ ~(Cardinality(s.leases) >= MaxClients)
    <2> DEFINE x == [id |-> s.next_lease, client |-> c, expired |-> FALSE]
               t == Granted(s, c)
    <2>1. attach(s, c) = t
      BY <1>3 DEF attach
    <2>2. x \in Leases /\ x.id = s.next_lease /\ x.client = c
      BY DEF Servers, Leases
    <2>3. t = [s EXCEPT !.leases = @ \union {x}, !.next_lease = @ + 1, !.visibility = TRUE]
      BY DEF Granted
    <2> HIDE DEF x, t
    <2>4. /\ t \in Servers /\ Quiet(s, t) /\ t.leases = s.leases \union {x}
          /\ t.next_lease = s.next_lease + 1 /\ t.visibility
      <3>1. t \in Servers
        <4>1. s.leases \union {x} \in SUBSET Leases /\ s.next_lease + 1 \in Nat
          BY <2>2 DEF Servers
        <4> QED  BY <2>3, <4>1 DEF Servers
      <3>2. Quiet(s, t)
        BY <2>3 DEF Servers, Quiet
      <3>3. t.leases = s.leases \union {x} /\ t.next_lease = s.next_lease + 1 /\ t.visibility
        BY <2>3 DEF Servers
      <3> QED  BY <3>1, <3>2, <3>3
    <2>5. s.next_lease \in Nat /\ \A l \in s.leases : l.id \in Nat /\ l.id < s.next_lease
      BY DEF Servers, Leases, LeasesFine
    <2>6. \A l \in s.leases : l.client # c
      BY <1>3 DEF OwnLeases
    <2>7. \A l \in t.leases : l.id < t.next_lease
      BY <2>2, <2>4, <2>5
    <2>8. ASSUME NEW l \in t.leases, NEW k \in t.leases, l.id = k.id \/ l.client = k.client
          PROVE  l = k
      BY <2>2, <2>4, <2>5, <2>6, <2>8 DEF LeasesFine
    <2>9. LeasesFine(t)
      BY <2>4, <2>7, <2>8 DEF LeasesFine
    <2> QED  BY <2>1, <2>4, <2>9
  <1> QED  BY <1>1, <1>2, <1>3

-----------------------------------------------------------------------------
(* The queue.                                                              *)

\* Losing the queue, or leaving it alone, keeps it consistent.
LEMMA QuietKeeps ==
  ASSUME NEW s \in Servers, NEW t \in Servers, NEW a, NEW e, NEW sn,
         QueueFine(s, a, e, sn), Quiet(s, t)
  PROVE  QueueFine(t, a, e, sn)
  <1>1. t.completed = s.completed /\ t.next_id = s.next_id
    BY DEF Quiet
  <1>2. CASE t.pending = s.pending /\ t.in_flight = s.in_flight /\ t.preapplied = s.preapplied
    BY <1>1, <1>2 DEF QueueFine, Known, AskedOnce, Apart, Preapplied, Collected, Active
  <1>3. CASE t.pending = <<>> /\ t.in_flight = {} /\ t.preapplied = {}
    <2>1. Range(t.pending) = {} /\ DOMAIN t.pending = {} /\ Active(t) = {}
      BY <1>3 DEF Range, Active
    <2> QED  BY <1>1, <1>3, <2>1
         DEF QueueFine, Known, AskedOnce, Apart, Preapplied, Collected
  <1> QED  BY <1>2, <1>3 DEF Quiet

\* The elements of a sequence are its head and those of its tail.
LEMMA HeadAndTail ==
  ASSUME NEW S, NEW s \in Seq(S), s # <<>>
  PROVE  /\ Head(s) \in S /\ Tail(s) \in Seq(S) /\ Len(s) \in Nat \ {0}
         /\ Head(s) = s[1] /\ Len(Tail(s)) = Len(s) - 1
         /\ \A i \in 1..Len(s) - 1 : Tail(s)[i] = s[i + 1]
         /\ DOMAIN s = 1..Len(s) /\ DOMAIN Tail(s) = 1..Len(s) - 1
         /\ Range(s) = Range(Tail(s)) \cup {Head(s)}
  <1>1. /\ Head(s) \in S /\ Tail(s) \in Seq(S) /\ Len(s) \in Nat \ {0}
        /\ Head(s) = s[1] /\ Len(Tail(s)) = Len(s) - 1
        /\ \A i \in 1..Len(s) - 1 : Tail(s)[i] = s[i + 1]
    BY HeadTailProperties
  <1>2. DOMAIN s = 1..Len(s) /\ DOMAIN Tail(s) = 1..Len(s) - 1
    BY <1>1
  <1>3. ASSUME NEW x \in Range(s)  PROVE x \in Range(Tail(s)) \cup {Head(s)}
    <2>1. PICK i \in 1..Len(s) : x = s[i]
      BY <1>2 DEF Range
    <2>2. CASE i = 1
      BY <2>1, <2>2, <1>1
    <2>3. CASE i # 1
      <3>1. i - 1 \in 1..Len(s) - 1 /\ (i - 1) + 1 = i
        BY <2>3, <1>1
      <3>2. Tail(s)[i - 1] = x
        BY <3>1, <2>1, <1>1
      <3> QED  BY <3>1, <3>2, <1>2 DEF Range
    <2> QED  BY <2>2, <2>3
  <1>4. ASSUME NEW x \in Range(Tail(s))  PROVE x \in Range(s)
    <2>1. PICK i \in 1..Len(s) - 1 : x = Tail(s)[i]
      BY <1>2 DEF Range
    <2>2. i + 1 \in 1..Len(s) /\ x = s[i + 1]
      BY <2>1, <1>1
    <2> QED  BY <2>2, <1>2 DEF Range
  <1>5. Head(s) \in Range(s)
    BY <1>1, <1>2 DEF Range
  <1> QED  BY <1>1, <1>2, <1>3, <1>4, <1>5

\* Appending adds one element.
LEMMA Appended ==
  ASSUME NEW S, NEW s \in Seq(S), NEW x \in S
  PROVE  /\ Append(s, x) \in Seq(S) /\ Len(s) \in Nat
         /\ Len(Append(s, x)) = Len(s) + 1
         /\ \A i \in 1..Len(s) : Append(s, x)[i] = s[i]
         /\ Append(s, x)[Len(s) + 1] = x
         /\ DOMAIN s = 1..Len(s) /\ DOMAIN Append(s, x) = 1..Len(s) + 1
         /\ Range(Append(s, x)) = Range(s) \cup {x}
  <1>1. /\ Append(s, x) \in Seq(S) /\ Len(s) \in Nat
        /\ Len(Append(s, x)) = Len(s) + 1
        /\ \A i \in 1..Len(s) : Append(s, x)[i] = s[i]
        /\ Append(s, x)[Len(s) + 1] = x
    BY AppendProperties
  <1>2. DOMAIN s = 1..Len(s) /\ DOMAIN Append(s, x) = 1..Len(s) + 1
    BY <1>1
  <1>3. \A y \in Range(Append(s, x)) : y \in Range(s) \cup {x}
    BY <1>1, <1>2 DEF Range
  <1>4. \A y \in Range(s) \cup {x} : y \in Range(Append(s, x))
    BY <1>1, <1>2 DEF Range
  <1> QED  BY <1>1, <1>2, <1>3, <1>4

\* A polled command moves from the head of the queue to those in flight.
LEMMA PollIs ==
  ASSUME NEW s \in Servers, LeasesFine(s), NEW a, NEW e, NEW sn,
         QueueFine(s, a, e, sn), s.pending # <<>>
  PROVE  /\ poll(s) \in Servers /\ LeasesFine(poll(s))
         /\ QueueFine(poll(s), a, e, sn)
  <1> DEFINE p == s.pending
             h == Head(p)
             t == poll(s)
  <1>1. p \in Seq(Commands) /\ s.in_flight \in SUBSET Commands
    BY DEF Servers
  <1>2. /\ h \in Commands /\ Tail(p) \in Seq(Commands) /\ Len(p) \in Nat \ {0}
        /\ h = p[1] /\ \A i \in 1..Len(p) - 1 : Tail(p)[i] = p[i + 1]
        /\ DOMAIN p = 1..Len(p) /\ DOMAIN Tail(p) = 1..Len(p) - 1
        /\ Range(p) = Range(Tail(p)) \cup {h}
    BY <1>1, HeadAndTail
  <1>3. s.in_flight \union {h} \in SUBSET Commands
    BY <1>1, <1>2
  <1>4. t = [s EXCEPT !.pending = Tail(p), !.in_flight = s.in_flight \union {h}]
    BY DEF poll
  <1> HIDE DEF t, h
  <1>5. t \in Servers
    BY <1>2, <1>3, <1>4 DEF Servers
  <1>6. /\ t.pending = Tail(p) /\ t.in_flight = s.in_flight \union {h}
        /\ t.preapplied = s.preapplied /\ t.completed = s.completed /\ t.next_id = s.next_id
        /\ t.leases = s.leases /\ t.next_lease = s.next_lease
    BY <1>4 DEF Servers
  <1>7. t.visibility <=> s.visibility
    BY <1>4 DEF Servers
  <1>8. Active(t) = Active(s)
    BY <1>2, <1>6 DEF Active
  <1>9. Apart(t)
    <2>1. \A i, j \in DOMAIN p : p[i].id = p[j].id => i = j
      BY DEF QueueFine, Apart
    <2>2. ASSUME NEW i \in 1..Len(p) - 1, NEW j \in 1..Len(p) - 1, Tail(p)[i].id = Tail(p)[j].id
          PROVE  i = j
      <3>1. i + 1 \in DOMAIN p /\ j + 1 \in DOMAIN p /\ p[i + 1].id = p[j + 1].id
        BY <2>2, <1>2
      <3>2. i + 1 = j + 1
        BY <2>1, <3>1
      <3> QED  BY <3>2
    <2>3. ASSUME NEW m \in Range(Tail(p))  PROVE m.id # h.id
      <3>1. PICK i \in 1..Len(p) - 1 : m = Tail(p)[i]
        BY <1>2 DEF Range
      <3>2. i + 1 \in DOMAIN p /\ 1 \in DOMAIN p /\ i + 1 # 1 /\ m = p[i + 1]
        BY <3>1, <1>2
      <3> QED  BY <2>1, <3>2, <1>2
    <2>4. \A m \in Range(Tail(p)), k \in s.in_flight : m.id # k.id
      BY <1>2 DEF QueueFine, Apart
    <2>5. \A m \in Range(t.pending), k \in t.in_flight : m.id # k.id
      BY <2>3, <2>4, <1>6
    <2>6. \A i, j \in DOMAIN t.pending : t.pending[i].id = t.pending[j].id => i = j
      BY <2>2, <1>2, <1>6
    <2> QED  BY <2>5, <2>6, <1>6, <1>8 DEF QueueFine, Apart
  <1>10. QueueFine(t, a, e, sn)
    BY <1>6, <1>8, <1>9 DEF QueueFine, Known, AskedOnce, Preapplied, Collected
  <1>11. LeasesFine(t)
    BY <1>6, <1>7 DEF LeasesFine
  <1> QED  BY <1>5, <1>10, <1>11 DEF t

\* The ids in a sequence differ.
Distinct(q) == \A i, j \in DOMAIN q : q[i].id = q[j].id => i = j

LEMMA DistinctAppend ==
  ASSUME NEW S, NEW q \in Seq(S), NEW x \in S, Distinct(q), \A y \in Range(q) : y.id # x.id
  PROVE  Distinct(Append(q, x))
  <1>1. /\ Len(q) \in Nat /\ Append(q, x)[Len(q) + 1] = x
        /\ \A i \in 1..Len(q) : Append(q, x)[i] = q[i]
        /\ DOMAIN q = 1..Len(q) /\ DOMAIN Append(q, x) = 1..Len(q) + 1
    BY Appended
  <1>2. \A i \in 1..Len(q) : q[i].id # x.id
    BY <1>1 DEF Range
  <1> QED  BY <1>1, <1>2 DEF Distinct

LEMMA DistinctTail ==
  ASSUME NEW S, NEW q \in Seq(S), q # <<>>, Distinct(q)
  PROVE  Distinct(Tail(q))
  <1>1. /\ Len(q) \in Nat \ {0} /\ \A i \in 1..Len(q) - 1 : Tail(q)[i] = q[i + 1]
        /\ DOMAIN q = 1..Len(q) /\ DOMAIN Tail(q) = 1..Len(q) - 1
    BY HeadAndTail
  <1>2. ASSUME NEW i \in 1..Len(q) - 1, NEW j \in 1..Len(q) - 1, Tail(q)[i].id = Tail(q)[j].id
        PROVE  i = j
    <2>1. i + 1 \in DOMAIN q /\ j + 1 \in DOMAIN q /\ q[i + 1].id = q[j + 1].id
      BY <1>1, <1>2
    <2>2. i + 1 = j + 1
      BY <2>1 DEF Distinct
    <2> QED  BY <2>2
  <1> QED  BY <1>1, <1>2 DEF Distinct

\* The oldest result may be dropped for a new one.
LEMMA TrimmedIs ==
  ASSUME NEW q \in Seq(Answers), NEW x \in Answers, Distinct(q), \A y \in Range(q) : y.id # x.id
  PROVE  LET r == Trimmed(Append(q, x))
         IN  r \in Seq(Answers) /\ Distinct(r) /\ Range(r) \subseteq Range(q) \cup {x}
  <1> DEFINE b == Append(q, x)
  <1>1. b \in Seq(Answers) /\ Range(b) = Range(q) \cup {x} /\ Len(b) = Len(q) + 1 /\ Len(q) \in Nat
    BY Appended
  <1>2. Distinct(b)
    BY DistinctAppend
  <1> HIDE DEF b
  <1>3. b # <<>>
    BY <1>1
  <1>4. Tail(b) \in Seq(Answers) /\ Range(Tail(b)) \subseteq Range(b)
    BY <1>1, <1>3, HeadAndTail
  <1>5. Distinct(Tail(b))
    BY <1>1, <1>2, <1>3, DistinctTail
  <1>6. Trimmed(b) \in {b, Tail(b)}
    BY DEF Trimmed
  <1> QED  BY <1>1, <1>2, <1>4, <1>5, <1>6 DEF b

\* A completed command leaves those in flight and its answer is kept.
LEMMA CompleteIs ==
  ASSUME NEW s \in Servers, LeasesFine(s), NEW a, NEW e, NEW sn,
         QueueFine(s, a, e, sn), NEW command \in s.in_flight, NEW response \in Results
  PROVE  LET t == complete(s, command, response)
         IN  t \in Servers /\ LeasesFine(t) /\ QueueFine(t, a, e, sn)
  <1> DEFINE x == [id |-> command.id, req |-> command.req, response |-> response,
                   stamped |-> FALSE]
             q == Trimmed(Append(s.completed, x))
             t == complete(s, command, response)
  <1>1. /\ s.completed \in Seq(Answers) /\ command \in Commands
        /\ s.in_flight \in SUBSET Commands /\ s.preapplied \in SUBSET Nat
    BY DEF Servers
  <1>2. x \in Answers /\ x.id = command.id /\ x.req = command.req
    BY <1>1 DEF Commands, Answers
  <1>3. command \in Active(s)
    BY DEF Active
  <1>4. \A y \in Range(s.completed) : y.id # x.id
    BY <1>2, <1>3 DEF QueueFine, Apart
  <1>5. Distinct(s.completed)
    BY DEF QueueFine, Apart, Distinct
  <1>6. t = [s EXCEPT !.in_flight = @ \ {command}, !.preapplied = @ \ {command.id}, !.completed = q]
    BY DEF complete
  <1> HIDE DEF x, t
  <1>7. q \in Seq(Answers) /\ Distinct(q) /\ Range(q) \subseteq Range(s.completed) \cup {x}
    BY <1>1, <1>2, <1>4, <1>5, TrimmedIs
  <1> HIDE DEF q
  <1>8. s.in_flight \ {command} \in SUBSET Commands /\ s.preapplied \ {command.id} \in SUBSET Nat
    BY <1>1
  <1>9. t \in Servers
    BY <1>6, <1>7, <1>8 DEF Servers
  <1>10. /\ t.pending = s.pending /\ t.in_flight = s.in_flight \ {command}
         /\ t.preapplied = s.preapplied \ {command.id} /\ t.completed = q /\ t.next_id = s.next_id
         /\ t.leases = s.leases /\ t.next_lease = s.next_lease
    BY <1>6 DEF Servers
  <1>11. t.visibility <=> s.visibility
    BY <1>6 DEF Servers
  <1>12. \A m \in s.in_flight : m.id = command.id => m = command
    <2>1. ASSUME NEW m \in s.in_flight, m.id = command.id  PROVE m.req = command.req
      <3>1. m \in Active(s)
        BY DEF Active
      <3>2. /\ m.req \in DOMAIN a /\ a[m.req].id = m.id /\ m.id # 0
            /\ command.req \in DOMAIN a /\ a[command.req].id = command.id
        BY <1>3, <3>1 DEF QueueFine, Known
      <3> QED  BY <2>1, <3>2 DEF QueueFine, AskedOnce
    <2> QED  BY <2>1, <1>1 DEF Commands
  <1>13. \A m \in Range(s.pending) : m.id # command.id
    BY DEF QueueFine, Apart
  <1>14. /\ Active(t) = Active(s) \ {command}
         /\ \A m \in Active(t) : m.id # command.id
    BY <1>10, <1>12, <1>13 DEF Active
  <1>15. Known(t, a)
    BY <1>2, <1>3, <1>7, <1>10, <1>14 DEF QueueFine, Known
  <1>16. AskedOnce(t, a)
    BY <1>10 DEF QueueFine, AskedOnce
  <1>17. Apart(t)
    <2>1. \A m \in Active(t), r \in Range(q) : m.id # r.id
      BY <1>2, <1>7, <1>14 DEF QueueFine, Apart
    <2> QED  BY <2>1, <1>7, <1>10 DEF QueueFine, Apart, Distinct
  <1>18. Preapplied(t, a)
    BY <1>10, <1>14 DEF QueueFine, Preapplied
  <1>19. Collected(t, a, sn)
    <2> SUFFICES ASSUME NEW n \in Requests, NEW r \in sn[n]
                 PROVE  /\ n \in DOMAIN a /\ r.req = n /\ a[n].id # 0
                        /\ \A m \in Active(t) : m.id # a[n].id
                        /\ \A y \in Range(t.completed) : y.id = a[n].id => AnswerOf(y) = r
                        /\ \A y \in sn[n] : y = r
      BY DEF Collected
    <2>1. /\ n \in DOMAIN a /\ r.req = n /\ a[n].id # 0
          /\ \A m \in Active(s) : m.id # a[n].id
          /\ \A y \in Range(s.completed) : y.id = a[n].id => AnswerOf(y) = r
          /\ \A y \in sn[n] : y = r
      BY DEF QueueFine, Collected
    <2> QED  BY <2>1, <1>2, <1>3, <1>7, <1>10, <1>14
  <1>20. LeasesFine(t)
    BY <1>10, <1>11 DEF LeasesFine
  <1>21. QueueFine(t, a, e, sn)
    BY <1>15, <1>16, <1>17, <1>18, <1>19 DEF QueueFine
  <1> QED  BY <1>9, <1>20, <1>21 DEF t

\* A queued command has a number of its own; n is the request it is for.
LEMMA EnqueueIs ==
  ASSUME NEW s \in Servers, LeasesFine(s), NEW a \in Seq(Asks), NEW sn, NEW kind \in Kinds,
         NEW e \in [Requests -> Nat], Len(a) < MaxRequests, QueueFine(s, a, e, sn)
  PROVE  LET n == Len(a) + 1
             t == enqueue(s, n, kind)
             b == Append(a, [kind |-> kind, id |-> s.next_id])
             f == IF requires_server_preapply(kind) THEN [e EXCEPT ![n] = 1] ELSE e
         IN  /\ t \in Servers /\ LeasesFine(t) /\ b \in Seq(Asks) /\ f \in [Requests -> Nat]
             /\ QueueFine(t, b, f, sn)
  <1> DEFINE n == Len(a) + 1
             m == [id |-> s.next_id, req |-> n]
             ask == [kind |-> kind, id |-> s.next_id]
             pre == IF requires_server_preapply(kind) THEN s.preapplied \union {s.next_id}
                    ELSE s.preapplied
             t == enqueue(s, n, kind)
             b == Append(a, ask)
             f == IF requires_server_preapply(kind) THEN [e EXCEPT ![n] = 1] ELSE e
  <1>1. s.next_id \in Nat /\ s.next_id # 0 /\ s.pending \in Seq(Commands) /\ s.preapplied \in SUBSET Nat
    BY DEF Servers
  <1>2. Len(a) \in Nat /\ n \in Nat /\ n \in Requests
    BY SessionAssumption DEF Requests
  <1>3. ask \in Asks /\ ask.kind = kind /\ ask.id = s.next_id
    BY <1>1 DEF Asks
  <1>4. m \in Commands /\ m.id = s.next_id /\ m.req = n
    BY <1>1, <1>2 DEF Commands
  <1>5. t = [s EXCEPT !.pending = Append(@, m), !.next_id = @ + 1, !.preapplied = pre]
    BY DEF enqueue
  <1> HIDE DEF m, ask, t
  <1>6. /\ b \in Seq(Asks) /\ Len(b) = n /\ DOMAIN a = 1..Len(a) /\ DOMAIN b = 1..n
        /\ b[n] = ask /\ \A i \in 1..Len(a) : b[i] = a[i]
    BY <1>2, <1>3, Appended
  <1>7. /\ Append(s.pending, m) \in Seq(Commands)
        /\ Range(Append(s.pending, m)) = Range(s.pending) \cup {m}
    BY <1>1, <1>4, Appended
  <1>8. pre \in SUBSET Nat /\ s.next_id + 1 \in Nat \ {0}
    BY <1>1
  <1>9. f \in [Requests -> Nat] /\ (\A i \in Requests : i # n => f[i] = e[i])
        /\ f[n] = IF requires_server_preapply(kind) THEN 1 ELSE e[n]
    BY <1>2
  <1> HIDE DEF b, f, pre, n
  <1>10. t \in Servers
    BY <1>5, <1>7, <1>8 DEF Servers
  <1>11. /\ t.pending = Append(s.pending, m) /\ t.in_flight = s.in_flight
         /\ t.preapplied = pre /\ t.completed = s.completed /\ t.next_id = s.next_id + 1
         /\ t.leases = s.leases /\ t.next_lease = s.next_lease
    BY <1>5 DEF Servers
  <1>12. t.visibility <=> s.visibility
    BY <1>5 DEF Servers
  <1>13. LeasesFine(t)
    BY <1>11, <1>12 DEF LeasesFine
  <1>14. Active(t) = Active(s) \cup {m}
    BY <1>7, <1>11 DEF Active
  <1>15. /\ Active(s) \subseteq Commands /\ Range(s.completed) \subseteq Answers
         /\ \A i \in DOMAIN a : a[i] \in Asks /\ a[i].id \in Nat
    <2>1. s.completed \in Seq(Answers) /\ s.in_flight \subseteq Commands
      BY DEF Servers
    <2>2. Active(s) \subseteq Commands
      BY <1>1, <2>1 DEF Active, Range
    <2>3. Range(s.completed) \subseteq Answers
      BY <2>1 DEF Range
    <2>4. \A i \in DOMAIN a : a[i] \in Asks
      BY <1>6
    <2> QED  BY <2>2, <2>3, <2>4 DEF Asks
  <1>16. \A k \in Active(s) \cup Range(s.completed) :
           /\ k.id # 0 /\ k.id < s.next_id /\ k.id \in Nat /\ k.req \in DOMAIN a /\ a[k.req].id = k.id
           /\ k.id # m.id /\ b[k.req] = a[k.req] /\ k.req \in DOMAIN b /\ k.req # n
    <2> SUFFICES ASSUME NEW k \in Active(s) \cup Range(s.completed)
                 PROVE  /\ k.id # 0 /\ k.id < s.next_id /\ k.id \in Nat /\ k.req \in DOMAIN a
                        /\ a[k.req].id = k.id
                        /\ k.id # m.id /\ b[k.req] = a[k.req] /\ k.req \in DOMAIN b /\ k.req # n
      OBVIOUS
    <2>1. k.id # 0 /\ k.id < s.next_id /\ k.req \in DOMAIN a /\ a[k.req].id = k.id
      BY DEF QueueFine, Known
    <2>2. k.id \in Nat
      BY <2>1, <1>15
    <2> QED  BY <2>1, <2>2, <1>1, <1>2, <1>4, <1>6 DEF n
  <1>17. Known(t, b)
    <2>1. \A k \in Active(s) \cup Range(s.completed) :
            k.id # 0 /\ k.id < t.next_id /\ k.req \in DOMAIN b /\ b[k.req].id = k.id
      BY <1>1, <1>11, <1>16
    <2>2. m.id # 0 /\ m.id < t.next_id /\ m.req \in DOMAIN b /\ b[m.req].id = m.id
      BY <1>1, <1>2, <1>3, <1>4, <1>6, <1>11 DEF n
    <2> QED  BY <2>1, <2>2, <1>11, <1>14 DEF Known
  <1>18. AskedOnce(t, b)
    <2>1. \A i \in 1..Len(a) : b[i].id < s.next_id /\ b[i].id \in Nat
      BY <1>6, <1>15 DEF QueueFine, AskedOnce
    <2>2. b[n].id = s.next_id
      BY <1>3, <1>6
    <2>3. \A i, j \in 1..Len(a) : b[i].id = b[j].id /\ b[i].id # 0 => i = j
      BY <1>6 DEF QueueFine, AskedOnce
    <2>4. \A i \in DOMAIN b : i = n \/ i \in 1..Len(a)
      BY <1>2, <1>6 DEF n
    <2>5. \A i \in DOMAIN b : b[i].id < t.next_id
      BY <2>1, <2>2, <2>4, <1>1, <1>11
    <2>6. ASSUME NEW i \in DOMAIN b, NEW j \in DOMAIN b, b[i].id = b[j].id, b[i].id # 0
          PROVE  i = j
      <3>1. CASE i = n /\ j # n
        BY <3>1, <2>1, <2>2, <2>4, <2>6, <1>1
      <3>2. CASE i # n /\ j = n
        BY <3>2, <2>1, <2>2, <2>4, <2>6, <1>1
      <3>3. CASE i # n /\ j # n
        BY <3>3, <2>3, <2>4, <2>6
      <3> QED  BY <3>1, <3>2, <3>3
    <2> QED  BY <2>5, <2>6 DEF AskedOnce
  <1>19. Apart(t)
    <2>1. Distinct(s.pending)
      BY DEF QueueFine, Apart, Distinct
    <2>2. \A k \in Range(s.pending) : k.id # m.id
      BY <1>16 DEF Active
    <2>3. Distinct(t.pending)
      BY <2>1, <2>2, <1>1, <1>4, <1>11, DistinctAppend
    <2>4. \A k \in Range(t.pending), h \in t.in_flight : k.id # h.id
      BY <1>7, <1>11, <1>16 DEF QueueFine, Apart, Active
    <2>5. \A k \in Active(t), r \in Range(t.completed) : k.id # r.id
      BY <1>11, <1>14, <1>16 DEF QueueFine, Apart
    <2> QED  BY <2>3, <2>4, <2>5, <1>11 DEF QueueFine, Apart, Distinct
  <1>20. Preapplied(t, b)
    <2>1. \A k \in Active(s) : b[k.req].kind = a[k.req].kind
      BY <1>16
    <2>2. b[m.req].kind = kind
      BY <1>3, <1>4, <1>6
    <2>3. \A i \in s.preapplied : \E k \in Active(t) : k.id = i
      BY <1>14 DEF QueueFine, Preapplied
    <2>4. \A k \in Active(s) : requires_server_preapply(a[k.req].kind) => k.id \in s.preapplied
      BY DEF QueueFine, Preapplied
    <2> QED  BY <2>1, <2>2, <2>3, <2>4, <1>4, <1>11, <1>14 DEF Preapplied, pre
  <1>21. Carried(b, f)
    <2>1. e[n] = 0
      BY <1>2 DEF QueueFine, Carried, n
    <2>2. f[n] \in IF ~requires_server_preapply(b[n].kind) THEN {0}
                  ELSE IF b[n].id # 0 THEN {1} ELSE {0, 1}
      BY <2>1, <1>1, <1>3, <1>6, <1>9
    <2>3. ASSUME NEW i \in 1..Len(a)
          PROVE  f[i] \in IF ~requires_server_preapply(b[i].kind) THEN {0}
                         ELSE IF b[i].id # 0 THEN {1} ELSE {0, 1}
      <3>1. i # n /\ i \in Requests /\ i \in DOMAIN a /\ b[i] = a[i]
        BY <1>2, <1>6, SessionAssumption DEF n, Requests
      <3>2. e[i] \in IF ~requires_server_preapply(a[i].kind) THEN {0}
                     ELSE IF a[i].id # 0 THEN {1} ELSE {0, 1}
        BY <3>1 DEF QueueFine, Carried
      <3> QED  BY <3>1, <3>2, <1>9
    <2>4. ASSUME NEW i \in Requests, i > Len(b)  PROVE f[i] = 0
      <3>1. i # n /\ i > Len(a)
        BY <2>4, <1>2, <1>6 DEF n, Requests
      <3> QED  BY <3>1, <1>9 DEF QueueFine, Carried
    <2>5. \A i \in DOMAIN b : i = n \/ i \in 1..Len(a)
      BY <1>2, <1>6 DEF n
    <2> QED  BY <2>2, <2>3, <2>4, <2>5 DEF Carried
  <1>22. Collected(t, b, sn)
    <2> SUFFICES ASSUME NEW i \in Requests, NEW r \in sn[i]
                 PROVE  /\ i \in DOMAIN b /\ r.req = i /\ b[i].id # 0
                        /\ \A k \in Active(t) : k.id # b[i].id
                        /\ \A y \in Range(t.completed) : y.id = b[i].id => AnswerOf(y) = r
                        /\ \A y \in sn[i] : y = r
      BY DEF Collected
    <2>1. /\ i \in DOMAIN a /\ r.req = i /\ a[i].id # 0
          /\ \A k \in Active(s) : k.id # a[i].id
          /\ \A y \in Range(s.completed) : y.id = a[i].id => AnswerOf(y) = r
          /\ \A y \in sn[i] : y = r
      BY DEF QueueFine, Collected
    <2>2. i \in DOMAIN b /\ b[i] = a[i]
      BY <2>1, <1>2, <1>6 DEF n
    <2>3. a[i].id < s.next_id /\ a[i].id \in Nat
      BY <2>1, <1>15 DEF QueueFine, AskedOnce
    <2>4. m.id # a[i].id
      BY <2>3, <1>1, <1>4
    <2> QED  BY <2>1, <2>2, <2>4, <1>11, <1>14
  <1>23. QueueFine(t, b, f, sn)
    BY <1>17, <1>18, <1>19, <1>20, <1>21, <1>22 DEF QueueFine
  <1> QED  BY <1>6, <1>9, <1>10, <1>13, <1>23 DEF n, t, b, f, ask

\* A request whose preapply was refused, or not recorded, uses up a number.
LEMMA DiscardIs ==
  ASSUME NEW s \in Servers, LeasesFine(s), NEW a \in Seq(Asks), NEW sn, NEW kind \in Kinds,
         NEW e \in [Requests -> Nat], Len(a) < MaxRequests, QueueFine(s, a, e, sn),
         NEW done \in BOOLEAN, done => requires_server_preapply(kind)
  PROVE  LET t == enqueue_discarded(s)
             b == Append(a, [kind |-> kind, id |-> 0])
             f == IF done THEN [e EXCEPT ![Len(a) + 1] = 1] ELSE e
         IN  /\ t \in Servers /\ LeasesFine(t) /\ b \in Seq(Asks) /\ f \in [Requests -> Nat]
             /\ QueueFine(t, b, f, sn)
  <1> DEFINE n == Len(a) + 1
             ask == [kind |-> kind, id |-> 0]
             t == enqueue_discarded(s)
             b == Append(a, ask)
             f == IF done THEN [e EXCEPT ![n] = 1] ELSE e
  <1>1. s.next_id \in Nat /\ s.next_id # 0 /\ s.next_id + 1 \in Nat \ {0}
    BY DEF Servers
  <1>2. Len(a) \in Nat /\ n \in Nat /\ n \in Requests
    BY SessionAssumption DEF Requests
  <1>3. ask \in Asks /\ ask.kind = kind /\ ask.id = 0
    BY DEF Asks
  <1>4. t = [s EXCEPT !.next_id = @ + 1]
    BY DEF enqueue_discarded
  <1> HIDE DEF ask, t
  <1>5. /\ b \in Seq(Asks) /\ Len(b) = n /\ DOMAIN a = 1..Len(a) /\ DOMAIN b = 1..n
        /\ b[n] = ask /\ \A i \in 1..Len(a) : b[i] = a[i]
    BY <1>2, <1>3, Appended
  <1>6. \A i \in DOMAIN a : i \in DOMAIN b /\ b[i] = a[i] /\ i # n
    BY <1>2, <1>5
  <1>7. \A i \in DOMAIN b : i = n \/ i \in DOMAIN a
    BY <1>2, <1>5
  <1>8. \A i \in DOMAIN a : a[i].id \in Nat
    <2>1. \A i \in DOMAIN a : a[i] \in Asks
      BY <1>5
    <2> QED  BY <2>1 DEF Asks
  <1> HIDE DEF b, n
  <1>9. t \in Servers
    BY <1>1, <1>4 DEF Servers
  <1>10. /\ t.pending = s.pending /\ t.in_flight = s.in_flight
         /\ t.preapplied = s.preapplied /\ t.completed = s.completed /\ t.next_id = s.next_id + 1
         /\ t.leases = s.leases /\ t.next_lease = s.next_lease
    BY <1>4 DEF Servers
  <1>11. t.visibility <=> s.visibility
    BY <1>4 DEF Servers
  <1>12. LeasesFine(t)
    BY <1>10, <1>11 DEF LeasesFine
  <1>13. Active(t) = Active(s)
    BY <1>10 DEF Active
  <1>14. \A k \in Active(s) \cup Range(s.completed) :
           /\ k.id # 0 /\ k.id \in Nat /\ k.id < s.next_id /\ k.req \in DOMAIN a
           /\ a[k.req].id = k.id
    BY <1>8 DEF QueueFine, Known
  <1>15. Known(t, b)
    BY <1>1, <1>6, <1>10, <1>13, <1>14 DEF Known
  <1>16. AskedOnce(t, b)
    <2>1. \A i \in DOMAIN a : b[i].id < s.next_id /\ b[i].id \in Nat
      BY <1>6, <1>8 DEF QueueFine, AskedOnce
    <2>2. b[n].id = 0
      BY <1>3, <1>5
    <2>3. \A i, j \in DOMAIN a : b[i].id = b[j].id /\ b[i].id # 0 => i = j
      BY <1>6 DEF QueueFine, AskedOnce
    <2>4. \A i \in DOMAIN b : b[i].id < t.next_id
      BY <2>1, <2>2, <1>1, <1>7, <1>10
    <2>5. \A i, j \in DOMAIN b : b[i].id = b[j].id /\ b[i].id # 0 => i = j
      BY <2>2, <2>3, <1>7
    <2> QED  BY <2>4, <2>5 DEF AskedOnce
  <1>17. Apart(t)
    BY <1>10, <1>13 DEF QueueFine, Apart
  <1>18. Preapplied(t, b)
    BY <1>6, <1>10, <1>13, <1>14 DEF QueueFine, Preapplied
  <1>18a. f \in [Requests -> Nat] /\ f[n] \in {0, 1} /\ (f[n] # 0 => done)
          /\ \A i \in Requests : i # n => f[i] = e[i]
    BY <1>2 DEF QueueFine, Carried, n
  <1>19. Carried(b, f)
    <2>2. b[n].id = 0 /\ b[n].kind = kind
      BY <1>3, <1>5
    <2>3. \A i \in DOMAIN a :
            e[i] \in IF ~requires_server_preapply(b[i].kind) THEN {0}
                    ELSE IF b[i].id # 0 THEN {1} ELSE {0, 1}
      BY <1>6 DEF QueueFine, Carried
    <2>4. \A i \in Requests : i > Len(b) => i > Len(a) /\ i # n
      BY <1>2, <1>5 DEF n, Requests
    <2>5. \A i \in DOMAIN a : i \in Requests /\ i # n
      BY <1>2, <1>5, <1>6, SessionAssumption DEF n, Requests
    <2> HIDE DEF f
    <2>6. \A i \in DOMAIN b :
            f[i] \in IF ~requires_server_preapply(b[i].kind) THEN {0}
                    ELSE IF b[i].id # 0 THEN {1} ELSE {0, 1}
      BY <2>2, <2>3, <2>5, <1>7, <1>18a
    <2>7. \A i \in Requests : i > Len(b) => f[i] = 0
      BY <2>4, <1>18a DEF QueueFine, Carried
    <2> QED  BY <2>6, <2>7 DEF Carried
  <1>20. Collected(t, b, sn)
    BY <1>6, <1>10, <1>13 DEF QueueFine, Collected
  <1>21. QueueFine(t, b, f, sn)
    BY <1>15, <1>16, <1>17, <1>18, <1>19, <1>20 DEF QueueFine
  <1> QED  BY <1>5, <1>9, <1>12, <1>18a, <1>21 DEF t, b, f, ask, n

\* A requester that collects a result finds the one answer to its request.
LEMMA CollectIs ==
  ASSUME NEW s \in Servers, NEW a, NEW e, NEW sn \in [Requests -> SUBSET Reads],
         QueueFine(s, a, e, sn), NEW n \in DOMAIN a, n \in Requests, a[n].id # 0
  PROVE  LET new == {AnswerOf(s.completed[i]) : i \in Completed(s, a[n].id)}
             tn == [sn EXCEPT ![n] = @ \union new]
         IN  tn \in [Requests -> SUBSET Reads] /\ QueueFine(s, a, e, tn)
  <1> DEFINE new == {AnswerOf(s.completed[i]) : i \in Completed(s, a[n].id)}
             tn == [sn EXCEPT ![n] = @ \union new]
  <1>1. s.completed \in Seq(Answers)
    BY DEF Servers
  <1>2. \A r \in new : \E q \in Range(s.completed) : q \in Answers /\ q.id = a[n].id /\ r = AnswerOf(q)
    BY <1>1 DEF Completed, Range
  <1>3. \A q, r \in Range(s.completed) : q.id = r.id => q = r
    BY DEF QueueFine, Apart, Range
  <1>4. \A r \in Range(s.completed) : r.req \in DOMAIN a /\ a[r.req].id = r.id
    BY DEF QueueFine, Known
  <1> HIDE DEF new
  <1>5. \A r \in new : r.req = n /\ r \in Reads
    <2> SUFFICES ASSUME NEW r \in new  PROVE r.req = n /\ r \in Reads
      OBVIOUS
    <2>1. PICK q \in Range(s.completed) : q \in Answers /\ q.id = a[n].id /\ r = AnswerOf(q)
      BY <1>2
    <2>2. q.req = n
      BY <1>4, <2>1 DEF QueueFine, AskedOnce
    <2> QED  BY <2>1, <2>2 DEF AnswerOf, Answers, Reads
  <1>6. new # {} => \A m \in Active(s) : m.id # a[n].id
    BY <1>2 DEF QueueFine, Apart
  <1>7. tn \in [Requests -> SUBSET Reads]
    BY <1>5
  <1>8. tn[n] = sn[n] \union new /\ \A k \in Requests : k # n => tn[k] = sn[k]
    OBVIOUS
  <1> HIDE DEF tn
  <1>9. \A q \in sn[n], r \in new : q = r
    BY <1>2 DEF QueueFine, Collected
  <1>10. ASSUME NEW k \in Requests, NEW r \in tn[k]
         PROVE  /\ k \in DOMAIN a /\ r.req = k /\ a[k].id # 0
                /\ \A m \in Active(s) : m.id # a[k].id
                /\ \A q \in Range(s.completed) : q.id = a[k].id => AnswerOf(q) = r
                /\ \A q \in tn[k] : q = r
    <2>1. CASE r \in sn[k]
      BY <2>1, <1>8, <1>9 DEF QueueFine, Collected
    <2>2. CASE k = n /\ r \in new
      <3>3. \A q \in Range(s.completed) : q.id = a[n].id => AnswerOf(q) = r
        BY <2>2, <1>2, <1>3
      <3>1. \A q \in new : q = r
        BY <3>3, <1>2
      <3>2. \A q \in tn[k] : q = r
        BY <2>2, <3>1, <1>8, <1>9
      <3> QED  BY <2>2, <3>2, <3>3, <1>5, <1>6
    <2> QED  BY <2>1, <2>2, <1>8
  <1>11. Collected(s, a, tn)
    BY <1>10 DEF Collected
  <1> QED  BY <1>7, <1>11 DEF QueueFine, tn, new

\* Fields that neither the leases nor the queue depend on.
LEMMA Aside ==
  ASSUME NEW s \in Servers, LeasesFine(s), NEW i \in Nat, NEW b \in BOOLEAN,
         NEW p \in [lease : Nat, visible : BOOLEAN]
  PROVE  LET t == [s EXCEPT !.shutdown_after = i, !.shutdown = b, !.snapshot = p]
         IN  t \in Servers /\ LeasesFine(t) /\ Quiet(s, t)
  <1> DEFINE t == [s EXCEPT !.shutdown_after = i, !.shutdown = b, !.snapshot = p]
  <1>1. t \in Servers
    BY DEF Servers
  <1>2. Quiet(s, t)
    BY DEF Servers, Quiet
  <1>3. t.leases = s.leases /\ t.next_lease = s.next_lease
    BY DEF Servers
  <1>4. t.visibility <=> s.visibility
    BY DEF Servers
  <1> HIDE DEF t
  <1>5. LeasesFine(t)
    BY <1>3, <1>4 DEF LeasesFine
  <1> QED  BY <1>1, <1>2, <1>5 DEF t

\* A stamped answer is the answer of the same command.
LEMMA StampedIs ==
  ASSUME NEW s \in Servers, LeasesFine(s), NEW a, NEW e, NEW sn, QueueFine(s, a, e, sn), NEW id
  PROVE  LET t == Stamped(s, id)
         IN  t \in Servers /\ LeasesFine(t) /\ QueueFine(t, a, e, sn)
  <1> DEFINE c == s.completed
             q == [i \in DOMAIN c |-> IF c[i].id = id THEN [c[i] EXCEPT !.stamped = TRUE] ELSE c[i]]
             t == Stamped(s, id)
  <1>1. c \in Seq(Answers) /\ DOMAIN c = 1..Len(c) /\ Len(c) \in Nat /\ \A i \in DOMAIN c : c[i] \in Answers
    BY DEF Servers
  <1>2. t = [s EXCEPT !.completed = q]
    BY DEF Stamped
  <1>3. DOMAIN q = DOMAIN c
    OBVIOUS
  <1>4. \A i \in DOMAIN c :
          /\ q[i] \in Answers /\ q[i].id = c[i].id /\ q[i].req = c[i].req
          /\ AnswerOf(q[i]) = AnswerOf(c[i])
    <2> SUFFICES ASSUME NEW i \in DOMAIN c
                 PROVE  /\ q[i] \in Answers /\ q[i].id = c[i].id /\ q[i].req = c[i].req
                        /\ AnswerOf(q[i]) = AnswerOf(c[i])
      OBVIOUS
    <2>1. c[i] \in Answers
      BY <1>1
    <2>2. q[i] = c[i] \/ q[i] = [c[i] EXCEPT !.stamped = TRUE]
      OBVIOUS
    <2> HIDE DEF q, c
    <2> QED  BY <2>1, <2>2 DEF Answers, AnswerOf
  <1> HIDE DEF q, t
  <1>5. q \in Seq(Answers)
    <2>1. \E n \in Nat : DOMAIN q = 1..n
      BY <1>1, <1>3
    <2>2. q = [i \in DOMAIN q |-> q[i]]
      BY DEF q
    <2>3. q \in [1..Len(c) -> Answers]
      BY <1>1, <1>3, <1>4, <2>2
    <2> QED  BY <1>1, <2>3, SeqDef
  <1>6. t \in Servers
    BY <1>2, <1>5 DEF Servers
  <1>7. /\ t.pending = s.pending /\ t.in_flight = s.in_flight /\ t.preapplied = s.preapplied
        /\ t.next_id = s.next_id /\ t.completed = q
        /\ t.leases = s.leases /\ t.next_lease = s.next_lease
    BY <1>2 DEF Servers
  <1>8. t.visibility <=> s.visibility
    BY <1>2 DEF Servers
  <1>9. LeasesFine(t)
    BY <1>7, <1>8 DEF LeasesFine
  <1>10. Active(t) = Active(s)
    BY <1>7 DEF Active
  <1>11. \A y \in Range(q) : \E x \in Range(c) : y.id = x.id /\ y.req = x.req /\ AnswerOf(y) = AnswerOf(x)
    BY <1>3, <1>4 DEF Range
  <1>12. Known(t, a)
    BY <1>7, <1>10, <1>11 DEF QueueFine, Known
  <1>13. AskedOnce(t, a) /\ Preapplied(t, a)
    BY <1>7, <1>10 DEF QueueFine, AskedOnce, Preapplied
  <1>14. Apart(t)
    <2>1. \A m \in Active(t), r \in Range(q) : m.id # r.id
      BY <1>10, <1>11 DEF QueueFine, Apart
    <2>2. \A i, j \in DOMAIN q : q[i].id = q[j].id => i = j
      BY <1>3, <1>4 DEF QueueFine, Apart
    <2> QED  BY <2>1, <2>2, <1>7 DEF QueueFine, Apart
  <1>15. Collected(t, a, sn)
    <2> SUFFICES ASSUME NEW n \in Requests, NEW r \in sn[n]
                 PROVE  /\ n \in DOMAIN a /\ r.req = n /\ a[n].id # 0
                        /\ \A m \in Active(t) : m.id # a[n].id
                        /\ \A y \in Range(t.completed) : y.id = a[n].id => AnswerOf(y) = r
                        /\ \A y \in sn[n] : y = r
      BY DEF Collected
    <2>1. /\ n \in DOMAIN a /\ r.req = n /\ a[n].id # 0
          /\ \A m \in Active(s) : m.id # a[n].id
          /\ \A y \in Range(c) : y.id = a[n].id => AnswerOf(y) = r
          /\ \A y \in sn[n] : y = r
      BY DEF QueueFine, Collected
    <2> HIDE DEF c
    <2> QED  BY <2>1, <1>7, <1>10, <1>11
  <1>16. QueueFine(t, a, e, sn)
    BY <1>12, <1>13, <1>14, <1>15 DEF QueueFine
  <1> QED  BY <1>6, <1>9, <1>16 DEF t

\* The completion with everything that hangs on it, as far as it gets.
LEMMA ExecuteCompleteIs ==
  ASSUME NEW s \in Servers, LeasesFine(s), NEW a, NEW e, NEW sn, QueueFine(s, a, e, sn),
         NEW lease \in Nat, NEW command \in Commands, NEW kind, NEW response \in Results, NEW failing
  PROVE  LET t == execute_complete(s, lease, command, kind, response, failing)
         IN  t \in Servers /\ LeasesFine(t) /\ QueueFine(t, a, e, sn)
  <1> DEFINE Fine(x) == x \in Servers /\ LeasesFine(x) /\ QueueFine(x, a, e, sn)
             done == IF command \in s.in_flight THEN complete(s, command, response) ELSE s
             first == IF Projection(response) THEN Stamped(done, command.id) ELSE done
             left == IF Closes(kind, response) THEN Released(first, {lease}) ELSE first
             again == IF Closes(kind, response) THEN Stamped(left, command.id) ELSE left
             after == IF Closes(kind, response) /\ kind = "stop" THEN command.id
                      ELSE again.shutdown_after
             shot == IF Projection(response)
                     THEN [lease |-> lease, visible |-> response = "visible"] ELSE again.snapshot
             t == execute_complete(s, lease, command, kind, response, failing)
  <1>1. Fine(done)
    BY CompleteIs
  <1> HIDE DEF done
  <1>2. Fine(first)
    BY <1>1, StampedIs
  <1> HIDE DEF first
  <1>3. Fine(left)
    BY <1>2, ReleasedIs, QuietKeeps
  <1> HIDE DEF left
  <1>4. Fine(again)
    BY <1>3, StampedIs
  <1> HIDE DEF again
  <1>5. \/ t \in {done, left}
        \/ t = [again EXCEPT !.shutdown_after = after, !.snapshot = shot]
    BY DEF execute_complete, done, first, left, again
  <1>6. after \in Nat /\ again.shutdown \in BOOLEAN
    BY <1>4 DEF Servers, Commands
  <1>7. shot \in [lease : Nat, visible : BOOLEAN]
    BY <1>4 DEF Servers
  <1> HIDE DEF after, shot, t
  <1>8. ASSUME t = [again EXCEPT !.shutdown_after = after, !.snapshot = shot]  PROVE Fine(t)
    <2>1. t = [again EXCEPT !.shutdown_after = after, !.shutdown = again.shutdown, !.snapshot = shot]
      BY <1>4, <1>8 DEF Servers
    <2>2. t \in Servers /\ LeasesFine(t) /\ Quiet(again, t)
      BY <1>4, <1>6, <1>7, <2>1, Aside
    <2>3. QueueFine(t, a, e, sn)
      BY <1>4, <2>2, QuietKeeps
    <2> QED  BY <2>2, <2>3
  <1>9. ASSUME t \in {done, left}  PROVE Fine(t)
    BY <1>1, <1>3, <1>9
  <1>10. Fine(t)
    BY <1>5, <1>8, <1>9
  <1> QED  BY <1>10 DEF t

-----------------------------------------------------------------------------
(* The steps.                                                              *)

\* Every handler that reaps first works on a server that is as good.
LEMMA ReapIs ==
  ASSUME NEW s \in Servers, LeasesFine(s), NEW up
  PROVE  LET t == reap_stale_ui_lease(s, up)
         IN  t \in Servers /\ LeasesFine(t) /\ Quiet(s, t)
  BY ReleasedIs DEF reap_stale_ui_lease

LEMMA LeaseOfType ==
  ASSUME NEW s \in Servers, NEW c
  PROVE  LeaseOf(s, c) \in Nat
  <1>1. CASE OwnLeases(s, c) # {}
    <2>1. (CHOOSE l \in OwnLeases(s, c) : TRUE) \in OwnLeases(s, c)
      BY <1>1
    <2>2. OwnLeases(s, c) \subseteq Leases
      BY DEF OwnLeases, Servers
    <2> QED  BY <1>1, <2>1, <2>2 DEF LeaseOf, Leases
  <1>2. CASE OwnLeases(s, c) = {}
    BY <1>2 DEF LeaseOf
  <1> QED  BY <1>1, <1>2

\* A step that changes leases, windows or the wish to stop, and of the queue
\* at most that it is lost.
LEMMA QuietStep ==
  ASSUME IInv, server' \in Servers, LeasesFine(server'), Quiet(server, server'),
         UNCHANGED <<asked, effects, seen>>, alive' \subseteq Clients,
         held' \in [Clients -> Nat],
         got' \in [Clients -> [command : Commands, response : Results \cup {"none"}]]
  PROVE  IInv'
  <1>1. QueueFine(server', asked, effects, seen)
    BY QuietKeeps DEF IInv, TypeOK
  <1> QED  BY <1>1 DEF IInv, TypeOK

LEMMA InitFine == Init => IInv
  <1> SUFFICES ASSUME Init  PROVE IInv
    OBVIOUS
  <1>1. <<>> \in Seq(Commands) /\ <<>> \in Seq(Answers) /\ <<>> \in Seq(Asks)
        /\ Len(<<>>) = 0
    OBVIOUS
  <1>2. NoSnapshot \in [lease : Nat, visible : BOOLEAN]
    BY DEF NoSnapshot
  <1>3. server \in Servers
    BY <1>1, <1>2 DEF Init, NewServer, Servers
  <1>4. /\ server.leases = {} /\ server.pending = <<>> /\ server.in_flight = {}
        /\ server.preapplied = {} /\ server.completed = <<>> /\ asked = <<>>
    BY DEF Init, NewServer
  <1>5. ~server.visibility
    BY DEF Init, NewServer
  <1>6. Nothing \in [command : Commands, response : Results \cup {"none"}]
    BY DEF Nothing, Commands
  <1>7. TypeOK
    BY <1>1, <1>3, <1>6, SessionAssumption DEF Init, TypeOK
  <1>8. /\ Range(server.pending) = {} /\ Range(server.completed) = {} /\ Active(server) = {}
        /\ DOMAIN server.pending = {} /\ DOMAIN server.completed = {} /\ DOMAIN asked = {}
    BY <1>4 DEF Range, Active
  <1>9. LeasesFine(server)
    BY <1>4, <1>5 DEF LeasesFine
  <1>10. (\A n \in Requests : effects[n] = 0) /\ (\A n \in Requests : seen[n] = {})
    BY DEF Init
  <1>11. QueueFine(server, asked, effects, seen)
    BY <1>4, <1>8, <1>10
       DEF QueueFine, Known, AskedOnce, Apart, Preapplied, Carried, Collected
  <1> QED  BY <1>7, <1>9, <1>11 DEF IInv

LEMMA ConnectFine ==
  ASSUME IInv, NEW c \in Clients, NEW delivered \in BOOLEAN, connect(c, delivered)
  PROVE  IInv'
  <1> DEFINE r == reap_stale_ui_lease(server, alive)
  <1>1. r \in Servers /\ LeasesFine(r) /\ Quiet(server, r)
    BY ReapIs DEF IInv, TypeOK
  <1>2. server' = attach(r, c)
    BY DEF connect
  <1> HIDE DEF r
  <1>3. server' \in Servers /\ LeasesFine(server') /\ Quiet(server, server')
    BY <1>1, <1>2, AttachIs, QuietTwice
  <1>4. LeaseOf(server', c) \in Nat
    BY <1>3, LeaseOfType
  <1>5. held' \in [Clients -> Nat]
    BY <1>4 DEF connect, IInv, TypeOK
  <1> QED  BY <1>3, <1>5, QuietStep DEF connect, IInv, TypeOK

LEMMA MaintainFine ==
  ASSUME IInv, NEW c \in Clients, NEW delivered \in BOOLEAN, maintain_lease(c, delivered)
  PROVE  IInv'
  <1> DEFINE r == reap_stale_ui_lease(server, alive)
             valid == verify_owner(r, held[c], c)
  <1>1. r \in Servers /\ LeasesFine(r) /\ Quiet(server, r)
    BY ReapIs DEF IInv, TypeOK
  <1>2. server' = IF valid THEN heartbeat(r, held[c]) ELSE r
    BY DEF maintain_lease
  <1>3. held' = [held EXCEPT ![c] = IF valid /\ delivered THEN @ ELSE 0]
    BY DEF maintain_lease
  <1> HIDE DEF r, valid
  <1>4. LET t == heartbeat(r, held[c]) IN t \in Servers /\ LeasesFine(t) /\ Quiet(r, t)
    BY <1>1, RenewedIs DEF heartbeat
  <1>5. server' \in Servers /\ LeasesFine(server') /\ Quiet(server, server')
    BY <1>1, <1>2, <1>4, QuietTwice
  <1>6. held' \in [Clients -> Nat]
    BY <1>3 DEF IInv, TypeOK
  <1> QED  BY <1>5, <1>6, QuietStep DEF maintain_lease, IInv, TypeOK

LEMMA PublishFine ==
  ASSUME IInv, NEW c \in Clients, NEW visible \in BOOLEAN, publish_snapshot(c, visible)
  PROVE  IInv'
  <1> DEFINE p == [lease |-> held[c], visible |-> visible]
  <1>1. p \in [lease : Nat, visible : BOOLEAN]
    BY DEF IInv, TypeOK
  <1>2. server \in Servers /\ LeasesFine(server)
    BY DEF IInv, TypeOK
  <1>3. server.shutdown_after \in Nat /\ server.shutdown \in BOOLEAN
    BY <1>2 DEF Servers
  <1>4. server' = [server EXCEPT !.snapshot = p]
    BY DEF publish_snapshot
  <1> HIDE DEF p
  <1>5. server' = [server EXCEPT !.shutdown_after = server.shutdown_after,
                                 !.shutdown = server.shutdown, !.snapshot = p]
    BY <1>2, <1>4 DEF Servers
  <1>6. server' \in Servers /\ LeasesFine(server') /\ Quiet(server, server')
    BY <1>1, <1>2, <1>3, <1>5, Aside
  <1> QED  BY <1>6, QuietStep DEF publish_snapshot, IInv, TypeOK

LEMMA PollFine ==
  ASSUME IInv, NEW c \in Clients, NEW delivered \in BOOLEAN, poll_client_command(c, delivered)
  PROVE  IInv'
  <1>1. /\ server' \in Servers /\ LeasesFine(server')
        /\ QueueFine(server', asked, effects, seen)
    BY PollIs DEF poll_client_command, IInv, TypeOK
  <1>2. Head(server.pending) \in Commands
    <2>1. server.pending \in Seq(Commands) /\ server.pending # <<>>
      BY DEF poll_client_command, IInv, TypeOK, Servers
    <2> QED  BY <2>1, HeadAndTail
  <1>3. got' \in [Clients -> [command : Commands, response : Results \cup {"none"}]]
    <2>1. got \in [Clients -> [command : Commands, response : Results \cup {"none"}]]
      BY DEF IInv, TypeOK
    <2>2. got' = [got EXCEPT ![c].command = Head(server.pending)] \/ got' = got
      BY DEF poll_client_command
    <2> QED  BY <2>1, <2>2, <1>2
  <1> QED  BY <1>1, <1>3 DEF poll_client_command, IInv, TypeOK

\* The answer of a preapplied command is there: nothing is carried out again.
LEMMA ApplyFine ==
  ASSUME IInv, NEW c \in Clients, apply_client_command(c)
  PROVE  IInv'
  <1>1. got[c].command \in Active(server)
    BY DEF apply_client_command, Active
  <1>2. got[c].command.id \in server.preapplied
    BY <1>1 DEF apply_client_command, KindOf, IInv, QueueFine, Preapplied
  <1>3. UNCHANGED vars
    BY <1>2 DEF apply_client_command, vars
  <1> QED  BY <1>3 DEF vars, IInv, TypeOK

LEMMA CompleteFine ==
  ASSUME IInv, NEW c \in Clients, NEW response \in Results, NEW failing, NEW delivered \in BOOLEAN,
         complete_client_command(c, response, failing, delivered)
  PROVE  IInv'
  <1>1. /\ got[c].command \in Commands /\ held[c] \in Nat
        /\ got \in [Clients -> [command : Commands, response : Results \cup {"none"}]]
    BY DEF IInv, TypeOK
  <1>2. \/ server' = server
        \/ server' = execute_complete(server, held[c], got[c].command, KindOf(got[c].command),
                                      response, failing)
    BY DEF complete_client_command
  <1>3. /\ server' \in Servers /\ LeasesFine(server')
        /\ QueueFine(server', asked, effects, seen)
    BY <1>1, <1>2, ExecuteCompleteIs DEF IInv, TypeOK
  <1>4. alive' \subseteq Clients
    BY DEF complete_client_command, IInv, TypeOK
  <1>5. Nothing \in [command : Commands, response : Results \cup {"none"}]
    BY DEF Nothing, Commands
  <1>6. \/ got' = [got EXCEPT ![c] = Nothing]
        \/ got' = [got EXCEPT ![c] = [@ EXCEPT !.response = response]]
    BY DEF complete_client_command
  <1>7. got' \in [Clients -> [command : Commands, response : Results \cup {"none"}]]
    BY <1>1, <1>5, <1>6
  <1>8. UNCHANGED <<held, asked, effects, seen>>
    BY DEF complete_client_command
  <1> QED  BY <1>3, <1>4, <1>7, <1>8 DEF IInv, TypeOK

LEMMA LeaveFine ==
  ASSUME IInv, NEW c \in Clients, give_up(c) \/ detach(c) \/ crash(c)
  PROVE  IInv'
  <1>1. Nothing \in [command : Commands, response : Results \cup {"none"}]
    BY DEF Nothing, Commands
  <1>2. /\ server \in Servers /\ LeasesFine(server) /\ Quiet(server, server)
        /\ alive \subseteq Clients /\ held \in [Clients -> Nat]
        /\ got \in [Clients -> [command : Commands, response : Results \cup {"none"}]]
    BY DEF IInv, TypeOK, Quiet
  <1>3. CASE give_up(c)
    BY <1>1, <1>2, <1>3, QuietStep DEF give_up
  <1>4. CASE crash(c)
    BY <1>1, <1>2, <1>4, QuietStep DEF crash
  <1>5. CASE detach(c)
    <2> DEFINE r == reap_stale_ui_lease(server, alive)
    <2>1. r \in Servers /\ LeasesFine(r) /\ Quiet(server, r)
      BY <1>2, ReapIs
    <2>2. server' = r \/ server' = Released(r, {held[c]})
      BY <1>5 DEF detach
    <2> HIDE DEF r
    <2>3. server' \in Servers /\ LeasesFine(server') /\ Quiet(server, server')
      BY <2>1, <2>2, ReleasedIs, QuietTwice
    <2> QED  BY <1>2, <1>5, <2>3, QuietStep DEF detach
  <1> QED  BY <1>3, <1>4, <1>5

LEMMA ExpireFine ==
  ASSUME IInv, NEW l \in server.leases, expire(l)
  PROVE  IInv'
  <1>1. server' \in Servers /\ LeasesFine(server') /\ Quiet(server, server')
    BY ExpiredIs DEF expire, IInv, TypeOK
  <1> QED  BY <1>1, QuietStep DEF expire, IInv, TypeOK

LEMMA RequestFine ==
  ASSUME IInv, NEW kind \in RequestKinds, NEW preapply, enqueue_ui_client_command(kind, preapply)
  PROVE  IInv'
  <1> DEFINE r == reap_stale_ui_lease(server, alive)
             n == Len(asked) + 1
             taken == /\ r.leases # {}
                      /\ kind = "handoff" => r.snapshot.visible
                      /\ room(r)
             queued == taken /\ (requires_server_preapply(kind) => preapply = "recorded")
             applied == requires_server_preapply(kind) /\ preapply # "refused"
  <1>1. r \in Servers /\ LeasesFine(r) /\ Quiet(server, r)
    BY ReapIs DEF IInv, TypeOK
  <1>2. /\ server' = IF queued THEN enqueue(r, n, kind)
                     ELSE IF taken THEN enqueue_discarded(r) ELSE r
        /\ asked' = IF taken
                    THEN Append(asked, [kind |-> kind, id |-> IF queued THEN r.next_id ELSE 0])
                    ELSE asked
        /\ effects' = IF taken /\ applied
                      THEN [effects EXCEPT ![n] = 1] ELSE effects
        /\ UNCHANGED <<alive, held, got, seen>> /\ Len(asked) < MaxRequests
    BY DEF enqueue_ui_client_command
  <1>3. kind \in Kinds
    BY SessionAssumption
  <1>4. /\ asked \in Seq(Asks) /\ effects \in [Requests -> Nat] /\ Len(asked) \in Nat
        /\ alive \subseteq Clients /\ held \in [Clients -> Nat]
        /\ got \in [Clients -> [command : Commands, response : Results \cup {"none"}]]
        /\ seen \in [Requests -> SUBSET Reads]
    BY DEF IInv, TypeOK
  <1> HIDE DEF r
  <1>5. QueueFine(r, asked, effects, seen)
    BY <1>1, QuietKeeps DEF IInv, TypeOK
  <1>6. /\ queued => taken /\ (applied <=> requires_server_preapply(kind))
        /\ applied => requires_server_preapply(kind)
        /\ applied \in BOOLEAN
    OBVIOUS
  <1> HIDE DEF taken, queued, applied
  <1>7. CASE queued
    <2>1. /\ server' = enqueue(r, n, kind)
          /\ asked' = Append(asked, [kind |-> kind, id |-> r.next_id])
          /\ effects' = IF requires_server_preapply(kind) THEN [effects EXCEPT ![n] = 1] ELSE effects
      BY <1>2, <1>6, <1>7
    <2>2. /\ server' \in Servers /\ LeasesFine(server') /\ asked' \in Seq(Asks)
          /\ effects' \in [Requests -> Nat] /\ QueueFine(server', asked', effects', seen)
      <3> DEFINE b == Append(asked, [kind |-> kind, id |-> r.next_id])
                 f == IF requires_server_preapply(kind) THEN [effects EXCEPT ![n] = 1] ELSE effects
                 t == enqueue(r, n, kind)
      <3>1. Len(asked) < MaxRequests
        BY <1>2
      <3>2. /\ t \in Servers /\ LeasesFine(t) /\ b \in Seq(Asks) /\ f \in [Requests -> Nat]
            /\ QueueFine(t, b, f, seen)
        BY <1>1, <1>3, <1>4, <1>5, <3>1, EnqueueIs
      <3>3. server' = t /\ asked' = b /\ effects' = f
        BY <2>1
      <3> HIDE DEF t, b, f
      <3> QED  BY <3>2, <3>3
    <2>3. Len(asked') = Len(asked) + 1
      BY <1>4, <2>1
    <2>4. Len(asked') <= MaxRequests
      BY <1>2, <1>4, <2>3, SessionAssumption
    <2> QED  BY <1>2, <1>4, <2>2, <2>4 DEF IInv, TypeOK
  <1>8. CASE taken /\ ~queued
    <2>1. /\ server' = enqueue_discarded(r)
          /\ asked' = Append(asked, [kind |-> kind, id |-> 0])
          /\ effects' = IF applied THEN [effects EXCEPT ![n] = 1] ELSE effects
      BY <1>2, <1>8
    <2>2. /\ server' \in Servers /\ LeasesFine(server') /\ asked' \in Seq(Asks)
          /\ effects' \in [Requests -> Nat] /\ QueueFine(server', asked', effects', seen)
      <3> DEFINE b == Append(asked, [kind |-> kind, id |-> 0])
                 f == IF applied THEN [effects EXCEPT ![n] = 1] ELSE effects
                 t == enqueue_discarded(r)
      <3>1. Len(asked) < MaxRequests
        BY <1>2
      <3>2. /\ t \in Servers /\ LeasesFine(t) /\ b \in Seq(Asks) /\ f \in [Requests -> Nat]
            /\ QueueFine(t, b, f, seen)
        BY <1>1, <1>3, <1>4, <1>5, <1>6, <3>1, DiscardIs
      <3>3. server' = t /\ asked' = b /\ effects' = f
        BY <2>1
      <3> HIDE DEF t, b, f
      <3> QED  BY <3>2, <3>3
    <2>3. Len(asked') = Len(asked) + 1
      BY <1>4, <2>1
    <2>4. Len(asked') <= MaxRequests
      BY <1>2, <1>4, <2>3, SessionAssumption
    <2> QED  BY <1>2, <1>4, <2>1, <2>2, <2>4 DEF IInv, TypeOK
  <1>9. CASE ~taken
    <2>1. server' = r /\ asked' = asked /\ effects' = effects
      BY <1>2, <1>6, <1>9
    <2> QED  BY <1>1, <1>2, <1>4, <2>1, QuietStep
  <1> QED  BY <1>7, <1>8, <1>9

LEMMA AwaitFine ==
  ASSUME IInv, NEW n \in Requests, await_ui_client_relay(n)
  PROVE  IInv'
  <1> DEFINE t == execute_result(server, asked[n].id)
  <1>1. n \in DOMAIN asked /\ asked[n].id # 0 /\ server' = t
    BY DEF await_ui_client_relay
  <1>2. server \in Servers /\ LeasesFine(server)
    BY DEF IInv, TypeOK
  <1>3. server.snapshot \in [lease : Nat, visible : BOOLEAN]
    BY <1>2 DEF Servers
  <1>4. \/ t = server
        \/ t = [server EXCEPT !.shutdown_after = 0, !.shutdown = TRUE, !.snapshot = server.snapshot]
    BY <1>2 DEF execute_result, Servers
  <1> HIDE DEF t
  <1>5. t \in Servers /\ LeasesFine(t) /\ Quiet(server, t)
    <2>1. CASE t = server
      BY <1>2, <2>1 DEF Quiet
    <2>2. CASE t = [server EXCEPT !.shutdown_after = 0, !.shutdown = TRUE, !.snapshot = server.snapshot]
      BY <1>2, <1>3, <2>2, Aside
    <2> QED  BY <1>4, <2>1, <2>2
  <1>6. seen' \in [Requests -> SUBSET Reads] /\ QueueFine(server, asked, effects, seen')
    BY <1>1, CollectIs DEF await_ui_client_relay, IInv, TypeOK
  <1>7. QueueFine(server', asked, effects, seen')
    BY <1>1, <1>2, <1>5, <1>6, QuietKeeps
  <1> QED  BY <1>1, <1>5, <1>6, <1>7 DEF await_ui_client_relay, IInv, TypeOK

\* IInv is an inductive invariant of the session.
THEOREM Inductive == Spec => []IInv
  <1>1. IInv /\ [Next]_vars => IInv'
    <2> SUFFICES ASSUME IInv, [Next]_vars  PROVE IInv'
      OBVIOUS
    <2>1. CASE UNCHANGED vars
      BY <2>1 DEF vars, IInv, TypeOK
    <2>2. ASSUME NEW c \in Clients, Client(c)  PROVE IInv'
      <3>1. ASSUME NEW delivered \in BOOLEAN, connect(c, delivered)  PROVE IInv'
        BY <3>1, ConnectFine
      <3>2. ASSUME NEW delivered \in BOOLEAN, maintain_lease(c, delivered)  PROVE IInv'
        BY <3>2, MaintainFine
      <3>3. ASSUME NEW delivered \in BOOLEAN, poll_client_command(c, delivered)  PROVE IInv'
        BY <3>3, PollFine
      <3>4. ASSUME NEW delivered \in BOOLEAN, NEW response \in Results, NEW failing \in 0..2,
                   complete_client_command(c, response, failing, delivered)
            PROVE  IInv'
        BY <3>4, CompleteFine
      <3>5. ASSUME NEW visible \in BOOLEAN, publish_snapshot(c, visible)  PROVE IInv'
        BY <3>5, PublishFine
      <3>6. CASE apply_client_command(c)
        BY <3>6, ApplyFine
      <3>7. CASE give_up(c) \/ detach(c) \/ crash(c)
        BY <3>7, LeaveFine
      <3> QED  BY <2>2, <3>1, <3>2, <3>3, <3>4, <3>5, <3>6, <3>7 DEF Client, Results
    <2>3. ASSUME NEW l \in server.leases, expire(l)  PROVE IInv'
      BY <2>3, ExpireFine
    <2>4. ASSUME NEW kind \in RequestKinds, NEW preapply \in {"recorded", "refused", "unrecorded"},
                 enqueue_ui_client_command(kind, preapply)
          PROVE  IInv'
      BY <2>4, RequestFine
    <2>5. ASSUME NEW n \in Requests, await_ui_client_relay(n)  PROVE IInv'
      BY <2>5, AwaitFine
    <2> QED  BY <2>1, <2>2, <2>3, <2>4, <2>5 DEF Next
  <1> QED  BY <1>1, InitFine, PTL DEF Spec

-----------------------------------------------------------------------------
\* The server record, the clients and the requests keep their types; no more
\* than MaxRequests are queued.
THEOREM TypeCorrect == Spec => []TypeOK
  <1>1. IInv => TypeOK
    BY DEF IInv
  <1> QED  BY <1>1, Inductive, PTL

\* The four collections of the command queue agree, and a client has one
\* lease, however many clients poll, complete, give up, expire and crash.
THEOREM OnePlace == Spec => []OneFate
  <1>1. IInv => OneFate
    <2> SUFFICES ASSUME IInv  PROVE OneFate
      OBVIOUS
    <2>1. Queued \intersect InFlight = {}
      BY DEF IInv, QueueFine, Apart, Queued, InFlight
    <2>2. Finished \intersect (Queued \union InFlight) = {}
      BY DEF IInv, QueueFine, Apart, Active, Queued, InFlight, Finished
    <2>3. \A i, j \in DOMAIN server.pending : server.pending[i].id = server.pending[j].id => i = j
      BY DEF IInv, QueueFine, Apart
    <2>4. \A i, j \in DOMAIN server.completed :
            server.completed[i].id = server.completed[j].id => i = j
      BY DEF IInv, QueueFine, Apart
    <2>5. ASSUME NEW m \in server.in_flight, NEW k \in server.in_flight, m.id = k.id
          PROVE  m = k
      <3>1. m \in Active(server) /\ k \in Active(server) /\ m \in Commands /\ k \in Commands
        BY DEF Active, IInv, TypeOK, Servers
      <3>2. /\ m.req \in DOMAIN asked /\ asked[m.req].id = m.id /\ m.id # 0
            /\ k.req \in DOMAIN asked /\ asked[k.req].id = k.id
        BY <3>1 DEF IInv, QueueFine, Known
      <3>3. m.req = k.req
        BY <2>5, <3>2 DEF IInv, QueueFine, AskedOnce
      <3> QED  BY <2>5, <3>1, <3>3 DEF Commands
    <2>6. server.preapplied \subseteq Queued \union InFlight
      BY DEF IInv, QueueFine, Preapplied, Active, Queued, InFlight
    <2>7. \A l, k \in server.leases : l.id = k.id \/ l.client = k.client => l = k
      BY DEF IInv, LeasesFine
    <2> QED  BY <2>1, <2>2, <2>3, <2>4, <2>5, <2>6, <2>7 DEF OneFate
  <1> QED  BY <1>1, Inductive, PTL

\* A requester collects the answer to its own request and always the same one, up
\* to the event position that every completion stamps into it anew.
THEOREM AnswerIsOwn == Spec => []OwnResult
  <1>1. IInv => OwnResult
    BY DEF IInv, QueueFine, Collected, OwnResult
  <1> QED  BY <1>1, Inductive, PTL

\* A preapplied command has its effect once, one that was not queued in the end
\* at most once, any other none on the server.
THEOREM CarriedOutOnce == Spec => []AppliedOnce
  <1>1. IInv => AppliedOnce
    BY DEF IInv, QueueFine, Carried, AppliedOnce
  <1> QED  BY <1>1, Inductive, PTL

\* The last visibility event is true of the lease table after every step.
THEOREM VisibilityIsTrue == Spec => []VisibilityTruth
  <1>1. IInv => VisibilityTruth
    BY DEF IInv, LeasesFine, VisibilityTruth
  <1> QED  BY <1>1, Inductive, PTL

-----------------------------------------------------------------------------
(* Part two: the workspace and its mirrors.  The tab tree.                 *)

\* A tab table whose ids and indices stay within the bound.
TabTable(ts) ==
  /\ DOMAIN ts \subseteq 1..MaxId
  /\ ts \in [DOMAIN ts -> [parent : (1..MaxId) \cup {NoTab}, index : 0..MaxId, text : Texts]]

\* What a workspace keeps that no failed start has torn: a tree, and collapsed
\* ids that are no tab's lie below all tabs, where no new id comes from.
SoundTree(ts, coll) ==
  /\ parents_exist(ts) /\ Forest(ts)
  /\ \A c \in coll \ DOMAIN ts : \A t \in DOMAIN ts : c < t

\* What is saved and restored.
GoodWorkspace(w) ==
  /\ TabTable(w.tabs) /\ w.collapsed \subseteq 1..MaxId /\ w.torn \in BOOLEAN
  /\ \A t, u \in DOMAIN w.tabs : w.tabs[t].index = w.tabs[u].index => t = u
  /\ w.torn \/ SoundTree(w.tabs, w.collapsed)

\* The inductive invariant of BootstrapServes: what was saved is as good as
\* what is served.
TreeInv ==
  /\ TabTable(tabs) /\ collapsed \subseteq 1..MaxId /\ torn \in BOOLEAN
  /\ BootstrapServes /\ (torn \/ SoundTree(tabs, collapsed))
  /\ next_id \in 1..(MaxId + 1)
  /\ GoodWorkspace(saved)

-----------------------------------------------------------------------------
(* The journal as the client follows it.                                   *)

\* The retained events are numbered without a gap up to the sequence.
Numbered(j) ==
  /\ j.epoch \in Nat /\ j.sequence \in Nat
  /\ \E T : j.events \in Seq(T)
  /\ Len(j.events) <= j.sequence /\ Len(j.events) <= capacity
  /\ j.sequence > 0 => Len(j.events) > 0
  /\ \A i \in 1..Len(j.events) : j.events[i].sequence = (j.sequence - Len(j.events)) + i

\* All events after m are retained.
NoGap(j, m) == m >= j.sequence - Len(j.events)

\* What the retained events after m are about.
AboutAfter(j, m) ==
  {j.events[i].about : i \in {k \in 1..Len(j.events) : j.events[k].sequence > m}}

-----------------------------------------------------------------------------
(* The client.                                                             *)
Closed == (1..(next_id - 1)) \ Ids

\* Where no event is due, the client knows the tab, unless its parent was
\* closed without telling: then the client still shows the closed parent.
AgreeOn(t) ==
  /\ t \in DOMAIN mirror.tabs <=> t \in Ids
  /\ t \in mirror.collapsed <=> t \in collapsed \cap Ids
  /\ t \in Ids => /\ mirror.tabs[t].index = tabs[t].index
                  /\ mirror.tabs[t].text = tabs[t].text
                  /\ mirror.tabs[t].parent \in {tabs[t].parent} \cup Closed

MirrorType ==
  /\ mirror = [tabs |-> mirror.tabs, collapsed |-> mirror.collapsed,
               active |-> mirror.active, position |-> mirror.position]
  /\ mirror.position \in [epoch : Nat, sequence : Nat]
  /\ TabTable(mirror.tabs) /\ mirror.collapsed \subseteq DOMAIN mirror.tabs

\* A client that can still be told everything it misses.
Follows ==
  /\ mirror.position.epoch = journal.epoch
  /\ NoGap(journal, mirror.position.sequence)

MirrorInv ==
  /\ TreeInv /\ Numbered(journal) /\ MirrorType
  /\ link = "up" =>
       /\ parents_exist(mirror.tabs)
       /\ mirror.position.epoch <= journal.epoch
       /\ mirror.position.epoch = journal.epoch => mirror.position.sequence <= journal.sequence
       /\ Follows /\ ~killed =>
            /\ \A t \in 1..MaxId :
                 t \in AboutAfter(journal, mirror.position.sequence) \/ AgreeOn(t)
            /\ mirror.position.sequence = journal.sequence => mirror.active = active

-----------------------------------------------------------------------------
(* Extreme elements, in place of induction.                                *)

\* A set of numbers has a least element.
LEMMA Least ==
  ASSUME NEW T, T \subseteq Nat, T # {}
  PROVE  \E x \in T : \A y \in T : x =< y
  <1>1. \E x \in T : \A y \in T : ~(<<y, x>> \in OpToRel(<, Nat))
    BY NatLessThanWellFounded, WFMin
  <1>2. PICK x \in T : \A y \in T : ~(<<y, x>> \in OpToRel(<, Nat))
    BY <1>1
  <1>3. ASSUME NEW y \in T  PROVE x =< y
    <2>1. ~(y < x)
      BY <1>2 DEF OpToRel
    <2> QED  BY <2>1
  <1> QED  BY <1>3

\* A bounded one has a greatest element.
LEMMA Greatest ==
  ASSUME NEW b \in Nat, NEW T, T \subseteq 0..b, T # {}
  PROVE  \E x \in T : \A y \in T : x >= y
  <1> DEFINE D == {b - x : x \in T}
  <1>0. \A x \in T : b - x \in Nat  OBVIOUS
  <1>1. D \subseteq Nat /\ D # {}
    <2>1. PICK x \in T : TRUE  OBVIOUS
    <2>2. b - x \in D  BY <2>1
    <2>3. \A y \in D : y \in Nat  BY <1>0
    <2> QED  BY <2>2, <2>3
  <1> HIDE DEF D
  <1>2. PICK d \in D : \A y \in D : d =< y  BY <1>1, Least
  <1>3. PICK x \in T : d = b - x  BY <1>2 DEF D
  <1>4. ASSUME NEW y \in T PROVE x >= y
    <2>1. b - y \in D  BY DEF D
    <2>2. b - x =< b - y  BY <1>2, <1>3, <2>1
    <2> QED  BY <2>2
  <1> QED  BY <1>4

\* What holds at 0 and is passed on holds everywhere.
LEMMA AllNat ==
  ASSUME NEW T, 0 \in T, \A m \in Nat : m \in T => m + 1 \in T
  PROVE  \A m \in Nat : m \in T
  <1> SUFFICES ASSUME \E m \in Nat : m \notin T PROVE FALSE  OBVIOUS
  <1> DEFINE D == {m \in Nat : m \notin T}
  <1>1. D \subseteq Nat /\ D # {}  OBVIOUS
  <1> HIDE DEF D
  <1>2. PICK d \in D : \A y \in D : d =< y  BY <1>1, Least
  <1>3. d \in Nat /\ d \notin T /\ d # 0  BY <1>2 DEF D
  <1>4. d - 1 \in Nat /\ ~(d =< d - 1) /\ (d - 1) + 1 = d  BY <1>3
  <1>5. d - 1 \in T  BY <1>2, <1>4 DEF D
  <1> QED  BY <1>3, <1>4, <1>5

\* The vector has a first and a last tab.
LEMMA FirstIn ==
  ASSUME NEW ts, TabTable(ts), NEW S, S \subseteq DOMAIN ts, S # {}
  PROVE  FirstOf(ts, S) \in S
  <1> DEFINE T == {ts[t].index : t \in S}
  <1>1. T \subseteq Nat /\ T # {}
    BY WorkspaceAssumption DEF TabTable
  <1> HIDE DEF T
  <1>2. PICK x \in T : \A y \in T : x =< y  BY <1>1, Least
  <1>3. PICK t \in S : x = ts[t].index  BY <1>2 DEF T
  <1>4. \A u \in S : ts[t].index <= ts[u].index  BY <1>2, <1>3 DEF T
  <1> QED  BY <1>4 DEF FirstOf

LEMMA LastIn ==
  ASSUME NEW ts, TabTable(ts), NEW S, S \subseteq DOMAIN ts, S # {}
  PROVE  LastOf(ts, S) \in S
  <1> DEFINE T == {ts[t].index : t \in S}
  <1>1. T \subseteq 0..MaxId /\ T # {} /\ MaxId \in Nat
    BY WorkspaceAssumption DEF TabTable
  <1> HIDE DEF T
  <1>2. PICK x \in T : \A y \in T : x >= y  BY <1>1, Greatest
  <1>3. PICK t \in S : x = ts[t].index  BY <1>2 DEF T
  <1>4. \A u \in S : ts[t].index >= ts[u].index  BY <1>2, <1>3 DEF T
  <1> QED  BY <1>4 DEF LastOf

\* Among as many indices as there are tabs and one more, one is free.
LEMMA FreeIndexFree ==
  ASSUME TreeInv, next_id <= MaxId
  PROVE  /\ FreeIndex \in 0..MaxId
         /\ \A t \in Ids : tabs[t].index # FreeIndex
  <1> DEFINE n == Cardinality(Ids)
             T == {i \in 0..n : \A t \in Ids : tabs[t].index # i}
  <1>1. /\ next_id \in Nat /\ next_id >= 1 /\ MaxId \in Nat
        /\ Ids \subseteq 1..(next_id - 1)
    <2>1. MaxId \in Nat /\ next_id \in 1..(MaxId + 1)  BY WorkspaceAssumption DEF TreeInv
    <2>2. \A t \in Ids : t \in 1..MaxId /\ t < next_id
      BY DEF TreeInv, TabTable, BootstrapServes, Ids
    <2> QED  BY <2>1, <2>2
  <1>2. IsFiniteSet(1..(next_id - 1)) /\ Cardinality(1..(next_id - 1)) = next_id - 1
    <2>1. 1 \in Int /\ next_id - 1 \in Int  BY <1>1
    <2>2. /\ IsFiniteSet(1..(next_id - 1))
          /\ Cardinality(1..(next_id - 1)) = IF 1 > next_id - 1 THEN 0 ELSE (next_id - 1) - 1 + 1
      BY <2>1, FS_Interval
    <2> QED  BY <2>2, <1>1
  <1>3. IsFiniteSet(Ids) /\ n <= next_id - 1
    BY <1>1, <1>2, FS_Subset
  <1>4. n \in Nat  BY <1>3, FS_CardinalityType
  <1>5. T # {}
    <2> SUFFICES ASSUME T = {} PROVE FALSE  OBVIOUS
    <2> DEFINE S == {t \in Ids : tabs[t].index \in 0..n}
               f == [t \in S |-> tabs[t].index]
    <2>1. \A i \in 0..n : \E t \in Ids : tabs[t].index = i  OBVIOUS
    <2>2. f \in Surjection(S, 0..n)
      BY <2>1 DEF Surjection
    <2>3. IsFiniteSet(S) /\ Cardinality(S) <= n
      BY <1>3, FS_Subset
    <2> HIDE DEF S, f
    <2>4. Cardinality(0..n) <= Cardinality(S)
      BY <2>2, <2>3, FS_Surjection
    <2>5. 0 \in Int /\ n \in Int  BY <1>4
    <2> HIDE DEF n
    <2>6. Cardinality(0..n) = IF 0 > n THEN 0 ELSE n - 0 + 1
      BY <2>5, FS_Interval
    <2>7. Cardinality(S) \in Nat  BY <2>3, FS_CardinalityType
    <2> QED  BY <1>4, <2>3, <2>4, <2>6, <2>7
  <1>6. T \subseteq Nat  BY <1>4
  <1>7. FreeIndex \in T
    <2>1. \E x \in T : \A y \in T : x =< y
      <3> HIDE DEF T
      <3> QED  BY <1>5, <1>6, Least
    <2>2. FreeIndex = Min(T)  BY DEF FreeIndex
    <2> HIDE DEF T
    <2> QED  BY <2>1, <2>2 DEF Min
  <1>8. T \subseteq 0..MaxId  BY <1>1, <1>3, <1>4
  <1> QED  BY <1>7, <1>8

-----------------------------------------------------------------------------
(* The operations on the tree.                                             *)

\* What a tree offers the steps below.
LEMMA TreeFacts ==
  ASSUME TreeInv
  PROVE  /\ MaxId \in Nat /\ MaxId >= 1
         /\ next_id \in Nat /\ next_id >= 1 /\ next_id <= MaxId + 1
         /\ Ids \subseteq 1..MaxId
         /\ \A t \in Ids : t \in 1..(next_id - 1)
         /\ next_id \notin Ids /\ NoTab \notin Ids /\ NoTab \notin 1..MaxId
         /\ tabs \in [Ids -> [parent : (1..MaxId) \cup {NoTab}, index : 0..MaxId, text : Texts]]
         /\ \A t, u \in Ids : tabs[t].index = tabs[u].index => t = u
         /\ active \in Ids \cup {NoTab}
         /\ collapsed \subseteq 1..MaxId /\ torn \in BOOLEAN
  <1>1. /\ MaxId \in Nat /\ MaxId >= 1 /\ NoTab \notin Nat
    BY WorkspaceAssumption
  <1>2. next_id \in 1..(MaxId + 1)  BY DEF TreeInv
  <1>3. /\ Ids \subseteq 1..MaxId
        /\ tabs \in [Ids -> [parent : (1..MaxId) \cup {NoTab}, index : 0..MaxId, text : Texts]]
    BY DEF TreeInv, TabTable, Ids
  <1>4. \A t \in Ids : t < next_id  BY DEF TreeInv, BootstrapServes
  <1>5. \A t \in Ids : t \in 1..(next_id - 1)
    BY <1>1, <1>2, <1>3, <1>4
  <1>6. /\ \A t, u \in Ids : tabs[t].index = tabs[u].index => t = u
        /\ active \in Ids \cup {NoTab}
        /\ collapsed \subseteq 1..MaxId /\ torn \in BOOLEAN
    BY DEF TreeInv, BootstrapServes, well_indexed, Ids
  <1>7. next_id \notin Ids  BY <1>2, <1>5
  <1>8. NoTab \notin Ids /\ NoTab \notin 1..MaxId
    <2>1. \A x \in 1..MaxId : x \in Nat  BY <1>1
    <2> QED  BY <1>1, <1>3, <2>1, Zenon
  <1> QED  BY <1>1, <1>2, <1>3, <1>5, <1>6, <1>7, <1>8

\* What it offers besides if no start has torn it.
LEMMA SoundFacts ==
  ASSUME TreeInv, ~torn
  PROVE  /\ Forest(tabs)
         /\ \A t \in Ids : tabs[t].parent \in Ids \cup {NoTab} /\ tabs[t].parent # t
         /\ \A c \in collapsed : c \in 1..(next_id - 1)
         /\ \A c \in collapsed \ Ids : \A t \in Ids : c < t
  <1>1. parents_exist(tabs) /\ Forest(tabs) /\ \A c \in collapsed : c < next_id
    BY DEF TreeInv, BootstrapServes
  <1>2. \A t \in Ids : tabs[t].parent \in Ids \cup {NoTab} /\ tabs[t].parent # t
    BY <1>1 DEF parents_exist, Ids
  <1>3. \A c \in collapsed \ Ids : \A t \in Ids : c < t
    BY DEF TreeInv, SoundTree, Ids
  <1>4. \A c \in collapsed : c \in 1..(next_id - 1)
    <2>1. MaxId \in Nat /\ next_id \in Nat /\ collapsed \subseteq 1..MaxId  BY TreeFacts
    <2> QED  BY <1>1, <2>1
  <1> QED  BY <1>1, <1>2, <1>3, <1>4

\* The invariant from its parts.
LEMMA TreeParts ==
  ASSUME TabTable(tabs), collapsed \subseteq 1..MaxId, torn \in BOOLEAN,
         next_id \in 1..(MaxId + 1), GoodWorkspace(saved),
         \A t, u \in Ids : tabs[t].index = tabs[u].index => t = u,
         active \in Ids \cup {NoTab},
         \A t \in Ids : t < next_id,
         ~torn => /\ Forest(tabs)
                  /\ \A t \in Ids : tabs[t].parent \in Ids \cup {NoTab} /\ tabs[t].parent # t
                  /\ \A c \in collapsed : c < next_id
                  /\ \A c \in collapsed \ Ids : \A t \in Ids : c < t
  PROVE  TreeInv
  <1>1. well_indexed(tabs, active)  BY DEF well_indexed, Ids
  <1>2. ~torn => parents_exist(tabs)  BY DEF parents_exist, Ids
  <1>3. ~torn => SoundTree(tabs, collapsed)  BY <1>2 DEF SoundTree, Ids
  <1> QED  BY <1>1, <1>2, <1>3 DEF TreeInv, BootstrapServes

\* The same for the next state.
LEMMA TreePartsNext ==
  ASSUME TabTable(tabs)', collapsed' \subseteq 1..MaxId, torn' \in BOOLEAN,
         next_id' \in 1..(MaxId + 1), GoodWorkspace(saved)',
         \A t, u \in Ids' : tabs'[t].index = tabs'[u].index => t = u,
         active' \in Ids' \cup {NoTab},
         \A t \in Ids' : t < next_id',
         ~torn' => /\ Forest(tabs)'
                   /\ \A t \in Ids' : tabs'[t].parent \in Ids' \cup {NoTab} /\ tabs'[t].parent # t
                   /\ \A c \in collapsed' : c < next_id'
                   /\ \A c \in collapsed' \ Ids' : \A t \in Ids' : c < t
  PROVE  TreeInv'
  <1>1. well_indexed(tabs, active)'  BY DEF well_indexed, Ids
  <1>2. ~torn' => parents_exist(tabs)'  BY DEF parents_exist, Ids
  <1>3. ~torn' => SoundTree(tabs, collapsed)'  BY <1>2 DEF SoundTree, Ids
  <1> QED  BY <1>1, <1>2, <1>3 DEF TreeInv, BootstrapServes

LEMMA SavedKept ==
  ASSUME TreeInv, saved' = saved
  PROVE  GoodWorkspace(saved)'
  BY DEF TreeInv, GoodWorkspace, TabTable, SoundTree, parents_exist, Forest

LEMMA TabsFinite ==
  ASSUME TreeInv
  PROVE  IsFiniteSet(Ids) /\ Cardinality(Ids) \in Nat
  <1>1. Ids \subseteq 1..MaxId /\ 1 \in Int /\ MaxId \in Int  BY TreeFacts
  <1>2. IsFiniteSet(1..MaxId)  BY <1>1, FS_Interval
  <1> QED  BY <1>1, <1>2, FS_Subset, FS_CardinalityType

\* The new tab is no one's parent yet.
LEMMA CreateTree ==
  ASSUME TreeInv, NEW parent \in Ids \cup {NoTab}, NEW select \in BOOLEAN,
         NEW text \in Texts, create_tab(parent, select, text)
  PROVE  TreeInv'
  <1> DEFINE id == next_id
             new == [parent |-> parent, index |-> FreeIndex, text |-> text]
  <1>1. /\ next_id <= MaxId /\ next_id' = id + 1
        /\ tabs' = [t \in Ids \cup {id} |-> IF t = id THEN new ELSE tabs[t]]
        /\ collapsed' = collapsed \ {parent}
        /\ active' = (IF select THEN id ELSE active)
        /\ saved' = saved /\ torn' = torn
    BY DEF create_tab
  <1>2. /\ FreeIndex \in 0..MaxId
        /\ \A t \in Ids : tabs[t].index # FreeIndex
    BY <1>1, FreeIndexFree
  <1> HIDE DEF id
  <1>3. /\ MaxId \in Nat /\ id \in 1..MaxId /\ id \notin Ids /\ id # NoTab
        /\ Ids \subseteq 1..MaxId /\ NoTab \notin Ids
        /\ tabs \in [Ids -> [parent : (1..MaxId) \cup {NoTab}, index : 0..MaxId, text : Texts]]
        /\ \A t, u \in Ids : tabs[t].index = tabs[u].index => t = u
        /\ active \in Ids \cup {NoTab} /\ collapsed \subseteq 1..MaxId /\ torn \in BOOLEAN
        /\ \A t \in Ids : t \in 1..(id - 1)
    BY <1>1, TreeFacts DEF id
  <1>4. /\ Ids' = Ids \cup {id} /\ DOMAIN tabs' = Ids \cup {id}
        /\ tabs'[id] = new /\ \A t \in Ids : tabs'[t] = tabs[t]
        /\ new.parent = parent /\ new.index = FreeIndex
    BY <1>1, <1>3 DEF Ids
  <1>5. TabTable(tabs)'
    <2>1. new \in [parent : (1..MaxId) \cup {NoTab}, index : 0..MaxId, text : Texts]
      BY <1>2, <1>3
    <2> HIDE DEF new
    <2> QED  BY <1>1, <1>3, <1>4, <2>1 DEF TabTable
  <1> HIDE DEF new
  <1>6. \A t, u \in Ids' : tabs'[t].index = tabs'[u].index => t = u
    <2>1. tabs'[id].index = FreeIndex /\ \A t \in Ids : tabs'[t].index = tabs[t].index
      BY <1>4
    <2>2. ASSUME NEW t \in Ids, NEW u \in Ids, tabs'[t].index = tabs'[u].index
          PROVE  t = u
      <3>1. tabs[t].index = tabs[u].index  BY <2>1, <2>2
      <3> QED  BY <1>3, <3>1
    <2>3. ASSUME NEW t \in Ids PROVE tabs'[t].index # tabs'[id].index
      BY <1>2, <2>1
    <2> QED  BY <1>4, <2>2, <2>3
  <1>7. active' \in Ids' \cup {NoTab}  BY <1>1, <1>3, <1>4
  <1>8. next_id' \in 1..(MaxId + 1) /\ \A t \in Ids' : t < next_id'
    BY <1>1, <1>3, <1>4
  <1>9. ASSUME ~torn
        PROVE  /\ Forest(tabs)'
               /\ \A t \in Ids' : tabs'[t].parent \in Ids' \cup {NoTab} /\ tabs'[t].parent # t
               /\ \A c \in collapsed' : c < next_id'
               /\ \A c \in collapsed' \ Ids' : \A t \in Ids' : c < t
    <2>1. /\ Forest(tabs)
          /\ \A t \in Ids : tabs[t].parent \in Ids \cup {NoTab} /\ tabs[t].parent # t
          /\ \A c \in collapsed : c \in 1..(id - 1)
          /\ \A c \in collapsed \ Ids : \A t \in Ids : c < t
      BY <1>9, SoundFacts DEF id
    <2>2. Forest(tabs)'
      <3> SUFFICES ASSUME NEW S \in SUBSET (Ids \cup {id}), S # {}
                   PROVE  \E t \in S : tabs'[t].parent \notin S
        BY <1>4 DEF Forest
      <3>1. CASE S = {id}
        BY <3>1, <1>3, <1>4
      <3>2. CASE S # {id}
        <4>1. S \ {id} \in SUBSET Ids /\ S \ {id} # {}  BY <3>2
        <4>2. PICK t \in S \ {id} : tabs[t].parent \notin S \ {id}
          BY <2>1, <4>1 DEF Forest, Ids
        <4>3. tabs'[t].parent = tabs[t].parent /\ tabs[t].parent # id
          BY <1>3, <1>4, <2>1, <4>1, <4>2
        <4> QED  BY <4>2, <4>3
      <3> QED  BY <3>1, <3>2
    <2>3. \A t \in Ids' : tabs'[t].parent \in Ids' \cup {NoTab} /\ tabs'[t].parent # t
      BY <1>3, <1>4, <2>1
    <2>4. \A c \in collapsed' : c < next_id'
      BY <1>1, <1>3, <2>1
    <2>5. \A c \in collapsed' \ Ids' : \A t \in Ids' : c < t
      BY <1>1, <1>3, <1>4, <2>1
    <2> QED  BY <2>2, <2>3, <2>4, <2>5
  <1>10. GoodWorkspace(saved)'  BY <1>1, SavedKept
  <1>11. collapsed' \subseteq 1..MaxId /\ torn' \in BOOLEAN /\ (~torn' => ~torn)
    BY <1>1, <1>3
  <1> QED  BY <1>5, <1>6, <1>7, <1>8, <1>9, <1>10, <1>11, TreePartsNext

\* The children of a closed tab hang where it hung: a loop through them would
\* have been a loop through it.
LEMMA CloseTree ==
  ASSUME TreeInv, NEW id \in Ids, close_tab(id)
  PROVE  TreeInv'
  <1>1. /\ tabs' = Promoted(id) /\ collapsed' = collapsed \ {id}
        /\ active' = ActiveAfterClose(id)
        /\ next_id' = next_id /\ saved' = saved /\ torn' = torn
    BY DEF close_tab
  <1>2. /\ MaxId \in Nat /\ next_id \in 1..(MaxId + 1)
        /\ Ids \subseteq 1..MaxId /\ NoTab \notin Ids
        /\ tabs \in [Ids -> [parent : (1..MaxId) \cup {NoTab}, index : 0..MaxId, text : Texts]]
        /\ \A t, u \in Ids : tabs[t].index = tabs[u].index => t = u
        /\ active \in Ids \cup {NoTab} /\ collapsed \subseteq 1..MaxId /\ torn \in BOOLEAN
        /\ \A t \in Ids : t < next_id
    BY TreeFacts DEF TreeInv, BootstrapServes
  <1>3. /\ Ids' = Ids \ {id} /\ DOMAIN tabs' = Ids \ {id}
        /\ \A t \in Ids \ {id} :
             /\ tabs'[t].index = tabs[t].index
             /\ tabs'[t].parent = IF tabs[t].parent = id THEN tabs[id].parent ELSE tabs[t].parent
             /\ tabs'[t] \in [parent : (1..MaxId) \cup {NoTab}, index : 0..MaxId, text : Texts]
    BY <1>1, <1>2 DEF Promoted, Ids
  <1>4. TabTable(tabs)'
    <2>1. tabs' \in [Ids \ {id} -> [parent : (1..MaxId) \cup {NoTab}, index : 0..MaxId, text : Texts]]
      BY <1>1, <1>3 DEF Promoted
    <2> QED  BY <1>2, <1>3, <2>1 DEF TabTable
  <1>5. \A t, u \in Ids' : tabs'[t].index = tabs'[u].index => t = u
    BY <1>2, <1>3
  <1>6. active' \in Ids' \cup {NoTab}
    <2> DEFINE rest == Ids \ {id}
               after == {t \in rest : tabs[t].index > tabs[id].index}
    <2>1. TabTable(tabs) /\ rest \subseteq DOMAIN tabs /\ after \subseteq DOMAIN tabs
      BY DEF TreeInv, Ids
    <2>2. after # {} => FirstOf(tabs, after) \in after  BY <2>1, FirstIn
    <2>3. rest # {} => LastOf(tabs, rest) \in rest
      <3> HIDE DEF rest
      <3> QED  BY <2>1, LastIn
    <2>4. active' = IF active # id THEN active
                    ELSE IF after # {} THEN FirstOf(tabs, after)
                    ELSE IF rest # {} THEN LastOf(tabs, rest) ELSE NoTab
      BY <1>1 DEF ActiveAfterClose
    <2>5. Ids' = rest /\ after \subseteq rest  BY <1>3
    <2> HIDE DEF after
    <2>6. active # id => active \in rest \cup {NoTab}  BY <1>2
    <2> HIDE DEF rest
    <2> QED  BY <2>2, <2>3, <2>4, <2>5, <2>6
  <1>7. ASSUME ~torn
        PROVE  /\ Forest(tabs)'
               /\ \A t \in Ids' : tabs'[t].parent \in Ids' \cup {NoTab} /\ tabs'[t].parent # t
               /\ \A c \in collapsed' : c < next_id'
               /\ \A c \in collapsed' \ Ids' : \A t \in Ids' : c < t
    <2>1. /\ Forest(tabs)
          /\ \A t \in Ids : tabs[t].parent \in Ids \cup {NoTab} /\ tabs[t].parent # t
          /\ \A c \in collapsed : c \in 1..(next_id - 1)
          /\ \A c \in collapsed \ Ids : \A t \in Ids : c < t
      BY <1>7, SoundFacts
    <2>2. Forest(tabs)'
      <3> SUFFICES ASSUME NEW S \in SUBSET (Ids \ {id}), S # {},
                          \A t \in S : tabs'[t].parent \in S
                   PROVE  FALSE
        BY <1>3 DEF Forest
      <3>1. PICK u \in S : tabs[u].parent \notin S
        BY <2>1 DEF Forest, Ids
      <3>2. tabs[u].parent = id /\ tabs[id].parent \in S  BY <1>3, <3>1
      <3>3. S \cup {id} \in SUBSET Ids /\ S \cup {id} # {}  OBVIOUS
      <3>4. PICK t \in S \cup {id} : tabs[t].parent \notin S \cup {id}
        BY <2>1, <3>3 DEF Forest, Ids
      <3>5. t \in S  BY <3>2, <3>4
      <3> QED  BY <1>3, <3>4, <3>5
    <2>3. ASSUME NEW t \in Ids'
          PROVE  tabs'[t].parent \in Ids' \cup {NoTab} /\ tabs'[t].parent # t
      <3>1. CASE tabs[t].parent # id  BY <1>2, <1>3, <2>1, <3>1
      <3>2. CASE tabs[t].parent = id
        <4>1. PICK u \in {t, id} : tabs[u].parent \notin {t, id}
          BY <1>3, <2>1 DEF Forest, Ids
        <4>2. tabs[id].parent # t  BY <3>2, <4>1
        <4> QED  BY <1>2, <1>3, <2>1, <3>2, <4>2
      <3> QED  BY <3>1, <3>2
    <2>4. \A c \in collapsed' : c < next_id'
      BY <1>1, <1>2, <2>1
    <2>5. \A c \in collapsed' \ Ids' : \A t \in Ids' : c < t
      BY <1>1, <1>3, <2>1
    <2> QED  BY <2>2, <2>3, <2>4, <2>5
  <1>8. next_id' \in 1..(MaxId + 1) /\ \A t \in Ids' : t < next_id'
    BY <1>1, <1>2, <1>3
  <1>9. GoodWorkspace(saved)'  BY <1>1, SavedKept
  <1>10. collapsed' \subseteq 1..MaxId /\ torn' \in BOOLEAN /\ (~torn' => ~torn)
    BY <1>1, <1>2
  <1> QED  BY <1>4, <1>5, <1>6, <1>7, <1>8, <1>9, <1>10, TreePartsNext

\* The walk of would_create_cycle from p, n steps long.
UpFrom(ts, x) == IF x \in DOMAIN ts THEN ts[x].parent ELSE NoTab
OnWalks(ts, p) == {p, NoTab} \cup {ts[x].parent : x \in DOMAIN ts}
IsWalk(f, ts, p, n) ==
  /\ f \in [0..n -> OnWalks(ts, p)]
  /\ f[0] = p /\ \A k \in 1..n : f[k] = UpFrom(ts, f[k-1])

LEMMA WalkExists ==
  ASSUME NEW ts, NEW p, NEW n \in Nat
  PROVE  \E f : IsWalk(f, ts, p, n)
  <1> DEFINE V == OnWalks(ts, p)
             Walks == {m \in Nat : \E f : IsWalk(f, ts, p, m)}
  <1>1. 0 \in Walks
    <2> DEFINE f == [k \in 0..0 |-> p]
    <2>1. p \in V  BY DEF OnWalks
    <2>2. IsWalk(f, ts, p, 0)  BY <2>1 DEF IsWalk
    <2> QED  BY <2>2
  <1>2. ASSUME NEW m \in Nat, m \in Walks PROVE m + 1 \in Walks
    <2>1. PICK f : IsWalk(f, ts, p, m)  BY <1>2
    <2>2. /\ f \in [0..m -> V] /\ f[0] = p
          /\ \A k \in 1..m : f[k] = UpFrom(ts, f[k-1])
      BY <2>1 DEF IsWalk
    <2>3. UpFrom(ts, f[m]) \in V  BY DEF UpFrom, OnWalks
    <2> HIDE DEF V
    <2> DEFINE g == [k \in 0..(m+1) |-> IF k = m + 1 THEN UpFrom(ts, f[m]) ELSE f[k]]
    <2>4. g \in [0..(m+1) -> V]  BY <2>2, <2>3
    <2>5. \A k \in 0..m : g[k] = f[k]  OBVIOUS
    <2>6. g[m+1] = UpFrom(ts, f[m])  OBVIOUS
    <2> HIDE DEF g
    <2>7. g[0] = p  BY <2>2, <2>5
    <2>8. ASSUME NEW k \in 1..(m+1) PROVE g[k] = UpFrom(ts, g[k-1])
      <3>1. CASE k = m + 1
        <4>1. k - 1 = m /\ m \in 0..m  BY <3>1
        <4> QED  BY <4>1, <3>1, <2>5, <2>6
      <3>2. CASE k # m + 1
        <4>1. k \in 1..m /\ k \in 0..m /\ k - 1 \in 0..m  BY <3>2
        <4>2. f[k] = UpFrom(ts, f[k-1])  BY <4>1, <2>2
        <4> QED  BY <4>1, <4>2, <2>5
      <3> QED  BY <3>1, <3>2
    <2>9. IsWalk(g, ts, p, m + 1)  BY <2>4, <2>7, <2>8 DEF IsWalk, V
    <2>10. m + 1 \in Nat  OBVIOUS
    <2> QED  BY <2>9, <2>10
  <1> HIDE DEF Walks
  <1>3. n \in Walks  BY <1>1, <1>2, AllNat
  <1> QED  BY <1>3 DEF Walks

\* f is the walk from parent, one step per tab.
TabWalk(f, parent) ==
  /\ f[0] = parent
  /\ \A k \in 1..Cardinality(Ids) :
       f[k] = IF f[k-1] \in Ids THEN tabs[f[k-1]].parent ELSE NoTab

\* would_create_cycle asks whether the walk meets child or misses the root.
LEMMA CycleWalk ==
  ASSUME TreeInv, NEW child \in Ids, NEW parent \in Ids
  PROVE  \E f : /\ TabWalk(f, parent)
                /\ would_create_cycle(child, parent)
                     <=> \/ child = parent
                         \/ \E k \in 0..Cardinality(Ids) : f[k] = child
                         \/ \A k \in 0..Cardinality(Ids) : f[k] # NoTab
  <1> DEFINE n == Cardinality(Ids)
             walk == CHOOSE f : f = [k \in 0..n |->
                       IF k = 0 THEN parent
                       ELSE IF f[k-1] \in Ids THEN tabs[f[k-1]].parent ELSE NoTab]
  <1>1. would_create_cycle(child, parent)
          <=> \/ child = parent
              \/ \E k \in 0..n : walk[k] = child
              \/ \A k \in 0..n : walk[k] # NoTab
    BY DEF would_create_cycle
  <1>2. n \in Nat  BY TabsFinite
  <1> HIDE DEF n
  <1>3. walk = [k \in 0..n |->
                  IF k = 0 THEN parent
                  ELSE IF walk[k-1] \in Ids THEN tabs[walk[k-1]].parent ELSE NoTab]
    <2>1. PICK f : IsWalk(f, tabs, parent, n)  BY <1>2, WalkExists
    <2>2. /\ f \in [0..n -> OnWalks(tabs, parent)] /\ f[0] = parent
          /\ \A k \in 1..n : f[k] = IF f[k-1] \in Ids THEN tabs[f[k-1]].parent ELSE NoTab
      BY <2>1 DEF IsWalk, UpFrom, Ids
    <2>3. ASSUME NEW k \in 0..n
          PROVE  f[k] = IF k = 0 THEN parent
                        ELSE IF f[k-1] \in Ids THEN tabs[f[k-1]].parent ELSE NoTab
      <3>1. k = 0 \/ k \in 1..n  BY <1>2
      <3> QED  BY <2>2, <3>1
    <2>4. f = [k \in 0..n |-> IF k = 0 THEN parent
                  ELSE IF f[k-1] \in Ids THEN tabs[f[k-1]].parent ELSE NoTab]
      BY <2>2, <2>3
    <2> QED  BY <2>4, Zenon DEF walk
  <1> HIDE DEF walk
  <1>4. walk[0] = parent  BY <1>2, <1>3
  <1>5. \A k \in 1..n : walk[k] = IF walk[k-1] \in Ids THEN tabs[walk[k-1]].parent ELSE NoTab
    BY <1>2, <1>3
  <1>6. TabWalk(walk, parent)  BY <1>4, <1>5 DEF TabWalk, n
  <1> QED  BY <1>1, <1>6 DEF n

\* The tree after a move.
Moved(child, parent) == [tabs EXCEPT ![child].parent = parent]

LEMMA MovedTabs ==
  ASSUME TreeInv, NEW child \in Ids, NEW parent \in Ids \cup {NoTab}
  PROVE  /\ DOMAIN Moved(child, parent) = Ids
         /\ \A t \in Ids :
              /\ Moved(child, parent)[t].index = tabs[t].index
              /\ Moved(child, parent)[t].parent = IF t = child THEN parent ELSE tabs[t].parent
         /\ Moved(child, parent) \in [Ids -> [parent : (1..MaxId) \cup {NoTab}, index : 0..MaxId, text : Texts]]
  <1>1. /\ tabs \in [Ids -> [parent : (1..MaxId) \cup {NoTab}, index : 0..MaxId, text : Texts]]
        /\ parent \in (1..MaxId) \cup {NoTab}
    BY TreeFacts
  <1> QED  BY <1>1 DEF Moved

\* A loop through the moved tab would hold all of the walk to the root.
LEMMA MoveForest ==
  ASSUME TreeInv, ~torn, NEW child \in Ids, NEW parent \in Ids \cup {NoTab},
         parent \in Ids => ~would_create_cycle(child, parent)
  PROVE  Forest(Moved(child, parent))
  <1> DEFINE new == Moved(child, parent)
             n == Cardinality(Ids)
  <1>1. /\ DOMAIN new = Ids
        /\ \A t \in Ids : new[t].parent = IF t = child THEN parent ELSE tabs[t].parent
    BY MovedTabs
  <1>2. n \in Nat  BY TabsFinite
  <1> HIDE DEF new, n
  <1> SUFFICES ASSUME NEW S \in SUBSET Ids, S # {},
                      \A t \in S : new[t].parent \in S
               PROVE  FALSE
    BY <1>1 DEF Forest, new
  <1>3. Forest(tabs) /\ NoTab \notin S  BY TreeFacts, SoundFacts
  <1>4. PICK u \in S : tabs[u].parent \notin S  BY <1>3 DEF Forest, Ids
  <1>5. u = child  BY <1>1, <1>4
  <1>6. child \in S /\ parent \in S  BY <1>1, <1>5
  <1>7. parent \in Ids /\ ~would_create_cycle(child, parent)  BY <1>6
  <1>8. PICK f : /\ TabWalk(f, parent)
                 /\ \A k \in 0..n : f[k] # child
                 /\ \E k \in 0..n : f[k] = NoTab
    BY <1>7, CycleWalk DEF n
  <1>9. /\ f[0] = parent
        /\ \A k \in 1..n : f[k] = IF f[k-1] \in Ids THEN tabs[f[k-1]].parent ELSE NoTab
    BY <1>8 DEF TabWalk, n
  <1>10. PICK r \in 0..n : f[r] = NoTab  BY <1>8
  <1> DEFINE Out == {k \in 0..n : f[k] \notin S}
  <1>11. r \in Out  BY <1>3, <1>10
  <1>12. Out \subseteq Nat /\ Out # {}  BY <1>2, <1>11
  <1>13. PICK k \in Out : \A i \in Out : k =< i  BY <1>12, Least
  <1>14. k # 0  BY <1>6, <1>9, <1>13
  <1>15. k \in 1..n /\ k - 1 \in 0..n /\ k - 1 \notin Out  BY <1>2, <1>13, <1>14
  <1>16. f[k-1] \in S /\ f[k-1] # child  BY <1>8, <1>15
  <1>17. f[k] = new[f[k-1]].parent  BY <1>1, <1>9, <1>15, <1>16
  <1> QED  BY <1>13, <1>16, <1>17

LEMMA MoveTree ==
  ASSUME TreeInv, NEW child \in Ids, NEW parent \in Ids \cup {NoTab},
         set_tab_parent(child, parent)
  PROVE  TreeInv'
  <1>1. /\ parent \in Ids => ~would_create_cycle(child, parent)
        /\ tabs' = [tabs EXCEPT ![child].parent = parent]
        /\ UNCHANGED <<collapsed, active, next_id, saved, torn>>
    BY DEF set_tab_parent
  <1>2. /\ MaxId \in Nat /\ next_id \in 1..(MaxId + 1)
        /\ Ids \subseteq 1..MaxId /\ NoTab \notin Ids
        /\ tabs \in [Ids -> [parent : (1..MaxId) \cup {NoTab}, index : 0..MaxId, text : Texts]]
        /\ \A t, u \in Ids : tabs[t].index = tabs[u].index => t = u
        /\ active \in Ids \cup {NoTab} /\ collapsed \subseteq 1..MaxId /\ torn \in BOOLEAN
        /\ \A t \in Ids : t < next_id
    BY TreeFacts DEF TreeInv, BootstrapServes
  <1>3. /\ Ids' = Ids /\ DOMAIN tabs' = Ids
        /\ \A t \in Ids : tabs'[t].index = tabs[t].index
        /\ \A t \in Ids : tabs'[t].parent = IF t = child THEN parent ELSE tabs[t].parent
        /\ tabs' \in [Ids -> [parent : (1..MaxId) \cup {NoTab}, index : 0..MaxId, text : Texts]]
    BY <1>1, <1>2 DEF Ids
  <1>4. TabTable(tabs)'  BY <1>2, <1>3 DEF TabTable
  <1>5. child # parent
    BY <1>1, <1>2 DEF would_create_cycle
  <1>6. ASSUME ~torn
        PROVE  /\ Forest(tabs)'
               /\ \A t \in Ids' : tabs'[t].parent \in Ids' \cup {NoTab} /\ tabs'[t].parent # t
               /\ \A c \in collapsed' : c < next_id'
               /\ \A c \in collapsed' \ Ids' : \A t \in Ids' : c < t
    <2>1. /\ \A t \in Ids : tabs[t].parent \in Ids \cup {NoTab} /\ tabs[t].parent # t
          /\ \A c \in collapsed : c \in 1..(next_id - 1)
          /\ \A c \in collapsed \ Ids : \A t \in Ids : c < t
      BY <1>6, SoundFacts
    <2>2. Forest(tabs)'
      <3>1. Forest(tabs')  BY <1>1, <1>6, MoveForest DEF Moved
      <3> QED  BY <3>1 DEF Forest
    <2>3. \A t \in Ids' : tabs'[t].parent \in Ids' \cup {NoTab} /\ tabs'[t].parent # t
      BY <1>2, <1>3, <1>5, <2>1
    <2>4. \A c \in collapsed' : c < next_id'
      BY <1>1, <1>2, <2>1
    <2>5. \A c \in collapsed' \ Ids' : \A t \in Ids' : c < t
      BY <1>1, <1>3, <2>1
    <2> QED  BY <2>2, <2>3, <2>4, <2>5
  <1>7. \A t, u \in Ids' : tabs'[t].index = tabs'[u].index => t = u
    BY <1>2, <1>3
  <1>8. /\ active' \in Ids' \cup {NoTab} /\ next_id' \in 1..(MaxId + 1)
        /\ \A t \in Ids' : t < next_id'
        /\ collapsed' \subseteq 1..MaxId /\ torn' \in BOOLEAN /\ (~torn' => ~torn)
    BY <1>1, <1>2, <1>3
  <1>9. GoodWorkspace(saved)'  BY <1>1, SavedKept
  <1> QED  BY <1>4, <1>6, <1>7, <1>8, <1>9, TreePartsNext

\* Selecting, collapsing, a new text and the id a failed spawn uses up leave
\* the tree.
LEMMA OtherTree ==
  ASSUME TreeInv,
         \/ create_tab_fails
         \/ \E id \in Ids : select_tab(id) \/ toggle_tab_collapsed(id)
         \/ \E id \in Ids, text \in Texts : set_tab_text(id, text)
         \/ UNCHANGED workspace
  PROVE  TreeInv'
  <1>1. /\ MaxId \in Nat /\ next_id \in 1..(MaxId + 1)
        /\ Ids \subseteq 1..MaxId /\ NoTab \notin Ids
        /\ tabs \in [Ids -> [parent : (1..MaxId) \cup {NoTab}, index : 0..MaxId, text : Texts]]
        /\ \A t, u \in Ids : tabs[t].index = tabs[u].index => t = u
        /\ active \in Ids \cup {NoTab} /\ collapsed \subseteq 1..MaxId /\ torn \in BOOLEAN
        /\ \A t \in Ids : t < next_id
    BY TreeFacts DEF TreeInv, BootstrapServes
  <1>2. /\ Ids' = Ids /\ DOMAIN tabs' = Ids
        /\ \A t \in Ids : tabs'[t].index = tabs[t].index /\ tabs'[t].parent = tabs[t].parent
        /\ tabs' \in [Ids -> [parent : (1..MaxId) \cup {NoTab}, index : 0..MaxId, text : Texts]]
    <2>1. CASE tabs' = tabs  BY <1>1, <2>1 DEF Ids
    <2>2. ASSUME NEW id \in Ids, NEW text \in Texts, set_tab_text(id, text)
          PROVE  <1>2
      <3>1. tabs' = [tabs EXCEPT ![id].text = text]  BY <2>2 DEF set_tab_text
      <3> QED  BY <1>1, <3>1 DEF Ids
    <2> QED  BY <2>1, <2>2
         DEF create_tab_fails, select_tab, toggle_tab_collapsed, workspace
  <1>3. /\ saved' = saved /\ torn' = torn
        /\ active' \in Ids \cup {NoTab}
        /\ collapsed' = collapsed \/ \E id \in Ids : collapsed' \ {id} = collapsed \ {id}
    BY <1>1
       DEF create_tab_fails, select_tab, toggle_tab_collapsed, set_tab_text, workspace
  <1>4. next_id' \in 1..(MaxId + 1) /\ next_id' >= next_id
    BY <1>1
       DEF create_tab_fails, select_tab, toggle_tab_collapsed, set_tab_text, workspace
  <1>5. collapsed' \subseteq 1..MaxId /\ collapsed' \ Ids = collapsed \ Ids
        /\ collapsed' \subseteq collapsed \cup Ids
    BY <1>1, <1>3
  <1>6. \A t \in Ids : t < next_id'
    BY <1>1, <1>4
  <1>7. TabTable(tabs)'  BY <1>1, <1>2 DEF TabTable
  <1>8. ASSUME ~torn
        PROVE  /\ Forest(tabs)'
               /\ \A t \in Ids' : tabs'[t].parent \in Ids' \cup {NoTab} /\ tabs'[t].parent # t
               /\ \A c \in collapsed' : c < next_id'
               /\ \A c \in collapsed' \ Ids' : \A t \in Ids' : c < t
    <2>1. /\ Forest(tabs)
          /\ \A t \in Ids : tabs[t].parent \in Ids \cup {NoTab} /\ tabs[t].parent # t
          /\ \A c \in collapsed : c \in 1..(next_id - 1)
          /\ \A c \in collapsed \ Ids : \A t \in Ids : c < t
      BY <1>8, SoundFacts
    <2>2. Forest(tabs)'
      <3> SUFFICES ASSUME NEW S \in SUBSET Ids, S # {}
                   PROVE  \E t \in S : tabs'[t].parent \notin S
        BY <1>2 DEF Forest
      <3>1. \E t \in S : tabs[t].parent \notin S  BY <2>1 DEF Forest, Ids
      <3> QED  BY <1>2, <3>1
    <2>3. \A c \in collapsed : c < next_id'  BY <1>1, <1>4, <2>1
    <2> QED  BY <1>2, <1>5, <1>6, <2>1, <2>2, <2>3
  <1>9. GoodWorkspace(saved)'  BY <1>3, SavedKept
  <1> QED  BY <1>1, <1>2, <1>3, <1>4, <1>5, <1>6, <1>7, <1>8, <1>9, TreePartsNext

\* A table without tabs.
LEMMA NoTabsGood ==
  /\ DOMAIN no_tabs = {} /\ TabTable(no_tabs)
  /\ \A C : SoundTree(no_tabs, C)
  <1>1. DOMAIN no_tabs = {}  BY DEF no_tabs
  <1>2. no_tabs \in [{} -> [parent : (1..MaxId) \cup {NoTab}, index : 0..MaxId, text : Texts]]
    BY DEF no_tabs
  <1>3. TabTable(no_tabs)  BY <1>1, <1>2 DEF TabTable
  <1> QED  BY <1>1, <1>3 DEF SoundTree, parents_exist, Forest

\* The tabs go, the collapsed ids and next_id stay.
LEMMA KillTree ==
  ASSUME TreeInv, kill_server
  PROVE  TreeInv'
  <1>1. /\ tabs' = no_tabs /\ active' = NoTab
        /\ UNCHANGED <<collapsed, next_id, saved, torn>>
    BY DEF kill_server
  <1>2. /\ next_id \in 1..(MaxId + 1) /\ collapsed \subseteq 1..MaxId /\ torn \in BOOLEAN
        /\ (torn \/ \A c \in collapsed : c < next_id)
    BY DEF TreeInv, BootstrapServes
  <1>3. Ids' = {} /\ TabTable(tabs')  BY <1>1, NoTabsGood DEF Ids
  <1>4. TabTable(tabs)'  BY <1>3 DEF TabTable
  <1>5. Forest(tabs)'  BY <1>3 DEF Forest, Ids
  <1>6. GoodWorkspace(saved)'  BY <1>1, SavedKept
  <1> QED  BY <1>1, <1>2, <1>3, <1>4, <1>5, <1>6, TreePartsNext

\* What is saved is what is served.
LEMMA SavedGood ==
  ASSUME TreeInv
  PROVE  GoodWorkspace(saved_workspace)
  <1>1. /\ saved_workspace.tabs = tabs /\ saved_workspace.torn = torn
        /\ saved_workspace.collapsed = collapsed
    BY DEF saved_workspace
  <1>2. /\ TabTable(tabs) /\ collapsed \subseteq 1..MaxId /\ torn \in BOOLEAN
        /\ (torn \/ SoundTree(tabs, collapsed))
        /\ \A t, u \in DOMAIN tabs : tabs[t].index = tabs[u].index => t = u
    BY DEF TreeInv, BootstrapServes, well_indexed
  <1> QED  BY <1>1, <1>2 DEF GoodWorkspace

LEMMA PersistTree ==
  ASSUME TreeInv, persist_workspace
  PROVE  TreeInv'
  <1>1. saved' = saved_workspace /\ UNCHANGED <<tabs, collapsed, active, next_id, torn>>
    BY DEF persist_workspace
  <1>2. GoodWorkspace(saved')  BY <1>1, SavedGood
  <1>3. GoodWorkspace(saved)'
    BY <1>2 DEF GoodWorkspace, TabTable, SoundTree, parents_exist, Forest
  <1>4. /\ BootstrapServes' /\ TabTable(tabs)' /\ next_id' \in 1..(MaxId + 1)
        /\ collapsed' \subseteq 1..MaxId /\ torn' \in BOOLEAN
        /\ (torn \/ SoundTree(tabs, collapsed))'
    BY <1>1 DEF TreeInv, BootstrapServes, TabTable, SoundTree, well_indexed, parents_exist,
                Forest, Ids
  <1> QED  BY <1>3, <1>4 DEF TreeInv

\* The workspace a server begins with when nothing was saved.
LEMMA DefaultGood ==
  /\ GoodWorkspace(default_workspace) /\ DOMAIN default_workspace.tabs = {1}
  /\ default_workspace.torn = FALSE
  <1> DEFINE ts == default_workspace.tabs
  <1>1. MaxId \in Nat /\ MaxId >= 1 /\ NoTab \notin Nat /\ Plain \in Texts
    BY WorkspaceAssumption
  <1>2. /\ ts = [t \in {1} |-> [parent |-> NoTab, index |-> 0, text |-> Plain]]
        /\ default_workspace.collapsed = {} /\ default_workspace.torn = FALSE
    BY DEF default_workspace
  <1>3. DOMAIN ts = {1} /\ ts[1] = [parent |-> NoTab, index |-> 0, text |-> Plain]  BY <1>2
  <1> HIDE DEF ts
  <1>4. TabTable(ts)  BY <1>1, <1>2, <1>3 DEF TabTable
  <1>5. SoundTree(ts, {})
    BY <1>1, <1>3 DEF SoundTree, parents_exist, Forest
  <1> QED  BY <1>2, <1>3, <1>4, <1>5 DEF GoodWorkspace, ts

LEMMA EmptyGood ==
  /\ GoodWorkspace(empty_workspace) /\ DOMAIN empty_workspace.tabs = {}
  /\ empty_workspace.torn = FALSE
  <1>1. /\ empty_workspace.tabs = no_tabs /\ empty_workspace.collapsed = {}
        /\ empty_workspace.torn = FALSE
    BY DEF empty_workspace
  <1> QED  BY <1>1, NoTabsGood DEF GoodWorkspace

LEMMA LoadGood ==
  ASSUME NEW file, GoodWorkspace(file)
  PROVE  GoodWorkspace(load_workspace(file))
  BY DefaultGood DEF load_workspace

\* The workspace ServerState::new restores.
Restored(start_empty, file) == IF start_empty THEN empty_workspace ELSE load_workspace(file)

LEMMA RestoredGood ==
  ASSUME NEW file, GoodWorkspace(file), NEW start_empty \in BOOLEAN
  PROVE  GoodWorkspace(Restored(start_empty, file))
  BY EmptyGood, LoadGood DEF Restored

\* Only the empty workspace has no tabs, and it has nothing collapsed.
LEMMA OnlyEmpty ==
  ASSUME NEW file, NEW start_empty \in BOOLEAN, DOMAIN Restored(start_empty, file).tabs = {}
  PROVE  Restored(start_empty, file).collapsed = {}
  <1>1. start_empty
    BY DefaultGood DEF Restored, load_workspace
  <1> QED  BY <1>1 DEF Restored, empty_workspace

\* What a failed start leaves behind: it is marked as torn.
LEMMA AbandonedGood ==
  ASSUME NEW file, GoodWorkspace(file), NEW left \in Abandoned(file)
  PROVE  GoodWorkspace(left)
  <1> DEFINE w == load_workspace(file)
  <1>1. GoodWorkspace(w)  BY LoadGood
  <1>2. PICK n : left = [w EXCEPT !.tabs = first_tabs(w.tabs, n), !.torn = TRUE]
    BY DEF Abandoned
  <1> DEFINE ts == first_tabs(w.tabs, n)
  <1>3. left.tabs = ts /\ left.torn = TRUE /\ left.collapsed = w.collapsed
    BY <1>1, <1>2 DEF GoodWorkspace
  <1> HIDE DEF w
  <1>4. /\ DOMAIN ts \subseteq DOMAIN w.tabs
        /\ \A t \in DOMAIN ts : ts[t] = w.tabs[t]
        /\ ts = [t \in DOMAIN ts |-> ts[t]]
    BY DEF first_tabs
  <1> HIDE DEF ts
  <1>5. TabTable(ts)  BY <1>1, <1>4 DEF GoodWorkspace, TabTable
  <1>6. ASSUME NEW t \in DOMAIN ts, NEW u \in DOMAIN ts, ts[t].index = ts[u].index
        PROVE  t = u
    <2>1. t \in DOMAIN w.tabs /\ u \in DOMAIN w.tabs /\ w.tabs[t].index = w.tabs[u].index
      BY <1>4, <1>6
    <2> QED  BY <1>1, <2>1 DEF GoodWorkspace
  <1>7. w.collapsed \subseteq 1..MaxId  BY <1>1 DEF GoodWorkspace
  <1> QED  BY <1>3, <1>5, <1>6, <1>7 DEF GoodWorkspace

\* What a server starts from.
LEMMA RestartFrom ==
  ASSUME TreeInv, Restart
  PROVE  \E start_empty \in BOOLEAN :
           /\ GoodWorkspace(saved')
           /\ Become(Started(start_empty, saved', journal.epoch + 1))
  <1>1. PICK file \in {saved, saved_workspace} :
          \/ /\ saved' \in {file} \cup Abandoned(file)
             /\ Become(Started(FALSE, saved', journal.epoch + 1))
          \/ /\ saved' = file
             /\ Become(Started(TRUE, saved', journal.epoch + 1))
    BY DEF Restart
  <1>2. GoodWorkspace(file)  BY SavedGood DEF TreeInv
  <1>3. GoodWorkspace(saved')  BY <1>1, <1>2, AbandonedGood
  <1> QED  BY <1>1, <1>3

\* A server that starts from a good file serves it.
LEMMA StartedTree ==
  ASSUME NEW file, GoodWorkspace(file), NEW start_empty \in BOOLEAN, NEW e,
         NEW s, s = Started(start_empty, file, e)
  PROVE  /\ TabTable(s.tabs) /\ s.collapsed \subseteq 1..MaxId /\ s.torn \in BOOLEAN
         /\ \A t, u \in DOMAIN s.tabs : s.tabs[t].index = s.tabs[u].index => t = u
         /\ s.active \in DOMAIN s.tabs \cup {NoTab}
         /\ s.next_id \in 1..(MaxId + 1)
         /\ \A t \in DOMAIN s.tabs : t < s.next_id
         /\ ~s.torn => /\ SoundTree(s.tabs, s.collapsed)
                       /\ \A c \in s.collapsed : c < s.next_id
  <1> DEFINE w == Restored(start_empty, file)
             ids == DOMAIN w.tabs
  <1>1. /\ s.tabs = w.tabs /\ s.collapsed = w.collapsed /\ s.torn = w.torn
        /\ s.active = (IF w.active \in ids THEN w.active
                       ELSE IF ids = {} THEN NoTab ELSE FirstOf(w.tabs, ids))
        /\ s.next_id = Max(ids \cup {0}) + 1
    BY DEF Started, Restored
  <1>2. GoodWorkspace(w)  BY RestoredGood
  <1> HIDE DEF w
  <1>3. /\ TabTable(w.tabs) /\ w.collapsed \subseteq 1..MaxId /\ w.torn \in BOOLEAN
        /\ \A t, u \in ids : w.tabs[t].index = w.tabs[u].index => t = u
        /\ (w.torn \/ SoundTree(w.tabs, w.collapsed))
    BY <1>2 DEF GoodWorkspace
  <1>4. s.active \in ids \cup {NoTab}
    <2>1. ids # {} => FirstOf(w.tabs, ids) \in ids  BY <1>3, FirstIn
    <2> QED  BY <1>1, <2>1
  <1>5. ids \subseteq 1..MaxId /\ MaxId \in Nat
    BY <1>3, WorkspaceAssumption DEF TabTable
  <1> DEFINE top == ids \cup {0}
  <1>6. Max(top) \in top /\ \A t \in top : Max(top) >= t
    <2>1. top \subseteq 0..MaxId /\ top # {}  BY <1>5
    <2> HIDE DEF top
    <2>2. \E x \in top : \A y \in top : x >= y  BY <1>5, <2>1, Greatest
    <2> QED  BY <2>2 DEF Max
  <1>7. s.next_id \in 1..(MaxId + 1) /\ \A t \in ids : t < s.next_id
    <2> DEFINE m == Max(top)
    <2>1. s.next_id = m + 1 /\ m \in top /\ \A t \in top : m >= t
      BY <1>1, <1>6
    <2> HIDE DEF m
    <2>2. m \in Int /\ m >= 0 /\ m <= MaxId /\ \A t \in ids : t \in Int /\ m >= t
      BY <1>5, <2>1
    <2> QED  BY <1>5, <2>1, <2>2
  <1> HIDE DEF top
  <1>8. ASSUME ~s.torn
        PROVE  SoundTree(s.tabs, s.collapsed) /\ \A c \in s.collapsed : c < s.next_id
    <2>1. SoundTree(w.tabs, w.collapsed)  BY <1>1, <1>3, <1>8
    <2>2. \A c \in w.collapsed : c \in Int /\ (c \in ids \/ \A t \in ids : c < t)
      BY <1>3, <1>5, <2>1 DEF SoundTree
    <2>3. ids = {} => w.collapsed = {}
      BY <1>8, <1>1, OnlyEmpty DEF w
    <2>4. ASSUME NEW c \in w.collapsed PROVE c < s.next_id
      <3>1. PICK t \in ids : c \in ids \/ c < t  BY <2>2, <2>3, <2>4
      <3>2. t \in Int /\ t < s.next_id /\ s.next_id \in Int /\ c \in Int
        BY <1>5, <1>7, <2>2
      <3> QED  BY <1>7, <3>1, <3>2
    <2> QED  BY <1>1, <2>1, <2>4
  <1>9. DOMAIN s.tabs = ids /\ s.tabs = w.tabs /\ s.collapsed = w.collapsed /\ s.torn = w.torn
    BY <1>1
  <1> HIDE DEF ids, w
  <1> QED  BY <1>3, <1>4, <1>7, <1>8, <1>9

LEMMA RestartTree ==
  ASSUME TreeInv, Restart
  PROVE  TreeInv'
  <1>1. PICK start_empty \in BOOLEAN :
          /\ GoodWorkspace(saved')
          /\ Become(Started(start_empty, saved', journal.epoch + 1))
    BY RestartFrom
  <1> DEFINE s == Started(start_empty, saved', journal.epoch + 1)
  <1>2. /\ tabs' = s.tabs /\ collapsed' = s.collapsed /\ active' = s.active
        /\ next_id' = s.next_id /\ torn' = s.torn
    BY <1>1 DEF Become
  <1> HIDE DEF s
  <1>3. /\ TabTable(s.tabs) /\ s.collapsed \subseteq 1..MaxId /\ s.torn \in BOOLEAN
        /\ \A t, u \in DOMAIN s.tabs : s.tabs[t].index = s.tabs[u].index => t = u
        /\ s.active \in DOMAIN s.tabs \cup {NoTab}
        /\ s.next_id \in 1..(MaxId + 1)
        /\ \A t \in DOMAIN s.tabs : t < s.next_id
        /\ ~s.torn => /\ SoundTree(s.tabs, s.collapsed)
                      /\ \A c \in s.collapsed : c < s.next_id
    <2>1. s = Started(start_empty, saved', journal.epoch + 1)  BY DEF s
    <2> QED  BY <1>1, <2>1, StartedTree
  <1>4. GoodWorkspace(saved)'
    BY <1>1 DEF GoodWorkspace, TabTable, SoundTree, parents_exist, Forest
  <1>5. TabTable(tabs)'  BY <1>2, <1>3 DEF TabTable
  <1>6. /\ collapsed' \subseteq 1..MaxId /\ torn' \in BOOLEAN /\ next_id' \in 1..(MaxId + 1)
        /\ \A t, u \in Ids' : tabs'[t].index = tabs'[u].index => t = u
        /\ active' \in Ids' \cup {NoTab}
        /\ \A t \in Ids' : t < next_id'
    BY <1>2, <1>3 DEF Ids
  <1>7. ASSUME ~torn'
        PROVE  /\ Forest(tabs)'
               /\ \A t \in Ids' : tabs'[t].parent \in Ids' \cup {NoTab} /\ tabs'[t].parent # t
               /\ \A c \in collapsed' : c < next_id'
               /\ \A c \in collapsed' \ Ids' : \A t \in Ids' : c < t
    BY <1>2, <1>3, <1>7 DEF SoundTree, parents_exist, Forest, Ids
  <1> QED  BY <1>4, <1>5, <1>6, <1>7, TreePartsNext

LEMMA InitTree == WorkspaceInit => TreeInv
  <1> SUFFICES ASSUME WorkspaceInit PROVE TreeInv  OBVIOUS
  <1>1. PICK start_empty \in BOOLEAN :
          LET s == Started(start_empty, default_workspace, 1)
          IN  /\ saved = default_workspace
              /\ tabs = s.tabs /\ collapsed = s.collapsed /\ active = s.active
              /\ next_id = s.next_id /\ torn = s.torn
    BY DEF WorkspaceInit
  <1> DEFINE s == Started(start_empty, default_workspace, 1)
  <1> HIDE DEF s
  <1>2. /\ TabTable(s.tabs) /\ s.collapsed \subseteq 1..MaxId /\ s.torn \in BOOLEAN
        /\ \A t, u \in DOMAIN s.tabs : s.tabs[t].index = s.tabs[u].index => t = u
        /\ s.active \in DOMAIN s.tabs \cup {NoTab}
        /\ s.next_id \in 1..(MaxId + 1)
        /\ \A t \in DOMAIN s.tabs : t < s.next_id
        /\ ~s.torn => /\ SoundTree(s.tabs, s.collapsed)
                      /\ \A c \in s.collapsed : c < s.next_id
    <2>1. s = Started(start_empty, default_workspace, 1)  BY DEF s
    <2> QED  BY <2>1, StartedTree, DefaultGood
  <1>3. /\ saved = default_workspace
        /\ tabs = s.tabs /\ collapsed = s.collapsed /\ active = s.active
        /\ next_id = s.next_id /\ torn = s.torn
    BY <1>1 DEF s
  <1>4. ~torn => /\ Forest(tabs)
                 /\ \A t \in Ids : tabs[t].parent \in Ids \cup {NoTab} /\ tabs[t].parent # t
                 /\ \A c \in collapsed : c < next_id
                 /\ \A c \in collapsed \ Ids : \A t \in Ids : c < t
    BY <1>2, <1>3 DEF SoundTree, parents_exist, Ids
  <1> QED  BY <1>2, <1>3, <1>4, DefaultGood, TreeParts DEF Ids

LEMMA NextTree == TreeInv /\ [MirrorNext]_mirror_vars => TreeInv'
  <1> SUFFICES ASSUME TreeInv, [MirrorNext]_mirror_vars PROVE TreeInv'  OBVIOUS
  <1>1. WorkspaceNext \/ UNCHANGED workspace
    BY DEF MirrorNext, Connect, poll_deltas, mirror_vars, workspace
  <1>2. CASE UNCHANGED workspace  BY <1>2, OtherTree
  <1>3. CASE WorkspaceNext
    <2>1. CASE \E p \in Ids \cup {NoTab}, select \in BOOLEAN, text \in Titles :
                 create_tab(p, select, text)
      BY <2>1, CreateTree, WorkspaceAssumption
    <2>2. CASE create_tab_fails  BY <2>2, OtherTree
    <2>3. CASE \E id \in Ids : close_tab(id) \/ select_tab(id) \/ toggle_tab_collapsed(id)
      BY <2>3, CloseTree, OtherTree
    <2>4. CASE \E child \in Ids, p \in Ids \cup {NoTab} : set_tab_parent(child, p)
      BY <2>4, MoveTree
    <2>5. CASE \E id \in Ids, text \in Texts : set_tab_text(id, text)
      BY <2>5, OtherTree
    <2>6. CASE persist_workspace  BY <2>6, PersistTree
    <2>7. CASE kill_server  BY <2>7, KillTree
    <2>8. CASE Restart  BY <2>8, RestartTree
    <2> QED  BY <1>3, <2>1, <2>2, <2>3, <2>4, <2>5, <2>6, <2>7, <2>8 DEF WorkspaceNext
  <1> QED  BY <1>1, <1>2, <1>3

\* For any number of tabs, any limits and any journal: nothing but its size
\* keeps a server from serving its workspace, whatever was closed, moved,
\* killed, saved and restored before, unless a start has failed to restore it
\* and saved what it had; then indices, ids and the active tab are in order.
THEOREM ServesBootstrap == MirrorSpec => []BootstrapServes
  <1>1. MirrorInit => TreeInv  BY InitTree DEF MirrorInit
  <1>2. TreeInv => BootstrapServes  BY DEF TreeInv
  <1> QED  BY <1>1, <1>2, NextTree, PTL DEF MirrorSpec

-----------------------------------------------------------------------------
(* The cycle check is exact.                                               *)

\* would_create_cycle refuses a move exactly if the move would close a loop,
\* in every workspace that no failed start has torn.
CycleCheckExact ==
  ~torn => \A child, parent \in Ids :
             would_create_cycle(child, parent) <=> ~Forest(Moved(child, parent))

\* A walk that never reaches the root meets some tab twice: it goes round.
LEMMA WalkReachesRoot ==
  ASSUME TreeInv, ~torn, NEW parent \in Ids, NEW f, TabWalk(f, parent)
  PROVE  \E k \in 0..Cardinality(Ids) : f[k] = NoTab
  <1> DEFINE n == Cardinality(Ids)
  <1> SUFFICES ASSUME \A k \in 0..n : f[k] # NoTab PROVE FALSE  OBVIOUS
  <1>1. n \in Nat /\ IsFiniteSet(Ids)  BY TabsFinite
  <1>2. \A t \in Ids : tabs[t].parent \in Ids \cup {NoTab}  BY SoundFacts
  <1>3. /\ f[0] = parent
        /\ \A k \in 1..n : f[k] = IF f[k-1] \in Ids THEN tabs[f[k-1]].parent ELSE NoTab
    BY DEF TabWalk
  <1> HIDE DEF n
  <1>4. ASSUME NEW k \in 0..n PROVE f[k] \in Ids
    <2>1. CASE k = 0  BY <1>3, <2>1
    <2>2. CASE k # 0
      <3>1. k \in 1..n  BY <1>1, <2>2
      <3> QED  BY <1>2, <1>3, <1>4, <3>1
    <2> QED  BY <2>1, <2>2
  <1> DEFINE S == {f[k] : k \in 0..n}
             g == [k \in 0..n |-> f[k]]
  <1>5. S \subseteq Ids /\ g \in Surjection(0..n, S)
    BY <1>4 DEF Surjection
  <1>6. IsFiniteSet(0..n) /\ Cardinality(0..n) = n + 1
    <2>1. 0 \in Int /\ n \in Int  BY <1>1
    <2>2. IsFiniteSet(0..n) /\ Cardinality(0..n) = IF 0 > n THEN 0 ELSE n - 0 + 1
      BY <2>1, FS_Interval
    <2> QED  BY <1>1, <2>2
  <1> HIDE DEF S
  <1>7. Cardinality(S) <= n /\ Cardinality(S) \in Nat
    BY <1>1, <1>5, FS_Subset, FS_CardinalityType DEF n
  <1>8. g \notin Injection(0..n, S)
    <2>1. Cardinality(S) = Cardinality(0..n) <=> g \in Injection(0..n, S)
      <3> HIDE DEF g
      <3> QED  BY <1>5, <1>6, FS_Surjection
    <2>2. Cardinality(S) # n + 1  BY <1>1, <1>7
    <2> QED  BY <1>6, <2>1, <2>2
  <1>9. \E i, j \in 0..n : i # j /\ f[i] = f[j]
    <2> SUFFICES ASSUME \A i, j \in 0..n : f[i] = f[j] => i = j PROVE FALSE  OBVIOUS
    <2>1. g \in [0..n -> S]  BY <1>5 DEF Surjection
    <2>2. \A i \in 0..n : g[i] = f[i]  OBVIOUS
    <2> HIDE DEF g
    <2>3. \A i, j \in 0..n : g[i] = g[j] => i = j  BY <2>2
    <2> QED  BY <1>8, <2>1, <2>3 DEF Injection, IsInjective
  <1>10. \E i, j \in 0..n : i < j /\ f[i] = f[j]
    <2>1. PICK i, j \in 0..n : i # j /\ f[i] = f[j]  BY <1>9
    <2>2. i < j \/ j < i  BY <1>1, <2>1
    <2> QED  BY <2>1, <2>2
  <1>11. PICK i, j \in 0..n : i < j /\ f[i] = f[j]  BY <1>10
  <1> DEFINE L == {f[k] : k \in i..(j-1)}
  <1>12. \A k \in i..(j-1) : k \in 0..n /\ k + 1 \in 1..n /\ (k + 1) - 1 = k
    BY <1>1, <1>11
  <1>13. L \in SUBSET Ids /\ f[i] \in L
    <2>1. i \in i..(j-1)  BY <1>1, <1>11
    <2> QED  BY <2>1, <1>4, <1>12
  <1>14. ASSUME NEW t \in L PROVE tabs[t].parent \in L
    <2>1. PICK k \in i..(j-1) : t = f[k]  BY <1>14
    <2>2. f[k+1] = tabs[t].parent
      <3>1. f[k] \in Ids /\ f[k+1] = IF f[(k+1)-1] \in Ids THEN tabs[f[(k+1)-1]].parent ELSE NoTab
        BY <1>3, <1>4, <1>12
      <3>2. (k + 1) - 1 = k  BY <1>12
      <3> QED  BY <2>1, <3>1, <3>2
    <2>3. CASE k + 1 = j  BY <1>11, <1>13, <2>2, <2>3
    <2>4. CASE k + 1 # j
      <3>1. k + 1 \in i..(j-1)  BY <1>1, <1>11, <2>4
      <3> QED  BY <2>2, <3>1
    <2> QED  BY <2>3, <2>4
  <1>15. Forest(tabs)  BY SoundFacts
  <1> HIDE DEF L
  <1> QED  BY <1>13, <1>14, <1>15 DEF Forest, Ids

\* The tabs from the new parent up to the moved one make a loop.
LEMMA MetLoops ==
  ASSUME TreeInv, NEW child \in Ids, NEW parent \in Ids, NEW f, TabWalk(f, parent),
         NEW m \in 0..Cardinality(Ids), f[m] = child
  PROVE  ~Forest(Moved(child, parent))
  <1> DEFINE n == Cardinality(Ids)
             new == Moved(child, parent)
             Met == {k \in 0..n : f[k] = child}
  <1>1. n \in Nat  BY TabsFinite
  <1>2. NoTab \notin Ids  BY TreeFacts
  <1>3. /\ f[0] = parent
        /\ \A k \in 1..n : f[k] = IF f[k-1] \in Ids THEN tabs[f[k-1]].parent ELSE NoTab
    BY DEF TabWalk
  <1>4. /\ DOMAIN new = Ids
        /\ \A t \in Ids : new[t].parent = IF t = child THEN parent ELSE tabs[t].parent
    BY MovedTabs
  <1>5. m \in Met  OBVIOUS
  <1> HIDE DEF n, new
  <1>6. PICK q \in Met : \A k \in Met : q =< k
    <2>1. Met \subseteq Nat /\ Met # {}  BY <1>1, <1>5
    <2> HIDE DEF Met
    <2> QED  BY <2>1, Least
  <1>7. q \in 0..n /\ f[q] = child /\ \A k \in 0..(q-1) : f[k] # child
    BY <1>1, <1>6
  <1> HIDE DEF Met
  <1>8. \A k \in 0..q : f[k] \in Ids
    <2> SUFFICES ASSUME NEW k \in 0..q, f[k] \notin Ids PROVE FALSE  OBVIOUS
    <2> DEFINE Out == {i \in 0..q : f[i] \notin Ids}
    <2>1. Out \subseteq 0..q /\ Out # {} /\ q \in Nat  BY <1>1, <1>7
    <2>2. PICK g \in Out : \A i \in Out : g >= i
      <3> HIDE DEF Out
      <3> QED  BY <2>1, Greatest
    <2>3. g \in 0..q /\ f[g] \notin Ids /\ g # q  BY <1>7, <2>2
    <2>4. g + 1 \in 0..q /\ g + 1 \in 1..n /\ (g + 1) - 1 = g /\ ~(g >= g + 1)
      BY <1>1, <1>7, <2>3
    <2>5. f[g+1] = NoTab
      <3>1. f[g+1] = IF f[(g+1)-1] \in Ids THEN tabs[f[(g+1)-1]].parent ELSE NoTab
        BY <1>3, <2>4
      <3> QED  BY <2>3, <2>4, <3>1
    <2>6. g + 1 \in Out  BY <1>2, <2>4, <2>5
    <2> QED  BY <2>2, <2>4, <2>6
  <1> DEFINE L == {f[k] : k \in 0..q}
  <1>9. L \in SUBSET Ids /\ parent \in L
    <2>1. 0 \in 0..q  BY <1>1, <1>7
    <2> QED  BY <2>1, <1>3, <1>8
  <1>10. ASSUME NEW t \in L PROVE new[t].parent \in L
    <2>1. PICK k \in 0..q : t = f[k]  BY <1>10
    <2>2. CASE t = child  BY <1>4, <1>9, <2>2
    <2>3. CASE t # child
      <3>1. k # q  BY <1>7, <2>1, <2>3
      <3>2. k + 1 \in 0..q /\ k + 1 \in 1..n /\ (k + 1) - 1 = k  BY <1>1, <1>7, <3>1
      <3>3. f[k+1] = IF f[(k+1)-1] \in Ids THEN tabs[f[(k+1)-1]].parent ELSE NoTab
        BY <1>3, <3>2
      <3>4. f[k+1] = tabs[t].parent  BY <1>8, <2>1, <3>2, <3>3
      <3>5. new[t].parent = tabs[t].parent  BY <1>4, <1>9, <2>3
      <3> QED  BY <3>2, <3>4, <3>5
    <2> QED  BY <2>2, <2>3
  <1> HIDE DEF L
  <1> QED  BY <1>4, <1>9, <1>10 DEF Forest, new

\* The bound of one step per tab never refuses a move that is harmless, and no
\* move that closes a loop gets past it.
THEOREM CycleCheckIsExact == MirrorSpec => []CycleCheckExact
  <1>1. TreeInv => CycleCheckExact
    <2> SUFFICES ASSUME TreeInv, ~torn, NEW child \in Ids, NEW parent \in Ids
                 PROVE  would_create_cycle(child, parent) <=> ~Forest(Moved(child, parent))
      BY DEF CycleCheckExact
    <2>1. PICK f : /\ TabWalk(f, parent)
                   /\ would_create_cycle(child, parent)
                        <=> \/ child = parent
                            \/ \E k \in 0..Cardinality(Ids) : f[k] = child
                            \/ \A k \in 0..Cardinality(Ids) : f[k] # NoTab
      BY CycleWalk
    <2>2. ASSUME would_create_cycle(child, parent) PROVE ~Forest(Moved(child, parent))
      <3>1. \E k \in 0..Cardinality(Ids) : f[k] = NoTab  BY <2>1, WalkReachesRoot
      <3>2. CASE child = parent
        <4>1. f[0] = child /\ 0 \in 0..Cardinality(Ids)
          BY <2>1, <3>2, TabsFinite DEF TabWalk
        <4> QED  BY <2>1, <4>1, MetLoops
      <3>3. CASE \E k \in 0..Cardinality(Ids) : f[k] = child
        BY <2>1, <3>3, MetLoops
      <3> QED  BY <2>1, <2>2, <3>1, <3>2, <3>3
    <2>3. ASSUME ~would_create_cycle(child, parent) PROVE Forest(Moved(child, parent))
      BY <2>3, MoveForest
    <2> QED  BY <2>2, <2>3
  <1>2. MirrorInit => TreeInv  BY InitTree DEF MirrorInit
  <1> QED  BY <1>1, <1>2, NextTree, PTL DEF MirrorSpec

-----------------------------------------------------------------------------
(* What the journal tells a client.                                        *)

\* d retains what j did, up to its capacity, and has logged events about B.
Logged(j, d, B) ==
  /\ Numbered(d) /\ d.epoch = j.epoch /\ d.sequence > j.sequence
  /\ \A m \in Nat : m <= j.sequence /\ NoGap(d, m)
       => NoGap(j, m) /\ AboutAfter(d, m) = AboutAfter(j, m) \cup B

LEMMA JournalCapacity == capacity \in Nat /\ capacity >= 1
  BY CapacityAssumption DEF capacity

LEMMA SeqWider ==
  ASSUME NEW T, NEW s \in Seq(T), NEW U, T \subseteq U
  PROVE  s \in Seq(U)
  <1>1. s \in [1..Len(s) -> T] /\ Len(s) \in Nat  BY LenProperties
  <1>2. s \in [1..Len(s) -> U]  BY <1>1
  <1> QED  BY <1>1, <1>2, SeqDef

\* One commit logs one event; what the full deque drops is the oldest.
LEMMA CommitLogged ==
  ASSUME NEW j, Numbered(j), NEW about
  PROVE  Logged(j, commit(j, about), {about})
  <1> DEFINE s == j.events
             n == j.sequence
             x == Event(j.epoch, n + 1, about)
             kept == IF Len(s) = capacity THEN Tail(s) ELSE s
             d == IF Len(s) = capacity THEN 1 ELSE 0
             r == Append(kept, x)
             c == commit(j, about)
  <1>1. c.epoch = j.epoch /\ c.sequence = n + 1 /\ c.events = r
    BY DEF commit
  <1>2. x.sequence = n + 1 /\ x.about = about  BY DEF Event
  <1>3. PICK T : s \in Seq(T)  BY DEF Numbered
  <1>4. /\ j.epoch \in Nat /\ n \in Nat /\ Len(s) \in Nat /\ Len(s) <= n /\ Len(s) <= capacity
        /\ \A i \in 1..Len(s) : s[i].sequence = (n - Len(s)) + i
    BY <1>3 DEF Numbered
  <1> HIDE DEF x, c
  <1> DEFINE U == T \cup {x}
  <1>5. s \in Seq(U) /\ x \in U  BY <1>3, SeqWider
  <1> HIDE DEF U
  <1>6. /\ r \in Seq(U) /\ Len(r) = Len(s) + 1 - d /\ Len(r) <= capacity
        /\ d \in {0, 1} /\ d <= Len(s)
        /\ \A i \in 1..(Len(s) - d) : r[i] = s[i + d]
        /\ r[Len(s) + 1 - d] = x
    <2>1. CASE Len(s) = capacity
      <3>1. s # <<>> /\ Len(s) >= 1  BY <2>1, <1>4, JournalCapacity
      <3>2. /\ Tail(s) \in Seq(U) /\ Len(Tail(s)) = Len(s) - 1
            /\ \A i \in 1..(Len(s) - 1) : Tail(s)[i] = s[i + 1]
        BY <1>5, <3>1
      <3> HIDE DEF s
      <3> QED  BY <2>1, <3>1, <3>2, <1>4, <1>5
    <2>2. CASE Len(s) # capacity
      <3> HIDE DEF s
      <3> QED  BY <2>2, <1>4, <1>5, JournalCapacity
    <2> QED  BY <2>1, <2>2
  <1> HIDE DEF r, d, s
  <1>7. Len(r) \in Nat /\ Len(r) >= 1 /\ (n + 1) - Len(r) = (n - Len(s)) + d
    BY <1>4, <1>6
  <1>8. ASSUME NEW i \in 1..Len(r), i # Len(r)
        PROVE  i + d \in 1..Len(s) /\ r[i] = s[i + d]
    BY <1>4, <1>6, <1>8
  <1>9. r[Len(r)] = x  BY <1>6
  <1>10. \A i \in 1..Len(r) : r[i].sequence = ((n + 1) - Len(r)) + i
    <2> SUFFICES ASSUME NEW i \in 1..Len(r)
                 PROVE  r[i].sequence = ((n + 1) - Len(r)) + i
      OBVIOUS
    <2>1. CASE i = Len(r)  BY <2>1, <1>2, <1>4, <1>7, <1>9
    <2>2. CASE i # Len(r)
      <3>1. i + d \in 1..Len(s) /\ r[i] = s[i + d]  BY <2>2, <1>8
      <3>2. s[i + d].sequence = (n - Len(s)) + (i + d)  BY <3>1, <1>4
      <3> QED  BY <3>1, <3>2, <1>4, <1>6, <1>7
    <2> QED  BY <2>1, <2>2
  <1>11. Numbered(c)
    <2>1. \E V : c.events \in Seq(V)  BY <1>1, <1>6
    <2>2. c.sequence \in Nat /\ Len(r) <= c.sequence  BY <1>1, <1>4, <1>6
    <2>3. /\ c.epoch \in Nat /\ Len(c.events) <= c.sequence /\ Len(c.events) <= capacity
          /\ c.sequence > 0 => Len(c.events) > 0
      BY <2>2, <1>1, <1>4, <1>6, <1>7
    <2>4. \A i \in 1..Len(c.events) : c.events[i].sequence = (c.sequence - Len(c.events)) + i
      BY <1>1, <1>10, Zenon
    <2> QED  BY <2>1, <2>2, <2>3, <2>4, Zenon DEF Numbered
  <1>12. ASSUME NEW m \in Nat, m <= n, NoGap(c, m)
         PROVE  NoGap(j, m) /\ AboutAfter(c, m) = AboutAfter(j, m) \cup {about}
    <2>1. m >= (n - Len(s)) + d  BY <1>12, <1>1, <1>7 DEF NoGap
    <2>2. NoGap(j, m)
      <3>1. m >= n - Len(s)  BY <2>1, <1>4, <1>6
      <3> QED  BY <3>1 DEF NoGap, s
    <2>3. AboutAfter(c, m) = {r[i].about : i \in {k \in 1..Len(r) : r[k].sequence > m}}
      BY <1>1 DEF AboutAfter
    <2>4. AboutAfter(j, m) = {s[i].about : i \in {k \in 1..Len(s) : s[k].sequence > m}}
      BY DEF AboutAfter, s
    <2>5. ASSUME NEW y \in AboutAfter(c, m) PROVE y \in AboutAfter(j, m) \cup {about}
      <3>1. PICK i \in 1..Len(r) : r[i].sequence > m /\ y = r[i].about
        BY <2>3, <2>5
      <3>2. CASE i = Len(r)  BY <3>1, <3>2, <1>9, <1>2
      <3>3. CASE i # Len(r)
        BY <3>1, <3>3, <1>8, <2>4
      <3> QED  BY <3>2, <3>3
    <2>6. about \in AboutAfter(c, m)
      <3>1. Len(r) \in 1..Len(r) /\ r[Len(r)].sequence > m /\ r[Len(r)].about = about
        BY <1>2, <1>4, <1>7, <1>9, <1>12
      <3> QED  BY <2>3, <3>1
    <2>7. ASSUME NEW y \in AboutAfter(j, m) PROVE y \in AboutAfter(c, m)
      <3>1. PICK k \in 1..Len(s) : s[k].sequence > m /\ y = s[k].about
        BY <2>4, <2>7
      <3>2. s[k].sequence = (n - Len(s)) + k  BY <1>4
      <3>3. k > d  BY <2>1, <3>1, <3>2, <1>4, <1>6
      <3>4. k - d \in 1..Len(r) /\ k - d # Len(r) /\ (k - d) + d = k
        BY <3>3, <1>4, <1>6
      <3>5. r[k - d] = s[k]  BY <3>4, <1>8
      <3> QED  BY <2>3, <3>1, <3>4, <3>5
    <2> QED  BY <2>2, <2>5, <2>6, <2>7
  <1> QED  BY <1>1, <1>4, <1>11, <1>12 DEF Logged, c

LEMMA LoggedTwice ==
  ASSUME NEW j, Numbered(j), NEW c, NEW d, NEW B, NEW D, Logged(j, c, B), Logged(c, d, D)
  PROVE  Logged(j, d, B \cup D)
  <1>1. j.sequence \in Nat /\ c.sequence \in Nat /\ d.sequence \in Nat
    BY DEF Numbered, Logged
  <1>2. Numbered(d) /\ d.epoch = j.epoch /\ d.sequence > j.sequence
    BY <1>1 DEF Logged
  <1>3. ASSUME NEW m \in Nat, m <= j.sequence, NoGap(d, m)
        PROVE  NoGap(j, m) /\ AboutAfter(d, m) = AboutAfter(j, m) \cup (B \cup D)
    <2>1. m <= c.sequence  BY <1>1, <1>3 DEF Logged
    <2>2. NoGap(c, m) /\ AboutAfter(d, m) = AboutAfter(c, m) \cup D
      BY <1>3, <2>1 DEF Logged
    <2>3. NoGap(j, m) /\ AboutAfter(c, m) = AboutAfter(j, m) \cup B
      BY <1>3, <2>2 DEF Logged
    <2> QED  BY <2>2, <2>3
  <1> QED  BY <1>2, <1>3 DEF Logged

\* The events a starting server logs about a[1], a[2], ... in an empty journal.
JournalsAbout(e, W) ==
  [epoch : {e}, sequence : Nat, events : Seq([epoch : {e}, sequence : Nat, about : W])]

IsRestore(f, e, a, n, W) ==
  /\ f \in [0..n -> JournalsAbout(e, W)]
  /\ f[0] = with_epoch(e)
  /\ \A k \in 1..n : f[k] = commit(f[k-1], a[k])

LEMMA CommitAbout ==
  ASSUME NEW e, NEW W, NEW j \in JournalsAbout(e, W), NEW about \in W
  PROVE  commit(j, about) \in JournalsAbout(e, W)
  <1> DEFINE E == [epoch : {e}, sequence : Nat, about : W]
             kept == IF Len(j.events) = capacity THEN Tail(j.events) ELSE j.events
             x == Event(j.epoch, j.sequence + 1, about)
  <1>1. j.epoch = e /\ j.sequence \in Nat /\ j.events \in Seq(E)  BY DEF JournalsAbout
  <1>2. x \in E /\ j.sequence + 1 \in Nat  BY <1>1 DEF Event
  <1>3. kept \in Seq(E)
    <2>1. CASE Len(j.events) = capacity
      <3>1. j.events # <<>>  BY <2>1, <1>1, JournalCapacity
      <3>2. Tail(j.events) \in Seq(E)
        <4> HIDE DEF E
        <4> QED  BY <3>1, <1>1
      <3> QED  BY <3>2, <2>1
    <2> QED  BY <2>1, <1>1
  <1> HIDE DEF E, kept, x
  <1>4. Append(kept, x) \in Seq(E)  BY <1>2, <1>3
  <1>5. commit(j, about) = [epoch |-> j.epoch, sequence |-> j.sequence + 1,
                            events |-> Append(kept, x)]
    BY DEF commit, kept, x
  <1> QED  BY <1>1, <1>2, <1>4, <1>5 DEF JournalsAbout, E

LEMMA RestoreExists ==
  ASSUME NEW e, NEW W, NEW a, NEW n \in Nat, \A k \in 1..n : a[k] \in W
  PROVE  \E f : IsRestore(f, e, a, n, W)
  <1> DEFINE V == JournalsAbout(e, W)
             Lives == {m \in Nat : m <= n => \E f : IsRestore(f, e, a, m, W)}
  <1>1. 0 \in Lives
    <2> DEFINE f == [k \in 0..0 |-> with_epoch(e)]
    <2>1. with_epoch(e) \in V  BY DEF JournalsAbout, with_epoch
    <2> HIDE DEF V
    <2>2. f \in [0..0 -> V] /\ f[0] = with_epoch(e)  BY <2>1
    <2>3. IsRestore(f, e, a, 0, W)  BY <2>2 DEF IsRestore, V
    <2> QED  BY <2>3
  <1>2. ASSUME NEW m \in Nat, m \in Lives PROVE m + 1 \in Lives
    <2> SUFFICES ASSUME m + 1 <= n PROVE \E f : IsRestore(f, e, a, m + 1, W)
      OBVIOUS
    <2>0. m <= n /\ m + 1 \in 1..n  OBVIOUS
    <2>1. PICK f : IsRestore(f, e, a, m, W)  BY <1>2, <2>0
    <2>2. /\ f \in [0..m -> V] /\ f[0] = with_epoch(e)
          /\ \A k \in 1..m : f[k] = commit(f[k-1], a[k])
      BY <2>1 DEF IsRestore
    <2> HIDE DEF V
    <2>3. f[m] \in V  BY <2>2
    <2>4. commit(f[m], a[m+1]) \in V  BY <2>0, <2>3, CommitAbout DEF V
    <2> DEFINE last == commit(f[m], a[m+1])
    <2> HIDE DEF last
    <2> DEFINE g == [k \in 0..(m+1) |-> IF k = m + 1 THEN last ELSE f[k]]
    <2>5. g \in [0..(m+1) -> V]  BY <2>2, <2>4 DEF last
    <2>6. \A k \in 0..m : g[k] = f[k]  OBVIOUS
    <2>7. g[m+1] = commit(f[m], a[m+1])  BY DEF last
    <2> HIDE DEF g
    <2>8. g[0] = with_epoch(e)  BY <2>2, <2>6
    <2>9. ASSUME NEW k \in 1..(m+1) PROVE g[k] = commit(g[k-1], a[k])
      <3>1. CASE k = m + 1
        <4>1. k - 1 = m /\ m \in 0..m  BY <3>1
        <4> QED  BY <4>1, <3>1, <2>6, <2>7
      <3>2. CASE k # m + 1
        <4>1. k \in 1..m /\ k \in 0..m /\ k - 1 \in 0..m  BY <3>2
        <4>2. f[k] = commit(f[k-1], a[k])  BY <4>1, <2>2
        <4> QED  BY <4>1, <4>2, <2>6
      <3> QED  BY <3>1, <3>2
    <2>10. IsRestore(g, e, a, m + 1, W)  BY <2>5, <2>8, <2>9 DEF IsRestore, V
    <2> QED  BY <2>10
  <1> HIDE DEF Lives
  <1>3. n \in Lives  BY <1>1, <1>2, AllNat
  <1> QED  BY <1>3 DEF Lives

\* The journal of a server that starts is numbered and of the new epoch.
LEMMA StartedJournal ==
  ASSUME NEW file, GoodWorkspace(file), NEW start_empty \in BOOLEAN, NEW e \in Nat,
         NEW s, s = Started(start_empty, file, e)
  PROVE  Numbered(s.journal) /\ s.journal.epoch = e
  <1> DEFINE w == Restored(start_empty, file)
             ids == DOMAIN w.tabs
             n == Cardinality(ids)
             nth(k) == CHOOSE t \in ids :
                         Cardinality({u \in ids : w.tabs[u].index < w.tabs[t].index}) = k - 1
             restored == CHOOSE f : f = [k \in 0..n |->
                           IF k = 0 THEN with_epoch(e) ELSE commit(f[k-1], nth(k))]
             a == [k \in 1..n |-> nth(k)]
             W == {nth(k) : k \in 1..n}
  <1>1. s.journal = restored[n]
    BY DEF Started, Restored
  <1>2. n \in Nat
    <2>1. ids \subseteq 1..MaxId /\ 1 \in Int /\ MaxId \in Int
      BY RestoredGood, WorkspaceAssumption DEF GoodWorkspace, TabTable
    <2>2. IsFiniteSet(1..MaxId)  BY <2>1, FS_Interval
    <2> QED  BY <2>1, <2>2, FS_Subset, FS_CardinalityType
  <1> HIDE DEF n, nth
  <1>3. \A k \in 1..n : a[k] = nth(k) /\ a[k] \in W  OBVIOUS
  <1> HIDE DEF a, W
  <1>4. restored = [k \in 0..n |->
                      IF k = 0 THEN with_epoch(e) ELSE commit(restored[k-1], nth(k))]
    <2>1. PICK f : IsRestore(f, e, a, n, W)  BY <1>2, <1>3, RestoreExists
    <2>2. /\ f \in [0..n -> JournalsAbout(e, W)] /\ f[0] = with_epoch(e)
          /\ \A k \in 1..n : f[k] = commit(f[k-1], a[k])
      BY <2>1 DEF IsRestore
    <2>3. ASSUME NEW k \in 0..n
          PROVE  f[k] = IF k = 0 THEN with_epoch(e) ELSE commit(f[k-1], nth(k))
      <3>1. k = 0 \/ k \in 1..n  BY <1>2
      <3> QED  BY <2>2, <3>1, <1>3
    <2>4. f = [k \in 0..n |-> IF k = 0 THEN with_epoch(e) ELSE commit(f[k-1], nth(k))]
      BY <2>2, <2>3
    <2> QED  BY <2>4, Zenon DEF restored
  <1> HIDE DEF restored
  <1> DEFINE Lives == {m \in Nat : m <= n => Numbered(restored[m]) /\ restored[m].epoch = e}
  <1>5. 0 \in Lives
    <2>1. restored[0] = with_epoch(e)  BY <1>2, <1>4
    <2>2. /\ with_epoch(e).epoch = e /\ with_epoch(e).sequence = 0
          /\ with_epoch(e).events = <<>>
      BY DEF with_epoch
    <2>3. with_epoch(e).events \in Seq({}) /\ Len(with_epoch(e).events) = 0
      BY <2>2
    <2>4. \E T : with_epoch(e).events \in Seq(T)  BY <2>3
    <2>5. Numbered(with_epoch(e))  BY <2>2, <2>3, <2>4, JournalCapacity DEF Numbered
    <2> QED  BY <2>1, <2>2, <2>5
  <1>6. ASSUME NEW m \in Nat, m \in Lives PROVE m + 1 \in Lives
    <2> SUFFICES ASSUME m + 1 <= n
                 PROVE  Numbered(restored[m+1]) /\ restored[m+1].epoch = e
      OBVIOUS
    <2>1. m <= n /\ m + 1 \in 0..n /\ m + 1 # 0 /\ (m + 1) - 1 = m  BY <1>2
    <2>2. Numbered(restored[m]) /\ restored[m].epoch = e  BY <1>6, <2>1
    <2>3. restored[m+1] = commit(restored[m], nth(m+1))  BY <1>4, <2>1
    <2>4. Logged(restored[m], commit(restored[m], nth(m+1)), {nth(m+1)})
      BY <2>2, CommitLogged
    <2> QED  BY <2>2, <2>3, <2>4 DEF Logged
  <1> HIDE DEF Lives
  <1>7. n \in Lives  BY <1>2, <1>5, <1>6, AllNat
  <1> QED  BY <1>1, <1>2, <1>7 DEF Lives

-----------------------------------------------------------------------------
(* The server moves on, the client does not look.                          *)

\* Outside of B nothing changes, but that the parent of a tab may have been
\* closed; and no id comes back.
ServerStep(B) ==
  /\ Logged(journal, journal', B) /\ killed' = killed
  /\ Closed \subseteq Closed'
  /\ \A t \in (1..MaxId) \ B :
       /\ t \in Ids' <=> t \in Ids
       /\ t \in collapsed' <=> t \in collapsed
       /\ t \in Ids => /\ tabs'[t].index = tabs[t].index
                       /\ tabs'[t].text = tabs[t].text
                       /\ tabs'[t].parent = tabs[t].parent \/ tabs[t].parent \in Closed'

LEMMA FollowServer ==
  ASSUME MirrorInv, TreeInv', UNCHANGED <<mirror, link>>, NEW B, ServerStep(B)
  PROVE  MirrorInv'
  <1> DEFINE m == mirror.position.sequence
  <1>1. /\ Numbered(journal) /\ Numbered(journal') /\ journal'.epoch = journal.epoch
        /\ journal'.sequence > journal.sequence
        /\ journal.sequence \in Nat /\ journal'.sequence \in Nat
    BY DEF MirrorInv, ServerStep, Logged, Numbered
  <1>2. Numbered(journal)' /\ MirrorType'
    BY <1>1 DEF MirrorInv, Numbered, MirrorType, TabTable
  <1>3. ASSUME link = "up"
        PROVE  /\ parents_exist(mirror.tabs)
               /\ mirror.position.epoch <= journal.epoch
               /\ mirror.position.epoch = journal.epoch => m <= journal.sequence
               /\ Follows /\ ~killed => \A t \in 1..MaxId : t \in AboutAfter(journal, m) \/ AgreeOn(t)
    BY <1>3 DEF MirrorInv
  <1>4. m \in Nat  BY DEF MirrorInv, MirrorType
  <1> HIDE DEF m
  <1>5. ASSUME link = "up", ~killed, mirror.position.epoch = journal.epoch, NoGap(journal', m),
               NEW t \in 1..MaxId, t \notin AboutAfter(journal', m)
        PROVE  AgreeOn(t)'
    <2>1. m <= journal.sequence  BY <1>3, <1>5
    <2>2. NoGap(journal, m) /\ AboutAfter(journal', m) = AboutAfter(journal, m) \cup B
      BY <1>4, <1>5, <2>1 DEF ServerStep, Logged
    <2>3. t \notin B /\ t \notin AboutAfter(journal, m)  BY <1>5, <2>2
    <2>4. AgreeOn(t)
      BY <1>3, <1>5, <2>2, <2>3 DEF Follows, m
    <2>5. /\ t \in Ids' <=> t \in Ids
          /\ t \in collapsed' <=> t \in collapsed
          /\ t \in Ids => /\ tabs'[t].index = tabs[t].index
                          /\ tabs'[t].text = tabs[t].text
                          /\ tabs'[t].parent = tabs[t].parent \/ tabs[t].parent \in Closed'
          /\ Closed \subseteq Closed'
      BY <2>3 DEF ServerStep
    <2>6. mirror' = mirror  OBVIOUS
    <2> QED  BY <2>4, <2>5, <2>6 DEF AgreeOn
  <1>6. mirror' = mirror /\ link' = link  OBVIOUS
  <1>7. m' = m  BY <1>6 DEF m
  <1>8. ASSUME link' = "up"
        PROVE  /\ parents_exist(mirror.tabs)'
               /\ mirror'.position.epoch <= journal'.epoch
               /\ mirror'.position.epoch = journal'.epoch => m' <= journal'.sequence
               /\ m' # journal'.sequence \/ mirror'.position.epoch # journal'.epoch
    <2>1. parents_exist(mirror.tabs)'
      BY <1>3, <1>6, <1>8 DEF parents_exist
    <2> QED  BY <2>1, <1>1, <1>3, <1>4, <1>6, <1>7, <1>8
  <1>9. ASSUME link' = "up", Follows', ~killed'
        PROVE  \A t \in 1..MaxId : t \in AboutAfter(journal, m)' \/ AgreeOn(t)'
    <2>1. AboutAfter(journal, m)' = AboutAfter(journal', m)
      BY <1>7 DEF AboutAfter
    <2>2. mirror.position.epoch = journal.epoch /\ NoGap(journal', m) /\ ~killed
      BY <1>9, <1>1, <1>6, <1>7 DEF Follows, NoGap, ServerStep, m
    <2> QED  BY <1>5, <1>6, <1>9, <2>1, <2>2
  <1> QED  BY <1>2, <1>8, <1>9 DEF MirrorInv, Follows, m

\* Nothing was logged.
LEMMA FollowQuiet ==
  ASSUME MirrorInv, TreeInv',
         UNCHANGED <<tabs, collapsed, active, journal, killed, mirror, link>>,
         Closed \subseteq Closed'
  PROVE  MirrorInv'
  <1>1. /\ tabs' = tabs /\ collapsed' = collapsed /\ active' = active /\ journal' = journal
        /\ mirror' = mirror /\ link' = link /\ killed' = killed /\ Ids' = Ids
    BY DEF Ids
  <1>2. Numbered(journal)' /\ MirrorType' /\ (Follows' <=> Follows)
    BY <1>1 DEF MirrorInv, Numbered, MirrorType, TabTable, Follows, NoGap
  <1>3. parents_exist(mirror.tabs)' <=> parents_exist(mirror.tabs)
    BY <1>1 DEF parents_exist
  <1>4. \A t \in 1..MaxId : AgreeOn(t) => AgreeOn(t)'
    BY <1>1 DEF AgreeOn
  <1>5. AboutAfter(journal, mirror.position.sequence)'
          = AboutAfter(journal, mirror.position.sequence)
    BY <1>1 DEF AboutAfter
  <1> QED  BY <1>1, <1>2, <1>3, <1>4, <1>5 DEF MirrorInv

LEMMA CreateFollow ==
  ASSUME MirrorInv, UNCHANGED <<mirror, link>>,
         NEW parent \in Ids \cup {NoTab}, NEW select \in BOOLEAN, NEW text \in Texts,
         create_tab(parent, select, text)
  PROVE  MirrorInv'
  <1> DEFINE id == next_id
             expanded == IF parent \in collapsed THEN commit(journal, parent) ELSE journal
             created == commit(expanded, id)
             B == IF parent \in collapsed THEN {parent, id} ELSE {id}
  <1>1. /\ next_id <= MaxId /\ next_id' = id + 1
        /\ tabs' = [t \in Ids \cup {id} |->
             IF t = id THEN [parent |-> parent, index |-> FreeIndex, text |-> text] ELSE tabs[t]]
        /\ collapsed' = collapsed \ {parent} /\ killed' = killed
        /\ journal' = (IF select THEN commit(created, id) ELSE created)
    BY DEF create_tab
  <1>2. TreeInv /\ Numbered(journal)  BY DEF MirrorInv
  <1>3. TreeInv'  BY <1>2, CreateTree
  <1>4. Logged(journal, created, B)
    <2>1. CASE parent \in collapsed
      <3>1. Logged(journal, expanded, {parent})  BY <1>2, <2>1, CommitLogged
      <3> HIDE DEF expanded
      <3>2. Numbered(expanded)  BY <3>1 DEF Logged
      <3>3. Logged(expanded, created, {id})  BY <3>2, CommitLogged
      <3> HIDE DEF created
      <3>4. Logged(journal, created, {parent} \cup {id})  BY <1>2, <3>1, <3>3, LoggedTwice
      <3>5. B = {parent} \cup {id}  BY <2>1
      <3> QED  BY <3>4, <3>5
    <2>2. CASE parent \notin collapsed
      <3>1. expanded = journal /\ B = {id}  BY <2>2
      <3> HIDE DEF expanded, B
      <3> QED  BY <1>2, <3>1, CommitLogged
    <2> QED  BY <2>1, <2>2
  <1> HIDE DEF created
  <1>5. Logged(journal, journal', B)
    <2>1. CASE ~select  BY <1>1, <1>4, <2>1
    <2>2. CASE select
      <3>1. Numbered(created)  BY <1>4 DEF Logged
      <3>2. Logged(created, journal', {id})  BY <1>1, <2>2, <3>1, CommitLogged
      <3> HIDE DEF B
      <3>3. Logged(journal, journal', B \cup {id})  BY <1>2, <1>4, <3>2, LoggedTwice
      <3>4. B \cup {id} = B  BY DEF B
      <3> QED  BY <3>3, <3>4
    <2> QED  BY <2>1, <2>2
  <1>6. id \in Nat /\ id \notin Ids /\ id \in B  BY <1>2, TreeFacts
  <1> HIDE DEF id, B
  <1>7. /\ Ids' = Ids \cup {id}
        /\ \A t \in Ids : tabs'[t] = tabs[t]
    BY <1>1, <1>6 DEF Ids
  <1>8. Closed \subseteq Closed'
    <2>1. next_id = id /\ next_id' = id + 1  BY <1>1 DEF id
    <2>2. ASSUME NEW t \in Closed PROVE t \in Closed'
      <3>1. t \in 1..(id - 1) /\ t \notin Ids  BY <2>1, <2>2 DEF Closed
      <3>2. t \in 1..((id + 1) - 1) /\ t # id  BY <1>6, <3>1
      <3>3. t \notin Ids'  BY <1>7, <3>1, <3>2
      <3> QED  BY <2>1, <3>2, <3>3 DEF Closed
    <2> QED  BY <2>2
  <1>9. ServerStep(B)
    BY <1>1, <1>5, <1>6, <1>7, <1>8 DEF ServerStep, B
  <1> QED  BY <1>3, <1>9, FollowServer

\* The only step that changes tabs without an event about them.
LEMMA CloseFollow ==
  ASSUME MirrorInv, UNCHANGED <<mirror, link>>, NEW id \in Ids, close_tab(id)
  PROVE  MirrorInv'
  <1>1. /\ tabs' = Promoted(id) /\ collapsed' = collapsed \ {id}
        /\ journal' = commit(journal, id) /\ next_id' = next_id /\ killed' = killed
    BY DEF close_tab
  <1>2. TreeInv /\ Numbered(journal)  BY DEF MirrorInv
  <1>3. TreeInv'  BY <1>2, CloseTree
  <1>4. Logged(journal, journal', {id})  BY <1>1, <1>2, CommitLogged
  <1>5. /\ tabs \in [Ids -> [parent : (1..MaxId) \cup {NoTab}, index : 0..MaxId, text : Texts]]
        /\ id \in 1..(next_id - 1)
    BY <1>2, TreeFacts
  <1>6. /\ Ids' = Ids \ {id}
        /\ \A t \in Ids \ {id} :
             /\ tabs'[t].index = tabs[t].index /\ tabs'[t].text = tabs[t].text
             /\ tabs'[t].parent = IF tabs[t].parent = id THEN tabs[id].parent ELSE tabs[t].parent
    BY <1>1, <1>5 DEF Promoted, Ids
  <1>7. Closed \subseteq Closed' /\ id \in Closed'
    BY <1>1, <1>5, <1>6 DEF Closed
  <1>8. ServerStep({id})
    BY <1>1, <1>4, <1>6, <1>7 DEF ServerStep
  <1> QED  BY <1>3, <1>8, FollowServer

LEMMA OneEventFollow ==
  ASSUME MirrorInv, TreeInv', UNCHANGED <<mirror, link, next_id, killed>>,
         NEW about, journal' = commit(journal, about),
         Ids' = Ids,
         \A t \in Ids : t # about => tabs'[t] = tabs[t],
         \A t : t # about => (t \in collapsed' <=> t \in collapsed)
  PROVE  MirrorInv'
  <1>1. Logged(journal, journal', {about})  BY CommitLogged DEF MirrorInv
  <1>2. Closed \subseteq Closed'  BY DEF Closed
  <1>3. ServerStep({about})  BY <1>1, <1>2 DEF ServerStep
  <1> QED  BY <1>3, FollowServer

LEMMA SmallStepsFollow ==
  ASSUME MirrorInv, UNCHANGED <<mirror, link>>,
         \/ create_tab_fails \/ persist_workspace \/ UNCHANGED workspace
         \/ \E id \in Ids : select_tab(id) \/ toggle_tab_collapsed(id)
         \/ \E child \in Ids, p \in Ids \cup {NoTab} : set_tab_parent(child, p)
         \/ \E id \in Ids, text \in Texts : set_tab_text(id, text)
  PROVE  MirrorInv'
  <1>1. TreeInv  BY DEF MirrorInv
  <1>2. /\ NoTab \notin Ids
        /\ next_id \in Nat /\ \A t \in Ids : t \in 1..(next_id - 1)
        /\ tabs \in [Ids -> [parent : (1..MaxId) \cup {NoTab}, index : 0..MaxId, text : Texts]]
    BY <1>1, TreeFacts
  <1>3. CASE create_tab_fails
    <2>1. /\ next_id' = next_id + 1 /\ TreeInv'
          /\ UNCHANGED <<tabs, collapsed, active, journal, killed>>
      BY <1>1, <1>3, OtherTree DEF create_tab_fails
    <2>2. Ids' = Ids  BY <2>1 DEF Ids
    <2>3. Closed \subseteq Closed'
      <3> SUFFICES ASSUME NEW t \in Closed PROVE t \in Closed'  OBVIOUS
      <3>1. t \in 1..(next_id - 1) /\ t \notin Ids  BY DEF Closed
      <3>2. t \in 1..((next_id + 1) - 1)  BY <1>2, <3>1
      <3> QED  BY <2>1, <2>2, <3>1, <3>2 DEF Closed
    <2> QED  BY <2>1, <2>3, FollowQuiet
  <1>4. CASE UNCHANGED workspace
    <2>1. TreeInv'  BY <1>1, <1>4, OtherTree
    <2>2. UNCHANGED <<tabs, collapsed, active, journal, next_id, killed>>  BY <1>4 DEF workspace
    <2>3. Closed' = Closed  BY <2>2 DEF Closed, Ids
    <2> QED  BY <2>1, <2>2, <2>3, FollowQuiet
  <1>5. CASE persist_workspace
    <2>1. TreeInv'  BY <1>1, <1>5, PersistTree
    <2>2. /\ UNCHANGED <<tabs, collapsed, next_id, killed>>
          /\ journal' = commit(journal, NoTab)
      BY <1>5 DEF persist_workspace
    <2>3. Ids' = Ids  BY <2>2 DEF Ids
    <2> QED  BY <1>2, <2>1, <2>2, <2>3, OneEventFollow
  <1>6. ASSUME NEW id \in Ids, select_tab(id) \/ toggle_tab_collapsed(id)
        PROVE  MirrorInv'
    <2>1. TreeInv'  BY <1>1, <1>6, OtherTree
    <2>2. /\ UNCHANGED <<tabs, next_id, killed>>
          /\ journal' = commit(journal, id)
          /\ \/ collapsed' = collapsed
             \/ collapsed' = (collapsed \ {id}) \cup ({id} \ collapsed)
      BY <1>6 DEF select_tab, toggle_tab_collapsed
    <2>3. Ids' = Ids  BY <2>2 DEF Ids
    <2>4. \A t : t # id => (t \in collapsed' <=> t \in collapsed)
      BY <2>2
    <2> QED  BY <1>2, <2>1, <2>2, <2>3, <2>4, OneEventFollow
  <1>7. ASSUME NEW child \in Ids, NEW p \in Ids \cup {NoTab}, set_tab_parent(child, p)
        PROVE  MirrorInv'
    <2>1. TreeInv'  BY <1>1, <1>7, MoveTree
    <2>2. /\ UNCHANGED <<collapsed, next_id, killed>>
          /\ journal' = commit(journal, child)
          /\ tabs' = [tabs EXCEPT ![child].parent = p]
      BY <1>7 DEF set_tab_parent
    <2>3. Ids' = Ids /\ \A t \in Ids : t # child => tabs'[t] = tabs[t]
      BY <1>2, <2>2 DEF Ids
    <2> QED  BY <1>2, <2>1, <2>2, <2>3, OneEventFollow
  <1>8. ASSUME NEW id \in Ids, NEW text \in Texts, set_tab_text(id, text)
        PROVE  MirrorInv'
    <2>1. TreeInv'  BY <1>1, <1>8, OtherTree
    <2>2. /\ UNCHANGED <<collapsed, next_id, killed>>
          /\ journal' = commit(journal, id)
          /\ tabs' = [tabs EXCEPT ![id].text = text]
      BY <1>8 DEF set_tab_text
    <2>3. Ids' = Ids /\ \A t \in Ids : t # id => tabs'[t] = tabs[t]
      BY <1>2, <2>2 DEF Ids
    <2> QED  BY <2>1, <2>2, <2>3, OneEventFollow
  <1> QED  BY <1>3, <1>4, <1>5, <1>6, <1>7, <1>8

\* Of a killed server nothing is claimed.
LEMMA KillFollow ==
  ASSUME MirrorInv, UNCHANGED <<mirror, link>>, kill_server
  PROVE  MirrorInv'
  <1>1. killed' = TRUE /\ journal' = journal /\ mirror' = mirror /\ link' = link
    BY DEF kill_server
  <1>2. TreeInv'  BY KillTree DEF MirrorInv
  <1>3. Numbered(journal)' /\ MirrorType'
    BY <1>1 DEF MirrorInv, Numbered, MirrorType, TabTable
  <1>4. link = "up" => parents_exist(mirror.tabs)'
    BY <1>1 DEF MirrorInv, parents_exist
  <1> QED  BY <1>1, <1>2, <1>3, <1>4 DEF MirrorInv

\* A restarted server has an epoch no client follows.
LEMMA RestartFollow ==
  ASSUME MirrorInv, UNCHANGED <<mirror, link>>, Restart
  PROVE  MirrorInv'
  <1>1. TreeInv /\ Numbered(journal) /\ MirrorType  BY DEF MirrorInv
  <1>2. TreeInv'  BY <1>1, RestartTree
  <1>3. PICK start_empty \in BOOLEAN :
          /\ GoodWorkspace(saved')
          /\ Become(Started(start_empty, saved', journal.epoch + 1))
    BY <1>1, RestartFrom
  <1> DEFINE s == Started(start_empty, saved', journal.epoch + 1)
  <1>4. journal.epoch \in Nat /\ mirror.position.epoch \in Nat
    BY <1>1 DEF Numbered, MirrorType
  <1>5. journal' = s.journal  BY <1>3 DEF Become
  <1>6. Numbered(s.journal) /\ s.journal.epoch = journal.epoch + 1
    <2>1. s = Started(start_empty, saved', journal.epoch + 1) /\ journal.epoch + 1 \in Nat
      BY <1>4
    <2> HIDE DEF s
    <2> QED  BY <1>3, <2>1, StartedJournal
  <1> HIDE DEF s
  <1>7. Numbered(journal)'  BY <1>5, <1>6 DEF Numbered
  <1>8. mirror' = mirror /\ link' = link  OBVIOUS
  <1>9. MirrorType'  BY <1>1, <1>8 DEF MirrorType, TabTable
  <1>10. ASSUME link' = "up"
         PROVE  /\ parents_exist(mirror.tabs)'
                /\ mirror'.position.epoch <= journal'.epoch
                /\ mirror'.position.epoch # journal'.epoch
    <2>1. parents_exist(mirror.tabs) /\ mirror.position.epoch <= journal.epoch
      BY <1>8, <1>10 DEF MirrorInv
    <2>2. parents_exist(mirror.tabs)'  BY <2>1, <1>8 DEF parents_exist
    <2> QED  BY <2>1, <2>2, <1>4, <1>5, <1>6, <1>8
  <1> QED  BY <1>2, <1>7, <1>9, <1>10 DEF MirrorInv, Follows

-----------------------------------------------------------------------------
(* The client connects and polls.                                          *)

\* A client that takes the server's snapshot agrees with it.
LEMMA SnapshotFits ==
  ASSUME TreeInv, Numbered(journal)
  PROVE  /\ Snapshot = [tabs |-> tabs, collapsed |-> collapsed \cap Ids, active |-> active,
                        position |-> [epoch |-> journal.epoch, sequence |-> journal.sequence]]
         /\ journal.epoch \in Nat /\ journal.sequence \in Nat
         /\ TabTable(tabs) /\ collapsed \cap Ids \subseteq DOMAIN tabs
  BY DEF TreeInv, Ids, Numbered, Snapshot, position

LEMMA FitsInv ==
  ASSUME TreeInv, Numbered(journal), mirror = Snapshot, parents_exist(tabs)
  PROVE  MirrorInv
  <1>1. /\ mirror.tabs = tabs /\ mirror.collapsed = collapsed \cap Ids /\ mirror.active = active
        /\ mirror.position = [epoch |-> journal.epoch, sequence |-> journal.sequence]
        /\ mirror = [tabs |-> tabs, collapsed |-> collapsed \cap Ids, active |-> active,
                     position |-> [epoch |-> journal.epoch, sequence |-> journal.sequence]]
        /\ journal.epoch \in Nat /\ journal.sequence \in Nat
        /\ TabTable(tabs) /\ collapsed \cap Ids \subseteq DOMAIN tabs
    BY SnapshotFits
  <1>2. MirrorType  BY <1>1 DEF MirrorType
  <1>3. \A t \in 1..MaxId : AgreeOn(t)  BY <1>1 DEF AgreeOn, Ids
  <1>4. mirror.position.epoch = journal.epoch /\ mirror.position.sequence = journal.sequence
    BY <1>1
  <1>5. parents_exist(mirror.tabs)  BY <1>1
  <1> QED  BY <1>1, <1>2, <1>3, <1>4, <1>5 DEF MirrorInv

LEMMA InitFollow == MirrorInit => MirrorInv
  <1> SUFFICES ASSUME MirrorInit PROVE MirrorInv  OBVIOUS
  <1>1. WorkspaceInit /\ mirror = Snapshot /\ link = "up"  BY DEF MirrorInit
  <1>2. TreeInv  BY <1>1, InitTree
  <1>3. PICK start_empty \in BOOLEAN :
          LET s == Started(start_empty, default_workspace, 1)
          IN  journal = s.journal /\ torn = s.torn
    BY <1>1 DEF WorkspaceInit
  <1> DEFINE s == Started(start_empty, default_workspace, 1)
  <1>4. journal = s.journal /\ torn = s.torn  BY <1>3
  <1>5. s.torn = FALSE
    BY DefaultGood, EmptyGood DEF Started, load_workspace
  <1>6. Numbered(s.journal)
    <2>1. s = Started(start_empty, default_workspace, 1) /\ 1 \in Nat  OBVIOUS
    <2> HIDE DEF s
    <2> QED  BY <2>1, DefaultGood, StartedJournal
  <1> HIDE DEF s
  <1>7. parents_exist(tabs)  BY <1>2, <1>4, <1>5 DEF TreeInv, BootstrapServes
  <1> QED  BY <1>1, <1>2, <1>4, <1>6, <1>7, FitsInv

LEMMA ConnectFollow ==
  ASSUME MirrorInv, Connect
  PROVE  MirrorInv'
  <1>1. UNCHANGED workspace /\ mirror' = Snapshot /\ parents_exist(tabs)
    BY DEF Connect, validate
  <1>2. /\ tabs' = tabs /\ collapsed' = collapsed /\ active' = active
        /\ next_id' = next_id /\ saved' = saved /\ journal' = journal
    BY <1>1 DEF workspace
  <1>3. TreeInv'  BY <1>1, OtherTree DEF MirrorInv
  <1>4. Numbered(journal)'  BY <1>2 DEF MirrorInv, Numbered
  <1>5. (mirror = Snapshot)'  BY <1>1, <1>2 DEF Snapshot, position, Ids
  <1>6. parents_exist(tabs)'  BY <1>1, <1>2 DEF parents_exist
  <1>7. (TreeInv /\ Numbered(journal) /\ mirror = Snapshot /\ parents_exist(tabs) => MirrorInv)'
    BY FitsInv, PTL
  <1> QED  BY <1>3, <1>4, <1>5, <1>6, <1>7

\* What a poll takes from the journal, and what is then still due.
LEMMA TakeAbout ==
  ASSUME NEW j, Numbered(j), NEW m \in Nat, m <= j.sequence, NoGap(j, m),
         NEW limit \in Nat \ {0}, NEW g, g = TakeLater(j, m, limit),
         NEW last, last = (IF g = <<>> THEN m ELSE g[Len(g)].sequence)
  PROVE  /\ last \in Nat /\ m <= last /\ last <= j.sequence
         /\ AboutAfter(j, m) = {g[i].about : i \in 1..Len(g)} \cup AboutAfter(j, last)
  <1> DEFINE s == j.events
             n == Len(s)
             f == j.sequence - n
  <1>1. PICK T : s \in Seq(T)  BY DEF Numbered
  <1>2. /\ j.sequence \in Nat /\ n \in Nat /\ n <= j.sequence
        /\ \A i \in 1..n : s[i].sequence = f + i
    BY <1>1 DEF Numbered
  <1>3. f \in Nat /\ j.sequence = f + n /\ m >= f
    <2>1. m >= f  BY DEF NoGap
    <2> HIDE DEF n
    <2> QED  BY <1>2, <2>1
  <1>4. /\ Later(j, m) = {i \in 1..n : f + i > m}
        /\ \A k \in Nat : AboutAfter(j, k) = {s[i].about : i \in {i \in 1..n : f + i > k}}
    <2> HIDE DEF f, s
    <2>1. j.events = s  BY DEF s
    <2>2. \A k \in Nat : {i \in 1..n : s[i].sequence > k} = {i \in 1..n : f + i > k}
      BY <1>2
    <2> QED  BY <1>2, <2>1, <2>2 DEF Later, AboutAfter
  <1>5. CASE m = j.sequence
    <2> HIDE DEF n, f, s
    <2>1. Later(j, m) = {}  BY <1>2, <1>3, <1>4, <1>5
    <2>2. g = <<>>  BY <2>1 DEF TakeLater
    <2>3. last = m /\ Len(g) = 0  BY <2>2
    <2>4. {g[i].about : i \in 1..Len(g)} = {}  BY <2>3
    <2>5. last \in Nat /\ m <= last /\ last <= j.sequence  BY <2>3
    <2> HIDE DEF s
    <2>6. AboutAfter(j, m) = {} \cup AboutAfter(j, last)  BY <2>3
    <2> QED  BY <2>4, <2>5, <2>6
  <1>6. CASE m < j.sequence
    <2> DEFINE first == (m - f) + 1
               end == IF first + limit - 1 < n THEN first + limit - 1 ELSE n
    <2> HIDE DEF n, f, s
    <2>1. first \in 1..n /\ f + first = m + 1  BY <1>2, <1>3, <1>6
    <2> HIDE DEF first
    <2>2. end \in first..n  BY <1>2, <2>1
    <2>3. first \in Later(j, m) /\ \A k \in Later(j, m) : first <= k /\ k \in Int
      BY <1>2, <1>3, <1>4, <2>1
    <2>4. FirstLater(j, m) = first
      <3>1. \A i \in Later(j, m) : (\A k \in Later(j, m) : i <= k) => i = first
        BY <2>3, <2>1
      <3> QED  BY <2>3, <3>1 DEF FirstLater, Min
    <2>5. g = SubSeq(s, first, end)
      <3>1. (IF limit = 0 THEN 1 ELSE limit) = limit  OBVIOUS
      <3>2. Later(j, m) # {}  BY <2>3
      <3>3. g = SubSeq(j.events, first,
                       IF first + limit - 1 < Len(j.events)
                       THEN first + limit - 1 ELSE Len(j.events))
        BY <2>4, <3>1, <3>2 DEF TakeLater
      <3> QED  BY <3>3 DEF s, n
    <2> HIDE DEF end
    <2>6. /\ g \in Seq(T) /\ Len(g) = end - first + 1
          /\ \A i \in 1..Len(g) : g[i] = s[first + i - 1]
      <3>1. Len(s) = n  BY DEF n
      <3> QED  BY <1>1, <1>2, <2>1, <2>2, <2>5, <3>1
    <2>7. Len(g) \in Nat /\ Len(g) >= 1 /\ g # <<>>  BY <1>2, <2>1, <2>2, <2>6
    <2>8. g[Len(g)] = s[end] /\ s[end].sequence = f + end
      <3>1. Len(g) \in 1..Len(g) /\ first + Len(g) - 1 = end /\ end \in 1..n
        BY <1>2, <2>1, <2>2, <2>6, <2>7
      <3> QED  BY <3>1, <2>6, <1>2
    <2>9. last = f + end  BY <2>7, <2>8
    <2>10. last \in Nat /\ m <= last /\ last <= j.sequence
      BY <1>2, <1>3, <2>1, <2>2, <2>9
    <2>11. /\ AboutAfter(j, m) = {s[i].about : i \in {i \in 1..n : f + i > m}}
           /\ AboutAfter(j, last) = {s[i].about : i \in {i \in 1..n : f + i > last}}
      BY <1>4, <2>10
    <2>12. ASSUME NEW y \in AboutAfter(j, m)
           PROVE  y \in {g[i].about : i \in 1..Len(g)} \cup AboutAfter(j, last)
      <3>1. PICK i \in 1..n : f + i > m /\ y = s[i].about  BY <2>11, <2>12
      <3>2. CASE i > end
        <4>1. f + i > last  BY <3>2, <1>2, <1>3, <2>2, <2>9
        <4> QED  BY <2>11, <3>1, <4>1
      <3>3. CASE i <= end
        <4>1. (i - first) + 1 \in 1..Len(g) /\ first + ((i - first) + 1) - 1 = i
          BY <3>1, <3>3, <1>2, <1>3, <2>1, <2>2, <2>6
        <4>2. g[(i - first) + 1] = s[i]  BY <4>1, <2>6
        <4> QED  BY <3>1, <4>1, <4>2
      <3>4. i \in Int /\ end \in Int  BY <1>2, <2>1, <2>2
      <3> QED  BY <3>2, <3>3, <3>4
    <2>13. ASSUME NEW i \in 1..Len(g) PROVE g[i].about \in AboutAfter(j, m)
      <3>0. i \in Int /\ first \in Int /\ f \in Int /\ i >= 1 /\ i <= end - first + 1 /\ end \in Int
        BY <1>2, <1>3, <2>1, <2>2, <2>6
      <3>1. first + i - 1 \in 1..n /\ f + (first + i - 1) > m
        BY <1>2, <2>1, <2>2, <3>0
      <3> QED  BY <3>1, <2>6, <2>11
    <2>14. ASSUME NEW y \in AboutAfter(j, last) PROVE y \in AboutAfter(j, m)
      <3>1. PICK i \in 1..n : f + i > last /\ y = s[i].about  BY <2>11, <2>14
      <3>2. f + i > m  BY <3>1, <1>2, <1>3, <2>10
      <3> QED  BY <2>11, <3>1, <3>2
    <2> QED  BY <2>10, <2>12, <2>13, <2>14
  <1> QED  BY <1>2, <1>5, <1>6

\* An answer that is not refused.
LEMMA ReadOk ==
  ASSUME Numbered(journal), NEW e, NEW m \in Nat, NEW limit \in Nat \ {0},
         NEW a, a = read_after(journal, e, m, limit), a.code = "ok"
  PROVE  /\ e = journal.epoch /\ m <= journal.sequence /\ NoGap(journal, m)
         /\ a.events = TakeLater(journal, m, limit)
  <1> DEFINE s == journal.events
  <1>1. /\ journal.sequence \in Nat /\ Len(s) \in Nat
        /\ journal.sequence > 0 => Len(s) > 0
        /\ Len(s) <= journal.sequence
        /\ \A i \in 1..Len(s) : s[i].sequence = (journal.sequence - Len(s)) + i
    <2>1. PICK T : s \in Seq(T)  BY DEF Numbered
    <2> QED  BY <2>1 DEF Numbered
  <1>2. /\ e = journal.epoch /\ ~(m > journal.sequence)
        /\ ~(s # <<>> /\ m + 1 < s[1].sequence)
        /\ a.events = TakeLater(journal, m, limit)
    BY DEF read_after, Failure
  <1>3. m >= journal.sequence - Len(s)
    <2>1. CASE Len(s) = 0  BY <2>1, <1>1
    <2>2. CASE Len(s) # 0
      <3>1. s # <<>> /\ 1 \in 1..Len(s)  BY <2>2, <1>1
      <3>2. s[1].sequence = (journal.sequence - Len(s)) + 1  BY <3>1, <1>1
      <3> HIDE DEF s
      <3> QED  BY <3>1, <3>2, <1>1, <1>2
    <2> QED  BY <2>1, <2>2
  <1> QED  BY <1>1, <1>2, <1>3 DEF NoGap

LEMMA PollFollow ==
  ASSUME MirrorInv, NEW limit \in Limits, poll_deltas(limit)
  PROVE  MirrorInv'
  <1> DEFINE e == mirror.position.epoch
             m == mirror.position.sequence
             a == read_after(journal, e, m, limit)
             g == a.events
             batch == ui_delta_batch(g)
             after == apply_delta(batch)
             U == {g[i].about : i \in 1..Len(g)}
             last == IF g = <<>> THEN m ELSE g[Len(g)].sequence
  <1>1. /\ link = "up" /\ UNCHANGED workspace
        /\ \/ link' # "up" /\ mirror' = NoMirror
           \/ /\ a.code = "ok" /\ validate(after.tabs, after.active)
              /\ mirror' = after /\ link' = link
    BY DEF poll_deltas
  <1>2. /\ tabs' = tabs /\ collapsed' = collapsed /\ active' = active
        /\ next_id' = next_id /\ saved' = saved /\ journal' = journal /\ Ids' = Ids
        /\ killed' = killed
    BY <1>1 DEF workspace, Ids
  <1>3. TreeInv'  BY <1>1, OtherTree DEF MirrorInv
  <1>4. Numbered(journal)'  BY <1>2 DEF MirrorInv, Numbered
  <1>5. CASE link' # "up" /\ mirror' = NoMirror
    <2>1. MirrorType'
      <3>1. /\ NoMirror = [tabs |-> NoMirror.tabs, collapsed |-> NoMirror.collapsed,
                           active |-> NoMirror.active, position |-> NoMirror.position]
            /\ NoMirror.position \in [epoch : Nat, sequence : Nat]
            /\ NoMirror.tabs = no_tabs /\ NoMirror.collapsed = {}
        BY DEF NoMirror
      <3>2. TabTable(mirror'.tabs)  BY <1>5, <3>1, NoTabsGood
      <3>3. TabTable(mirror.tabs)'  BY <3>2 DEF TabTable
      <3> QED  BY <1>5, <3>1, <3>3 DEF MirrorType
    <2> QED  BY <1>3, <1>4, <1>5, <2>1 DEF MirrorInv
  <1>6. CASE /\ a.code = "ok" /\ validate(after.tabs, after.active)
             /\ mirror' = after /\ link' = link
    <2>1. /\ Numbered(journal) /\ MirrorType /\ m \in Nat /\ e \in Nat
          /\ mirror.position \in [epoch : Nat, sequence : Nat]
          /\ TabTable(mirror.tabs) /\ mirror.collapsed \subseteq DOMAIN mirror.tabs
      BY DEF MirrorInv, MirrorType
    <2>2. limit \in Nat \ {0}  BY JournalCapacity DEF Limits
    <2>3. /\ e = journal.epoch /\ m <= journal.sequence /\ NoGap(journal, m)
          /\ g = TakeLater(journal, m, limit)
      <3> HIDE DEF e, m
      <3>1. a = read_after(journal, e, m, limit)  OBVIOUS
      <3> HIDE DEF a
      <3> QED  BY <1>6, <2>1, <2>2, <3>1, ReadOk
    <2> HIDE DEF a
    <2>4. /\ last \in Nat /\ m <= last /\ last <= journal.sequence
          /\ AboutAfter(journal, m) = U \cup AboutAfter(journal, last)
      <3> HIDE DEF m, g
      <3>1. last = (IF g = <<>> THEN m ELSE g[Len(g)].sequence)  OBVIOUS
      <3> HIDE DEF last
      <3> QED  BY <2>1, <2>2, <2>3, <3>1, TakeAbout
    <2>5. ~killed => \A t \in 1..MaxId : t \in AboutAfter(journal, m) \/ AgreeOn(t)
      BY <1>1, <2>3 DEF MirrorInv, Follows
    <2> HIDE DEF g
    <2>6. batch = [updates |-> U \cap Ids, closed |-> U \ Ids, active |-> active,
                   through |-> last]
      BY DEF ui_delta_batch
    <2> HIDE DEF U, last, batch
    <2> DEFINE kept == (DOMAIN mirror.tabs) \ (U \ Ids)
               ups == U \cap Ids
               mtabs == [t \in kept \cup ups |-> IF t \in ups THEN tabs[t] ELSE mirror.tabs[t]]
               mcollapsed == ((mirror.collapsed \cap kept) \ ups) \cup (collapsed \cap ups)
    <2>7. after = [tabs |-> mtabs, collapsed |-> mcollapsed, active |-> active,
                   position |-> [mirror.position EXCEPT !.sequence = last]]
      BY <2>6 DEF apply_delta
    <2>8. /\ mirror'.tabs = mtabs /\ mirror'.collapsed = mcollapsed
          /\ mirror'.active = active
          /\ mirror'.position = [mirror.position EXCEPT !.sequence = last]
          /\ mirror' = [tabs |-> mirror'.tabs, collapsed |-> mirror'.collapsed,
                        active |-> mirror'.active, position |-> mirror'.position]
      BY <1>6, <2>7
    <2>9. /\ mirror'.position \in [epoch : Nat, sequence : Nat]
          /\ mirror'.position.epoch = e /\ mirror'.position.sequence = last
      BY <2>1, <2>4, <2>8
    <2>10. parents_exist(mirror.tabs)'
      BY <1>6 DEF validate, parents_exist
    <2>11. TabTable(mtabs) /\ mcollapsed \subseteq DOMAIN mtabs
      <3>1. TabTable(tabs)  BY DEF MirrorInv, TreeInv
      <3> QED  BY <2>1, <3>1 DEF TabTable, Ids
    <2>12. MirrorType'
      BY <2>8, <2>9, <2>11 DEF MirrorType, TabTable
    <2>13. ASSUME ~killed, NEW t \in 1..MaxId, t \notin AboutAfter(journal, last)
           PROVE  AgreeOn(t)'
      <3>0. Closed' = Closed  BY <1>2 DEF Closed
      <3>1. DOMAIN mtabs = kept \cup ups /\ kept = (DOMAIN mirror.tabs) \ (U \ Ids)
            /\ ups = U \cap Ids
            /\ mcollapsed = ((mirror.collapsed \cap kept) \ ups) \cup (collapsed \cap ups)
            /\ \A u \in kept \cup ups : mtabs[u] = IF u \in ups THEN tabs[u] ELSE mirror.tabs[u]
        OBVIOUS
      <3> HIDE DEF mtabs, mcollapsed, kept, ups
      <3>3. CASE t \in U
        <4>1. t \in DOMAIN mtabs <=> t \in Ids  BY <3>1, <3>3
        <4>2. t \in mcollapsed <=> t \in collapsed \cap Ids  BY <3>1, <3>3
        <4>3. t \in Ids => mtabs[t] = tabs[t]  BY <3>1, <3>3
        <4> QED  BY <1>2, <2>8, <4>1, <4>2, <4>3 DEF AgreeOn
      <3>4. CASE t \notin U
        <4>1. AgreeOn(t)  BY <2>4, <2>5, <2>13, <3>4
        <4>2. t \in DOMAIN mtabs <=> t \in DOMAIN mirror.tabs  BY <3>1, <3>4
        <4>3. t \in mcollapsed <=> t \in mirror.collapsed  BY <2>1, <3>1, <3>4
        <4>4. t \in DOMAIN mirror.tabs => mtabs[t] = mirror.tabs[t]  BY <3>1, <3>4
        <4> QED  BY <1>2, <2>8, <3>0, <4>1, <4>2, <4>3, <4>4 DEF AgreeOn
      <3> QED  BY <3>3, <3>4
    <2>14. AboutAfter(journal, mirror.position.sequence)' = AboutAfter(journal, last)
      BY <1>2, <2>9 DEF AboutAfter
    <2>15. mirror'.position.epoch <= journal'.epoch
      BY <1>2, <2>1, <2>3, <2>9
    <2>16. mirror'.position.sequence <= journal'.sequence  BY <1>2, <2>4, <2>9
    <2> QED  BY <1>2, <1>3, <1>4, <2>8, <2>10, <2>12, <2>13, <2>14, <2>15, <2>16 DEF MirrorInv
  <1> QED  BY <1>1, <1>5, <1>6

LEMMA NextFollow == MirrorInv /\ [MirrorNext]_mirror_vars => MirrorInv'
  <1> SUFFICES ASSUME MirrorInv, [MirrorNext]_mirror_vars PROVE MirrorInv'  OBVIOUS
  <1>1. CASE Connect  BY <1>1, ConnectFollow
  <1>2. CASE \E n \in Limits : poll_deltas(n)  BY <1>2, PollFollow
  <1>3. CASE UNCHANGED mirror_vars
    <2>1. UNCHANGED workspace /\ UNCHANGED <<mirror, link>>
      BY <1>3 DEF mirror_vars, workspace
    <2> QED  BY <2>1, SmallStepsFollow
  <1>4. CASE WorkspaceNext /\ UNCHANGED <<mirror, link>>
    <2>1. CASE \E p \in Ids \cup {NoTab}, select \in BOOLEAN, text \in Titles :
                 create_tab(p, select, text)
      BY <1>4, <2>1, CreateFollow, WorkspaceAssumption
    <2>2. CASE \E id \in Ids : close_tab(id)
      BY <1>4, <2>2, CloseFollow
    <2>3. CASE \/ create_tab_fails \/ persist_workspace
               \/ \E id \in Ids : select_tab(id) \/ toggle_tab_collapsed(id)
               \/ \E child \in Ids, p \in Ids \cup {NoTab} : set_tab_parent(child, p)
               \/ \E id \in Ids, text \in Texts : set_tab_text(id, text)
      BY <1>4, <2>3, SmallStepsFollow
    <2>4. CASE Restart  BY <1>4, <2>4, RestartFollow
    <2>5. CASE kill_server  BY <1>4, <2>5, KillFollow
    <2> QED  BY <1>4, <2>1, <2>2, <2>3, <2>4, <2>5 DEF WorkspaceNext
  <1> QED  BY <1>1, <1>2, <1>3, <1>4 DEF MirrorNext

\* A client that has seen every event of a server that was not killed either
\* noticed that its snapshot is invalid or shows exactly the server's workspace:
\* for any number of tabs, any limits, any capacity of the journal and any
\* batches, and also if a start has torn the workspace.
THEOREM ClientInStep == MirrorSpec => []MirrorExact
  <1>1. MirrorInv => MirrorExact
    <2> SUFFICES ASSUME MirrorInv, link = "up", mirror.position = position(journal), ~killed
                 PROVE  mirror = Snapshot
      BY DEF MirrorExact
    <2>1. mirror.position.epoch = journal.epoch /\ mirror.position.sequence = journal.sequence
      BY DEF position
    <2>2. /\ TreeInv /\ Numbered(journal) /\ TabTable(mirror.tabs) /\ TabTable(tabs)
          /\ mirror.collapsed \subseteq DOMAIN mirror.tabs
          /\ mirror = [tabs |-> mirror.tabs, collapsed |-> mirror.collapsed,
                       active |-> mirror.active, position |-> mirror.position]
      BY TreeFacts DEF MirrorInv, MirrorType, TreeInv
    <2>3. PICK T : journal.events \in Seq(T)  BY <2>2 DEF Numbered
    <2>4. Len(journal.events) \in Nat /\ journal.sequence \in Nat
      BY <2>2, <2>3 DEF Numbered
    <2>5. Follows /\ AboutAfter(journal, mirror.position.sequence) = {}
      <3>1. NoGap(journal, journal.sequence)  BY <2>4 DEF NoGap
      <3>2. \A i \in 1..Len(journal.events) : ~(journal.events[i].sequence > journal.sequence)
        <4>1. \A i \in 1..Len(journal.events) :
                journal.events[i].sequence = (journal.sequence - Len(journal.events)) + i
          BY <2>2 DEF Numbered
        <4> QED  BY <2>4, <4>1
      <3> QED  BY <2>1, <3>1, <3>2 DEF Follows, AboutAfter
    <2>6. /\ \A t \in 1..MaxId : AgreeOn(t)
          /\ mirror.active = active /\ parents_exist(mirror.tabs)
      BY <2>1, <2>5 DEF MirrorInv
    <2>7. DOMAIN mirror.tabs = Ids
      BY <2>2, <2>6 DEF AgreeOn, TabTable, Ids
    <2>8. mirror.collapsed = collapsed \cap Ids
      BY <2>2, <2>6, <2>7 DEF AgreeOn, TabTable, Ids
    <2>9. ASSUME NEW t \in Ids PROVE mirror.tabs[t] = tabs[t]
      <3>1. mirror.tabs[t].parent \in Ids \cup {NoTab}
        BY <2>6, <2>7 DEF parents_exist
      <3>2. NoTab \notin Nat /\ MaxId \in Nat  BY WorkspaceAssumption
      <3>3. mirror.tabs[t].parent \notin Closed
        <4>1. next_id \in Nat  BY <2>2, TreeFacts
        <4>2. \A x \in 1..(next_id - 1) : x \in Nat  BY <4>1
        <4> QED  BY <3>1, <3>2, <4>2 DEF Closed
      <3>4. t \in 1..MaxId  BY <2>2 DEF TabTable, Ids
      <3>5. /\ mirror.tabs[t].parent = tabs[t].parent /\ mirror.tabs[t].index = tabs[t].index
            /\ mirror.tabs[t].text = tabs[t].text
        BY <2>6, <3>3, <3>4 DEF AgreeOn
      <3>6. /\ mirror.tabs[t] \in [parent : (1..MaxId) \cup {NoTab}, index : 0..MaxId, text : Texts]
            /\ tabs[t] \in [parent : (1..MaxId) \cup {NoTab}, index : 0..MaxId, text : Texts]
        BY <2>2, <2>7 DEF TabTable, Ids
      <3> QED  BY <3>5, <3>6
    <2>10. mirror.tabs = tabs
      <3>1. mirror.tabs = [t \in Ids |-> mirror.tabs[t]] /\ tabs = [t \in Ids |-> tabs[t]]
        BY <2>2, <2>7 DEF TabTable, Ids
      <3> QED  BY <2>9, <3>1
    <2> QED  BY <2>2, <2>6, <2>8, <2>10 DEF Snapshot
  <1> QED  BY <1>1, InitFollow, NextFollow, PTL DEF MirrorSpec
=============================================================================
