-------------------------- MODULE SseResumeProofs --------------------------
(***************************************************************************)
(* Proofs about SseResume, for any subscriptions, any size of the buffer   *)
(* and any number of events and faults: type correctness, that nothing is  *)
(* skipped between the log and the client (NothingSkipped), and that a     *)
(* client at rest shows what the hub has stored (ViewCurrent).             *)
(***************************************************************************)
EXTENDS SseResume, FiniteSetTheorems, WellFoundedInduction, TLAPS

----------------------------------------------------------------------------
(* Ascending sequences. *)

\* A nonempty set of naturals has a smallest element.
LEMMA SmallestExists ==
  ASSUME NEW S \in SUBSET Nat, S # {}
  PROVE  \E x \in S : \A y \in S : x <= y
<1> DEFINE R == {ss \in Nat \X Nat : ss[1] < ss[2]}
<1>1. IsWellFoundedOn(R, Nat)
  BY NatLessThanWellFounded DEF OpToRel
<1> HIDE DEF R
<1>2. PICK x \in S : \A y \in S : <<y, x>> \notin R
  BY <1>1, WFMin
<1>3. \A y \in S : ~(y < x)
  BY <1>2 DEF R
<1> QED
  BY <1>3

\* A finite set of numbers can be written down in order: there is an ascending sequence of exactly
\* its elements.
LEMMA OrderExists ==
  ASSUME NEW top \in Nat, NEW S \in SUBSET (1..top)
  PROVE  \E s \in [1..Cardinality(S) -> S] : Ascending(s) /\ Range(s) = S
<1> DEFINE U(n) == {x \in S : x <= n}
           P(n) == \E s \in [1..Cardinality(U(n)) -> U(n)] : Ascending(s) /\ Range(s) = U(n)
           Bad == {n \in Nat : ~P(n)}
<1>0. \A x \in S : x \in Nat /\ 1 <= x /\ x <= top
  OBVIOUS
<1>1. P(0)
  <2>1. U(0) = {}
    <3>1. \A x \in S : ~(x <= 0)
      BY <1>0
    <3> QED
      BY <3>1, Zenon
  <2>2. Cardinality(U(0)) = 0
    BY <2>1, FS_EmptySet, Zenon
  <2> DEFINE e == [i \in 1..0 |-> 0]
  <2>3. e \in [1..Cardinality(U(0)) -> U(0)]
    <3>1. 1..0 = {}
      OBVIOUS
    <3>2. e \in [1..0 -> U(0)]
      BY <3>1
    <3> QED
      BY <2>2, <3>2
  <2>4. Ascending(e)
    BY DEF Ascending
  <2>5. Range(e) = U(0)
    BY <2>1 DEF Range
  <2> QED
    BY <2>3, <2>4, <2>5
<1>2. ASSUME NEW n \in Nat, P(n)
      PROVE  P(n + 1)
  <2>0. \A x \in S : x <= n + 1 <=> (x <= n \/ x = n + 1)
    BY <1>0
  <2> DEFINE A == U(n)
             B == U(n + 1)
  <2>1. CASE n + 1 \notin S
    <3>1. B = A
      BY <2>0, <2>1, Zenon
    <3> QED
      BY <3>1, <1>2
  <2>2. CASE n + 1 \in S
    <3>1. B = A \cup {n + 1} /\ n + 1 \notin A
      <4>1. n + 1 \notin A /\ n + 1 <= n + 1
        OBVIOUS
      <4> QED
        BY <2>0, <2>2, <4>1, Zenon
    <3>2. \A x \in A : x \in Nat /\ x < n + 1
      OBVIOUS
    <3>3. IsFiniteSet(A)
      <4>1. IsFiniteSet(1..top)
        BY FS_Interval
      <4>2. A \in SUBSET (1..top)
        OBVIOUS
      <4> QED
        BY <4>1, <4>2, FS_Subset
    <3>4. Cardinality(B) = Cardinality(A) + 1 /\ Cardinality(A) \in Nat
      BY <3>1, <3>3, FS_AddElement, FS_CardinalityType
    <3>5. PICK s \in [1..Cardinality(A) -> A] : Ascending(s) /\ Range(s) = A
      BY <1>2
    <3> HIDE DEF A, B
    <3> DEFINE c == Cardinality(A)
               t == [i \in 1..(c + 1) |-> IF i <= c THEN s[i] ELSE n + 1]
    <3>6. c \in Nat /\ Cardinality(B) = c + 1
      BY <3>4
    <3> HIDE DEF c
    <3>7. s \in [1..c -> A]
      BY <3>5 DEF c
    <3>8. t \in [1..(c + 1) -> B]
      <4>1. \A i \in 1..(c + 1) : i <= c => i \in 1..c
        BY <3>6
      <4>2. \A i \in 1..(c + 1) : (IF i <= c THEN s[i] ELSE n + 1) \in B
        BY <3>1, <3>7, <4>1
      <4> QED
        BY <4>2
    <3>9. Ascending(t)
      <4>1. SUFFICES ASSUME NEW i \in 1..(c + 1), NEW j \in 1..(c + 1), i < j
                     PROVE  t[i] < t[j]
        BY DEF Ascending
      <4>0. i \in 1..c
        BY <3>6, <4>1
      <4>2. t[i] = s[i] /\ s[i] \in A
        <5>1. s[i] \in A
          BY <3>7, <4>0
        <5>2. i <= c
          BY <3>6, <4>0
        <5>3. t[i] = s[i]
          BY <5>2
        <5> QED
          BY <5>1, <5>3
      <4>3. CASE j <= c
        <5>1. j \in 1..c /\ t[j] = s[j]
          BY <3>6, <4>1, <4>3
        <5>2. DOMAIN s = 1..c
          BY <3>7
        <5> QED
          BY <3>5, <4>0, <4>1, <4>2, <5>1, <5>2 DEF Ascending
      <4>4. CASE ~(j <= c)
        BY <3>2, <4>2, <4>4
      <4> QED
        BY <4>3, <4>4
    <3>10. Range(t) = B
      <4>1. \A x \in A : \E i \in 1..c : s[i] = x
        BY <3>5, <3>7 DEF Range
      <4>2. t[c + 1] = n + 1 /\ c + 1 \in 1..(c + 1)
        BY <3>6
      <4>3. \A i \in 1..c : t[i] = s[i] /\ i \in 1..(c + 1)
        BY <3>6
      <4>4. \A x \in B : \E i \in 1..(c + 1) : t[i] = x
        BY <3>1, <4>1, <4>2, <4>3
      <4>5. \A i \in 1..(c + 1) : t[i] \in B
        BY <3>8
      <4> QED
        BY <4>4, <4>5 DEF Range
    <3> QED
      BY <3>6, <3>8, <3>9, <3>10 DEF A, B
  <2> QED
    BY <2>1, <2>2
<1>3. Bad = {}
  <2>1. SUFFICES ASSUME Bad # {}
                 PROVE  FALSE
    OBVIOUS
  <2>2. Bad \in SUBSET Nat
    OBVIOUS
  <2>3. PICK n \in Bad : \A y \in Bad : n <= y
    <3> HIDE DEF Bad
    <3> QED
      BY <2>1, <2>2, SmallestExists
  <2>4. n \in Nat /\ ~P(n)
    OBVIOUS
  <2> HIDE DEF P
  <2>5. n # 0
    BY <2>4, <1>1
  <2>6. n - 1 \in Nat /\ (n - 1) + 1 = n /\ ~(n <= n - 1)
    BY <2>4, <2>5
  <2>7. P(n - 1)
    BY <2>3, <2>6
  <2>8. P((n - 1) + 1)
    BY <1>2, <2>6, <2>7
  <2> QED
    BY <2>4, <2>6, <2>8
<1>4. P(top)
  BY <1>3
<1>5. U(top) = S
  BY <1>0
<1> QED
  BY <1>4, <1>5

\* InOrder is such a sequence.
LEMMA InOrderIs ==
  ASSUME NEW top \in Nat, NEW S \in SUBSET (1..top)
  PROVE  InOrder(S) \in Seq(S) /\ Ascending(InOrder(S)) /\ Range(InOrder(S)) = S
<1>1. \E s \in [1..Cardinality(S) -> S] : Ascending(s) /\ Range(s) = S
  BY OrderExists
<1>2. InOrder(S) \in [1..Cardinality(S) -> S] /\ Ascending(InOrder(S)) /\ Range(InOrder(S)) = S
  BY <1>1, Zenon DEF InOrder
<1>3. Cardinality(S) \in Nat
  <2>1. IsFiniteSet(1..top)
    BY FS_Interval
  <2> QED
    BY <2>1, FS_Subset, FS_CardinalityType
<1> HIDE DEF InOrder
<1> QED
  BY <1>2, <1>3

\* There is only one.
LEMMA InOrderUnique ==
  ASSUME NEW top \in Nat, NEW S \in SUBSET (1..top), NEW s \in Seq(Nat), Ascending(s), Range(s) = S
  PROVE  s = InOrder(S)
<1> DEFINE t == InOrder(S)
<1>1. t \in Seq(Nat) /\ Ascending(t) /\ Range(t) = S
  <2>1. t \in Seq(S) /\ Ascending(t) /\ Range(t) = S
    BY InOrderIs
  <2> HIDE DEF t
  <2>2. S \subseteq Nat
    OBVIOUS
  <2>3. \A i \in 1..Len(t) : t[i] \in Nat
    <3>1. \A i \in 1..Len(t) : t[i] \in S
      BY <2>1
    <3> QED
      BY <2>2, <3>1, Zenon
  <2> QED
    BY <2>1, <2>3
<1> HIDE DEF t
<1>2. DOMAIN s = 1..Len(s) /\ DOMAIN t = 1..Len(t) /\ Len(s) \in Nat /\ Len(t) \in Nat
  BY <1>1
<1>3. /\ \A i \in DOMAIN s : s[i] \in Nat /\ \E j \in DOMAIN t : t[j] = s[i]
      /\ \A i \in DOMAIN t : t[i] \in Nat /\ \E j \in DOMAIN s : s[j] = t[i]
  <2>1. \A i \in DOMAIN s : s[i] \in Range(t)
    BY <1>1 DEF Range
  <2>2. \A i \in DOMAIN t : t[i] \in Range(s)
    BY <1>1 DEF Range
  <2>3. \A i \in DOMAIN s : s[i] \in Nat
    BY <1>2
  <2>4. \A i \in DOMAIN t : t[i] \in Nat
    BY <1>1, <1>2
  <2> QED
    BY <2>1, <2>2, <2>3, <2>4 DEF Range
<1> DEFINE Apart == {i \in Nat : i \in DOMAIN s /\ i \in DOMAIN t /\ s[i] # t[i]}
<1>4. Apart = {}
  <2>1. SUFFICES ASSUME Apart # {}
                 PROVE  FALSE
    OBVIOUS
  <2>2. PICK i \in Apart : \A j \in Apart : i <= j
    <3>1. Apart \in SUBSET Nat
      OBVIOUS
    <3> HIDE DEF Apart
    <3> QED
      BY <2>1, <3>1, SmallestExists
  <2>3. i \in DOMAIN s /\ i \in DOMAIN t /\ s[i] # t[i]
    OBVIOUS
  <2>4. \A j \in DOMAIN s : j < i => j \in DOMAIN t /\ s[j] = t[j]
    BY <1>2, <2>2, <2>3
  <2>5. \A j \in DOMAIN t : j < i => j \in DOMAIN s /\ s[j] = t[j]
    BY <1>2, <2>2, <2>3
  <2> HIDE DEF Apart
  <2>6. s[i] < t[i] \/ t[i] < s[i]
    BY <1>3, <2>3
  <2>7. CASE s[i] < t[i]
    <3>1. PICK j \in DOMAIN t : t[j] = s[i]
      BY <1>3, <2>3
    <3>2. j < i \/ j = i \/ i < j
      BY <1>2, <2>3, <3>1
    <3>3. ~(j < i)
      BY <1>2, <1>3, <2>3, <2>5, <3>1 DEF Ascending
    <3>4. ~(i < j)
      BY <1>1, <1>2, <1>3, <2>3, <2>7, <3>1 DEF Ascending
    <3> QED
      BY <2>3, <3>1, <3>2, <3>3, <3>4
  <2>8. CASE t[i] < s[i]
    <3>1. PICK j \in DOMAIN s : s[j] = t[i]
      BY <1>3, <2>3
    <3>2. j < i \/ j = i \/ i < j
      BY <1>2, <2>3, <3>1
    <3>3. ~(j < i)
      BY <1>1, <1>2, <1>3, <2>3, <2>4, <3>1 DEF Ascending
    <3>4. ~(i < j)
      BY <1>2, <1>3, <2>3, <2>8, <3>1 DEF Ascending
    <3> QED
      BY <2>3, <3>1, <3>2, <3>3, <3>4
  <2> QED
    BY <2>6, <2>7, <2>8
<1>5. \A i \in DOMAIN s : i \in DOMAIN t => s[i] = t[i]
  BY <1>2, <1>4
<1> HIDE DEF Apart
<1>6. Len(s) = Len(t)
  <2>1. ~(Len(s) < Len(t))
    <3>1. SUFFICES ASSUME Len(s) < Len(t)
                   PROVE  FALSE
      OBVIOUS
    <3>2. Len(t) \in DOMAIN t
      BY <1>2, <3>1
    <3>3. PICK j \in DOMAIN s : s[j] = t[Len(t)]
      BY <1>3, <3>2
    <3>4. j \in DOMAIN t /\ j < Len(t) /\ t[j] = t[Len(t)]
      BY <1>2, <1>5, <3>1, <3>3
    <3> QED
      BY <1>1, <1>3, <3>2, <3>4 DEF Ascending
  <2>2. ~(Len(t) < Len(s))
    <3>1. SUFFICES ASSUME Len(t) < Len(s)
                   PROVE  FALSE
      OBVIOUS
    <3>2. Len(s) \in DOMAIN s
      BY <1>2, <3>1
    <3>3. PICK j \in DOMAIN t : t[j] = s[Len(s)]
      BY <1>3, <3>2
    <3>4. j \in DOMAIN s /\ j < Len(s) /\ s[j] = s[Len(s)]
      BY <1>2, <1>5, <3>1, <3>3
    <3> QED
      BY <1>3, <3>2, <3>4 DEF Ascending
  <2>3. \A a, b \in Nat : ~(a < b) /\ ~(b < a) => a = b
    OBVIOUS
  <2> QED
    BY <1>2, <2>1, <2>2, <2>3, Zenon
<1>7. s = t
  BY <1>1, <1>2, <1>5, <1>6
<1> QED
  BY <1>7 DEF t

----------------------------------------------------------------------------
(* The invariant. *)

\* The numbers of the events on the wire.
Numbers == [i \in DOMAIN Written |-> Written[i].seq]
Before(s, t) == \A x \in Range(s), y \in Range(t) : x < y

\* What the client has yet to be sent or to handle.
Due == {seq \in (handled + 1)..Len(log) : ShouldSend(conn.key, seq)}

\* The two ends of a connection agree; only its first packet is a verdict.  Invalidations wait only
\* while the effect that will flush or drop them is there.
Linked ==
    /\ link = "up" <=> conn.open
    /\ conn.open => conn.key = key
    /\ ~conn.open => conn = Closed /\ wire = <<>>
    /\ \A i \in DOMAIN wire : i > 1 => wire[i].kind = "event"
    /\ link = "opening" => ~dirty

\* Wire, replay or drained batch, and pending list: each in order, one before the other, together what
\* is due.
Pipes ==
    conn.open =>
        /\ Ascending(Numbers) /\ Ascending(conn.todo) /\ Ascending(conn.pending)
        /\ Before(Numbers, conn.todo) /\ Before(Numbers, conn.pending) /\ Before(conn.todo, conn.pending)
        /\ Range(Numbers) \cup Range(conn.todo) \cup Range(conn.pending) = Due
        /\ conn.direct => conn.todo = <<>> /\ conn.pending = <<>>

\* Cursors are of the past.
Cursors ==
    /\ handled <= Len(log)
    /\ epoch > 0 /\ cursor.epoch <= epoch
    /\ cursor.epoch = epoch => cursor.seq <= Len(log)

\* An event of the part is still to come to a client that is at seq.
ToCome(k, part, seq) == \E n \in (seq + 1)..Len(log) : log[n].key = k /\ log[n].part = part

\* Values only grow, and the last event of a part carries the one that is stored.
Logged ==
    \A n \in DOMAIN log :
        LET e == log[n]
        IN  /\ e.value <= truth[e.key][e.part]
            /\ ToCome(e.key, e.part, n) \/ e.value = truth[e.key][e.part]

\* Nobody is ahead of the hub.
Behind ==
    \A k \in Key, part \in Part :
        /\ cache[k][part] <= truth[k][part]
        /\ fetch[k].state = "answered" => fetch[k].value[part] <= truth[k][part]

\* What the client will show once the answer it has got is applied; when no answer is being waited for,
\* that is what is stored, or an event that says otherwise comes after seq, or has been seen.
Shown(k) == IF fetch[k].state = "answered" THEN fetch[k].value ELSE cache[k]
CaughtUp(k, seq) ==
    excused[k] = {} /\ fetch[k].state # "sent" =>
        \A part \in Part :
            \/ Shown(k)[part] = truth[k][part]
            \/ ToCome(k, part, seq)
            \/ part = "fetched" /\ k = key /\ dirty

\* That holds at the cursor, from which a connection may be resumed, whatever the client is subscribed
\* to now; and on an open connection at the event handled last, unless the client is about to be told
\* to refetch.
Told == wire # <<>> /\ Head(wire).kind = "gap"
Views ==
    /\ cursor.key \in Key /\ cursor.epoch = epoch => CaughtUp(cursor.key, cursor.seq)
    /\ conn.open /\ ~Told => CaughtUp(key, handled)

IInv == TypeOK /\ Linked /\ Pipes /\ Cursors /\ Logged /\ Behind /\ Views

LEMMA InitIInv == Init => IInv
<1> SUFFICES ASSUME Init
             PROVE  IInv
  OBVIOUS
<1> USE DEF Init, Closed, NoCursor, NothingStored, Idle
<1>1. TypeOK
  <2>1. truth \in [Key -> [Part -> Nat]] /\ cache \in [Key -> [Part -> Nat]]
    OBVIOUS
  <2>2. epoch \in Nat /\ log \in Seq(Event) /\ wire \in Seq(Packet) /\ dirty \in BOOLEAN /\ handled \in Nat
    <3>1. \A S : <<>> \in Seq(S)
      OBVIOUS
    <3>2. 1 \in Nat /\ 0 \in Nat
      OBVIOUS
    <3> QED
      BY <3>1, <3>2, Zenon
  <2>3. oldest \in 1..(Len(log) + 1) /\ Len(log) - oldest < Capacity
    BY CapacityAssumption
  <2>4. conn \in [open: BOOLEAN, key: Key \cup {None}, direct: BOOLEAN,
                  todo: Seq(1..Len(log)), pending: Seq(1..Len(log))]
    OBVIOUS
  <2>5. key \in Key /\ link \in {"down", "opening", "up"}
    BY KeyAssumption
  <2>6. cursor \in [key: Key \cup {None}, epoch: Nat, seq: Nat]
    OBVIOUS
  <2>7. fetch \in [Key -> {Idle, Sent} \cup [state: {"answered"}, value: [Part -> Nat]]]
    OBVIOUS
  <2>8. cuts \in 0..MaxCuts
    BY BoundsAssumption
  <2>9. excused \in [Key -> SUBSET {"overtaken", "cleared"}]
    OBVIOUS
  <2> QED
    BY <2>1, <2>2, <2>3, <2>4, <2>5, <2>6, <2>7, <2>8, <2>9 DEF TypeOK
<1>2. Linked
  BY DEF Linked
<1>3. Pipes
  BY DEF Pipes
<1>4. Cursors
  BY DEF Cursors
<1>5. Logged
  BY DEF Logged
<1>6. Behind
  BY DEF Behind
<1>7. Views
  BY KeyAssumption DEF Views
<1> QED
  BY <1>1, <1>2, <1>3, <1>4, <1>5, <1>6, <1>7 DEF IInv

----------------------------------------------------------------------------
(* Sequences of a connection. *)

LEMMA AppendAscends ==
  ASSUME NEW s \in Seq(Nat), Ascending(s), NEW x \in Nat, \A y \in Range(s) : y < x
  PROVE  Ascending(Append(s, x)) /\ Range(Append(s, x)) = Range(s) \cup {x}
<1> DEFINE t == Append(s, x)
<1>1. /\ DOMAIN s = 1..Len(s) /\ Len(s) \in Nat /\ DOMAIN t = 1..(Len(s) + 1)
      /\ t[Len(s) + 1] = x /\ \A i \in DOMAIN s : t[i] = s[i]
  OBVIOUS
<1> HIDE DEF t
<1>2. \A i \in DOMAIN s : s[i] < x /\ s[i] \in Nat
  BY DEF Range
<1>3. \A i \in DOMAIN t : i \in DOMAIN s \/ i = Len(s) + 1
  BY <1>1
<1>4. Ascending(t)
  <2>1. SUFFICES ASSUME NEW i \in DOMAIN t, NEW j \in DOMAIN t, i < j
                 PROVE  t[i] < t[j]
    BY DEF Ascending
  <2>2. i \in DOMAIN s
    BY <1>1, <2>1
  <2> QED
    BY <1>1, <1>2, <1>3, <2>1, <2>2 DEF Ascending
<1>5. Range(t) = Range(s) \cup {x}
  <2>1. \A y \in Range(t) : y \in Range(s) \cup {x}
    BY <1>1, <1>3 DEF Range
  <2>2. \A y \in Range(s) : y \in Range(t)
    <3>1. \A i \in DOMAIN s : i \in DOMAIN t
      BY <1>1
    <3> QED
      BY <1>1, <3>1 DEF Range
  <2>3. x \in Range(t)
    <3>1. Len(s) + 1 \in DOMAIN t
      BY <1>1
    <3> QED
      BY <1>1, <3>1 DEF Range
  <2> QED
    BY <2>1, <2>2, <2>3
<1> QED
  BY <1>4, <1>5 DEF t

LEMMA TailAscends ==
  ASSUME NEW s \in Seq(Nat), Ascending(s), s # <<>>
  PROVE  /\ Tail(s) \in Seq(Nat) /\ Ascending(Tail(s))
         /\ Head(s) \in Range(s) /\ Head(s) \in Nat
         /\ Range(Tail(s)) = Range(s) \ {Head(s)}
         /\ \A y \in Range(Tail(s)) : Head(s) < y
<1> DEFINE t == Tail(s)
<1>1. /\ DOMAIN s = 1..Len(s) /\ Len(s) \in Nat /\ Len(s) > 0 /\ 1 \in DOMAIN s
      /\ DOMAIN t = 1..(Len(s) - 1) /\ \A i \in DOMAIN t : t[i] = s[i + 1]
      /\ Head(s) = s[1] /\ t \in Seq(Nat)
  OBVIOUS
<1> HIDE DEF t
<1>2. \A i \in DOMAIN s : s[i] \in Nat
  OBVIOUS
<1>3. \A i \in DOMAIN t : i + 1 \in DOMAIN s /\ 1 < i + 1
  BY <1>1
<1>4. \A i \in DOMAIN s : i = 1 \/ (i - 1 \in DOMAIN t /\ (i - 1) + 1 = i)
  BY <1>1
<1>5. \A i \in DOMAIN t : s[1] < t[i]
  BY <1>1, <1>3 DEF Ascending
<1>6. Ascending(t)
  <2>1. SUFFICES ASSUME NEW i \in DOMAIN t, NEW j \in DOMAIN t, i < j
                 PROVE  t[i] < t[j]
    BY DEF Ascending
  <2>2. i + 1 < j + 1
    BY <1>1, <2>1
  <2> QED
    BY <1>1, <1>3, <2>2 DEF Ascending
<1>7. \A y \in Range(t) : s[1] < y /\ y \in Range(s) /\ y # s[1]
  <2>1. SUFFICES ASSUME NEW i \in DOMAIN t
                 PROVE  s[1] < t[i] /\ t[i] \in Range(s) /\ t[i] # s[1]
    BY DEF Range
  <2>2. s[1] < t[i] /\ t[i] \in Nat /\ s[1] \in Nat
    BY <1>1, <1>2, <1>3, <1>5
  <2>3. t[i] \in Range(s)
    BY <1>1, <1>3 DEF Range
  <2> QED
    BY <2>2, <2>3
<1>8. \A y \in Range(s) : y # s[1] => y \in Range(t)
  <2>1. SUFFICES ASSUME NEW i \in DOMAIN s, i # 1
                 PROVE  s[i] \in Range(t)
    BY DEF Range
  <2>2. i - 1 \in DOMAIN t /\ t[i - 1] = s[i]
    BY <1>1, <1>4, <2>1
  <2> QED
    BY <2>2 DEF Range
<1>9. s[1] \in Range(s)
  BY <1>1 DEF Range
<1>10. Range(t) = Range(s) \ {s[1]}
  BY <1>7, <1>8
<1> QED
  BY <1>1, <1>2, <1>6, <1>7, <1>9, <1>10 DEF t

----------------------------------------------------------------------------
(* What the invariant says of the wire. *)

LEMMA PacketTypes ==
  /\ \A ok : VerdictPacket(ok) \in Packet /\ VerdictPacket(ok).kind \in {"ok", "gap"}
             /\ (VerdictPacket(ok).kind = "gap" <=> ~ok)
  /\ \A seq \in Nat : EventPacket(seq) \in Packet
  /\ \A seq : EventPacket(seq).kind = "event" /\ EventPacket(seq).seq = seq
BY DEF VerdictPacket, EventPacket, Packet

LEMMA NumbersTyped ==
  ASSUME TypeOK
  PROVE  Numbers \in Seq(Nat) /\ DOMAIN Numbers = DOMAIN Written /\ Len(Numbers) = Len(Written)
         /\ Written \in Seq(Packet)
<1>1. wire \in Seq(Packet)
  BY DEF TypeOK
<1>2. Written \in Seq(Packet)
  BY <1>1 DEF Written
<1> HIDE DEF Written
<1>3. \A i \in DOMAIN Written : Written[i].seq \in Nat
  <2>1. \A i \in DOMAIN Written : Written[i] \in Packet
    BY <1>2
  <2>2. \A packet \in Packet : packet.seq \in Nat
    BY DEF Packet
  <2> QED
    BY <2>1, <2>2, Zenon
<1>4. DOMAIN Written = 1..Len(Written) /\ Len(Written) \in Nat
  BY <1>2
<1> QED
  BY <1>2, <1>3, <1>4 DEF Numbers

\* An event at the head of the wire is the first that is due.
LEMMA HeadEvent ==
  ASSUME IInv, wire # <<>>, Head(wire).kind = "event"
  PROVE  /\ conn.open /\ link = "up" /\ conn.key = key
         /\ Written = wire /\ Numbers # <<>> /\ Head(Numbers) = Head(wire).seq
         /\ Head(wire).seq \in Due /\ Head(wire).seq \in DOMAIN log
         /\ log[Head(wire).seq].key = key
         /\ \A seq \in Due : seq = Head(wire).seq \/ Head(wire).seq < seq
<1> USE DEF IInv
<1>1. conn.open /\ link = "up" /\ conn.key = key
  BY DEF Linked
<1>2. Written = wire
  BY DEF Written
<1>3. Numbers \in Seq(Nat) /\ DOMAIN Numbers = DOMAIN wire
  BY <1>2, NumbersTyped
<1>4. wire \in Seq(Packet)
  BY DEF TypeOK
<1>5. 1 \in DOMAIN wire /\ Numbers # <<>> /\ Head(Numbers) = Numbers[1] /\ Head(wire) = wire[1]
  BY <1>3, <1>4
<1>6. Numbers[1] = wire[1].seq
  BY <1>2, <1>5 DEF Numbers
<1>7. /\ Ascending(Numbers) /\ Before(Numbers, conn.todo) /\ Before(Numbers, conn.pending)
      /\ Range(Numbers) \cup Range(conn.todo) \cup Range(conn.pending) = Due
  BY <1>1 DEF Pipes
<1>8. /\ Head(Numbers) \in Range(Numbers)
      /\ Range(Tail(Numbers)) = Range(Numbers) \ {Head(Numbers)}
      /\ \A y \in Range(Tail(Numbers)) : Head(Numbers) < y
  <2> HIDE DEF Numbers
  <2> QED
    BY <1>3, <1>5, <1>7, TailAscends
<1>9. \A seq \in Due : seq = Head(Numbers) \/ Head(Numbers) < seq
  <2> HIDE DEF Due, Numbers
  <2> QED
    BY <1>7, <1>8 DEF Before
<1>10. Head(Numbers) \in Due
  BY <1>7, <1>8
<1>11. Head(Numbers) \in DOMAIN log /\ log[Head(Numbers)].key = key
  <2>1. handled \in Nat /\ log \in Seq(Event)
    BY DEF TypeOK
  <2> HIDE DEF Numbers
  <2> QED
    BY <1>1, <1>10, <2>1 DEF Due, ShouldSend
<1> QED
  BY <1>1, <1>2, <1>5, <1>6, <1>9, <1>10, <1>11

----------------------------------------------------------------------------
(* Types. *)

LEMMA TypeStep ==
  ASSUME IInv, Next
  PROVE  TypeOK'
<1> USE DEF hubVars, clientVars
<1>0. TypeOK
  BY DEF IInv
<1>1. CASE Subscribe
  <2> DEFINE id == IF cursor.key = key THEN cursor ELSE NoCursor
             ok == CanResume(id)
             due == {seq \in (id.seq + 1)..Len(log) : seq >= oldest /\ ShouldSend(key, seq)}
             replay == IF ok THEN Replay(key, id) ELSE <<>>
  <2>1. ok => id.seq \in Nat
    BY DEF CanResume
  <2>2. ok => due \in SUBSET (1..Len(log)) /\ Len(log) \in Nat
    BY <1>0, <2>1 DEF TypeOK
  <2>3. ok => Replay(key, id) \in Seq(due)
    <3> HIDE DEF ok, id
    <3> QED
      BY <2>2, InOrderIs DEF Replay
  <2>4. replay \in Seq(1..Len(log))
    <3>1. ok => Seq(due) \subseteq Seq(1..Len(log))
      <4> HIDE DEF due, ok
      <4> QED
        BY <2>2
    <3>2. <<>> \in Seq(1..Len(log))
      OBVIOUS
    <3> HIDE DEF ok, due, id
    <3> QED
      BY <2>3, <3>1, <3>2, Zenon
  <2>5. /\ conn' = [open |-> TRUE, key |-> key, direct |-> replay = <<>>, todo |-> replay, pending |-> <<>>]
        /\ wire' = <<VerdictPacket(ok)>>
        /\ handled' = IF ok THEN id.seq ELSE Len(log)
        /\ link' = "up"
    BY <1>1, Zenon DEF Subscribe
  <2>6. (replay = <<>>) \in BOOLEAN
    OBVIOUS
  <2>7. handled' \in Nat
    BY <1>0, <2>1, <2>5 DEF TypeOK
  <2> HIDE DEF replay, ok, id
  <2>8. conn' \in [open: BOOLEAN, key: Key \cup {None}, direct: BOOLEAN, todo: Seq(1..Len(log)), pending: Seq(1..Len(log))]
    BY <1>0, <2>4, <2>5, <2>6 DEF TypeOK
  <2>9. wire' \in Seq(Packet)
    BY <2>5, PacketTypes
  <2> QED
    BY <1>0, <1>1, <2>5, <2>7, <2>8, <2>9 DEF TypeOK, Subscribe
<1>2. CASE Write
  <2>1. Head(conn.todo) \in Nat /\ Tail(conn.todo) \in Seq(1..Len(log))
    BY <1>0, <1>2 DEF TypeOK, Write
  <2>2. wire' \in Seq(Packet)
    BY <1>0, <1>2, <2>1, PacketTypes DEF TypeOK, Write
  <2>3. conn' \in [open: BOOLEAN, key: Key \cup {None}, direct: BOOLEAN, todo: Seq(1..Len(log)), pending: Seq(1..Len(log))]
    BY <1>0, <1>2, <2>1 DEF TypeOK, Write
  <2> QED
    BY <1>0, <1>2, <2>2, <2>3 DEF TypeOK, Write
<1>3. CASE DrainPending
  <2>1. conn' \in [open: BOOLEAN, key: Key \cup {None}, direct: BOOLEAN, todo: Seq(1..Len(log)), pending: Seq(1..Len(log))]
    BY <1>0, <1>3 DEF TypeOK, DrainPending
  <2> QED
    BY <1>0, <1>3, <2>1 DEF TypeOK, DrainPending
<1>4. CASE Restart
  <2>1. /\ conn' \in [open: BOOLEAN, key: Key \cup {None}, direct: BOOLEAN, todo: Seq(1..Len(log')), pending: Seq(1..Len(log'))]
        /\ wire' \in Seq(Packet) /\ log' \in Seq(Event)
    BY <1>4 DEF Restart, Closed
  <2>2. oldest' \in 1..(Len(log') + 1) /\ Len(log') - oldest' < Capacity
    BY <1>4, CapacityAssumption DEF Restart
  <2>3. cuts' \in 0..MaxCuts
    BY <1>0, <1>4, BoundsAssumption DEF TypeOK, Restart
  <2> QED
    BY <1>0, <1>4, <2>1, <2>2, <2>3 DEF TypeOK, Restart
<1>5. CASE HandleVerdict
  <2>1. wire' \in Seq(Packet)
    BY <1>0, <1>5 DEF TypeOK, HandleVerdict
  <2>2. /\ fetch' \in [Key -> {Idle, Sent} \cup [state: {"answered"}, value: [Part -> Nat]]]
        /\ excused' \in [Key -> SUBSET {"overtaken", "cleared"}]
    BY <1>0, <1>5 DEF TypeOK, HandleVerdict, Refetch
  <2> QED
    BY <1>0, <1>5, <2>1, <2>2 DEF TypeOK, HandleVerdict
<1>6. CASE HandleEvent
  <2> DEFINE seq == Head(wire).seq
             event == log[seq]
  <2>1. wire # <<>> /\ Head(wire).kind = "event"
    BY <1>6 DEF HandleEvent
  <2>2. seq \in DOMAIN log /\ event.key = key
    BY <2>1, HeadEvent
  <2>3. event.value \in Nat /\ event.part \in Part /\ seq \in Nat
    <3>1. log \in Seq(Event)
      BY <1>0 DEF TypeOK
    <3>2. log[seq] \in Event /\ seq \in Nat
      BY <2>2, <3>1
    <3>3. \A e \in Event : e.value \in Nat /\ e.part \in Part
      BY DEF Event
    <3> QED
      BY <3>2, <3>3, Zenon
  <2>4. wire' \in Seq(Packet)
    BY <1>0, <1>6 DEF TypeOK, HandleEvent
  <2> HIDE DEF event
  <2>5. cache' \in [Key -> [Part -> Nat]] /\ excused' \in [Key -> SUBSET {"overtaken", "cleared"}] /\ dirty' \in BOOLEAN
    <3>1. CASE event.part = "patched"
      <4>1. /\ cache' = [cache EXCEPT ![key].patched = IF event.value > @ THEN event.value ELSE @]
            /\ excused' \in {excused, [excused EXCEPT ![key] = @ \cup {"overtaken"}]}
            /\ dirty' = dirty
        BY <1>6, <3>1 DEF HandleEvent, event
      <4>2. cache \in [Key -> [Part -> Nat]] /\ key \in Key /\ excused \in [Key -> SUBSET {"overtaken", "cleared"}]
            /\ dirty \in BOOLEAN
        BY <1>0 DEF TypeOK
      <4>3. cache' \in [Key -> [Part -> Nat]]
        BY <2>3, <4>1, <4>2 DEF Part
      <4> QED
        BY <4>1, <4>2, <4>3
    <3>2. CASE event.part # "patched"
      BY <1>0, <1>6, <3>2 DEF TypeOK, HandleEvent, event
    <3> QED
      BY <3>1, <3>2
  <2>6. cursor' \in [key: Key \cup {None}, epoch: Nat, seq: Nat] /\ handled' \in Nat
    BY <1>0, <1>6, <2>3 DEF TypeOK, HandleEvent
  <2> QED
    BY <1>0, <1>6, <2>4, <2>5, <2>6 DEF TypeOK, HandleEvent
<1>7. CASE Flush
  <2>2. /\ fetch' \in [Key -> {Idle, Sent} \cup [state: {"answered"}, value: [Part -> Nat]]]
        /\ excused' \in [Key -> SUBSET {"overtaken", "cleared"}]
    BY <1>0, <1>7 DEF TypeOK, Flush, Refetch
  <2> QED
    BY <1>0, <1>7, <2>2 DEF TypeOK, Flush
<1>8. CASE Cut
  <2>1. conn' \in [open: BOOLEAN, key: Key \cup {None}, direct: BOOLEAN, todo: Seq(1..Len(log)), pending: Seq(1..Len(log))]
    BY <1>8 DEF Cut, Closed
  <2>2. cuts' \in 0..MaxCuts
    BY <1>0, <1>8, BoundsAssumption DEF TypeOK, Cut
  <2> QED
    BY <1>0, <1>8, <2>1, <2>2 DEF TypeOK, Cut
<1>9. CASE Reconnect
  <2>1. excused' \in [Key -> SUBSET {"overtaken", "cleared"}] /\ dirty' \in BOOLEAN
    BY <1>0, <1>9 DEF TypeOK, Reconnect, Cleanup
  <2> QED
    BY <1>0, <1>9, <2>1 DEF TypeOK, Reconnect
<1>10. ASSUME NEW k \in Key, Answer(k)
       PROVE  TypeOK'
  <2>1. fetch' \in [Key -> {Idle, Sent} \cup [state: {"answered"}, value: [Part -> Nat]]]
    BY <1>0, <1>10 DEF TypeOK, Answer, Answered
  <2> QED
    BY <1>0, <1>10, <2>1 DEF TypeOK, Answer
<1>11. ASSUME NEW k \in Key, Apply(k)
       PROVE  TypeOK'
  <2>1. fetch[k] \in [state: {"answered"}, value: [Part -> Nat]]
    BY SMTT(30), <1>0, <1>11 DEF TypeOK, Apply, Idle, Sent
  <2>2. /\ fetch' \in [Key -> {Idle, Sent} \cup [state: {"answered"}, value: [Part -> Nat]]]
        /\ cache' \in [Key -> [Part -> Nat]]
    BY <1>0, <1>11, <2>1 DEF TypeOK, Apply
  <2> QED
    BY <1>0, <1>11, <2>2 DEF TypeOK, Apply
<1>12. ASSUME NEW k \in Key, Resubscribe(k)
       PROVE  TypeOK'
  <2>1. conn' \in [open: BOOLEAN, key: Key \cup {None}, direct: BOOLEAN, todo: Seq(1..Len(log)), pending: Seq(1..Len(log))]
    BY <1>12 DEF Resubscribe, Closed
  <2>2. cuts' \in 0..MaxCuts
    BY <1>0, <1>12, BoundsAssumption DEF TypeOK, Resubscribe
  <2>3. excused' \in [Key -> SUBSET {"overtaken", "cleared"}] /\ dirty' \in BOOLEAN
    BY <1>0, <1>12 DEF TypeOK, Resubscribe, Cleanup
  <2> QED
    BY <1>0, <1>12, <2>1, <2>2, <2>3 DEF TypeOK, Resubscribe
<1>13. ASSUME NEW k \in Key, NEW part \in Part, Broadcast(k, part)
       PROVE  TypeOK'
  <2> DEFINE e == [key |-> k, part |-> part, value |-> truth[k][part] + 1]
             n == Len(log) + 1
  <2>1. truth \in [Key -> [Part -> Nat]] /\ log \in Seq(Event) /\ Len(log) \in Nat
    BY SMTT(30), <1>0 DEF TypeOK
  <2>2. truth' = [truth EXCEPT ![k][part] = @ + 1]
    BY <1>13 DEF Broadcast
  <2>3. truth' \in [Key -> [Part -> Nat]]
    BY <2>1, <2>2
  <2>4. e \in Event
    BY <2>1 DEF Event
  <2>5. log' = Append(log, e)
    BY <1>13 DEF Broadcast
  <2> HIDE DEF e
  <2>6. log' \in Seq(Event) /\ Len(log') = n
    BY <2>1, <2>4, <2>5
  <2>7. oldest' \in 1..(Len(log') + 1) /\ Len(log') - oldest' < Capacity
    <3>1. oldest' \in oldest..n /\ n - oldest' < Capacity
      BY <1>13 DEF Broadcast, Oldest
    <3> QED
      BY <1>0, <2>1, <2>6, <3>1 DEF TypeOK
  <2>8. conn' \in [open: BOOLEAN, key: Key \cup {None}, direct: BOOLEAN, todo: Seq(1..n), pending: Seq(1..n)]
    <3>1. conn' = [conn EXCEPT !.pending = Append(@, n)] \/ conn' = conn
      BY <1>13 DEF Broadcast
    <3>2. Seq(1..Len(log)) \subseteq Seq(1..n) /\ n \in 1..n
      BY <2>1
    <3>3. conn \in [open: BOOLEAN, key: Key \cup {None}, direct: BOOLEAN, todo: Seq(1..n), pending: Seq(1..n)]
      BY <1>0, <3>2 DEF TypeOK
    <3> HIDE DEF n
    <3>4. Append(conn.pending, n) \in Seq(1..n)
      BY <3>2, <3>3
    <3> QED
      BY <3>1, <3>3, <3>4
  <2>9. wire' \in Seq(Packet)
    <3>1. wire' = Append(wire, EventPacket(n)) \/ wire' = wire
      BY <1>13 DEF Broadcast
    <3>2. wire \in Seq(Packet)
      BY <1>0 DEF TypeOK
    <3>3. EventPacket(n) \in Packet
      BY <2>1, PacketTypes
    <3> QED
      BY <3>1, <3>2, <3>3
  <2>10. UNCHANGED <<epoch, key, link, cursor, cache, dirty, fetch, cuts, handled, excused>>
    BY <1>13 DEF Broadcast
  <2> QED
    BY <1>0, <2>3, <2>6, <2>7, <2>8, <2>9, <2>10 DEF TypeOK
<1> QED
  BY <1>1, <1>2, <1>3, <1>4, <1>5, <1>6, <1>7, <1>8, <1>9, <1>10, <1>11, <1>12, <1>13 DEF Next

----------------------------------------------------------------------------
(* The connection. *)

LEMMA LinkedStep ==
  ASSUME IInv, Next
  PROVE  Linked'
<1> USE DEF hubVars, clientVars
<1>0. TypeOK /\ Linked
  BY DEF IInv
<1>1. CASE Subscribe
  <2>1. /\ conn'.open = TRUE /\ conn'.key = key /\ key' = key /\ link' = "up" /\ dirty' = dirty
        /\ \E packet \in Packet : wire' = <<packet>>
    BY <1>1, PacketTypes DEF Subscribe
  <2> QED
    BY <2>1 DEF Linked
<1>2. CASE Write
  <2>1. conn.todo # <<>> /\ conn.open
    BY <1>0, <1>2 DEF Linked, Write, Closed
  <2>2. conn'.open = conn.open /\ conn'.key = conn.key
    BY <1>0, <1>2 DEF Write, TypeOK
  <2>3. wire' = Append(wire, EventPacket(Head(conn.todo))) /\ wire \in Seq(Packet)
    BY <1>0, <1>2 DEF Write, TypeOK
  <2>4. \A i \in DOMAIN wire' : (i \in DOMAIN wire /\ wire'[i] = wire[i]) \/ wire'[i].kind = "event"
    BY <2>3, PacketTypes
  <2> QED
    BY <1>0, <1>2, <2>1, <2>2, <2>4 DEF Linked, Write
<1>3. CASE DrainPending
  <2>2. conn'.open = conn.open /\ conn'.key = conn.key /\ conn.open
    BY <1>0, <1>3 DEF DrainPending, TypeOK
  <2> QED
    BY <1>0, <1>3, <2>2 DEF Linked, DrainPending
<1>4. CASE Restart
  BY <1>0, <1>4 DEF Linked, Restart, Closed, TypeOK
<1>5. CASE HandleVerdict
  <2>1. wire' = Tail(wire) /\ wire # <<>> /\ wire \in Seq(Packet)
    BY <1>0, <1>5 DEF HandleVerdict, TypeOK
  <2>2. \A i \in DOMAIN wire' : i + 1 \in DOMAIN wire /\ wire'[i] = wire[i + 1] /\ i + 1 > 1
    BY <2>1
  <2>3. \A i \in DOMAIN wire' : wire'[i].kind = "event"
    BY <1>0, <2>2 DEF Linked
  <2> QED
    BY <1>0, <1>5, <2>1, <2>3 DEF Linked, HandleVerdict
<1>6. CASE HandleEvent
  <2>1. wire' = Tail(wire) /\ wire # <<>> /\ wire \in Seq(Packet)
    BY <1>0, <1>6 DEF HandleEvent, TypeOK
  <2>2. \A i \in DOMAIN wire' : i + 1 \in DOMAIN wire /\ wire'[i] = wire[i + 1] /\ i + 1 > 1
    BY <2>1
  <2>3. \A i \in DOMAIN wire' : wire'[i].kind = "event"
    BY <1>0, <2>2 DEF Linked
  <2>4. conn.open /\ link = "up"
    BY <1>0, <2>1 DEF Linked
  <2>5. conn' = conn /\ link' = link /\ key' = key
    BY <1>6 DEF HandleEvent
  <2> QED
    BY <1>0, <2>3, <2>4, <2>5 DEF Linked
<1>7. CASE Flush
  BY <1>0, <1>7 DEF Linked, Flush
<1>8. CASE Cut
  BY <1>0, <1>8 DEF Linked, Cut, Closed
<1>9. CASE Reconnect
  BY <1>0, <1>9 DEF Linked, Reconnect, Cleanup
<1>10. ASSUME NEW k \in Key, Answer(k)
       PROVE  Linked'
  BY <1>0, <1>10 DEF Linked, Answer
<1>11. ASSUME NEW k \in Key, Apply(k)
       PROVE  Linked'
  BY <1>0, <1>11 DEF Linked, Apply
<1>12. ASSUME NEW k \in Key, Resubscribe(k)
       PROVE  Linked'
  BY <1>0, <1>12 DEF Linked, Resubscribe, Closed, Cleanup
<1>13. ASSUME NEW k \in Key, NEW part \in Part, Broadcast(k, part)
       PROVE  Linked'
  <2>1. /\ UNCHANGED <<key, link, dirty>>
        /\ conn' = [conn EXCEPT !.pending = Append(@, Len(log) + 1)] \/ conn' = conn
        /\ wire' = wire \/ (conn.open /\ conn' = conn /\ wire' = Append(wire, EventPacket(Len(log) + 1)))
    BY <1>13 DEF Broadcast
  <2>2. conn'.open = conn.open /\ conn'.key = conn.key
    BY <1>0, <2>1 DEF TypeOK
  <2>3. ~conn.open => conn' = conn /\ wire' = wire
    BY <1>13 DEF Broadcast
  <2>4. wire \in Seq(Packet)
    BY <1>0 DEF TypeOK
  <2>5. \A i \in DOMAIN wire' : (i \in DOMAIN wire /\ wire'[i] = wire[i]) \/ wire'[i].kind = "event"
    BY <2>1, <2>4, PacketTypes
  <2> QED
    BY <1>0, <2>1, <2>2, <2>3, <2>5 DEF Linked
<1> QED
  BY <1>1, <1>2, <1>3, <1>4, <1>5, <1>6, <1>7, <1>8, <1>9, <1>10, <1>11, <1>12, <1>13 DEF Next

\* Sequences with the same elements at the same places are the same.
LEMMA SameSequence ==
  ASSUME NEW s \in Seq(Nat), NEW t, t = [i \in DOMAIN t |-> t[i]], DOMAIN s = DOMAIN t,
         \A i \in DOMAIN s : s[i] = t[i]
  PROVE  s = t
<1>1. s \in [1..Len(s) -> Nat] /\ DOMAIN s = 1..Len(s)
  OBVIOUS
<1>2. s = [i \in DOMAIN s |-> s[i]]
  BY <1>1
<1> QED
  BY <1>2

\* The numbers on the wire when a packet is added behind, or the first one handled.
LEMMA NumbersGrow ==
  ASSUME IInv, NEW seq \in Nat, wire' = Append(wire, EventPacket(seq))
  PROVE  Numbers' = Append(Numbers, seq)
<1>0. EventPacket(seq) \in Packet
  BY PacketTypes
<1>1. wire \in Seq(Packet) /\ wire' \in Seq(Packet) /\ wire' # <<>>
  <2>1. wire \in Seq(Packet)
    BY DEF IInv, TypeOK
  <2> QED
    BY <1>0, <2>1
<1>2. Written' = Append(Written, EventPacket(seq))
  <2>1. CASE wire = <<>>
    <3>1. Head(wire') = EventPacket(seq)
      BY <2>1
    <3>2. Head(wire').kind = "event"
      BY <3>1, PacketTypes
    <3> QED
      BY <2>1, <3>2 DEF Written
  <2>2. CASE wire # <<>>
    <3>1. Head(wire') = Head(wire) /\ Tail(wire') = Append(Tail(wire), EventPacket(seq))
      BY <1>1, <2>2, PacketTypes
    <3> QED
      BY <1>1, <2>2, <3>1 DEF Written
  <2> QED
    BY <2>1, <2>2
<1>3. Written \in Seq(Packet) /\ Numbers \in Seq(Nat) /\ DOMAIN Numbers = DOMAIN Written /\ Len(Numbers) = Len(Written)
  BY NumbersTyped DEF IInv
<1> DEFINE w == Written
           v == Written'
<1>4. /\ DOMAIN v = 1..(Len(w) + 1) /\ DOMAIN w = 1..Len(w) /\ Len(w) \in Nat
      /\ v[Len(w) + 1] = EventPacket(seq) /\ \A i \in DOMAIN w : v[i] = w[i]
  BY <1>2, <1>3, PacketTypes
<1>5. /\ DOMAIN Numbers' = DOMAIN v /\ \A i \in DOMAIN v : Numbers'[i] = v[i].seq
      /\ Numbers' = [i \in DOMAIN v |-> v[i].seq]
  BY DEF Numbers
<1>6. \A i \in DOMAIN w : Numbers[i] = w[i].seq
  BY DEF Numbers
<1> DEFINE a == Append(Numbers, seq)
<1>7. DOMAIN a = 1..(Len(w) + 1) /\ a[Len(w) + 1] = seq /\ \A i \in DOMAIN w : a[i] = Numbers[i]
  <2> HIDE DEF Numbers
  <2> QED
    BY <1>3, <1>4
<1>8. a \in Seq(Nat)
  <2> HIDE DEF Numbers
  <2> QED
    BY <1>3
<1> HIDE DEF a, w, v, Numbers
<1>9. \A i \in 1..(Len(w) + 1) : i \in DOMAIN w \/ i = Len(w) + 1
  BY <1>4
<1>10. \A i \in DOMAIN v : v[i].seq = a[i]
  BY <1>4, <1>6, <1>7, <1>9, PacketTypes
<1>11. a = Numbers'
  <2> DEFINE t == Numbers'
  <2>1. t = [i \in DOMAIN t |-> t[i]] /\ DOMAIN a = DOMAIN t /\ \A i \in DOMAIN a : a[i] = t[i]
    BY <1>4, <1>5, <1>7, <1>10
  <2> HIDE DEF t
  <2>2. a = t
    BY <1>8, <2>1, SameSequence
  <2> QED
    BY <2>2 DEF t
<1> QED
  BY <1>11 DEF a

LEMMA NumbersShrink ==
  ASSUME IInv, wire # <<>>, wire' = Tail(wire)
  PROVE  Numbers' = IF Head(wire).kind = "event" THEN Tail(Numbers) ELSE Numbers
<1>1. wire \in Seq(Packet) /\ wire' \in Seq(Packet)
  BY DEF IInv, TypeOK
<1>2. \A i \in DOMAIN wire' : i + 1 \in DOMAIN wire /\ wire'[i] = wire[i + 1] /\ i + 1 > 1
  BY <1>1
<1>3. \A i \in DOMAIN wire' : wire'[i].kind = "event"
  BY <1>2 DEF IInv, Linked
<1>4. Written' = wire'
  <2>1. wire' # <<>> => Head(wire').kind = "event"
    <3>1. wire' # <<>> => 1 \in DOMAIN wire' /\ Head(wire') = wire'[1]
      BY <1>1
    <3> QED
      BY <1>3, <3>1
  <2> QED
    BY <2>1 DEF Written
<1>5. Numbers' = [i \in DOMAIN wire' |-> wire'[i].seq]
  BY <1>4 DEF Numbers
<1>6. CASE Head(wire).kind = "event"
  <2>1. Written = wire
    BY <1>6 DEF Written
  <2>2. Numbers = [i \in DOMAIN wire |-> wire[i].seq] /\ Numbers \in Seq(Nat) /\ Len(Numbers) = Len(wire)
    BY <2>1, NumbersTyped DEF Numbers, IInv
  <2> DEFINE n == Numbers
             m == Numbers'
  <2>3. n # <<>> /\ n \in Seq(Nat) /\ Len(n) = Len(wire) /\ \A i \in DOMAIN wire : n[i] = wire[i].seq
    BY <1>1, <2>2
  <2>4. DOMAIN m = DOMAIN wire' /\ (\A i \in DOMAIN wire' : m[i] = wire'[i].seq) /\ m = [i \in DOMAIN m |-> m[i]]
    BY <1>5
  <2> HIDE DEF n, m
  <2>5. DOMAIN wire' = 1..(Len(wire) - 1) /\ DOMAIN Tail(n) = 1..(Len(wire) - 1)
    BY <1>1, <2>3
  <2>6. \A i \in DOMAIN wire' : Tail(n)[i] = m[i]
    BY <1>1, <1>2, <2>3, <2>4, <2>5
  <2>7. Tail(n) \in Seq(Nat)
    BY <2>3
  <2> DEFINE u == Tail(n)
  <2>8. u \in Seq(Nat) /\ DOMAIN u = DOMAIN m /\ \A i \in DOMAIN u : u[i] = m[i]
    BY <2>4, <2>5, <2>6, <2>7
  <2> HIDE DEF u
  <2>9. u = m
    BY <2>4, <2>8, SameSequence
  <2> QED
    BY <1>6, <2>9 DEF n, m, u
<1>7. CASE Head(wire).kind # "event"
  <2>1. Written = Tail(wire)
    BY <1>7 DEF Written
  <2> QED
    BY <1>5, <1>7, <2>1 DEF Numbers
<1> QED
  BY <1>6, <1>7

\* The pipeline: what is broadcast joins its end, what is written moves along, what is handled leaves
\* it at the front.
LEMMA PipesKept ==
  ASSUME IInv, UNCHANGED <<wire, conn, handled, log>>
  PROVE  Pipes'
<1>1. Pipes
  BY DEF IInv
<1>2. Numbers' = Numbers
  BY DEF Numbers, Written
<1>3. Due' = Due
  BY DEF Due, ShouldSend
<1> HIDE DEF Numbers, Due
<1> QED
  BY <1>1, <1>2, <1>3 DEF Pipes, Before, Ascending

LEMMA PipesSubscribe ==
  ASSUME IInv, Subscribe
  PROVE  Pipes'
<1> DEFINE id == IF cursor.key = key THEN cursor ELSE NoCursor
           ok == CanResume(id)
           due == {seq \in (id.seq + 1)..Len(log) : seq >= oldest /\ ShouldSend(key, seq)}
           replay == IF ok THEN Replay(key, id) ELSE <<>>
<1>0. TypeOK
  BY DEF IInv
<1>1. /\ conn' = [open |-> TRUE, key |-> key, direct |-> replay = <<>>, todo |-> replay, pending |-> <<>>]
      /\ wire' = <<VerdictPacket(ok)>>
      /\ handled' = IF ok THEN id.seq ELSE Len(log)
      /\ log' = log
  BY Zenon DEF Subscribe
<1>2. Numbers' = <<>>
  <2> DEFINE packet == VerdictPacket(ok)
  <2>1. packet \in Packet /\ packet.kind # "event"
    BY PacketTypes
  <2> HIDE DEF packet, ok
  <2>2. wire' # <<>> /\ Head(wire') = packet /\ Tail(wire') = <<>>
    BY <1>1, <2>1 DEF packet
  <2>3. Written' = <<>>
    BY <2>1, <2>2 DEF Written
  <2> QED
    BY <2>3 DEF Numbers
<1>3. Due' = {seq \in (handled' + 1)..Len(log) : ShouldSend(key, seq)}
  BY <1>1 DEF Due, ShouldSend
<1>4. Len(log) \in Nat /\ oldest \in Nat
  BY <1>0 DEF TypeOK
<1>5. Ascending(replay) /\ Range(replay) = Due'
  <2>1. CASE ok
    <3>1. id.seq \in 1..Len(log) /\ id.seq >= oldest - 1
      BY <2>1 DEF CanResume
    <3>2. due \in SUBSET (1..Len(log))
      BY <1>4, <3>1
    <3>3. Ascending(Replay(key, id)) /\ Range(Replay(key, id)) = due
      <4> HIDE DEF id
      <4> QED
        BY <1>4, <3>2, InOrderIs DEF Replay
    <3>4. \A seq \in (id.seq + 1)..Len(log) : seq >= oldest
      BY <1>4, <3>1
    <3>5. handled' = id.seq
      BY <1>1, <2>1
    <3> HIDE DEF ok, id
    <3>6. due = Due'
      BY <1>3, <3>4, <3>5
    <3>7. replay = Replay(key, id)
      BY <2>1
    <3> QED
      BY <3>3, <3>6, <3>7
  <2>2. CASE ~ok
    <3>1. replay = <<>> /\ handled' = Len(log)
      BY <1>1, <2>2
    <3> HIDE DEF replay
    <3>2. (Len(log) + 1)..Len(log) = {}
      BY <1>4
    <3>3. Due' = {}
      BY <1>3, <3>1, <3>2, Zenon
    <3> QED
      BY <3>1, <3>3 DEF Ascending, Range
  <2> QED
    BY <2>1, <2>2
<1>6. conn'.todo = replay /\ conn'.pending = <<>> /\ (conn'.direct <=> replay = <<>>)
  BY <1>1
<1> HIDE DEF Numbers, Due, replay
<1>7. Ascending(<<>>) /\ Range(<<>>) = {}
  BY DEF Ascending, Range
<1>8. Before(<<>>, <<>>) /\ Before(<<>>, replay) /\ Before(replay, <<>>)
  BY <1>7 DEF Before
<1>9. /\ Ascending(Numbers') /\ Ascending(conn'.todo) /\ Ascending(conn'.pending)
      /\ Before(Numbers', conn'.todo) /\ Before(Numbers', conn'.pending) /\ Before(conn'.todo, conn'.pending)
      /\ Range(Numbers') \cup Range(conn'.todo) \cup Range(conn'.pending) = Due'
  <2> HIDE DEF Before, Ascending, Range
  <2> QED
    BY <1>2, <1>5, <1>6, <1>7, <1>8
<1> QED
  BY <1>6, <1>9 DEF Pipes, Ascending, Before

LEMMA PipesWrite ==
  ASSUME IInv, Write
  PROVE  Pipes'
<1> DEFINE h == Head(conn.todo)
<1>0. TypeOK /\ Linked
  BY DEF IInv
<1>1. conn.open /\ conn.todo # <<>>
  BY <1>0 DEF Linked, Write, Closed
<1>2. /\ Ascending(Numbers) /\ Ascending(conn.todo) /\ Ascending(conn.pending)
      /\ Before(Numbers, conn.todo) /\ Before(Numbers, conn.pending) /\ Before(conn.todo, conn.pending)
      /\ Range(Numbers) \cup Range(conn.todo) \cup Range(conn.pending) = Due
      /\ ~conn.direct
  BY <1>1 DEF IInv, Pipes
<1>3. conn.todo \in Seq(Nat)
  <2>1. conn.todo \in Seq(1..Len(log)) /\ Len(log) \in Nat
    BY <1>0 DEF TypeOK
  <2> QED
    BY <2>1
<1>4. /\ Ascending(Tail(conn.todo)) /\ h \in Range(conn.todo) /\ h \in Nat
      /\ Range(Tail(conn.todo)) = Range(conn.todo) \ {h}
      /\ \A y \in Range(Tail(conn.todo)) : h < y
  BY <1>1, <1>2, <1>3, TailAscends
<1>5. Numbers \in Seq(Nat)
  BY <1>0, NumbersTyped
<1>6. Numbers' = Append(Numbers, h)
  BY <1>4, NumbersGrow DEF Write
<1>7. Ascending(Numbers') /\ Range(Numbers') = Range(Numbers) \cup {h}
  <2> HIDE DEF Numbers
  <2>1. \A y \in Range(Numbers) : y < h
    BY <1>2, <1>4 DEF Before
  <2>2. Ascending(Append(Numbers, h)) /\ Range(Append(Numbers, h)) = Range(Numbers) \cup {h}
    BY <1>2, <1>4, <1>5, <2>1, AppendAscends
  <2> QED
    BY <1>6, <2>2 DEF Ascending
<1>8. conn'.todo = Tail(conn.todo) /\ conn'.pending = conn.pending /\ ~conn'.direct /\ conn'.key = conn.key
  BY <1>0, <1>2 DEF Write, TypeOK
<1>9. Due' = Due
  BY <1>8 DEF Due, ShouldSend, Write
<1> HIDE DEF h, Numbers, Due
<1>10. /\ Before(Numbers', conn'.todo) /\ Before(Numbers', conn'.pending) /\ Before(conn'.todo, conn'.pending)
  BY <1>2, <1>4, <1>7, <1>8 DEF Before
<1>11. Range(Numbers') \cup Range(conn'.todo) \cup Range(conn'.pending) = Due'
  <2> HIDE DEF Range
  <2> QED
    BY <1>2, <1>4, <1>7, <1>8, <1>9
<1>12. Ascending(Numbers') /\ Ascending(conn'.todo) /\ Ascending(conn'.pending)
  BY <1>2, <1>4, <1>7, <1>8
<1> QED
  BY <1>8, <1>10, <1>11, <1>12 DEF Pipes, Ascending, Before

LEMMA PipesDrain ==
  ASSUME IInv, DrainPending
  PROVE  Pipes'
<1>0. TypeOK /\ conn.open /\ conn.todo = <<>>
  BY DEF IInv, DrainPending
<1>2. /\ Ascending(Numbers) /\ Ascending(conn.todo) /\ Ascending(conn.pending)
      /\ Before(Numbers, conn.todo) /\ Before(Numbers, conn.pending) /\ Before(conn.todo, conn.pending)
      /\ Range(Numbers) \cup Range(conn.todo) \cup Range(conn.pending) = Due
  BY <1>0 DEF IInv, Pipes
<1>3. Numbers' = Numbers
  BY DEF Numbers, Written, DrainPending
<1>4. \/ conn'.todo = <<>> /\ conn'.pending = conn.pending /\ conn.pending = <<>>
      \/ conn'.todo = conn.pending /\ conn'.pending = <<>> /\ ~conn'.direct
  BY <1>0 DEF DrainPending, TypeOK
<1>5. conn'.key = conn.key
  BY <1>0 DEF DrainPending, TypeOK
<1>6. Due' = Due
  BY <1>5 DEF Due, ShouldSend, DrainPending
<1>7. Ascending(<<>>) /\ Range(<<>>) = {}
  BY DEF Ascending, Range
<1> HIDE DEF Numbers, Due
<1>8. \A s : Before(<<>>, s) /\ Before(s, <<>>)
  BY <1>7 DEF Before
<1>9. /\ Ascending(Numbers') /\ Ascending(conn'.todo) /\ Ascending(conn'.pending)
      /\ Before(Numbers', conn'.todo) /\ Before(Numbers', conn'.pending) /\ Before(conn'.todo, conn'.pending)
      /\ Range(Numbers') \cup Range(conn'.todo) \cup Range(conn'.pending) = Due'
  <2> HIDE DEF Before, Ascending, Range
  <2> QED
    BY <1>0, <1>2, <1>3, <1>4, <1>6, <1>7, <1>8
<1> QED
  BY <1>4, <1>9 DEF Pipes, Ascending, Before

LEMMA PipesHandled ==
  ASSUME IInv, HandleEvent
  PROVE  Pipes'
<1> DEFINE seq == Head(wire).seq
<1>0. TypeOK /\ wire # <<>> /\ Head(wire).kind = "event" /\ wire' = Tail(wire) /\ handled' = seq
      /\ conn' = conn /\ log' = log
  BY DEF IInv, HandleEvent, hubVars
<1>1. /\ conn.open /\ Numbers # <<>> /\ Head(Numbers) = seq /\ seq \in Due
      /\ \A n \in Due : n = seq \/ seq < n
  BY <1>0, HeadEvent
<1>2. /\ Ascending(Numbers) /\ Ascending(conn.todo) /\ Ascending(conn.pending)
      /\ Before(Numbers, conn.todo) /\ Before(Numbers, conn.pending) /\ Before(conn.todo, conn.pending)
      /\ Range(Numbers) \cup Range(conn.todo) \cup Range(conn.pending) = Due
      /\ conn.direct => conn.todo = <<>> /\ conn.pending = <<>>
  BY <1>1 DEF IInv, Pipes
<1>3. Numbers \in Seq(Nat)
  BY <1>0, NumbersTyped
<1>4. Numbers' = Tail(Numbers)
  BY <1>0, NumbersShrink
<1>5. /\ Ascending(Tail(Numbers)) /\ seq \in Range(Numbers) /\ seq \in Nat
      /\ Range(Tail(Numbers)) = Range(Numbers) \ {seq}
  <2> HIDE DEF Numbers
  <2> QED
    BY <1>1, <1>2, <1>3, TailAscends
<1>6. Due' = Due \ {seq}
  <2>1. handled \in Nat /\ Len(log) \in Nat
    BY <1>0 DEF TypeOK
  <2>2. handled + 1 <= seq
    BY <1>1, <1>5, <2>1 DEF Due
  <2>3. \A n \in (seq + 1)..Len(log) : n \in (handled + 1)..Len(log) /\ n # seq
    BY <1>5, <2>1, <2>2
  <2>4. \A n \in Due : n # seq => n \in (seq + 1)..Len(log)
    <3>1. \A n \in Due : n \in Nat /\ n <= Len(log)
      BY <2>1 DEF Due
    <3> HIDE DEF Due
    <3> QED
      BY <1>1, <1>5, <2>1, <3>1
  <2>5. Due' = {n \in (seq + 1)..Len(log) : ShouldSend(conn.key, n)}
    BY <1>0 DEF Due, ShouldSend
  <2>6. \A n : n \in Due <=> n \in (handled + 1)..Len(log) /\ ShouldSend(conn.key, n)
    BY DEF Due
  <2> HIDE DEF Due, ShouldSend, seq
  <2> QED
    BY <2>3, <2>4, <2>5, <2>6, Zenon
<1>7. \A y \in Range(conn.todo) \cup Range(conn.pending) : y # seq
  <2>1. \A y \in Range(conn.todo) \cup Range(conn.pending) : seq < y
    BY <1>2, <1>5 DEF Before
  <2> QED
    BY <1>5, <2>1
<1> HIDE DEF seq, Numbers, Due
<1>8. Ascending(Numbers') /\ Range(Numbers') = Range(Numbers) \ {seq}
  BY <1>4, <1>5
<1>9. Before(Numbers', conn'.todo) /\ Before(Numbers', conn'.pending) /\ Before(conn'.todo, conn'.pending)
  BY <1>0, <1>2, <1>8 DEF Before
<1>10. Range(Numbers') \cup Range(conn'.todo) \cup Range(conn'.pending) = Due'
  <2> HIDE DEF Range
  <2> QED
    BY <1>0, <1>2, <1>6, <1>7, <1>8
<1>11. Ascending(conn'.todo) /\ Ascending(conn'.pending)
       /\ (conn'.direct => conn'.todo = <<>> /\ conn'.pending = <<>>)
  BY <1>0, <1>2
<1> QED
  BY <1>8, <1>9, <1>10, <1>11 DEF Pipes, Ascending, Before

LEMMA PipesBroadcast ==
  ASSUME IInv, NEW k \in Key, NEW part \in Part, Broadcast(k, part)
  PROVE  Pipes'
<1> DEFINE n == Len(log) + 1
           e == [key |-> k, part |-> part, value |-> truth[k][part] + 1]
<1>0. TypeOK
  BY DEF IInv
<1>1. /\ log' = Append(log, e) /\ handled' = handled
      /\ conn' = IF conn.open /\ conn.key = k /\ ~conn.direct THEN [conn EXCEPT !.pending = Append(@, n)] ELSE conn
      /\ wire' = IF conn.open /\ conn.key = k /\ conn.direct THEN Append(wire, EventPacket(n)) ELSE wire
  BY DEF Broadcast, clientVars
<1>2. log \in Seq(Event) /\ Len(log) \in Nat /\ handled \in Nat /\ handled <= Len(log)
  BY DEF IInv, TypeOK, Cursors
<1>3. SUFFICES ASSUME conn.open
               PROVE  Pipes'
  BY <1>1 DEF Pipes
<1>4. /\ Ascending(Numbers) /\ Ascending(conn.todo) /\ Ascending(conn.pending)
      /\ Before(Numbers, conn.todo) /\ Before(Numbers, conn.pending) /\ Before(conn.todo, conn.pending)
      /\ Range(Numbers) \cup Range(conn.todo) \cup Range(conn.pending) = Due
      /\ conn.direct => conn.todo = <<>> /\ conn.pending = <<>>
  BY <1>3 DEF IInv, Pipes
<1>5. conn'.open /\ conn'.key = conn.key /\ conn'.todo = conn.todo /\ conn'.direct = conn.direct
  BY <1>0, <1>1, <1>3 DEF TypeOK
<1>6. e.key = k
  OBVIOUS
<1>7. Due' = Due \cup (IF conn.key = k THEN {n} ELSE {})
  <2> HIDE DEF e
  <2>1. Len(log') = n /\ log'[n] = e /\ \A i \in 1..Len(log) : log'[i] = log[i]
    BY <1>1, <1>2
  <2>2. /\ \A i : i \in (handled + 1)..n <=> i = n \/ i \in (handled + 1)..Len(log)
        /\ \A i \in (handled + 1)..Len(log) : i \in 1..Len(log)
    BY <1>2
  <2>3. Due' = {i \in (handled + 1)..n : log'[i].key = conn.key}
    BY <1>1, <1>5, <2>1 DEF Due, ShouldSend
  <2>4. Due = {i \in (handled + 1)..Len(log) : log[i].key = conn.key}
    BY DEF Due, ShouldSend
  <2> HIDE DEF n, Due
  <2> QED
    BY <1>6, <2>1, <2>2, <2>3, <2>4
<1>8. \A y \in Due : y \in Nat /\ y < n
  BY <1>2 DEF Due
<1>9. n \in Nat
  BY <1>2
<1>10. Numbers \in Seq(Nat) /\ conn.pending \in Seq(Nat)
  <2>1. conn.pending \in Seq(1..Len(log))
    BY <1>0 DEF TypeOK
  <2>2. conn.pending \in Seq(Nat)
    BY <1>2, <2>1
  <2> QED
    BY <1>0, <2>2, NumbersTyped
<1>11. CASE conn.key = k /\ conn.direct
  <2>1. wire' = Append(wire, EventPacket(n)) /\ conn' = conn
    BY <1>1, <1>3, <1>11
  <2>2. Numbers' = Append(Numbers, n)
    BY <1>9, <2>1, NumbersGrow
  <2> HIDE DEF Numbers, Due, n, e
  <2>3. \A y \in Range(Numbers) : y < n
    BY <1>4, <1>8
  <2>4. Ascending(Append(Numbers, n)) /\ Range(Append(Numbers, n)) = Range(Numbers) \cup {n}
    BY <1>4, <1>9, <1>10, <2>3, AppendAscends
  <2>5. conn'.todo = <<>> /\ conn'.pending = <<>> /\ Range(<<>>) = {}
    BY <1>4, <1>11, <2>1 DEF Range
  <2>6. Ascending(Numbers') /\ Range(Numbers') = Range(Numbers) \cup {n}
    BY <2>2, <2>4
  <2>7. /\ Before(Numbers', conn'.todo) /\ Before(Numbers', conn'.pending) /\ Before(conn'.todo, conn'.pending)
    BY <2>5 DEF Before
  <2>8. Range(Numbers') \cup Range(conn'.todo) \cup Range(conn'.pending) = Due'
    <3> HIDE DEF Range
    <3> QED
      BY <1>4, <1>7, <1>11, <2>1, <2>5, <2>6
  <2>9. Ascending(conn'.todo) /\ Ascending(conn'.pending)
    BY <1>4, <2>1
  <2> QED
    BY <2>5, <2>6, <2>7, <2>8, <2>9 DEF Pipes, Ascending, Before
<1>12. CASE conn.key = k /\ ~conn.direct
  <2>1. wire' = wire /\ conn'.pending = Append(conn.pending, n)
    BY <1>0, <1>1, <1>3, <1>12 DEF TypeOK
  <2>2. Numbers' = Numbers
    BY <2>1 DEF Numbers, Written
  <2> HIDE DEF Numbers, Due, n, e
  <2>3. \A y \in Range(conn.pending) : y < n
    BY <1>4, <1>8
  <2>4. Ascending(Append(conn.pending, n)) /\ Range(Append(conn.pending, n)) = Range(conn.pending) \cup {n}
    BY <1>4, <1>9, <1>10, <2>3, AppendAscends
  <2>5. Ascending(conn'.pending) /\ Range(conn'.pending) = Range(conn.pending) \cup {n}
    BY <2>1, <2>4
  <2>6. (\A y \in Range(Numbers) : y < n) /\ (\A y \in Range(conn.todo) : y < n)
    BY <1>4, <1>8
  <2>7. /\ Before(Numbers', conn'.todo) /\ Before(Numbers', conn'.pending) /\ Before(conn'.todo, conn'.pending)
    <3> HIDE DEF Range
    <3> QED
      BY <1>4, <1>5, <2>2, <2>5, <2>6 DEF Before
  <2>8. Range(Numbers') \cup Range(conn'.todo) \cup Range(conn'.pending) = Due'
    <3> HIDE DEF Range
    <3> QED
      BY <1>4, <1>5, <1>7, <1>12, <2>2, <2>5
  <2>9. Ascending(Numbers') /\ Ascending(conn'.todo)
    BY <1>4, <1>5, <2>2
  <2> QED
    BY <1>5, <1>12, <2>5, <2>7, <2>8, <2>9 DEF Pipes, Ascending, Before
<1>13. CASE conn.key # k
  <2>1. wire' = wire /\ conn' = conn
    BY <1>1, <1>13
  <2>2. Numbers' = Numbers
    BY <2>1 DEF Numbers, Written
  <2>3. Due' = Due
    BY <1>7, <1>13
  <2> HIDE DEF Numbers, Due
  <2> QED
    BY <1>4, <2>1, <2>2, <2>3 DEF Pipes, Ascending, Before
<1> QED
  BY <1>11, <1>12, <1>13

LEMMA PipesStep ==
  ASSUME IInv, Next
  PROVE  Pipes'
<1> USE DEF hubVars, clientVars
<1>1. CASE Restart \/ Cut \/ \E k \in Key : Resubscribe(k)
  <2>1. conn'.open = FALSE
    BY <1>1 DEF Restart, Cut, Resubscribe, Closed
  <2> QED
    BY <2>1 DEF Pipes
<1>2. CASE HandleVerdict
  <2>1. Numbers' = Numbers /\ wire' = Tail(wire)
    BY <1>2, NumbersShrink DEF HandleVerdict
  <2>2. Due' = Due /\ conn' = conn
    BY <1>2 DEF HandleVerdict, Due, ShouldSend
  <2>3. Pipes
    BY DEF IInv
  <2> HIDE DEF Numbers, Due
  <2> QED
    BY <2>1, <2>2, <2>3 DEF Pipes, Ascending, Before
<1>3. CASE Flush \/ Reconnect \/ \E k \in Key : Answer(k) \/ Apply(k)
  <2>1. UNCHANGED <<wire, conn, handled, log>>
    BY <1>3 DEF Flush, Reconnect, Answer, Apply
  <2> QED
    BY <2>1, PipesKept
<1> QED
  BY <1>1, <1>2, <1>3, PipesSubscribe, PipesWrite, PipesDrain, PipesHandled, PipesBroadcast DEF Next

----------------------------------------------------------------------------
(* Cursors and values. *)

LEMMA CursorsStep ==
  ASSUME IInv, Next
  PROVE  Cursors'
<1> USE DEF hubVars, clientVars
<1>0. TypeOK /\ Cursors
  BY DEF IInv
<1>1. /\ Len(log) \in Nat /\ handled \in Nat /\ epoch \in Nat /\ cursor.epoch \in Nat /\ cursor.seq \in Nat
      /\ handled <= Len(log) /\ epoch > 0 /\ cursor.epoch <= epoch
      /\ (cursor.epoch = epoch => cursor.seq <= Len(log))
  BY <1>0 DEF TypeOK, Cursors
<1>2. CASE Subscribe
  <2>1. handled' <= Len(log)
    BY <1>1, <1>2 DEF Subscribe, CanResume
  <2> QED
    BY <1>1, <1>2, <2>1 DEF Subscribe, Cursors
<1>3. CASE Restart
  <2>1. handled' = 0 /\ epoch' = epoch + 1 /\ cursor' = cursor /\ log' = <<>>
    BY <1>3 DEF Restart
  <2>2. Len(log') = 0
    BY <2>1
  <2> QED
    BY <1>1, <2>1, <2>2 DEF Cursors
<1>4. CASE HandleEvent
  <2> DEFINE seq == Head(wire).seq
  <2>1. seq \in DOMAIN log
    BY <1>4, HeadEvent DEF HandleEvent
  <2>2. seq <= Len(log) /\ seq \in Nat
    BY <1>0, <2>1 DEF TypeOK
  <2>3. handled' = seq /\ cursor' = [key |-> key, epoch |-> epoch, seq |-> seq] /\ epoch' = epoch /\ log' = log
    BY <1>4 DEF HandleEvent
  <2> HIDE DEF seq
  <2> QED
    BY <1>1, <2>2, <2>3 DEF Cursors
<1>5. CASE Cut \/ \E k \in Key : Resubscribe(k)
  <2>1. handled' = 0 /\ UNCHANGED <<epoch, cursor, log>>
    BY <1>5 DEF Cut, Resubscribe
  <2> QED
    BY <1>1, <2>1 DEF Cursors
<1>6. ASSUME NEW k \in Key, NEW part \in Part, Broadcast(k, part)
      PROVE  Cursors'
  <2>1. handled' = handled /\ epoch' = epoch /\ cursor' = cursor
    BY <1>6 DEF Broadcast
  <2>2. Len(log') = Len(log) + 1
    BY <1>0, <1>6 DEF Broadcast, TypeOK
  <2> QED
    BY <1>1, <2>1, <2>2 DEF Cursors
<1>7. CASE Write \/ DrainPending \/ HandleVerdict \/ Flush \/ Reconnect \/ \E k \in Key : Answer(k) \/ Apply(k)
  <2>1. UNCHANGED <<handled, epoch, cursor, log>>
    BY <1>7 DEF Write, DrainPending, HandleVerdict, Flush, Reconnect, Answer, Apply
  <2> QED
    BY <1>0, <2>1 DEF Cursors
<1> QED
  BY <1>2, <1>3, <1>4, <1>5, <1>6, <1>7 DEF Next

\* What a broadcast does to the log and to what is to come.
LEMMA BroadcastLog ==
  ASSUME TypeOK, NEW k \in Key, NEW part \in Part, Broadcast(k, part)
  PROVE  /\ Len(log) \in Nat /\ Len(log') = Len(log) + 1
         /\ \A n \in 1..Len(log) : log'[n] = log[n] /\ log[n].key \in Key /\ log[n].part \in Part /\ log[n].value \in Nat
         /\ log'[Len(log) + 1].key = k /\ log'[Len(log) + 1].part = part
         /\ log'[Len(log) + 1].value = truth[k][part] + 1
         /\ truth' \in [Key -> [Part -> Nat]]
         /\ truth[k][part] \in Nat /\ truth'[k][part] = truth[k][part] + 1
         /\ \A l \in Key, p \in Part : l # k \/ p # part => truth'[l][p] = truth[l][p]
         /\ \A l \in Key, p \in Part : truth[l][p] <= truth'[l][p] /\ truth[l][p] \in Nat
<1> DEFINE e == [key |-> k, part |-> part, value |-> truth[k][part] + 1]
<1>1. truth \in [Key -> [Part -> Nat]] /\ log \in Seq(Event) /\ Len(log) \in Nat
  BY DEF TypeOK
<1>2. truth' = [truth EXCEPT ![k][part] = @ + 1] /\ log' = Append(log, e)
  BY DEF Broadcast
<1>3. e \in Event
  BY <1>1 DEF Event
<1>4. e.key = k /\ e.part = part /\ e.value = truth[k][part] + 1
  OBVIOUS
<1> HIDE DEF e
<1>5. Len(log') = Len(log) + 1 /\ log'[Len(log) + 1] = e /\ \A n \in 1..Len(log) : log'[n] = log[n]
  BY <1>1, <1>2, <1>3
<1>6. \A n \in 1..Len(log) : log[n].key \in Key /\ log[n].part \in Part /\ log[n].value \in Nat
  <2>1. \A n \in 1..Len(log) : log[n] \in Event
    BY <1>1
  <2>2. \A x \in Event : x.key \in Key /\ x.part \in Part /\ x.value \in Nat
    BY DEF Event
  <2> QED
    BY <2>1, <2>2
<1>7. \A l \in Key, p \in Part : truth[l][p] \in Nat
  BY <1>1
<1>8. truth' \in [Key -> [Part -> Nat]] /\ truth'[k][part] = truth[k][part] + 1
  BY <1>1, <1>2
<1>9. \A l \in Key, p \in Part : l # k \/ p # part => truth'[l][p] = truth[l][p]
  BY <1>1, <1>2
<1>10. \A l \in Key, p \in Part : truth[l][p] <= truth'[l][p]
  BY <1>7, <1>8, <1>9
<1> QED
  BY <1>1, <1>4, <1>5, <1>6, <1>7, <1>8, <1>9, <1>10

LEMMA BroadcastComes ==
  ASSUME TypeOK, NEW k \in Key, NEW part \in Part, Broadcast(k, part)
  PROVE  /\ \A seq \in Nat : seq <= Len(log) => ToCome(k, part, seq)'
         /\ \A l, p : \A seq \in Nat : ToCome(l, p, seq) => ToCome(l, p, seq)'
<1>1. /\ Len(log) \in Nat /\ Len(log') = Len(log) + 1
      /\ \A n \in 1..Len(log) : log'[n] = log[n]
      /\ log'[Len(log) + 1].key = k /\ log'[Len(log) + 1].part = part
  BY BroadcastLog
<1>2. ASSUME NEW seq \in Nat, seq <= Len(log)
      PROVE  ToCome(k, part, seq)'
  <2>1. Len(log) + 1 \in (seq + 1)..Len(log')
    BY <1>1, <1>2
  <2> QED
    BY <1>1, <2>1 DEF ToCome
<1>3. ASSUME NEW l, NEW p, NEW seq \in Nat, ToCome(l, p, seq)
      PROVE  ToCome(l, p, seq)'
  <2>1. PICK n \in (seq + 1)..Len(log) : log[n].key = l /\ log[n].part = p
    BY <1>3 DEF ToCome
  <2>2. n \in 1..Len(log) /\ n \in (seq + 1)..Len(log')
    BY <1>1
  <2> QED
    BY <1>1, <2>1, <2>2 DEF ToCome
<1> QED
  BY <1>2, <1>3

LEMMA LoggedStep ==
  ASSUME IInv, Next
  PROVE  Logged'
<1> USE DEF hubVars, clientVars
<1>0. TypeOK /\ Logged
  BY DEF IInv
<1>1. ASSUME NEW k \in Key, NEW part \in Part, Broadcast(k, part)
      PROVE  Logged'
  <2>1. /\ Len(log) \in Nat /\ Len(log') = Len(log) + 1
        /\ \A n \in 1..Len(log) : log'[n] = log[n] /\ log[n].key \in Key /\ log[n].part \in Part /\ log[n].value \in Nat
        /\ log'[Len(log) + 1].key = k /\ log'[Len(log) + 1].part = part
        /\ log'[Len(log) + 1].value = truth[k][part] + 1
        /\ truth[k][part] \in Nat /\ truth'[k][part] = truth[k][part] + 1
        /\ \A l \in Key, p \in Part : l # k \/ p # part => truth'[l][p] = truth[l][p]
        /\ \A l \in Key, p \in Part : truth[l][p] <= truth'[l][p] /\ truth[l][p] \in Nat
        /\ truth' \in [Key -> [Part -> Nat]]
    BY <1>0, <1>1, BroadcastLog
  <2>2. /\ \A seq \in Nat : seq <= Len(log) => ToCome(k, part, seq)'
        /\ \A l, p : \A seq \in Nat : ToCome(l, p, seq) => ToCome(l, p, seq)'
    BY <1>0, <1>1, BroadcastComes
  <2>3. log' \in Seq(Event) /\ log \in Seq(Event)
    <3>1. log \in Seq(Event)
      BY <1>0 DEF TypeOK
    <3>2. log' = Append(log, [key |-> k, part |-> part, value |-> truth[k][part] + 1])
      BY <1>1 DEF Broadcast
    <3>3. [key |-> k, part |-> part, value |-> truth[k][part] + 1] \in Event
      BY <2>1 DEF Event
    <3> QED
      BY <3>1, <3>2, <3>3
  <2>4. ASSUME NEW n \in DOMAIN log', NEW l, NEW p, NEW v,
               log'[n].key = l, log'[n].part = p, log'[n].value = v
        PROVE  v <= truth'[l][p] /\ (ToCome(l, p, n)' \/ v = truth'[l][p])
    <3>1. n \in 1..Len(log) \/ n = Len(log) + 1
      BY <2>1, <2>3
    <3>2. CASE n = Len(log) + 1
      BY <2>1, <2>4, <3>2
    <3>3. CASE n \in 1..Len(log)
      <4>1. l = log[n].key /\ p = log[n].part /\ v = log[n].value
        BY <2>1, <2>4, <3>3
      <4>2. l \in Key /\ p \in Part /\ v \in Nat /\ n \in Nat /\ n <= Len(log)
        BY <2>1, <3>3, <4>1
      <4>3. v <= truth[l][p] /\ (ToCome(l, p, n) \/ v = truth[l][p])
        BY <1>0, <2>3, <3>3, <4>1 DEF Logged
      <4>4. v <= truth'[l][p]
        <5>1. truth[l][p] <= truth'[l][p] /\ truth[l][p] \in Nat /\ truth'[l][p] \in Nat
          BY <2>1, <4>2
        <5> QED
          BY <4>2, <4>3, <5>1
      <4>5. CASE l = k /\ p = part
        BY <2>2, <4>2, <4>4, <4>5
      <4>6. CASE ~(l = k /\ p = part)
        BY <2>1, <2>2, <4>2, <4>3, <4>4, <4>6
      <4> QED
        BY <4>5, <4>6
    <3> QED
      BY <3>1, <3>2, <3>3
  <2> QED
    BY <2>4 DEF Logged, ToCome
<1>2. CASE Restart
  BY <1>2 DEF Restart, Logged
<1>3. CASE \/ Subscribe \/ Write \/ DrainPending \/ HandleVerdict \/ HandleEvent \/ Flush \/ Cut \/ Reconnect
           \/ \E k \in Key : Answer(k) \/ Apply(k) \/ Resubscribe(k)
  <2>1. UNCHANGED <<truth, log>>
    BY <1>3 DEF Subscribe, Write, DrainPending, HandleVerdict, HandleEvent, Flush, Cut, Reconnect, Answer, Apply,
                Resubscribe
  <2> QED
    BY <1>0, <2>1 DEF Logged, ToCome
<1> QED
  BY <1>1, <1>2, <1>3 DEF Next

\* An event is handled: what happens to the client's values.
LEMMA HandledValues ==
  ASSUME IInv, HandleEvent
  PROVE  LET event == log[Head(wire).seq]
         IN  /\ event.key = key /\ event.value \in Nat /\ event.part \in Part
             /\ event.value <= truth[key][event.part]
             /\ ToCome(key, event.part, Head(wire).seq) \/ event.value = truth[key][event.part]
             /\ event.part = "fetched" => dirty' /\ cache' = cache /\ excused' = excused
             /\ event.part = "patched" =>
                  /\ dirty' = dirty
                  /\ cache' = [cache EXCEPT ![key].patched = IF event.value > @ THEN event.value ELSE @]
                  /\ excused' = IF fetch[key].state = "answered" /\ fetch[key].value.patched < event.value
                                  THEN [excused EXCEPT ![key] = @ \cup {"overtaken"}] ELSE excused
<1> DEFINE seq == Head(wire).seq
           event == log[seq]
<1>1. seq \in DOMAIN log /\ event.key = key
  BY HeadEvent DEF HandleEvent
<1>2. event.value \in Nat /\ event.part \in Part
  <2>1. event \in Event
    BY <1>1 DEF IInv, TypeOK
  <2>2. \A x \in Event : x.value \in Nat /\ x.part \in Part
    BY DEF Event
  <2> QED
    BY <2>1, <2>2
<1>3. event.value <= truth[key][event.part] /\ (ToCome(key, event.part, seq) \/ event.value = truth[key][event.part])
  BY <1>1 DEF IInv, Logged
<1>4. event.part = "fetched" => dirty' /\ cache' = cache /\ excused' = excused
  BY DEF HandleEvent
<1>5. event.part = "patched" =>
        /\ dirty' = dirty
        /\ cache' = [cache EXCEPT ![key].patched = IF event.value > @ THEN event.value ELSE @]
        /\ excused' = IF fetch[key].state = "answered" /\ fetch[key].value.patched < event.value
                        THEN [excused EXCEPT ![key] = @ \cup {"overtaken"}] ELSE excused
  BY DEF HandleEvent
<1> QED
  BY <1>1, <1>2, <1>3, <1>4, <1>5

\* The same, value by value.
LEMMA HandledCache ==
  ASSUME IInv, HandleEvent
  PROVE  LET event == log[Head(wire).seq]
         IN  /\ \A k \in Key, part \in Part :
                  k # key \/ part # "patched" \/ event.part # "patched" => cache'[k][part] = cache[k][part]
             /\ event.part = "patched" =>
                  cache'[key]["patched"] = IF event.value > cache[key]["patched"] THEN event.value
                                           ELSE cache[key]["patched"]
<1> DEFINE event == log[Head(wire).seq]
<1>1. /\ event.value \in Nat /\ event.part \in Part
      /\ event.part = "fetched" => cache' = cache
      /\ event.part = "patched" =>
           cache' = [cache EXCEPT ![key].patched = IF event.value > @ THEN event.value ELSE @]
  BY HandledValues
<1>2. cache \in [Key -> [Part -> Nat]] /\ key \in Key
  BY DEF IInv, TypeOK
<1> HIDE DEF event
<1>3. ASSUME NEW k \in Key, NEW part \in Part, k # key \/ part # "patched" \/ event.part # "patched"
      PROVE  cache'[k][part] = cache[k][part]
  <2>1. CASE event.part = "fetched"
    BY <1>1, <2>1
  <2>2. CASE event.part = "patched"
    BY <1>1, <1>2, <1>3, <2>2 DEF Part
  <2> QED
    BY <1>1, <2>1, <2>2 DEF Part
<1>4. ASSUME event.part = "patched"
      PROVE  cache'[key]["patched"] = IF event.value > cache[key]["patched"] THEN event.value
                                      ELSE cache[key]["patched"]
  BY <1>1, <1>2, <1>4 DEF Part
<1> QED
  BY <1>3, <1>4 DEF event

LEMMA BehindStep ==
  ASSUME IInv, Next
  PROVE  Behind'
<1> USE DEF hubVars, clientVars
<1>0. TypeOK /\ Behind
  BY DEF IInv
<1>1. /\ truth \in [Key -> [Part -> Nat]] /\ cache \in [Key -> [Part -> Nat]]
      /\ fetch \in [Key -> {Idle, Sent} \cup [state: {"answered"}, value: [Part -> Nat]]]
  BY <1>0 DEF TypeOK
<1>2. ASSUME NEW k \in Key, NEW part \in Part, Broadcast(k, part)
      PROVE  Behind'
  <2>1. \A l \in Key, p \in Part : truth[l][p] <= truth'[l][p] /\ truth[l][p] \in Nat /\ truth'[l][p] \in Nat
    <3>1. truth' \in [Key -> [Part -> Nat]] /\ \A l \in Key, p \in Part : truth[l][p] <= truth'[l][p] /\ truth[l][p] \in Nat
      BY <1>0, <1>2, BroadcastLog
    <3> QED
      BY <3>1
  <2>2. cache' = cache /\ fetch' = fetch
    BY <1>2 DEF Broadcast
  <2>3. ASSUME NEW l \in Key, NEW p \in Part
        PROVE  cache[l][p] <= truth'[l][p] /\ (fetch[l].state = "answered" => fetch[l].value[p] <= truth'[l][p])
    <3>1. cache[l][p] \in Nat /\ cache[l][p] <= truth[l][p]
      BY <1>0, <1>1 DEF Behind
    <3>2. fetch[l].state = "answered" => fetch[l].value[p] \in Nat /\ fetch[l].value[p] <= truth[l][p]
      BY <1>0, <1>1 DEF Behind, Idle, Sent
    <3> QED
      BY <2>1, <3>1, <3>2
  <2> QED
    BY <2>2, <2>3 DEF Behind
<1>3. CASE HandleEvent
  <2> DEFINE event == log[Head(wire).seq]
  <2>1. /\ event.value \in Nat /\ event.value <= truth[key][event.part]
        /\ \A k \in Key, part \in Part :
             k # key \/ part # "patched" \/ event.part # "patched" => cache'[k][part] = cache[k][part]
        /\ event.part = "patched" =>
             cache'[key]["patched"] = IF event.value > cache[key]["patched"] THEN event.value
                                      ELSE cache[key]["patched"]
    BY <1>3, HandledValues, HandledCache
  <2>2. truth' = truth /\ fetch' = fetch
    BY <1>3 DEF HandleEvent
  <2> HIDE DEF event
  <2>3. \A k \in Key, part \in Part : cache'[k][part] <= truth[k][part]
    BY <1>0, <2>1 DEF Behind
  <2> QED
    BY <1>0, <2>2, <2>3 DEF Behind
<1>4. ASSUME NEW k \in Key, Answer(k)
      PROVE  Behind'
  <2>1. fetch' = [fetch EXCEPT ![k] = Answered(truth[k])] /\ UNCHANGED <<truth, cache>>
    BY <1>4 DEF Answer
  <2>2. \A l \in Key : fetch'[l] = IF l = k THEN Answered(truth[k]) ELSE fetch[l]
    BY <1>1, <2>1
  <2>3. Answered(truth[k]).value = truth[k]
    BY DEF Answered
  <2>4. \A p \in Part : truth[k][p] <= truth[k][p]
    BY <1>1
  <2> QED
    BY <1>0, <2>1, <2>2, <2>3, <2>4 DEF Behind
<1>5. ASSUME NEW k \in Key, Apply(k)
      PROVE  Behind'
  <2>1. /\ fetch' = [fetch EXCEPT ![k] = Idle] /\ truth' = truth /\ cache' = [cache EXCEPT ![k] = fetch[k].value]
        /\ fetch[k].state = "answered"
    BY <1>5 DEF Apply
  <2>2. \A l \in Key : /\ fetch'[l] = IF l = k THEN Idle ELSE fetch[l]
                       /\ cache'[l] = IF l = k THEN fetch[k].value ELSE cache[l]
    BY <1>1, <2>1
  <2>3. Idle.state # "answered"
    BY DEF Idle
  <2> QED
    BY <1>0, <2>1, <2>2, <2>3 DEF Behind
<1>6. CASE Flush \/ HandleVerdict
  <2>1. /\ UNCHANGED <<truth, cache>>
        /\ fetch' = [fetch EXCEPT ![key] = Sent] \/ fetch' = fetch
    BY <1>6 DEF Flush, HandleVerdict, Refetch
  <2>2. \A l \in Key : fetch'[l] = Sent \/ fetch'[l] = fetch[l]
    BY <1>1, <2>1
  <2>3. Sent.state # "answered"
    BY DEF Sent
  <2> QED
    BY <1>0, <2>1, <2>2, <2>3 DEF Behind
<1>7. CASE Subscribe \/ Write \/ DrainPending \/ Restart \/ Cut \/ Reconnect \/ \E k \in Key : Resubscribe(k)
  <2>1. UNCHANGED <<truth, cache, fetch>>
    BY <1>7 DEF Subscribe, Write, DrainPending, Restart, Cut, Reconnect, Resubscribe
  <2> QED
    BY <1>0, <2>1 DEF Behind
<1> QED
  BY <1>2, <1>3, <1>4, <1>5, <1>6, <1>7 DEF Next

----------------------------------------------------------------------------
(* What the client shows. *)

LEMMA FetchStates ==
  /\ Idle.state = "idle" /\ Sent.state = "sent"
  /\ \A v : Answered(v).state = "answered" /\ Answered(v).value = v
BY DEF Idle, Sent, Answered

\* No step but the handling of an event and a restart takes a client back.
LEMMA CaughtUpKept ==
  ASSUME IInv, Next, ~HandleEvent, ~Restart, NEW k \in Key, NEW seq \in Nat, seq <= Len(log), CaughtUp(k, seq)
  PROVE  CaughtUp(k, seq)'
<1> USE DEF hubVars, clientVars
<1>0. /\ truth \in [Key -> [Part -> Nat]] /\ cache \in [Key -> [Part -> Nat]] /\ key \in Key
      /\ fetch \in [Key -> {Idle, Sent} \cup [state: {"answered"}, value: [Part -> Nat]]]
      /\ excused \in [Key -> SUBSET {"overtaken", "cleared"}]
  BY DEF IInv, TypeOK
<1>1. CASE Subscribe \/ Write \/ DrainPending \/ Cut
  <2>1. UNCHANGED <<truth, log, key, cache, dirty, fetch, excused>>
    BY <1>1 DEF Subscribe, Write, DrainPending, Cut
  <2> QED
    BY <2>1 DEF CaughtUp, Shown, ToCome
<1>2. CASE HandleVerdict \/ Flush
  <2>1. UNCHANGED <<truth, log, key, cache>>
    BY <1>2 DEF HandleVerdict, Flush
  <2>2. CASE Refetch(key)
    <3>1. /\ \A l \in Key : fetch'[l] = IF l = key THEN Sent ELSE fetch[l]
          /\ \A l \in Key : l # key => excused'[l] = excused[l]
      BY <1>0, <2>2 DEF Refetch
    <3>2. CASE k = key
      BY <3>1, <3>2, FetchStates DEF CaughtUp
    <3>3. CASE k # key
      <4>1. fetch'[k] = fetch[k] /\ excused'[k] = excused[k] /\ cache'[k] = cache[k] /\ truth'[k] = truth[k]
        BY <2>1, <3>1, <3>3
      <4>2. Shown(k)' = Shown(k) /\ \A part : ToCome(k, part, seq)' <=> ToCome(k, part, seq)
        BY <2>1, <4>1 DEF Shown, ToCome
      <4> QED
        BY <3>3, <4>1, <4>2 DEF CaughtUp
    <3> QED
      BY <3>2, <3>3
  <2>3. CASE UNCHANGED <<fetch, excused, dirty>>
    BY <2>1, <2>3 DEF CaughtUp, Shown, ToCome
  <2> QED
    BY <1>2, <2>2, <2>3 DEF HandleVerdict, Flush
<1>3. CASE Reconnect \/ \E l \in Key : Resubscribe(l)
  <2>1. UNCHANGED <<truth, log, cache, fetch>> /\ Cleanup
    BY <1>3 DEF Reconnect, Resubscribe
  <2>2. Shown(k)' = Shown(k) /\ \A part : ToCome(k, part, seq)' <=> ToCome(k, part, seq)
    BY <2>1 DEF Shown, ToCome
  <2>3. CASE dirty /\ k = key
    <3>1. excused' = [excused EXCEPT ![key] = @ \cup {"cleared"}]
      BY <2>1, <2>3 DEF Cleanup
    <3>2. excused'[k] # {}
      BY <1>0, <2>3, <3>1
    <3> QED
      BY <3>2 DEF CaughtUp
  <2>4. CASE ~(dirty /\ k = key)
    <3>1. excused'[k] = excused[k]
      <4>1. excused' = excused \/ (k # key /\ excused' = [excused EXCEPT ![key] = @ \cup {"cleared"}])
        BY <2>1, <2>4 DEF Cleanup
      <4> QED
        BY <1>0, <4>1
    <3> QED
      BY <2>1, <2>2, <2>4, <3>1 DEF CaughtUp
  <2> QED
    BY <2>3, <2>4
<1>4. ASSUME NEW l \in Key, Answer(l)
      PROVE  CaughtUp(k, seq)'
  <2>1. UNCHANGED <<truth, log, key, cache, dirty, excused>> /\ fetch' = [fetch EXCEPT ![l] = Answered(truth[l])]
    BY <1>4 DEF Answer
  <2>2. CASE k = l
    <3>1. Shown(k)' = truth'[k]
      BY <1>0, <2>1, <2>2, FetchStates DEF Shown
    <3> QED
      BY <3>1 DEF CaughtUp
  <2>3. CASE k # l
    <3>1. fetch'[k] = fetch[k]
      BY <1>0, <2>1, <2>3
    <3> QED
      BY <2>1, <3>1 DEF CaughtUp, Shown, ToCome
  <2> QED
    BY <2>2, <2>3
<1>5. ASSUME NEW l \in Key, Apply(l)
      PROVE  CaughtUp(k, seq)'
  <2>1. /\ UNCHANGED <<truth, log, key, dirty, excused>> /\ fetch[l].state = "answered"
        /\ fetch' = [fetch EXCEPT ![l] = Idle] /\ cache' = [cache EXCEPT ![l] = fetch[l].value]
    BY <1>5 DEF Apply
  <2>2. Shown(k)' = Shown(k) /\ (fetch[k].state = "sent" => fetch'[k].state = "sent")
    <3>1. fetch'[k] = IF k = l THEN Idle ELSE fetch[k]
      BY <1>0, <2>1
    <3>2. cache'[k] = IF k = l THEN fetch[l].value ELSE cache[k]
      BY <1>0, <2>1
    <3> QED
      BY <2>1, <3>1, <3>2, FetchStates DEF Shown
  <2>3. \A part : ToCome(k, part, seq)' <=> ToCome(k, part, seq)
    BY <2>1 DEF ToCome
  <2> QED
    BY <2>1, <2>2, <2>3 DEF CaughtUp
<1>6. ASSUME NEW l \in Key, NEW part \in Part, Broadcast(l, part)
      PROVE  CaughtUp(k, seq)'
  <2>1. UNCHANGED <<key, cache, dirty, fetch, excused>>
    BY <1>6 DEF Broadcast
  <2>2. Shown(k)' = Shown(k)
    BY <2>1 DEF Shown
  <2>3. \A p \in Part : k # l \/ p # part => truth'[k][p] = truth[k][p]
    BY <1>6, BroadcastLog DEF IInv
  <2>4. k = l => ToCome(k, part, seq)'
    <3>1. \A n \in Nat : n <= Len(log) => ToCome(l, part, n)'
      BY <1>6, BroadcastComes DEF IInv
    <3> QED
      BY <3>1
  <2>5. \A p : ToCome(k, p, seq) => ToCome(k, p, seq)'
    BY <1>6, BroadcastComes DEF IInv
  <2> QED
    BY <2>1, <2>2, <2>3, <2>4, <2>5 DEF CaughtUp
<1> QED
  BY <1>1, <1>2, <1>3, <1>4, <1>5, <1>6 DEF Next

\* Handling an event keeps the client caught up, one event later.
LEMMA CaughtUpHandled ==
  ASSUME IInv, HandleEvent, NEW k, k = key, NEW seq, seq = Head(wire).seq
  PROVE  CaughtUp(k, seq)'
<1> DEFINE event == log[seq]
<1>0. /\ truth \in [Key -> [Part -> Nat]] /\ cache \in [Key -> [Part -> Nat]] /\ key \in Key
      /\ fetch \in [Key -> {Idle, Sent} \cup [state: {"answered"}, value: [Part -> Nat]]]
      /\ excused \in [Key -> SUBSET {"overtaken", "cleared"}]
      /\ Len(log) \in Nat /\ handled \in Nat
  BY DEF IInv, TypeOK
<1>1. /\ wire # <<>> /\ Head(wire).kind = "event" /\ handled' = seq
      /\ UNCHANGED <<truth, log, key, fetch>>
  BY DEF HandleEvent, hubVars
<1>2. conn.open /\ conn.key = key /\ seq \in DOMAIN log /\ seq \in Due /\ \A n \in Due : n = seq \/ seq < n
  BY <1>1, HeadEvent
<1>3. CaughtUp(k, handled)
  BY <1>1, <1>2 DEF IInv, Views, Told
<1>4. /\ event.value \in Nat /\ event.part \in Part /\ event.value <= truth[k][event.part]
      /\ ToCome(k, event.part, seq) \/ event.value = truth[k][event.part]
      /\ event.part = "fetched" => dirty' /\ excused' = excused
      /\ event.part = "patched" =>
           /\ dirty' = dirty
           /\ excused' = IF fetch[key].state = "answered" /\ fetch[key].value.patched < event.value
                           THEN [excused EXCEPT ![key] = @ \cup {"overtaken"}] ELSE excused
      /\ event.key = k
  BY HandledValues
<1>5. /\ \A part \in Part : part # "patched" \/ event.part # "patched" => cache'[k][part] = cache[k][part]
      /\ event.part = "patched" =>
           cache'[k]["patched"] = IF event.value > cache[k]["patched"] THEN event.value ELSE cache[k]["patched"]
  BY <1>0, HandledCache
<1> HIDE DEF event
<1>6. SUFFICES ASSUME excused'[k] = {}, fetch[k].state # "sent", NEW part \in Part
               PROVE  \/ Shown(k)'[part] = truth[k][part]
                      \/ ToCome(k, part, seq)
                      \/ part = "fetched" /\ dirty'
  <2>1. \A part : ToCome(k, part, seq)' <=> ToCome(k, part, seq)
    BY <1>1 DEF ToCome
  <2> QED
    BY <1>1, <2>1 DEF CaughtUp
<1>7. excused[k] = {} /\ (event.part = "patched" /\ fetch[k].state = "answered" => ~(fetch[k].value["patched"] < event.value))
  <2> DEFINE over == fetch[key].state = "answered" /\ fetch[key].value.patched < event.value
  <2>1. excused' = excused \/ (over /\ excused' = [excused EXCEPT ![key] = @ \cup {"overtaken"}])
    BY <1>4 DEF Part
  <2>2. event.part = "patched" /\ over => excused' = [excused EXCEPT ![key] = @ \cup {"overtaken"}]
    BY <1>4
  <2>3. excused' = [excused EXCEPT ![key] = @ \cup {"overtaken"}] => "overtaken" \in excused'[k]
    BY <1>0
  <2>4. excused' = excused /\ ~(event.part = "patched" /\ over)
    BY <1>6, <2>1, <2>2, <2>3
  <2> QED
    BY <1>6, <2>4
<1>8. \/ Shown(k)[part] = truth[k][part]
      \/ ToCome(k, part, handled)
      \/ part = "fetched" /\ dirty
  BY <1>3, <1>6, <1>7 DEF CaughtUp
<1>9. CASE part = event.part /\ part = "fetched"
  BY <1>4, <1>9
<1>10. CASE part = event.part /\ part = "patched"
  <2>1. SUFFICES ASSUME event.value = truth[k]["patched"]
                 PROVE  Shown(k)'["patched"] = truth[k]["patched"]
    BY <1>4, <1>10
  <2>2. truth[k]["patched"] \in Nat /\ cache[k]["patched"] \in Nat /\ cache[k]["patched"] <= truth[k]["patched"]
    BY <1>0, <1>10 DEF IInv, Behind
  <2>3. CASE fetch[k].state = "answered"
    <3>1. fetch[k].value["patched"] <= truth[k]["patched"]
      BY <1>0, <1>10, <2>3 DEF IInv, Behind
    <3>2. fetch[k].value["patched"] \in Nat
      <4>1. fetch[k] \in [state: {"answered"}, value: [Part -> Nat]]
        BY <1>0, <2>3, FetchStates
      <4> QED
        BY <1>10, <4>1
    <3>3. fetch[k].value["patched"] = truth[k]["patched"]
      BY <1>7, <1>10, <2>1, <2>2, <2>3, <3>1, <3>2
    <3> QED
      BY <1>1, <2>3, <3>3 DEF Shown
  <2>4. CASE fetch[k].state # "answered"
    <3>1. cache'[k]["patched"] = truth[k]["patched"]
      BY <1>5, <1>10, <2>1, <2>2
    <3> QED
      BY <1>1, <2>4, <3>1 DEF Shown
  <2> QED
    BY <2>3, <2>4
<1>11. CASE part # event.part
  <2>1. Shown(k)'[part] = Shown(k)[part]
    <3>1. cache'[k][part] = cache[k][part]
      BY <1>5, <1>11
    <3> QED
      BY <1>1, <3>1 DEF Shown
  <2>2. ToCome(k, part, handled) => ToCome(k, part, seq)
    <3>1. SUFFICES ASSUME NEW n \in (handled + 1)..Len(log), log[n].key = k, log[n].part = part
                   PROVE  ToCome(k, part, seq)
      BY DEF ToCome
    <3>2. n \in Due
      BY <1>2, <3>1 DEF Due, ShouldSend
    <3>3. n # seq
      BY <1>11, <3>1 DEF event
    <3>4. seq \in Nat
      BY <1>2, <1>0 DEF IInv, TypeOK
    <3>5. n \in (seq + 1)..Len(log)
      BY <1>0, <1>2, <3>2, <3>3, <3>4
    <3> QED
      BY <3>1, <3>5 DEF ToCome
  <2>3. part = "fetched" /\ dirty => dirty'
    BY <1>4, <1>11 DEF Part
  <2> QED
    BY <1>8, <2>1, <2>2, <2>3
<1> QED
  BY <1>9, <1>10, <1>11 DEF Part

LEMMA ViewsStep ==
  ASSUME IInv, Next
  PROVE  Views'
<1> USE DEF hubVars, clientVars
<1>0. TypeOK /\ Linked /\ Cursors /\ Views
  BY DEF IInv
<1>1. /\ cursor.seq \in Nat /\ (cursor.epoch = epoch => cursor.seq <= Len(log))
      /\ handled \in Nat /\ handled <= Len(log) /\ key \in Key
      /\ epoch \in Nat /\ cursor.epoch \in Nat /\ cursor.epoch <= epoch
  BY <1>0 DEF TypeOK, Cursors
<1>2. CASE Restart
  <2>1. conn'.open = FALSE /\ epoch' = epoch + 1 /\ cursor' = cursor
    BY <1>2 DEF Restart, Closed
  <2>2. cursor'.epoch # epoch'
    BY <1>1, <2>1
  <2> QED
    BY <2>1, <2>2 DEF Views
<1>3. CASE HandleEvent
  <2> DEFINE seq == Head(wire).seq
  <2>1. /\ cursor' = [key |-> key, epoch |-> epoch, seq |-> seq] /\ handled' = seq /\ key' = key
    BY <1>3 DEF HandleEvent
  <2>2. \A k, n : k = key /\ n = Head(wire).seq => CaughtUp(k, n)'
    BY <1>3, CaughtUpHandled
  <2>3. CaughtUp(cursor.key, cursor.seq)' /\ CaughtUp(key, handled)'
    <3>1. cursor'.key = key /\ cursor'.seq = seq
      BY <2>1
    <3>2. ASSUME NEW k, NEW n, k = key, n = seq
          PROVE  CaughtUp(cursor.key, cursor.seq)' /\ CaughtUp(key, handled)'
      <4>1. CaughtUp(k, n)'
        BY <2>2, <3>2
      <4>2. cursor'.key = k /\ cursor'.seq = n /\ key' = k /\ handled' = n
        BY <2>1, <3>1, <3>2
      <4> QED
        BY <4>1, <4>2 DEF CaughtUp, Shown, ToCome
    <3> QED
      BY <3>2
  <2> QED
    BY <2>3 DEF Views
<1>4. CASE ~Restart /\ ~HandleEvent
  <2>1. \A k \in Key : \A seq \in Nat : seq <= Len(log) /\ CaughtUp(k, seq) => CaughtUp(k, seq)'
    BY <1>4, CaughtUpKept
  <2>2. cursor' = cursor /\ epoch' = epoch
    BY <1>4 DEF Next, Subscribe, Write, DrainPending, HandleVerdict, Flush, Cut, Reconnect, Answer, Apply, Resubscribe,
                Broadcast
  <2>3. cursor'.key \in Key /\ cursor'.epoch = epoch' => CaughtUp(cursor.key, cursor.seq)'
    <3>1. SUFFICES ASSUME cursor.key \in Key, cursor.epoch = epoch
                   PROVE  CaughtUp(cursor.key, cursor.seq)'
      BY <2>2
    <3>2. CaughtUp(cursor.key, cursor.seq)
      BY <1>0, <3>1 DEF Views
    <3>3. ASSUME NEW k \in Key, NEW seq \in Nat, k = cursor.key, seq = cursor.seq
          PROVE  CaughtUp(cursor.key, cursor.seq)'
      <4>1. CaughtUp(k, seq)'
        BY <1>1, <2>1, <3>1, <3>2, <3>3
      <4>2. cursor'.key = k /\ cursor'.seq = seq
        BY <2>2, <3>3
      <4> QED
        BY <4>1, <4>2 DEF CaughtUp, Shown, ToCome
    <3> QED
      BY <1>1, <3>1, <3>3
  <2>4. ASSUME CaughtUp(key, handled), key' = key, handled' = handled
        PROVE  CaughtUp(key, handled)'
    <3>1. ASSUME NEW k \in Key, NEW seq \in Nat, k = key, seq = handled
          PROVE  CaughtUp(key, handled)'
      <4>1. CaughtUp(k, seq)'
        BY <1>1, <2>1, <2>4, <3>1
      <4>2. key' = k /\ handled' = seq
        BY <2>4, <3>1
      <4> QED
        BY <4>1, <4>2 DEF CaughtUp, Shown, ToCome
    <3> QED
      BY <1>1, <3>1
  <2>5. conn'.open /\ ~Told' => CaughtUp(key, handled)'
    <3>1. CASE Subscribe
      <4> DEFINE id == IF cursor.key = key THEN cursor ELSE NoCursor
                 ok == CanResume(id)
      <4>1. /\ wire' = <<VerdictPacket(ok)>> /\ handled' = IF ok THEN id.seq ELSE Len(log)
            /\ key' = key
        BY <3>1, Zenon DEF Subscribe
      <4>2. ~Told' => ok
        <5> HIDE DEF ok
        <5>1. wire' # <<>> /\ Head(wire') = VerdictPacket(ok)
          BY <4>1, PacketTypes
        <5> QED
          BY <5>1, PacketTypes DEF Told
      <4>3. ok => cursor.key = key /\ cursor.epoch = epoch /\ id.seq = cursor.seq
        BY DEF CanResume
      <4> HIDE DEF ok, id
      <4>4. ok => cursor'.key = key' /\ handled' = cursor'.seq /\ CaughtUp(cursor.key, cursor.seq)'
        BY <1>1, <2>2, <2>3, <4>1, <4>3
      <4>5. ok => CaughtUp(key, handled)'
        BY <4>4 DEF CaughtUp, Shown, ToCome
      <4> QED
        BY <4>2, <4>5
    <3>2. CASE HandleVerdict
      <4>1. key' = key /\ handled' = handled /\ conn' = conn /\ wire # <<>>
            /\ (Head(wire).kind = "ok" \/ Refetch(key))
        BY <3>2 DEF HandleVerdict
      <4>2. CASE Refetch(key)
        <5>1. fetch'[key'].state = "sent"
          BY <1>0, <4>1, <4>2, FetchStates DEF TypeOK, Refetch
        <5> QED
          BY <5>1 DEF CaughtUp
      <4>3. CASE Head(wire).kind = "ok"
        <5>1. conn.open => CaughtUp(key, handled)
          BY <1>0, <4>3 DEF Views, Told
        <5> QED
          BY <2>4, <4>1, <5>1
      <4> QED
        BY <4>1, <4>2, <4>3
    <3>3. CASE Cut \/ \E k \in Key : Resubscribe(k)
      BY <3>3 DEF Cut, Resubscribe, Closed
    <3>4. CASE Reconnect
      <4>1. conn' = conn /\ link = "down"
        BY <3>4 DEF Reconnect
      <4> QED
        BY <1>0, <4>1 DEF Linked
    <3>5. CASE \/ Write \/ DrainPending \/ Flush
               \/ \E k \in Key : Answer(k) \/ Apply(k)
               \/ \E k \in Key, part \in Part : Broadcast(k, part)
      <4>1. key' = key /\ handled' = handled
        BY <3>5 DEF Write, DrainPending, Flush, Answer, Apply, Broadcast
      <4>2. conn'.open => conn.open
        <5>1. Write => conn'.open = conn.open
          BY <1>0 DEF Write, TypeOK
        <5>2. DrainPending => conn'.open = conn.open
          BY <1>0 DEF DrainPending, TypeOK
        <5>3. \A k \in Key, part \in Part : Broadcast(k, part) => conn'.open = conn.open
          BY <1>0 DEF Broadcast, TypeOK
        <5>4. Flush \/ (\E k \in Key : Answer(k) \/ Apply(k)) => conn' = conn
          BY DEF Flush, Answer, Apply
        <5> QED
          BY <3>5, <5>1, <5>2, <5>3, <5>4
      <4>3. ~Told' => ~Told
        <5>1. wire' = wire \/ \E packet \in Packet : wire' = Append(wire, packet)
          <6>1. Write => \E packet \in Packet : wire' = Append(wire, packet)
            <7>1. ASSUME Write
                  PROVE  Head(conn.todo) \in Nat
              BY <1>0, <7>1 DEF Write, TypeOK
            <7> QED
              BY <7>1, PacketTypes DEF Write
          <6>2. ASSUME NEW k \in Key, NEW part \in Part, Broadcast(k, part)
                PROVE  wire' = wire \/ \E packet \in Packet : wire' = Append(wire, packet)
            <7>1. Len(log) + 1 \in Nat
              BY <1>0 DEF TypeOK
            <7> QED
              BY <6>2, <7>1, PacketTypes DEF Broadcast
          <6>3. DrainPending \/ Flush \/ (\E k \in Key : Answer(k) \/ Apply(k)) => wire' = wire
            BY DEF DrainPending, Flush, Answer, Apply
          <6> QED
            BY <3>5, <6>1, <6>2, <6>3
        <5>2. wire \in Seq(Packet)
          BY <1>0 DEF TypeOK
        <5>3. wire # <<>> => wire' # <<>> /\ Head(wire') = Head(wire)
          BY <5>1, <5>2
        <5> QED
          BY <5>3 DEF Told
      <4> QED
        BY <1>0, <2>4, <4>1, <4>2, <4>3 DEF Views
    <3> QED
      BY <1>4, <3>1, <3>2, <3>3, <3>4, <3>5 DEF Next
  <2> QED
    BY <2>3, <2>5 DEF Views
<1> QED
  BY <1>2, <1>3, <1>4

----------------------------------------------------------------------------
(* The theorems. *)

\* A step that changes nothing keeps the invariant.
LEMMA Stutters ==
  ASSUME IInv, UNCHANGED vars
  PROVE  IInv'
<1>1. UNCHANGED <<truth, epoch, log, oldest, conn, wire, key, link, cursor, cache, dirty, fetch, cuts, handled, excused>>
  BY DEF vars, hubVars, clientVars
<1>2. TypeOK'
  BY <1>1 DEF IInv, TypeOK
<1>3. Linked' /\ Cursors' /\ Behind'
  BY <1>1 DEF IInv, Linked, Cursors, Behind
<1>4. Pipes'
  BY <1>1, PipesKept
<1>5. Logged' /\ Views'
  BY <1>1 DEF IInv, Logged, Views, Told, CaughtUp, Shown, ToCome
<1> QED
  BY <1>2, <1>3, <1>4, <1>5 DEF IInv

\* The invariant of the stream: the two ends of a connection, what is in its pipeline, cursors of the
\* past, values that only grow, and clients that are caught up at their cursors.
THEOREM Inductive == Spec => []IInv
<1>1. IInv /\ [Next]_vars => IInv'
  BY TypeStep, LinkedStep, PipesStep, CursorsStep, LoggedStep, BehindStep, ViewsStep, Stutters DEF IInv
<1> QED
  BY <1>1, InitIInv, PTL DEF Spec

\* Every variable of hub, connection and client keeps its type; in particular the replay buffer never
\* holds more than its capacity (recordEvent).
THEOREM TypeCorrect == Spec => []TypeOK
<1>1. IInv => TypeOK
  BY DEF IInv
<1> QED
  BY <1>1, Inductive, PTL

\* Between the log and the client nothing is skipped, doubled or reordered, whatever is broadcast
\* during a replay and its drain (resolveResume, drainPending, broadcast).
THEOREM StreamComplete == Spec => []NothingSkipped
<1>1. ASSUME IInv
      PROVE  NothingSkipped
  <2>1. SUFFICES ASSUME conn.open
                 PROVE  Pipeline = InOrder(Due)
    BY DEF NothingSkipped, Due
  <2> DEFINE a == Numbers
             b == conn.todo
             c == conn.pending
             p == (a \o b) \o c
  <2>2. /\ Ascending(a) /\ Ascending(b) /\ Ascending(c)
        /\ Before(a, b) /\ Before(a, c) /\ Before(b, c)
        /\ Range(a) \cup Range(b) \cup Range(c) = Due
    BY <1>1, <2>1 DEF IInv, Pipes
  <2>3. Pipeline = p
    BY DEF Pipeline, Numbers
  <2>4. Len(log) \in Nat /\ handled \in Nat
    BY <1>1 DEF IInv, TypeOK
  <2>5. a \in Seq(Nat) /\ b \in Seq(Nat) /\ c \in Seq(Nat)
    <3>1. b \in Seq(1..Len(log)) /\ c \in Seq(1..Len(log))
      BY <1>1 DEF IInv, TypeOK
    <3>2. b \in Seq(Nat) /\ c \in Seq(Nat)
      BY <2>4, <3>1
    <3> QED
      BY <1>1, <3>2, NumbersTyped DEF IInv
  <2>6. Due \in SUBSET (1..Len(log))
    BY <2>4 DEF Due
  <2> HIDE DEF a, b, c, Due
  <2>7. /\ p \in Seq(Nat) /\ DOMAIN p = 1..(Len(a) + Len(b) + Len(c))
        /\ Len(a) \in Nat /\ Len(b) \in Nat /\ Len(c) \in Nat
        /\ DOMAIN a = 1..Len(a) /\ DOMAIN b = 1..Len(b) /\ DOMAIN c = 1..Len(c)
    BY <2>5
  <2>8. /\ \A i \in DOMAIN a : p[i] = a[i]
        /\ \A i \in DOMAIN b : p[Len(a) + i] = b[i]
        /\ \A i \in DOMAIN c : p[Len(a) + Len(b) + i] = c[i]
    BY SMTT(30), <2>5
  <2> HIDE DEF p
  <2>9. \A i \in DOMAIN p : \/ i \in DOMAIN a
                            \/ i - Len(a) \in DOMAIN b /\ i > Len(a)
                            \/ i - (Len(a) + Len(b)) \in DOMAIN c /\ i > Len(a) + Len(b)
    BY <2>7
  <2>10. \A i \in DOMAIN p : \/ i \in DOMAIN a /\ p[i] = a[i]
                             \/ i - Len(a) \in DOMAIN b /\ p[i] = b[i - Len(a)] /\ i > Len(a)
                             \/ /\ i - (Len(a) + Len(b)) \in DOMAIN c /\ i > Len(a) + Len(b)
                                /\ p[i] = c[i - (Len(a) + Len(b))]
    <3>1. \A i \in DOMAIN p : Len(a) + (i - Len(a)) = i /\ (Len(a) + Len(b)) + (i - (Len(a) + Len(b))) = i
      BY <2>7
    <3> QED
      BY <2>8, <2>9, <3>1
  <2>11. Ascending(p)
    <3>1. SUFFICES ASSUME NEW i \in DOMAIN p, NEW j \in DOMAIN p, i < j
                   PROVE  p[i] < p[j]
      BY DEF Ascending
    <3>2. CASE j \in DOMAIN a
      BY <2>2, <2>7, <2>8, <3>1, <3>2 DEF Ascending
    <3>3. CASE j - Len(a) \in DOMAIN b /\ p[j] = b[j - Len(a)] /\ j > Len(a)
      <4>1. CASE i \in DOMAIN a
        BY <2>2, <2>8, <3>3, <4>1 DEF Before, Range
      <4>2. CASE i - Len(a) \in DOMAIN b /\ p[i] = b[i - Len(a)]
        <5>1. i - Len(a) < j - Len(a)
          BY <2>7, <3>1
        <5> QED
          BY <2>2, <3>3, <4>2, <5>1 DEF Ascending
      <4>3. ~(i > Len(a) + Len(b))
        BY <2>7, <3>1, <3>3
      <4> QED
        BY <2>10, <4>1, <4>2, <4>3
    <3>4. CASE j - (Len(a) + Len(b)) \in DOMAIN c /\ p[j] = c[j - (Len(a) + Len(b))]
      <4>1. CASE i \in DOMAIN a
        BY <2>2, <2>8, <3>4, <4>1 DEF Before, Range
      <4>2. CASE i - Len(a) \in DOMAIN b /\ p[i] = b[i - Len(a)]
        BY <2>2, <3>4, <4>2 DEF Before, Range
      <4>3. CASE i - (Len(a) + Len(b)) \in DOMAIN c /\ p[i] = c[i - (Len(a) + Len(b))]
        <5>1. i - (Len(a) + Len(b)) < j - (Len(a) + Len(b))
          BY <2>7, <3>1
        <5> QED
          BY <2>2, <3>4, <4>3, <5>1 DEF Ascending
      <4> QED
        BY <2>10, <4>1, <4>2, <4>3
    <3> QED
      BY <2>10, <3>2, <3>3, <3>4
  <2>12. Range(p) = Due
    <3>1. \A i \in DOMAIN p : p[i] \in Due
      BY <2>2, <2>10 DEF Range
    <3>2. /\ \A i \in DOMAIN a : i \in DOMAIN p
          /\ \A i \in DOMAIN b : Len(a) + i \in DOMAIN p
          /\ \A i \in DOMAIN c : Len(a) + Len(b) + i \in DOMAIN p
      BY <2>7
    <3>3. Range(a) \subseteq Range(p) /\ Range(b) \subseteq Range(p) /\ Range(c) \subseteq Range(p)
      BY <2>8, <3>2 DEF Range
    <3> QED
      BY <2>2, <3>1, <3>3 DEF Range
  <2> QED
    BY <2>3, <2>4, <2>6, <2>7, <2>11, <2>12, InOrderUnique
<1> QED
  BY <1>1, Inductive, PTL

\* A client at rest shows what the hub has stored, resumed or refetched, across cuts, restarts and
\* changes of subscription, but for the two excused cases (handleSseConnect, handleSyncEvent).
THEOREM RestingClientCurrent == Spec => []ViewCurrent
<1>1. ASSUME IInv
      PROVE  ViewCurrent
  <2>1. SUFFICES ASSUME Settled, excused[key] = {}
                 PROVE  cache[key] = truth[key]
    BY DEF ViewCurrent
  <2>2. /\ link = "up" /\ wire = <<>> /\ conn.direct /\ ~dirty /\ fetch[key] = Idle
    BY <2>1 DEF Settled
  <2>3. conn.open /\ conn.key = key /\ ~Told
    BY <1>1, <2>2 DEF IInv, Linked, Told
  <2>4. CaughtUp(key, handled)
    BY <1>1, <2>3 DEF IInv, Views
  <2>5. Numbers = <<>> /\ conn.todo = <<>> /\ conn.pending = <<>>
    BY <1>1, <2>2, <2>3 DEF IInv, Pipes, Numbers, Written
  <2>6. Due = {}
    <3>1. Range(Numbers) \cup Range(conn.todo) \cup Range(conn.pending) = Due
      BY <1>1, <2>3 DEF IInv, Pipes
    <3>2. Range(<<>>) = {}
      BY DEF Range
    <3> HIDE DEF Numbers, Due
    <3> QED
      BY <2>5, <3>1, <3>2
  <2>7. \A part : ~ToCome(key, part, handled)
    BY <2>3, <2>6 DEF ToCome, Due, ShouldSend
  <2>8. fetch[key].state = "idle"
    BY <2>2, FetchStates
  <2>9. \A part \in Part : cache[key][part] = truth[key][part]
    BY <2>1, <2>2, <2>4, <2>7, <2>8 DEF CaughtUp, Shown
  <2>10. cache[key] \in [Part -> Nat] /\ truth[key] \in [Part -> Nat]
    BY <1>1 DEF IInv, TypeOK
  <2> QED
    BY <2>9, <2>10
<1> QED
  BY <1>1, Inductive, PTL
============================================================================
