------------------------ MODULE MessageQueue2Proofs ------------------------
(***************************************************************************)
(* Proofs about MessageQueue2, for any localIds, modes and bounds: every   *)
(* invariant its runs check, from one inductive invariant.                 *)
(***************************************************************************)
EXTENDS MessageQueue2, FiniteSetTheorems, WellFoundedInduction, TLAPS

---------------------------------------------------------------------------
(* The inductive invariant.                                                *)

\* No order is twice in a queue; the orders rise.
Distinct(s) == \A i, j \in DOMAIN s : s[i].order = s[j].order => i = j
Sorted(s) == \A i, j \in DOMAIN s : i < j => s[i].order < s[j].order

\* Orders that were given out.
Used == prevOrder + 1 .. nextOrder - 1
Ranged ==
  /\ \A x \in Range(queue) : x.order \in Used
  /\ \A h \in DOMAIN handles : handles[h].item.order \in Used
  /\ cancelled \subseteq Used /\ discarded \subseteq Used
  /\ \A o \in Order : delivered[o] > 0 => o \in Used

\* A reservation in the map is the one of its localId, with a call on its way or held.
Maps(h) == reservations[handles[h].item.id] = h
Mapped ==
  \A id \in Ids : reservations[id] > 0 =>
    /\ handles[reservations[id]].item.id = id
    /\ handles[reservations[id]].state \in {"dispatching", "indeterminate"}

\* A reservation that can still deliver its item: in the map, or dropped from it by a reset while
\* the call was on its way.
Potent(h) == Maps(h) \/ (handles[h].open /\ handles[h].reason = "queue-reset")

\* An item that waits, and one whose reservation is potent, is nowhere else and was not delivered
\* or cancelled.
Free(o) == delivered[o] = 0 /\ o \notin cancelled
Waits == \A x \in Range(queue) : Free(x.order) /\ x.order \notin discarded
Potents ==
  \A h \in DOMAIN handles :
    /\ Potent(h) => Free(handles[h].item.order) /\ \A x \in Range(queue) : x.order # handles[h].item.order
    /\ Maps(h) => handles[h].item.order \notin discarded
OnePotent ==
  \A g, h \in DOMAIN handles :
    Potent(g) /\ Potent(h) /\ handles[g].item.order = handles[h].item.order => g = h

\* Whether its outcome was ever unknown stays with an item.
Origins ==
  \A g, h \in DOMAIN handles :
    handles[g].origin /\ Maps(h) /\ handles[g].item.order = handles[h].item.order => handles[h].origin

Fates == /\ Waits /\ Potents /\ OnePotent /\ Origins
         /\ DeliveredOnce /\ CancelledNeverDelivered /\ LiveHandleIsMapped /\ HeldNeverReplayed

IInv == /\ TypeOK /\ Distinct(queue) /\ Ranged /\ Mapped /\ Fates /\ WaiterNotStranded

---------------------------------------------------------------------------
(* Sequences of items.                                                     *)

\* A nonempty set of naturals has a smallest element, and Min is it.
LEMMA MinIs ==
  ASSUME NEW S \in SUBSET Nat, S # {}
  PROVE  Min(S) \in S /\ \A y \in S : Min(S) <= y
<1> DEFINE R == {ss \in Nat \X Nat : ss[1] < ss[2]}
<1>1. IsWellFoundedOn(R, Nat)
  BY NatLessThanWellFounded DEF OpToRel
<1> HIDE DEF R
<1>2. PICK x \in S : \A y \in S : <<y, x>> \notin R
  BY <1>1, WFMin
<1>3. \A y \in S : ~(y < x)
  BY <1>2 DEF R
<1>4. \E z \in S : \A y \in S : z <= y
  BY <1>3
<1> QED
  BY <1>4 DEF Min

\* Taking one element out.
LEMMA RemoveIs ==
  ASSUME NEW S, NEW s \in Seq(S), NEW i \in DOMAIN s
  PROVE  /\ RemoveAt(s, i) \in Seq(S) /\ Len(RemoveAt(s, i)) = Len(s) - 1
         /\ \A j \in 1 .. Len(s) - 1 : RemoveAt(s, i)[j] = IF j < i THEN s[j] ELSE s[j + 1]
<1> DEFINE front == SubSeq(s, 1, i - 1)
           back == SubSeq(s, i + 1, Len(s))
<1>1. front \in Seq(S) /\ Len(front) = i - 1 /\ \A j \in 1 .. i - 1 : front[j] = s[j]
  OBVIOUS
<1>2. back \in Seq(S) /\ Len(back) = Len(s) - i /\ \A j \in 1 .. Len(s) - i : back[j] = s[i + j]
  OBVIOUS
<1> HIDE DEF front, back
<1>3. front \o back \in Seq(S) /\ Len(front \o back) = Len(s) - 1
  BY <1>1, <1>2
<1>4. \A j \in 1 .. Len(s) - 1 : (front \o back)[j] = IF j < i THEN s[j] ELSE s[j + 1]
  BY <1>1, <1>2
<1> QED
  BY <1>3, <1>4 DEF RemoveAt, front, back

\* t is s with x put in at i.
HasInserted(t, s, i, x) ==
  /\ t \in Seq(Item) /\ Len(t) = Len(s) + 1
  /\ \A j \in 1 .. Len(s) + 1 : t[j] = IF j < i THEN s[j] ELSE IF j = i THEN x ELSE s[j - 1]

\* Putting one element in.
LEMMA InsertIs ==
  ASSUME NEW s \in Seq(Item), NEW i \in 1 .. Len(s) + 1, NEW x \in Item
  PROVE  HasInserted(InsertAt(s, i, x), s, i, x)
<1> DEFINE front == SubSeq(s, 1, i - 1)
           back == SubSeq(s, i, Len(s))
           mid == front \o <<x>>
<1>1. front \in Seq(Item) /\ Len(front) = i - 1 /\ \A j \in 1 .. i - 1 : front[j] = s[j]
  OBVIOUS
<1>2. back \in Seq(Item) /\ Len(back) = Len(s) - i + 1 /\ \A j \in 1 .. Len(s) - i + 1 : back[j] = s[i + j - 1]
  OBVIOUS
<1> HIDE DEF front, back
<1>3. mid \in Seq(Item) /\ Len(mid) = i /\ \A j \in 1 .. i : mid[j] = IF j < i THEN s[j] ELSE x
  BY <1>1
<1> HIDE DEF mid
<1>4. mid \o back \in Seq(Item) /\ Len(mid \o back) = Len(s) + 1
  BY <1>2, <1>3
<1>5. ASSUME NEW j \in 1 .. Len(s) + 1
      PROVE  (mid \o back)[j] = IF j < i THEN s[j] ELSE IF j = i THEN x ELSE s[j - 1]
  <2>1. CASE j <= i
    <3>1. (mid \o back)[j] = mid[j] /\ j \in 1 .. i
      BY <1>2, <1>3, <2>1
    <3> QED
      BY <1>3, <3>1
  <2>2. CASE j > i
    <3>1. (mid \o back)[j] = back[j - i] /\ j - i \in 1 .. Len(s) - i + 1
      BY <1>2, <1>3, <2>2
    <3>2. back[j - i] = s[i + (j - i) - 1] /\ i + (j - i) - 1 = j - 1
      BY <1>2, <3>1
    <3> QED
      BY <2>2, <3>1, <3>2
  <2>3. Len(s) \in Nat
    OBVIOUS
  <2>4. j <= i \/ j > i
    BY <2>3
  <2> QED
    BY <2>1, <2>2, <2>4, Zenon
<1> QED
  BY <1>4, <1>5 DEF InsertAt, HasInserted, front, back, mid

\* What is left of a queue without one of its items.
LEMMA RemovedQueue ==
  ASSUME NEW s \in Seq(Item), NEW i \in DOMAIN s
  PROVE  /\ RemoveAt(s, i) \in Seq(Item) /\ Range(RemoveAt(s, i)) \subseteq Range(s)
         /\ Distinct(s) => Distinct(RemoveAt(s, i)) /\ \A x \in Range(RemoveAt(s, i)) : x.order # s[i].order
         /\ Sorted(s) => Sorted(RemoveAt(s, i))
<1> DEFINE t == RemoveAt(s, i)
<1>1. t \in Seq(Item) /\ Len(t) = Len(s) - 1
  BY RemoveIs, Zenon
<1>2. \A j \in 1 .. Len(s) - 1 : t[j] = IF j < i THEN s[j] ELSE s[j + 1]
  BY RemoveIs, Zenon
<1> HIDE DEF t
<1>3. DOMAIN t = 1 .. Len(s) - 1 /\ DOMAIN s = 1 .. Len(s)
  BY <1>1
<1>4. Range(t) \subseteq Range(s)
  BY <1>2, <1>3 DEF Range
<1> DEFINE f == [j \in DOMAIN t |-> IF j < i THEN j ELSE j + 1]
<1>5. \A j \in DOMAIN t : f[j] \in DOMAIN s /\ f[j] # i /\ t[j] = s[f[j]] /\ f[j] \in {j, j + 1}
  BY <1>2, <1>3
<1>6. \A j, k \in DOMAIN t : j < k => f[j] < f[k]
  BY <1>3
<1>7. \A j, k \in DOMAIN t : f[j] = f[k] => j = k
  BY <1>3
<1> HIDE DEF f
<1>8. Distinct(s) => Distinct(t) /\ \A x \in Range(t) : x.order # s[i].order
  <2> SUFFICES ASSUME Distinct(s)
               PROVE  Distinct(t) /\ \A j \in DOMAIN t : t[j].order # s[i].order
    BY DEF Range
  <2> QED
    BY <1>5, <1>7 DEF Distinct
<1>9. Sorted(s) => Sorted(t)
  BY <1>5, <1>6 DEF Sorted
<1> QED
  BY <1>1, <1>4, <1>8, <1>9 DEF t

\* A queue with one more item.
LEMMA InsertedQueue ==
  ASSUME NEW s \in Seq(Item), NEW i \in 1 .. Len(s) + 1, NEW x \in Item
  PROVE  /\ InsertAt(s, i, x) \in Seq(Item) /\ Range(InsertAt(s, i, x)) = Range(s) \cup {x}
         /\ Distinct(s) /\ (\A y \in Range(s) : y.order # x.order) => Distinct(InsertAt(s, i, x))
         /\ /\ Sorted(s) /\ \A j \in 1 .. i - 1 : s[j].order < x.order
            /\ \A j \in i .. Len(s) : x.order < s[j].order
            => Sorted(InsertAt(s, i, x))
<1> DEFINE t == InsertAt(s, i, x)
<1>0. HasInserted(t, s, i, x)
  BY InsertIs, Zenon
<1> HIDE DEF t
<1>1. t \in Seq(Item) /\ Len(t) = Len(s) + 1
  BY <1>0 DEF HasInserted
<1>2. \A j \in 1 .. Len(s) + 1 : t[j] = IF j < i THEN s[j] ELSE IF j = i THEN x ELSE s[j - 1]
  BY <1>0 DEF HasInserted
<1>3. DOMAIN t = 1 .. Len(s) + 1 /\ DOMAIN s = 1 .. Len(s) /\ Len(s) \in Nat
  BY <1>1
<1>4. Range(t) = Range(s) \cup {x}
  <2>1. Range(t) \subseteq Range(s) \cup {x}
    BY <1>2, <1>3 DEF Range
  <2>2. x \in Range(t)
    BY <1>2, <1>3 DEF Range
  <2>3. ASSUME NEW j \in DOMAIN s
        PROVE  s[j] \in Range(t)
    <3>1. CASE j < i
      BY <1>2, <1>3, <3>1 DEF Range
    <3>2. CASE j >= i
      <4>1. t[j + 1] = s[j] /\ j + 1 \in DOMAIN t
        BY <1>2, <1>3, <3>2
      <4> QED
        BY <4>1 DEF Range
    <3> QED
      BY <3>1, <3>2, <1>3
  <2> QED
    BY <2>1, <2>2, <2>3 DEF Range
<1> DEFINE f == [j \in DOMAIN t |-> IF j < i THEN j ELSE j - 1]
<1>5. \A j \in DOMAIN t : j # i => f[j] \in DOMAIN s /\ t[j] = s[f[j]]
  BY <1>2, <1>3
<1>6. t[i] = x /\ i \in DOMAIN t
  BY <1>2, <1>3
<1>7. \A j, k \in DOMAIN t : j # i /\ k # i => /\ f[j] = f[k] => j = k
                                               /\ j < k => f[j] < f[k]
  BY <1>3
<1>8. \A j \in DOMAIN t : /\ j < i => f[j] \in 1 .. i - 1
                          /\ i < j => f[j] \in i .. Len(s)
  BY <1>3
<1> HIDE DEF f
<1>9. Distinct(s) /\ (\A y \in Range(s) : y.order # x.order) => Distinct(t)
  <2> SUFFICES ASSUME Distinct(s), \A j \in DOMAIN s : s[j].order # x.order
               PROVE  Distinct(t)
    BY DEF Range
  <2>1. ASSUME NEW j \in DOMAIN t, NEW k \in DOMAIN t, t[j].order = t[k].order
        PROVE  j = k
    <3>1. CASE j = i \/ k = i
      BY <1>5, <1>6, <2>1, <3>1
    <3>2. CASE j # i /\ k # i
      BY <1>5, <1>7, <2>1, <3>2 DEF Distinct
    <3> QED
      BY <3>1, <3>2
  <2> QED
    BY <2>1 DEF Distinct
<1>10. /\ Sorted(s) /\ \A j \in 1 .. i - 1 : s[j].order < x.order
       /\ \A j \in i .. Len(s) : x.order < s[j].order
       => Sorted(t)
  <2> SUFFICES ASSUME Sorted(s), \A j \in 1 .. i - 1 : s[j].order < x.order,
                      \A j \in i .. Len(s) : x.order < s[j].order
               PROVE  Sorted(t)
    OBVIOUS
  <2>1. ASSUME NEW j \in DOMAIN t, NEW k \in DOMAIN t, j < k
        PROVE  t[j].order < t[k].order
    <3>1. CASE j = i
      <4>1. f[k] \in i .. Len(s) /\ t[k] = s[f[k]]
        BY <1>5, <1>8, <2>1, <3>1
      <4> QED
        BY <1>6, <3>1, <4>1
    <3>2. CASE k = i
      <4>1. f[j] \in 1 .. i - 1 /\ t[j] = s[f[j]]
        BY <1>5, <1>8, <2>1, <3>2
      <4> QED
        BY <1>6, <3>2, <4>1
    <3>3. CASE j # i /\ k # i
      BY <1>5, <1>7, <2>1, <3>3 DEF Sorted
    <3> QED
      BY <3>1, <3>2, <3>3
  <2> QED
    BY <2>1 DEF Sorted
<1> QED
  BY <1>1, <1>4, <1>9, <1>10 DEF t

\* A queue with one more item at its end.
LEMMA AppendedQueue ==
  ASSUME NEW s \in Seq(Item), NEW x \in Item
  PROVE  /\ Append(s, x) \in Seq(Item) /\ Range(Append(s, x)) = Range(s) \cup {x}
         /\ Distinct(s) /\ (\A y \in Range(s) : y.order # x.order) => Distinct(Append(s, x))
         /\ Sorted(s) /\ (\A y \in Range(s) : y.order < x.order) => Sorted(Append(s, x))
<1> DEFINE t == Append(s, x)
<1>1. t \in Seq(Item) /\ DOMAIN t = 1 .. Len(s) + 1 /\ DOMAIN s = 1 .. Len(s) /\ Len(s) \in Nat
  OBVIOUS
<1>2. \A j \in 1 .. Len(s) + 1 : t[j] = IF j <= Len(s) THEN s[j] ELSE x
  OBVIOUS
<1> HIDE DEF t
<1>3. Range(t) = Range(s) \cup {x}
  BY <1>1, <1>2 DEF Range
<1>4. Distinct(s) /\ (\A y \in Range(s) : y.order # x.order) => Distinct(t)
  BY <1>1, <1>2 DEF Range, Distinct
<1>5. Sorted(s) /\ (\A y \in Range(s) : y.order < x.order) => Sorted(t)
  BY <1>1, <1>2 DEF Range, Sorted
<1> QED
  BY <1>1, <1>3, <1>4, <1>5 DEF t

\* The front of a queue, and what is behind it.
LEMMA SplitQueue ==
  ASSUME NEW s \in Seq(Item), NEW n \in 1 .. Len(s)
  PROVE  /\ SubSeq(s, 1, n) \in Seq(Item) /\ SubSeq(s, n + 1, Len(s)) \in Seq(Item)
         /\ Range(SubSeq(s, 1, n)) \subseteq Range(s) /\ Range(SubSeq(s, n + 1, Len(s))) \subseteq Range(s)
         /\ Distinct(s) => /\ Distinct(SubSeq(s, n + 1, Len(s)))
                           /\ \A x \in Range(SubSeq(s, 1, n)), y \in Range(SubSeq(s, n + 1, Len(s))) :
                                x.order # y.order
         /\ Sorted(s) => Sorted(SubSeq(s, n + 1, Len(s)))
<1> DEFINE a == SubSeq(s, 1, n)
           b == SubSeq(s, n + 1, Len(s))
<1>1. a \in Seq(Item) /\ DOMAIN a = 1 .. n /\ \A j \in 1 .. n : a[j] = s[j]
  OBVIOUS
<1>2. b \in Seq(Item) /\ DOMAIN b = 1 .. Len(s) - n /\ \A j \in 1 .. Len(s) - n : b[j] = s[n + j]
  OBVIOUS
<1>3. DOMAIN s = 1 .. Len(s) /\ Len(s) \in Nat
  OBVIOUS
<1> HIDE DEF a, b
<1>4. Range(a) \subseteq Range(s)
  BY <1>1, <1>3 DEF Range
<1>5. \A j \in DOMAIN b : n + j \in DOMAIN s
  BY <1>2, <1>3
<1>6. Range(b) \subseteq Range(s)
  BY <1>2, <1>5 DEF Range
<1>7. ASSUME Distinct(s)
      PROVE  Distinct(b) /\ \A x \in Range(a), y \in Range(b) : x.order # y.order
  <2>1. Distinct(b)
    BY <1>2, <1>3, <1>5, <1>7 DEF Distinct
  <2>2. ASSUME NEW i \in DOMAIN a, NEW j \in DOMAIN b
        PROVE  a[i].order # b[j].order
    <3>1. i \in DOMAIN s /\ n + j \in DOMAIN s /\ i # n + j
      BY <1>1, <1>2, <1>3
    <3> QED
      BY <1>1, <1>2, <1>7, <3>1 DEF Distinct
  <2> QED
    BY <2>1, <2>2 DEF Range
<1>8. Sorted(s) => Sorted(b)
  BY <1>2, <1>3, <1>5 DEF Sorted
<1> QED
  BY <1>1, <1>2, <1>4, <1>6, <1>7, <1>8 DEF a, b

\* Orders are numbers.
LEMMA OrderIsInt ==
  ASSUME NEW x \in Item
  PROVE  x.order \in Int /\ x.order \in Order
BY QueueAssumption DEF Item, Order

\* One queue in front of another.
LEMMA JoinedQueue ==
  ASSUME NEW a \in Seq(Item), NEW b \in Seq(Item)
  PROVE  /\ a \o b \in Seq(Item) /\ Range(a \o b) \subseteq Range(a) \cup Range(b)
         /\ Sorted(a) /\ Distinct(b) /\ (\A x \in Range(a), y \in Range(b) : x.order < y.order) => Distinct(a \o b)
         /\ Sorted(a) /\ Sorted(b) /\ (\A x \in Range(a), y \in Range(b) : x.order < y.order) => Sorted(a \o b)
<1> DEFINE t == a \o b
<1>1. /\ t \in Seq(Item) /\ DOMAIN t = 1 .. Len(a) + Len(b) /\ DOMAIN a = 1 .. Len(a) /\ DOMAIN b = 1 .. Len(b)
      /\ Len(a) \in Nat /\ Len(b) \in Nat
  OBVIOUS
<1>2. \A j \in DOMAIN t : t[j] = IF j <= Len(a) THEN a[j] ELSE b[j - Len(a)]
  OBVIOUS
<1> HIDE DEF t
<1>3. \A j \in DOMAIN t : (j <= Len(a) => j \in DOMAIN a) /\ (j > Len(a) => j - Len(a) \in DOMAIN b)
  BY <1>1
<1>4. Range(t) \subseteq Range(a) \cup Range(b)
  BY <1>1, <1>2, <1>3 DEF Range
<1>5. ASSUME \A x \in Range(a), y \in Range(b) : x.order < y.order,
             NEW j \in DOMAIN t, NEW k \in DOMAIN t, j <= Len(a), k > Len(a)
      PROVE  t[j].order < t[k].order
  <2>1. t[j] \in Range(a) /\ t[k] \in Range(b)
    BY <1>2, <1>3, <1>5 DEF Range
  <2> QED
    BY <1>5, <2>1
<1>6. ASSUME Sorted(a), Distinct(b), \A x \in Range(a), y \in Range(b) : x.order < y.order
      PROVE  Distinct(t)
  <2>1. \A x \in Range(a) \cup Range(b) : x.order \in Int
    BY OrderIsInt DEF Range
  <2>2. ASSUME NEW j \in DOMAIN t, NEW k \in DOMAIN t, j < k
        PROVE  t[j].order # t[k].order
    <3>1. CASE k <= Len(a)
      BY <1>1, <1>2, <1>3, <1>6, <2>1, <2>2, <3>1 DEF Sorted, Range
    <3>2. CASE j > Len(a)
      <4>1. t[j] = b[j - Len(a)] /\ t[k] = b[k - Len(a)] /\ j - Len(a) # k - Len(a)
        BY <1>1, <1>2, <2>2, <3>2
      <4>2. j - Len(a) \in DOMAIN b /\ k - Len(a) \in DOMAIN b
        BY <1>1, <1>3, <2>2, <3>2
      <4> QED
        BY <1>6, <4>1, <4>2 DEF Distinct
    <3>3. CASE j <= Len(a) /\ k > Len(a)
      <4>1. t[j].order < t[k].order /\ t[j] \in Range(t) /\ t[k] \in Range(t)
        BY <1>5, <1>6, <3>3 DEF Range
      <4> QED
        BY <1>4, <2>1, <4>1
    <3> QED
      BY <1>1, <3>1, <3>2, <3>3
  <2> QED
    BY <1>1, <2>2 DEF Distinct
<1>7. ASSUME Sorted(a), Sorted(b), \A x \in Range(a), y \in Range(b) : x.order < y.order
      PROVE  Sorted(t)
  <2>1. ASSUME NEW j \in DOMAIN t, NEW k \in DOMAIN t, j < k
        PROVE  t[j].order < t[k].order
    <3>1. CASE k <= Len(a)
      BY <1>1, <1>2, <1>3, <1>7, <2>1, <3>1 DEF Sorted
    <3>2. CASE j > Len(a)
      <4>1. t[j] = b[j - Len(a)] /\ t[k] = b[k - Len(a)] /\ j - Len(a) < k - Len(a)
        BY <1>1, <1>2, <2>1, <3>2
      <4>2. j - Len(a) \in DOMAIN b /\ k - Len(a) \in DOMAIN b
        BY <1>1, <1>3, <2>1, <3>2
      <4> QED
        BY <1>7, <4>1, <4>2 DEF Sorted
    <3>3. CASE j <= Len(a) /\ k > Len(a)
      BY <1>5, <1>7, <3>3
    <3> QED
      BY <1>1, <3>1, <3>2, <3>3
  <2> QED
    BY <2>1 DEF Sorted
<1> QED
  BY <1>1, <1>4, <1>6, <1>7 DEF t

\* What SelectInSeq makes of the indices it finds.
LEMMA FirstIs ==
  ASSUME NEW n \in Nat, NEW S \in SUBSET (1 .. n), NEW k, k = IF S # {} THEN Min(S) ELSE 0
  PROVE  /\ k \in 0 .. n
         /\ k > 0 => k \in S /\ \A y \in S : k <= y
         /\ k = 0 => S = {}
<1>1. CASE S = {}
  BY <1>1
<1>2. CASE S # {}
  <2>1. k \in S /\ \A y \in S : k <= y
    BY <1>2, MinIs
  <2>2. k \in 1 .. n
    BY <2>1
  <2> QED
    BY <2>1, <2>2
<1> QED
  BY <1>1, <1>2

\* Where a localId waits.
LEMMA FindIs ==
  ASSUME TypeOK, NEW id
  PROVE  /\ Find(id) \in Nat
         /\ Find(id) > 0 => Find(id) \in DOMAIN queue /\ queue[Find(id)].id = id
         /\ Find(id) = 0 => \A i \in DOMAIN queue : queue[i].id # id
<1> DEFINE I == {i \in 1 .. Len(queue) : queue[i].id = id}
<1>1. queue \in Seq(Item) /\ DOMAIN queue = 1 .. Len(queue) /\ Len(queue) \in Nat
  BY DEF TypeOK
<1>2. Find(id) = IF I # {} THEN Min(I) ELSE 0
  BY DEF Find, SelectInSeq
<1>3. I # {} => Min(I) \in I
  <2>1. I \in SUBSET Nat
    BY <1>1
  <2> HIDE DEF I
  <2> QED
    BY <2>1, MinIs
<1> HIDE DEF I
<1>4. \A i \in I : i \in DOMAIN queue /\ queue[i].id = id /\ i > 0
  BY <1>1 DEF I
<1>5. I = {} => \A i \in DOMAIN queue : queue[i].id # id
  BY <1>1 DEF I
<1> QED
  BY <1>1, <1>2, <1>3, <1>4, <1>5

\* Where a restored item goes: before the first later one, if there is one.
LEMMA RestoreIndexIs ==
  ASSUME NEW s \in Seq(Item), NEW taken \in Handle
  PROVE  /\ RestoreIndex(s, taken) \in 1 .. Len(s) + 1
         /\ (\E i \in DOMAIN s : s[i].order > taken.item.order) =>
              /\ RestoreIndex(s, taken) \in DOMAIN s
              /\ s[RestoreIndex(s, taken)].order > taken.item.order
              /\ \A i \in 1 .. RestoreIndex(s, taken) - 1 : ~(s[i].order > taken.item.order)
         /\ ~(\E i \in DOMAIN s : s[i].order > taken.item.order) =>
              \/ \E i \in DOMAIN s : s[i] \in taken.next
              \/ \E i \in DOMAIN s : s[i] \in taken.prev /\ RestoreIndex(s, taken) = i + 1
              \/ RestoreIndex(s, taken) = Len(s) + 1
<1> DEFINE L == {i \in 1 .. Len(s) : s[i].order > taken.item.order}
           N == {i \in 1 .. Len(s) : s[i] \in taken.next}
           P == {i \in 1 .. Len(s) : s[i] \in taken.prev}
           later == IF L # {} THEN Min(L) ELSE 0
           next == IF N # {} THEN Min(N) ELSE 0
           prev == IF P # {} THEN Min(P) ELSE 0
           k == RestoreIndex(s, taken)
<1>1. DOMAIN s = 1 .. Len(s) /\ Len(s) \in Nat
  OBVIOUS
<1>2. k = IF later > 0 THEN later ELSE IF next > 0 THEN next ELSE IF prev > 0 THEN prev + 1 ELSE Len(s) + 1
  BY DEF RestoreIndex, SelectInSeq
<1>3. L \in SUBSET (1 .. Len(s)) /\ N \in SUBSET (1 .. Len(s)) /\ P \in SUBSET (1 .. Len(s))
  OBVIOUS
<1>4. later \in 0 .. Len(s) /\ (later > 0 => later \in L /\ \A y \in L : later <= y) /\ (later = 0 => L = {})
  <2> HIDE DEF L
  <2> QED
    BY <1>1, <1>3, FirstIs
<1>5. next \in 0 .. Len(s) /\ (next > 0 => next \in N)
  <2> HIDE DEF N
  <2> QED
    BY <1>1, <1>3, FirstIs
<1>6. prev \in 0 .. Len(s) /\ (prev > 0 => prev \in P)
  <2> HIDE DEF P
  <2> QED
    BY <1>1, <1>3, FirstIs
<1> HIDE DEF later, next, prev, k
<1>9. k \in 1 .. Len(s) + 1
  BY <1>1, <1>2, <1>4, <1>5, <1>6
<1>10. CASE later > 0
  <2>1. k = later /\ k \in L /\ \A y \in L : k <= y
    BY <1>2, <1>4, <1>10
  <2>2. k \in DOMAIN s /\ s[k].order > taken.item.order
    BY <1>1, <2>1
  <2>3. \A i \in 1 .. k - 1 : ~(s[i].order > taken.item.order)
    BY <1>1, <2>1, <2>2
  <2> QED
    BY <1>1, <1>9, <2>2, <2>3 DEF k
<1>11. CASE later = 0
  <2>1. ~(\E i \in DOMAIN s : s[i].order > taken.item.order)
    BY <1>1, <1>4, <1>11
  <2>2. \/ \E i \in DOMAIN s : s[i] \in taken.next
        \/ \E i \in DOMAIN s : s[i] \in taken.prev /\ k = i + 1
        \/ k = Len(s) + 1
    BY <1>1, <1>2, <1>5, <1>6, <1>11
  <2> QED
    BY <1>9, <2>1, <2>2 DEF k
<1> QED
  BY <1>4, <1>10, <1>11

---------------------------------------------------------------------------
(* What the operators make.                                                *)

\* The orders of a queue are those of its items.
LEMMA OrdersAre ==
  ASSUME NEW s, NEW o
  PROVE  o \in OrdersOf(s) <=> \E x \in Range(s) : x.order = o
BY DEF OrdersOf, Range

\* A queue without the first item of a localId, if it has one.
LEMMA WaitingIs ==
  ASSUME TypeOK, NEW id
  PROVE  /\ Waiting(id) \in Seq(Item) /\ Range(Waiting(id)) \subseteq Range(queue)
         /\ Distinct(queue) => /\ Distinct(Waiting(id))
                               /\ Find(id) > 0 => \A x \in Range(Waiting(id)) : x.order # queue[Find(id)].order
         /\ Sorted(queue) => Sorted(Waiting(id))
<1>1. queue \in Seq(Item)
  BY DEF TypeOK
<1>2. CASE Find(id) > 0
  <2>1. PICK i \in DOMAIN queue : i = Find(id)
    BY <1>2, FindIs
  <2>2. Waiting(id) = RemoveAt(queue, i)
    BY <1>2, <2>1 DEF Waiting
  <2> QED
    BY <1>1, <2>1, <2>2, RemovedQueue
<1>3. CASE ~(Find(id) > 0)
  BY <1>1, <1>3 DEF Waiting
<1> QED
  BY <1>2, <1>3

\* A batch is a front of the queue.
LEMMA BatchSizeIs ==
  ASSUME NEW s \in Seq(Item), s # <<>>
  PROVE  BatchSize(s) \in 1 .. Len(s)
<1>1. DOMAIN s = 1 .. Len(s) /\ Len(s) \in Nat /\ Len(s) >= 1
  OBVIOUS
<1>2. CASE s[1].isolate
  BY <1>1, <1>2 DEF BatchSize
<1>3. CASE ~s[1].isolate
  <2> DEFINE Same(i) == s[i].hash = s[1].hash /\ ~s[i].isolate
             S == {i \in 1 .. Len(s) : i < Len(s) => ~Same(i + 1)}
             P(n) == (\A i \in 1 .. n : Same(i)) /\ (n < Len(s) => ~Same(n + 1))
  <2>1. S \in SUBSET Nat /\ Len(s) \in S
    BY <1>1
  <2>2. PICK n \in S : \A y \in S : n <= y
    <3> HIDE DEF S
    <3> QED
      BY <2>1, MinIs
  <2>3. n \in 1 .. Len(s) /\ (n < Len(s) => ~Same(n + 1))
    BY <2>2
  <2>4. ASSUME NEW i \in 1 .. n
        PROVE  Same(i)
    <3>1. CASE i = 1
      BY <1>3, <3>1
    <3>2. CASE i # 1
      <4>1. i - 1 \in 1 .. Len(s) /\ ~(n <= i - 1) /\ i - 1 < Len(s)
        BY <1>1, <2>3, <3>2
      <4>2. i - 1 \notin S
        <5> HIDE DEF S
        <5> QED
          BY <2>2, <4>1
      <4>3. Same((i - 1) + 1)
        BY <4>1, <4>2
      <4>4. (i - 1) + 1 = i
        BY <4>1
      <4> QED
        BY <4>3, <4>4
    <3> QED
      BY <3>1, <3>2
  <2>5. \E k \in DOMAIN s : P(k)
    BY <1>1, <2>3, <2>4
  <2>6. BatchSize(s) = CHOOSE k \in DOMAIN s : P(k)
    BY <1>3 DEF BatchSize
  <2> HIDE DEF P
  <2> QED
    BY <1>1, <2>5, <2>6
<1> QED
  BY <1>2, <1>3

\* A reservation marked void.
LEMMA VoidedIs ==
  ASSUME TypeOK, NEW h \in DOMAIN handles
  PROVE  /\ Voided(h) \in Seq(Handle) /\ DOMAIN Voided(h) = DOMAIN handles
         /\ \A g \in DOMAIN handles :
              /\ Voided(h)[g].item = handles[g].item /\ Voided(h)[g].origin = handles[g].origin
              /\ Voided(h)[g].open = handles[g].open
              /\ g # h => Voided(h)[g] = handles[g]
         /\ Voided(h)[h].reason = "explicit" /\ Voided(h)[h].state = "cancelled"
<1>1. handles \in Seq(Handle) /\ handles[h] \in Handle
  BY DEF TypeOK
<1> DEFINE k == [handles[h] EXCEPT !.reason = "explicit", !.state = "cancelled"]
<1>2. k \in Handle /\ k.item = handles[h].item /\ k.origin = handles[h].origin /\ k.open = handles[h].open
      /\ k.reason = "explicit" /\ k.state = "cancelled"
  BY <1>1 DEF Handle
<1>3. Voided(h) = [handles EXCEPT ![h] = k]
  BY <1>1 DEF Voided
<1> HIDE DEF k
<1> QED
  BY <1>1, <1>2, <1>3

\* What a clear leaves of the reservations.
LEMMA ResetIs ==
  ASSUME TypeOK, NEW preserve \in BOOLEAN, CancelReservations(preserve)
  PROVE  /\ handles' \in Seq(Handle) /\ DOMAIN handles' = DOMAIN handles
         /\ reservations' \in [Ids -> 0 .. Len(handles)] /\ Len(handles') = Len(handles)
         /\ \A g \in DOMAIN handles :
              /\ handles'[g].item = handles[g].item /\ handles'[g].origin = handles[g].origin
              /\ handles'[g].open = handles[g].open
              /\ g \in Doomed(preserve) => handles'[g].state = "cancelled"
              /\ g \notin Doomed(preserve) => handles'[g] = handles[g]
         /\ \A id \in Ids : reservations'[id] = IF reservations[id] \in Doomed(preserve) THEN 0 ELSE reservations[id]
<1>1. handles \in Seq(Handle) /\ DOMAIN handles = 1 .. Len(handles) /\ Len(handles) \in Nat
  BY DEF TypeOK
<1>2. /\ handles' = [h \in DOMAIN handles |->
                       IF h \in Doomed(preserve)
                       THEN [handles[h] EXCEPT !.reason = "queue-reset", !.state = "cancelled"] ELSE handles[h]]
      /\ reservations' = [id \in Ids |-> IF reservations[id] \in Doomed(preserve) THEN 0 ELSE reservations[id]]
  BY DEF CancelReservations
<1>3. ASSUME NEW h \in DOMAIN handles
      PROVE  /\ handles'[h] \in Handle /\ handles'[h].item = handles[h].item
             /\ handles'[h].origin = handles[h].origin /\ handles'[h].open = handles[h].open
             /\ h \in Doomed(preserve) => handles'[h].state = "cancelled"
             /\ h \notin Doomed(preserve) => handles'[h] = handles[h]
  <2> DEFINE k == [handles[h] EXCEPT !.reason = "queue-reset", !.state = "cancelled"]
  <2>1. handles[h] \in Handle
    BY <1>1
  <2>2. k \in Handle /\ k.item = handles[h].item /\ k.origin = handles[h].origin /\ k.open = handles[h].open
        /\ k.state = "cancelled"
    BY <2>1 DEF Handle
  <2>3. handles'[h] = IF h \in Doomed(preserve) THEN k ELSE handles[h]
    BY <1>2
  <2> HIDE DEF k
  <2> QED
    BY <2>1, <2>2, <2>3
<1>4. handles' \in [1 .. Len(handles) -> Handle]
  BY <1>1, <1>2, <1>3
<1>5. handles' \in Seq(Handle) /\ Len(handles') = Len(handles)
  BY <1>1, <1>4
<1>6. reservations' \in [Ids -> 0 .. Len(handles)]
  <2>1. reservations \in [Ids -> 0 .. Len(handles)] /\ 0 \in 0 .. Len(handles)
    BY <1>1 DEF TypeOK
  <2> QED
    BY <1>2, <2>1
<1> QED
  BY <1>1, <1>2, <1>3, <1>4, <1>5, <1>6

\* What a cancel or a retry does to a held reservation, and what it calls cancelled.
LEMMA ReleaseIs ==
  ASSUME TypeOK, NEW id \in Ids, Release(id)
  PROVE  \/ /\ Find(id) = 0 /\ reservations[id] \in DOMAIN handles
            /\ handles' = Voided(reservations[id])
            /\ reservations' = [reservations EXCEPT ![id] = 0]
            /\ cancelled' = cancelled \cup {handles[reservations[id]].item.order}
         \/ /\ Find(id) \in DOMAIN queue /\ handles' = handles /\ reservations' = reservations
            /\ cancelled' = cancelled \cup {queue[Find(id)].order}
         \/ Find(id) = 0 /\ handles' = handles /\ reservations' = reservations /\ cancelled' = cancelled
<1>1. /\ reservations[id] \in 0 .. Len(handles) /\ DOMAIN handles = 1 .. Len(handles) /\ Len(handles) \in Nat
      /\ Find(id) \in Nat
  BY FindIs DEF TypeOK
<1>2. CASE Find(id) = 0 /\ CancelAnswer(id) = "true"
  <2>1. reservations[id] # 0
    BY <1>2 DEF CancelAnswer
  <2> QED
    BY <1>1, <1>2, <2>1 DEF Release
<1>3. CASE ~(Find(id) = 0 /\ CancelAnswer(id) = "true")
  <2>1. /\ handles' = handles /\ reservations' = reservations
        /\ cancelled' = cancelled \cup {queue[i].order : i \in {Find(id)} \ {0}}
    BY <1>3 DEF Release
  <2>2. CASE Find(id) = 0
    <3>1. {Find(id)} \ {0} = {}
      BY <2>2
    <3>2. {queue[i].order : i \in {Find(id)} \ {0}} = {}
      BY <3>1
    <3> QED
      BY <2>1, <2>2, <3>2
  <2>3. CASE Find(id) > 0
    <3>1. {Find(id)} \ {0} = {Find(id)}
      BY <2>3
    <3>2. {queue[i].order : i \in {Find(id)} \ {0}} = {queue[Find(id)].order}
      BY <3>1
    <3> QED
      BY <2>1, <2>3, <3>2, FindIs
  <2> QED
    BY <1>1, <2>2, <2>3
<1> QED
  BY <1>2, <1>3

\* Remembered localIds.
LEMMA RememberType ==
  ASSUME TypeOK, NEW id \in Ids
  PROVE  RememberConsumed(id) \in Seq(Ids)
<1> DEFINE kept == RemoveFirst(consumed, id)
<1>1. consumed \in Seq(Ids) /\ DOMAIN consumed = 1 .. Len(consumed) /\ Len(consumed) \in Nat
  BY DEF TypeOK
<1>2. kept \in Seq(Ids)
  <2>1. CASE \E i \in 1 .. Len(consumed) : consumed[i] = id
    <3> DEFINE I == {i \in 1 .. Len(consumed) : consumed[i] = id}
               k == IF I # {} THEN Min(I) ELSE 0
    <3>1. kept = RemoveAt(consumed, k)
      BY <2>1 DEF RemoveFirst, SelectInSeq
    <3>2. I # {} /\ I \in SUBSET (1 .. Len(consumed))
      BY <2>1
    <3>3. k \in DOMAIN consumed
      <4> HIDE DEF I
      <4>1. k \in 0 .. Len(consumed) /\ k # 0
        BY <1>1, <3>2, FirstIs
      <4> QED
        BY <1>1, <4>1
    <3> HIDE DEF k
    <3> QED
      BY <1>1, <3>1, <3>3, RemoveIs
  <2>2. CASE ~\E i \in 1 .. Len(consumed) : consumed[i] = id
    BY <1>1, <2>2 DEF RemoveFirst
  <2> QED
    BY <2>1, <2>2
<1> HIDE DEF kept
<1>3. CASE Len(kept) < ConsumedLimit
  BY <1>2, <1>3 DEF RememberConsumed, kept
<1>4. CASE ~(Len(kept) < ConsumedLimit)
  <2>1. kept # <<>>
    BY <1>2, <1>4, QueueAssumption
  <2>2. Tail(kept) \in Seq(Ids)
    BY <1>2, <2>1
  <2> QED
    BY <1>4, <2>2 DEF RememberConsumed, kept
<1> QED
  BY <1>3, <1>4

---------------------------------------------------------------------------
(* Steps that only take away.                                              *)

\* No place can still deliver an item.
Gone(o) ==
  /\ \A x \in Range(queue) : x.order # o
  /\ \A h \in DOMAIN handles : handles[h].item.order = o => ~Potent(h)

\* A step that makes no reservation and no reservation potent.
Kept ==
  /\ DOMAIN handles' = DOMAIN handles
  /\ \A g \in DOMAIN handles :
       /\ handles'[g].item = handles[g].item /\ handles'[g].origin = handles[g].origin
       /\ Potent(g)' => Potent(g)
       /\ Maps(g)' => Maps(g)

\* Orders that were given out are orders.
LEMMA UsedAreOrders ==
  ASSUME TypeOK
  PROVE  Used \subseteq Order
BY QueueAssumption DEF TypeOK, Used, Order

\* Such a step keeps the fates of the items, if what it calls cancelled, discarded or delivered is
\* gone and what it queues is new.
LEMMA Shrinks ==
  ASSUME IInv, TypeOK', Kept, Used \subseteq Used',
         \A x \in Range(queue') : x \in Range(queue) \/ (x.order \in Used' /\ x.order \notin Used),
         \A o \in cancelled' : o \in cancelled \/ (o \in Used /\ delivered[o] = 0 /\ Gone(o)'),
         \A o \in discarded' : \/ o \in discarded
                               \/ /\ o \in Used /\ \A x \in Range(queue') : x.order # o
                                  /\ \A h \in DOMAIN handles : Maps(h)' => handles[h].item.order # o,
         \A o \in Order : \/ delivered'[o] = delivered[o]
                          \/ delivered'[o] = 1 /\ o \in Used /\ o \notin cancelled' /\ Gone(o)'
  PROVE  /\ Ranged' /\ Waits' /\ Potents' /\ OnePotent' /\ Origins'
         /\ DeliveredOnce' /\ CancelledNeverDelivered' /\ HeldNeverReplayed'
<1>1. /\ Ranged /\ Waits /\ Potents /\ OnePotent /\ Origins
      /\ DeliveredOnce /\ CancelledNeverDelivered /\ HeldNeverReplayed /\ Used \subseteq Order
  BY UsedAreOrders DEF IInv, Fates
<1>2. \A g \in DOMAIN handles : handles[g].item.order \in Used
  BY <1>1 DEF Ranged
<1>3. \A x \in Range(queue') : x.order \in Order
  BY OrderIsInt DEF TypeOK, Range
<1>4. Ranged'
  <2>1. \A x \in Range(queue') : x.order \in Used'
    BY <1>1 DEF Ranged
  <2>2. \A h \in DOMAIN handles' : handles'[h].item.order \in Used'
    BY <1>2 DEF Kept
  <2>3. cancelled' \subseteq Used' /\ discarded' \subseteq Used'
    BY <1>1 DEF Ranged
  <2>4. \A o \in Order : delivered'[o] > 0 => o \in Used'
    BY <1>1 DEF Ranged
  <2> QED
    BY <2>1, <2>2, <2>3, <2>4 DEF Ranged
<1>5. ASSUME NEW x \in Range(queue')
      PROVE  delivered'[x.order] = 0 /\ x.order \notin cancelled' /\ x.order \notin discarded'
  <2>1. x.order \in Order /\ ~Gone(x.order)'
    BY <1>3 DEF Gone
  <2>2. delivered'[x.order] = delivered[x.order]
    BY <2>1
  <2>3. CASE x \in Range(queue)
    BY <1>1, <2>1, <2>2, <2>3 DEF Waits, Free
  <2>4. CASE x.order \notin Used
    <3>1. delivered[x.order] = 0
      <4>1. delivered[x.order] \in Nat
        BY <2>1 DEF IInv, TypeOK
      <4> QED
        BY <1>1, <2>1, <2>4, <4>1 DEF Ranged
    <3> QED
      BY <1>1, <2>2, <2>4, <3>1 DEF Ranged
  <2> QED
    BY <2>3, <2>4
<1>6. ASSUME NEW h \in DOMAIN handles, Potent(h)'
      PROVE  /\ delivered'[handles[h].item.order] = 0 /\ handles[h].item.order \notin cancelled'
             /\ \A x \in Range(queue') : x.order # handles[h].item.order
  <2>1. PICK o \in Order : o = handles[h].item.order
    BY <1>1, <1>2
  <2>2. Potent(h) /\ ~Gone(o)' /\ o \in Used
    BY <1>2, <1>6, <2>1 DEF Gone, Kept
  <2>3. delivered[o] = 0 /\ o \notin cancelled /\ \A x \in Range(queue) : x.order # o
    BY <1>1, <2>1, <2>2 DEF Potents, Free
  <2>4. delivered'[o] = 0 /\ o \notin cancelled'
    BY <2>2, <2>3
  <2>5. \A x \in Range(queue') : x.order # o
    BY <2>2, <2>3
  <2> QED
    BY <2>1, <2>4, <2>5
<1>7. ASSUME NEW h \in DOMAIN handles, Maps(h)'
      PROVE  handles[h].item.order \notin discarded'
  <2>1. Maps(h)
    BY <1>7 DEF Kept
  <2> QED
    BY <1>1, <1>7, <2>1 DEF Potents
<1>8. Waits'
  BY <1>5 DEF Waits, Free
<1>9. Potents'
  BY <1>6, <1>7 DEF Potents, Free, Kept
<1>10. OnePotent'
  BY <1>1 DEF OnePotent, Kept
<1>11. Origins'
  BY <1>1 DEF Origins, Kept
<1>12. DeliveredOnce'
  BY <1>1 DEF DeliveredOnce
<1>13. CancelledNeverDelivered'
  <2>1. ASSUME NEW o \in cancelled'
        PROVE  delivered'[o] = 0
    <3>1. o \in Order /\ delivered[o] = 0
      BY <1>1 DEF CancelledNeverDelivered, Ranged
    <3> QED
      BY <3>1
  <2> QED
    BY <2>1 DEF CancelledNeverDelivered
<1>14. HeldNeverReplayed'
  <2>1. ASSUME NEW h \in DOMAIN handles, handles[h].origin
        PROVE  \A x \in Range(queue') : x.order # handles[h].item.order
    <3>1. \A x \in Range(queue) : x.order # handles[h].item.order
      BY <1>1, <2>1, OrdersAre DEF HeldNeverReplayed
    <3> QED
      BY <1>2, <3>1
  <2>2. \A h \in DOMAIN handles' : handles'[h].origin => handles'[h].item.order \notin OrdersOf(queue')
    BY <2>1, OrdersAre DEF Kept
  <2> QED
    BY <2>2 DEF HeldNeverReplayed, OrdersOf
<1> QED
  BY <1>4, <1>8, <1>9, <1>10, <1>11, <1>12, <1>13, <1>14

\* A reservation in the map is the one of its localId.
LEMMA MappedIs ==
  ASSUME IInv, NEW id \in Ids, reservations[id] > 0
  PROVE  /\ reservations[id] \in DOMAIN handles
         /\ Maps(reservations[id]) /\ Potent(reservations[id])
         /\ handles[reservations[id]].item.id = id
         /\ handles[reservations[id]].state \in {"dispatching", "indeterminate"}
<1>1. reservations[id] \in DOMAIN handles
  BY DEF IInv, TypeOK
<1> QED
  BY <1>1 DEF IInv, Mapped, Maps, Potent

\* The localId of a reservation.
LEMMA HandleIs ==
  ASSUME TypeOK, NEW h \in DOMAIN handles
  PROVE  /\ handles[h] \in Handle /\ handles[h].item \in Item /\ handles[h].item.id \in Ids
         /\ handles[h].item.order \in Order /\ h > 0 /\ h \in Nat
<1>1. handles \in Seq(Handle) /\ h \in 1 .. Len(handles) /\ handles[h] \in Handle
  BY DEF TypeOK
<1>2. handles[h].item \in Item
  BY <1>1 DEF Handle
<1> QED
  BY <1>1, <1>2 DEF Item

\* A step that leaves the reservations alone.
LEMMA Untouched ==
  ASSUME IInv, handles' = handles, reservations' = reservations
  PROVE  Kept /\ Mapped' /\ LiveHandleIsMapped'
BY DEF Kept, Potent, Maps, Mapped, LiveHandleIsMapped, IInv, Fates

\* A step that takes one reservation out of the map and leaves it closed, void or held.
LEMMA TakenOut ==
  ASSUME IInv, NEW h \in DOMAIN handles, Maps(h),
         DOMAIN handles' = DOMAIN handles,
         \A g \in DOMAIN handles : g # h => handles'[g] = handles[g],
         handles'[h].item = handles[h].item, handles'[h].origin = handles[h].origin,
         handles'[h].open => handles'[h].state = "cancelled" /\ handles'[h].reason # "queue-reset",
         reservations' = [reservations EXCEPT ![handles[h].item.id] = 0]
  PROVE  Kept /\ Mapped' /\ LiveHandleIsMapped' /\ ~Potent(h)'
<1> DEFINE id == handles[h].item.id
<1>0. id \in Ids /\ reservations[id] = h /\ h > 0 /\ reservations \in [Ids -> 0 .. Len(handles)]
  BY HandleIs DEF IInv, TypeOK, Maps
<1>1. reservations'[id] = 0 /\ \A k \in Ids : k # id => reservations'[k] = reservations[k]
  BY <1>0
<1>2. \A g \in DOMAIN handles : handles[g].item.id \in Ids /\ g > 0
  BY HandleIs DEF IInv
<1>3. ASSUME NEW g \in DOMAIN handles
      PROVE  /\ handles'[g].item = handles[g].item /\ handles'[g].origin = handles[g].origin
             /\ Maps(g)' => Maps(g) /\ g # h
             /\ Maps(g) /\ g # h => Maps(g)'
  <2>1. handles'[g].item = handles[g].item /\ handles'[g].origin = handles[g].origin
    BY Zenon
  <2> QED
    BY <1>0, <1>1, <1>2, <2>1 DEF Maps
<1>4. ~Potent(h)'
  BY <1>3 DEF Potent, IInv, Fates, LiveHandleIsMapped
<1>5. \A g \in DOMAIN handles : Potent(g)' => Potent(g)
  BY <1>3, <1>4 DEF Potent
<1>6. Kept
  BY <1>3, <1>5 DEF Kept
<1>7. Mapped'
  <2>1. ASSUME NEW k \in Ids, reservations'[k] > 0
        PROVE  handles'[reservations'[k]].item.id = k /\ handles'[reservations'[k]].state \in {"dispatching", "indeterminate"}
    <3>1. k # id /\ reservations'[k] = reservations[k] /\ reservations[k] > 0
      BY <1>0, <1>1, <2>1
    <3>2. /\ reservations[k] \in DOMAIN handles /\ handles[reservations[k]].item.id = k
          /\ handles[reservations[k]].state \in {"dispatching", "indeterminate"}
      BY <3>1, MappedIs
    <3> QED
      BY <3>1, <3>2
  <2> QED
    BY <2>1 DEF Mapped
<1>8. LiveHandleIsMapped'
  <2>1. ASSUME NEW g \in DOMAIN handles, handles'[g].open, handles'[g].state # "cancelled"
        PROVE  Maps(g)'
    <3>1. g # h
      BY <2>1
    <3>2. Maps(g)
      BY <2>1, <3>1 DEF IInv, Fates, LiveHandleIsMapped, Maps
    <3> QED
      BY <1>3, <3>1, <3>2
  <2> QED
    BY <2>1 DEF LiveHandleIsMapped, Maps
<1> QED
  BY <1>4, <1>6, <1>7, <1>8

\* A step that closes one reservation and leaves the map alone.
LEMMA ClosedOnly ==
  ASSUME IInv, NEW h \in DOMAIN handles,
         DOMAIN handles' = DOMAIN handles,
         \A g \in DOMAIN handles : g # h => handles'[g] = handles[g],
         handles'[h].item = handles[h].item, handles'[h].origin = handles[h].origin,
         ~handles'[h].open,
         handles'[h].state \in {"dispatching", "indeterminate"} \/ ~Maps(h),
         reservations' = reservations
  PROVE  Kept /\ Mapped' /\ LiveHandleIsMapped' /\ (~Maps(h) => ~Potent(h)')
<1>1. ASSUME NEW g \in DOMAIN handles
      PROVE  /\ handles'[g].item = handles[g].item /\ handles'[g].origin = handles[g].origin
             /\ Maps(g)' <=> Maps(g)
  <2>1. handles'[g].item = handles[g].item /\ handles'[g].origin = handles[g].origin
    BY Zenon
  <2> QED
    BY <2>1 DEF Maps
<1>2. Kept
  BY <1>1 DEF Kept, Potent
<1>3. Mapped'
  <2>1. ASSUME NEW k \in Ids, reservations[k] > 0
        PROVE  handles'[reservations[k]].item.id = k /\ handles'[reservations[k]].state \in {"dispatching", "indeterminate"}
    <3>1. /\ reservations[k] \in DOMAIN handles /\ handles[reservations[k]].item.id = k /\ Maps(reservations[k])
          /\ handles[reservations[k]].state \in {"dispatching", "indeterminate"}
      BY <2>1, MappedIs
    <3> QED
      BY <3>1
  <2> QED
    BY <2>1 DEF Mapped
<1>4. LiveHandleIsMapped'
  <2>1. ASSUME NEW g \in DOMAIN handles, handles'[g].open, handles'[g].state # "cancelled"
        PROVE  Maps(g)'
    <3>1. g # h /\ Maps(g)
      BY <2>1 DEF IInv, Fates, LiveHandleIsMapped, Maps
    <3> QED
      BY <1>1, <3>1
  <2> QED
    BY <2>1 DEF LiveHandleIsMapped, Maps
<1> QED
  BY <1>1, <1>2, <1>3, <1>4 DEF Potent

\* Nothing waits or is reserved with the order of a reservation that lost its potency.
LEMMA GoneIs ==
  ASSUME IInv, Kept, NEW h \in DOMAIN handles, NEW o, o = handles[h].item.order, Potent(h), ~Potent(h)',
         \A x \in Range(queue') : x \in Range(queue) \/ x.order \notin Used
  PROVE  Gone(o)' /\ o \in Used /\ delivered[o] = 0 /\ o \notin cancelled
<1>1. o \in Used /\ delivered[o] = 0 /\ o \notin cancelled /\ \A x \in Range(queue) : x.order # o
  BY DEF IInv, Fates, Ranged, Potents, Free
<1>2. \A x \in Range(queue') : x.order # o
  BY <1>1
<1>3. ASSUME NEW g \in DOMAIN handles', handles'[g].item.order = o
      PROVE  ~Potent(g)'
  <2>1. g \in DOMAIN handles /\ handles[g].item.order = o /\ (Potent(g)' => Potent(g))
    BY <1>3 DEF Kept
  <2>2. Potent(g) => g = h
    BY <2>1 DEF IInv, Fates, OnePotent
  <2> QED
    BY <2>1, <2>2
<1> QED
  BY <1>1, <1>2, <1>3 DEF Gone

\* Nothing waits or is reserved with the order of an item that was taken out of the queue.
LEMMA GoneFromQueue ==
  ASSUME IInv, Kept, NEW o, \E x \in Range(queue) : x.order = o, \A x \in Range(queue') : x.order # o
  PROVE  Gone(o)' /\ o \in Used /\ delivered[o] = 0 /\ o \notin cancelled
<1>1. PICK x \in Range(queue) : x.order = o
  OBVIOUS
<1>2. o \in Used /\ delivered[o] = 0 /\ o \notin cancelled
  BY <1>1 DEF IInv, Fates, Ranged, Waits, Free
<1>3. ASSUME NEW g \in DOMAIN handles', handles'[g].item.order = o
      PROVE  ~Potent(g)'
  <2>1. g \in DOMAIN handles /\ handles[g].item.order = o /\ (Potent(g)' => Potent(g))
    BY <1>3 DEF Kept
  <2>2. ~Potent(g)
    BY <1>1, <2>1 DEF IInv, Fates, Potents
  <2> QED
    BY <2>1, <2>2
<1> QED
  BY <1>2, <1>3 DEF Gone

\* What a cancel or a retry does.
LEMMA ReleaseKeeps ==
  ASSUME IInv, NEW id \in Ids, Release(id),
         \A x \in Range(queue') : x \in Range(Waiting(id)) \/ x.order \notin Used
  PROVE  /\ handles' \in Seq(Handle) /\ reservations' \in [Ids -> 0 .. Len(handles')]
         /\ Kept /\ Mapped' /\ LiveHandleIsMapped' /\ cancelled' \subseteq Order
         /\ \A o \in cancelled' : o \in cancelled \/ (o \in Used /\ delivered[o] = 0 /\ Gone(o)')
<1>1. /\ TypeOK /\ Distinct(queue) /\ handles \in Seq(Handle) /\ reservations \in [Ids -> 0 .. Len(handles)]
      /\ cancelled \subseteq Order /\ queue \in Seq(Item)
  BY DEF IInv, TypeOK
<1>2. Range(Waiting(id)) \subseteq Range(queue)
  BY <1>1, WaitingIs
<1>3. CASE /\ Find(id) = 0 /\ reservations[id] \in DOMAIN handles
           /\ handles' = Voided(reservations[id])
           /\ reservations' = [reservations EXCEPT ![id] = 0]
           /\ cancelled' = cancelled \cup {handles[reservations[id]].item.order}
  <2>1. PICK h \in DOMAIN handles : h = reservations[id]
    BY <1>3
  <2>2. reservations[id] > 0
    BY <1>1, <2>1
  <2>3. Maps(h) /\ Potent(h) /\ handles[h].item.id = id /\ handles[h].item.order \in Order
    BY <1>1, <2>1, <2>2, MappedIs, HandleIs
  <2>4. handles' = Voided(h)
    BY <1>3, <2>1
  <2>5. /\ handles' \in Seq(Handle) /\ DOMAIN handles' = DOMAIN handles
        /\ \A g \in DOMAIN handles : /\ handles'[g].item = handles[g].item /\ handles'[g].origin = handles[g].origin
                                     /\ g # h => handles'[g] = handles[g]
        /\ handles'[h].reason = "explicit" /\ handles'[h].state = "cancelled"
    BY <1>1, <2>4, VoidedIs
  <2>6. reservations' = [reservations EXCEPT ![handles[h].item.id] = 0]
    BY <1>3, <2>3
  <2>7. Kept /\ Mapped' /\ LiveHandleIsMapped' /\ ~Potent(h)'
    BY <2>3, <2>5, <2>6, TakenOut
  <2>8. PICK o \in Order : o = handles[h].item.order
    BY <2>3
  <2>9. Gone(o)' /\ o \in Used /\ delivered[o] = 0
    BY <1>2, <2>3, <2>7, <2>8, GoneIs
  <2>10. Len(handles') = Len(handles)
    BY <1>1, <2>5
  <2>11. reservations' \in [Ids -> 0 .. Len(handles')]
    BY <1>1, <1>3, <2>10
  <2>12. cancelled' = cancelled \cup {o}
    BY <1>3, <2>1, <2>8
  <2> QED
    BY <1>1, <2>5, <2>7, <2>8, <2>9, <2>11, <2>12
<1>4. CASE /\ Find(id) \in DOMAIN queue /\ handles' = handles /\ reservations' = reservations
           /\ cancelled' = cancelled \cup {queue[Find(id)].order}
  <2>1. PICK i \in DOMAIN queue : i = Find(id)
    BY <1>4
  <2>2. queue[i] \in Item /\ queue[i] \in Range(queue) /\ i > 0
    BY <1>1, <2>1 DEF Range
  <2>3. PICK o \in Order : o = queue[i].order
    BY <2>2, OrderIsInt
  <2>4. \A x \in Range(Waiting(id)) : x.order # o
    BY <1>1, <2>1, <2>2, <2>3, WaitingIs
  <2>5. Kept /\ Mapped' /\ LiveHandleIsMapped'
    BY <1>4, Untouched
  <2>6. \A x \in Range(queue') : x.order # o
    BY <2>2, <2>3, <2>4 DEF IInv, Ranged
  <2>7. Gone(o)' /\ o \in Used /\ delivered[o] = 0
    BY <2>2, <2>3, <2>5, <2>6, GoneFromQueue
  <2>8. cancelled' = cancelled \cup {o}
    BY <1>4, <2>1, <2>3
  <2> QED
    BY <1>1, <1>4, <2>5, <2>7, <2>8
<1>5. CASE Find(id) = 0 /\ handles' = handles /\ reservations' = reservations /\ cancelled' = cancelled
  <2>1. Kept /\ Mapped' /\ LiveHandleIsMapped'
    BY <1>5, Untouched
  <2> QED
    BY <1>1, <1>5, <2>1
<1> QED
  BY <1>1, <1>3, <1>4, <1>5, ReleaseIs

\* What an abort or a clear does.
LEMMA ResetKeeps ==
  ASSUME IInv, NEW preserve \in BOOLEAN, CancelReservations(preserve),
         \A x \in Range(queue') : x.order \notin Used
  PROVE  /\ handles' \in Seq(Handle) /\ reservations' \in [Ids -> 0 .. Len(handles')]
         /\ Kept /\ Mapped' /\ LiveHandleIsMapped' /\ discarded' \subseteq Order
         /\ \A o \in discarded' : \/ o \in discarded
                                  \/ /\ o \in Used /\ \A x \in Range(queue') : x.order # o
                                     /\ \A h \in DOMAIN handles : Maps(h)' => handles[h].item.order # o
<1> DEFINE D == Doomed(preserve)
<1>1. TypeOK /\ Used \subseteq Order /\ \A g \in DOMAIN handles : handles[g].item.id \in Ids /\ g > 0
  BY UsedAreOrders, HandleIs DEF IInv
<1>2. /\ handles' \in Seq(Handle) /\ DOMAIN handles' = DOMAIN handles
      /\ reservations' \in [Ids -> 0 .. Len(handles')]
      /\ \A g \in DOMAIN handles :
           /\ handles'[g].item = handles[g].item /\ handles'[g].origin = handles[g].origin
           /\ handles'[g].open = handles[g].open
           /\ g \in D => handles'[g].state = "cancelled"
           /\ g \notin D => handles'[g] = handles[g]
      /\ \A id \in Ids : reservations'[id] = IF reservations[id] \in D THEN 0 ELSE reservations[id]
  BY <1>1, ResetIs
<1>3. \A g \in D : g \in DOMAIN handles /\ Maps(g)
  BY DEF Doomed, Maps
<1>4. ~preserve => \A g \in DOMAIN handles : Maps(g) => g \in D
  BY DEF Doomed, Maps
<1>5. discarded' = discarded \cup OrdersOf(queue) \cup Reserved(preserve)
  BY DEF CancelReservations
<1> HIDE DEF D
<1>6. ASSUME NEW g \in DOMAIN handles
      PROVE  (Maps(g)' => Maps(g) /\ g \notin D) /\ (Maps(g) /\ g \notin D => Maps(g)')
  BY <1>1, <1>2 DEF Maps
<1>7. ASSUME NEW g \in DOMAIN handles, Potent(g)'
      PROVE  Potent(g)
  <2>1. CASE g \in D
    BY <1>3, <2>1 DEF Potent
  <2>2. CASE g \notin D
    BY <1>2, <1>6, <1>7, <2>2 DEF Potent
  <2> QED
    BY <2>1, <2>2
<1>8. Kept
  BY <1>2, <1>6, <1>7 DEF Kept
<1>9. Mapped'
  <2>1. ASSUME NEW k \in Ids, reservations'[k] > 0
        PROVE  handles'[reservations'[k]].item.id = k /\ handles'[reservations'[k]].state \in {"dispatching", "indeterminate"}
    <3>1. reservations'[k] = reservations[k] /\ reservations[k] > 0 /\ reservations[k] \notin D
      BY <1>2, <2>1
    <3>2. /\ reservations[k] \in DOMAIN handles /\ handles[reservations[k]].item.id = k
          /\ handles[reservations[k]].state \in {"dispatching", "indeterminate"}
      BY <3>1, MappedIs
    <3>3. handles'[reservations[k]] = handles[reservations[k]]
      BY <1>2, <3>1, <3>2
    <3> QED
      BY <3>1, <3>2, <3>3
  <2> QED
    BY <2>1 DEF Mapped
<1>10. LiveHandleIsMapped'
  <2>1. ASSUME NEW g \in DOMAIN handles, handles'[g].open, handles'[g].state # "cancelled"
        PROVE  Maps(g)'
    <3>1. g \notin D /\ handles'[g] = handles[g]
      BY <1>2, <2>1
    <3>2. Maps(g)
      BY <2>1, <3>1 DEF IInv, Fates, LiveHandleIsMapped, Maps
    <3> QED
      BY <1>6, <3>1, <3>2
  <2> QED
    BY <1>2, <2>1 DEF LiveHandleIsMapped, Maps
<1>11. ASSUME NEW o \in discarded', o \notin discarded
       PROVE  o \in Used /\ \A h \in DOMAIN handles : Maps(h)' => handles[h].item.order # o
  <2>1. CASE o \in OrdersOf(queue)
    <3>1. PICK x \in Range(queue) : x.order = o
      BY <2>1, OrdersAre
    <3>2. \A h \in DOMAIN handles : Maps(h) => handles[h].item.order # o
      BY <3>1 DEF IInv, Fates, Potents, Potent
    <3> QED
      BY <1>6, <3>1, <3>2 DEF IInv, Ranged
  <2>2. CASE o \in Reserved(preserve)
    <3>1. ~preserve /\ \E h \in DOMAIN handles : o = handles[h].item.order
      BY <2>2 DEF Reserved
    <3>2. \A h \in DOMAIN handles : ~Maps(h)'
      BY <1>4, <1>6, <3>1
    <3> QED
      BY <3>1, <3>2 DEF IInv, Ranged
  <2> QED
    BY <1>5, <1>11, <2>1, <2>2
<1>12. discarded' \subseteq Order
  BY <1>1, <1>11 DEF TypeOK
<1>13. \A o \in discarded' : \/ o \in discarded
                             \/ /\ o \in Used /\ \A x \in Range(queue') : x.order # o
                                /\ \A h \in DOMAIN handles : Maps(h)' => handles[h].item.order # o
  BY <1>11
<1> QED
  BY <1>2, <1>8, <1>9, <1>10, <1>12, <1>13

\* A batch put back in front of the queue.
LEMMA BackIs ==
  ASSUME IInv, NEW back, prevOrder - Len(batch) >= -MaxRequeues - 1,
         back = [i \in 1 .. Len(batch) |-> [batch[i] EXCEPT !.order = prevOrder - (Len(batch) - i)]]
  PROVE  /\ back \o queue \in Seq(Item) /\ Distinct(back \o queue)
         /\ Sorted(queue) => Sorted(back \o queue)
         /\ \A x \in Range(back \o queue) :
              x \in Range(queue) \/ (x.order \notin Used /\ x.order \in prevOrder - Len(batch) + 1 .. nextOrder - 1)
<1> DEFINE n == Len(batch)
<1>1. /\ batch \in Seq(Item) /\ n \in Nat /\ DOMAIN batch = 1 .. n /\ queue \in Seq(Item)
      /\ prevOrder \in Int /\ prevOrder <= -1 /\ nextOrder \in Nat /\ MaxRequeues \in Nat /\ MaxPushes \in Nat
  BY QueueAssumption DEF IInv, TypeOK
<1> HIDE DEF n
<1>2. ASSUME NEW i \in 1 .. n
      PROVE  /\ back[i] \in Item /\ back[i].order = prevOrder - (n - i)
             /\ back[i].order <= prevOrder /\ back[i].order >= prevOrder - n + 1
  <2>1. batch[i] \in Item /\ back[i] = [batch[i] EXCEPT !.order = prevOrder - (n - i)]
    BY <1>1 DEF n
  <2>2. prevOrder - (n - i) \in Order
    <3>1. prevOrder - n >= -MaxRequeues - 1
      BY DEF n
    <3> QED
      BY <1>1, <3>1 DEF Order
  <2>3. back[i] \in Item /\ back[i].order = prevOrder - (n - i)
    BY <2>1, <2>2 DEF Item
  <2> QED
    BY <1>1, <2>3
<1>3. back \in [1 .. n -> Item]
  BY <1>2 DEF n
<1>4. back \in Seq(Item) /\ DOMAIN back = 1 .. n
  BY <1>1, <1>3
<1>12. \A i \in 1 .. n : back[i].order = prevOrder - (n - i) /\ back[i].order \in prevOrder - n + 1 .. prevOrder
  BY <1>1, <1>2
<1>5. Sorted(back)
  <2>1. ASSUME NEW j \in 1 .. n, NEW k \in 1 .. n, j < k
        PROVE  back[j].order < back[k].order
    <3>1. prevOrder - (n - j) < prevOrder - (n - k)
      BY <1>1, <2>1
    <3> QED
      BY <1>12, <3>1
  <2> QED
    BY <1>4, <2>1 DEF Sorted
<1>6. \A x \in Range(back) : x.order <= prevOrder /\ x.order >= prevOrder - n + 1 /\ x.order \in Int
  <2>1. ASSUME NEW i \in 1 .. n
        PROVE  back[i].order <= prevOrder /\ back[i].order >= prevOrder - n + 1 /\ back[i].order \in Int
    <3>1. back[i].order \in prevOrder - n + 1 .. prevOrder
      BY <1>12
    <3> QED
      BY <1>1, <3>1
  <2> QED
    BY <1>4, <2>1 DEF Range
<1>7. \A y \in Range(queue) : y.order > prevOrder /\ y.order \in Int
  BY <1>1 DEF IInv, Ranged, Used
<1>8. \A x \in Range(back), y \in Range(queue) : x.order < y.order
  BY <1>1, <1>6, <1>7
<1>9. Distinct(queue)
  BY DEF IInv
<1>10. /\ back \o queue \in Seq(Item) /\ Distinct(back \o queue)
       /\ Sorted(queue) => Sorted(back \o queue)
       /\ Range(back \o queue) \subseteq Range(back) \cup Range(queue)
  BY <1>1, <1>4, <1>5, <1>8, <1>9, JoinedQueue
<1>11. \A x \in Range(back) : x.order \notin Used /\ x.order \in prevOrder - n + 1 .. nextOrder - 1
  BY <1>1, <1>6 DEF Used
<1> QED
  BY <1>10, <1>11 DEF n

---------------------------------------------------------------------------
(* The socket's steps.                                                     *)

\* A waiter that is woken does not sleep.
LEMMA WakeKeeps ==
  ASSUME IInv, Wake
  PROVE  waiter' \in BOOLEAN /\ loop' \in Loop /\ aborted' \in BOOLEAN /\ batch' \in Seq(Item) /\ WaiterNotStranded'
BY DEF IInv, TypeOK, Wake, WaiterNotStranded, Loop

\* A pushed item is new.
LEMMA NewItemIs ==
  ASSUME IInv, NEW id \in Ids, NEW hash \in Hashes, NEW isolate \in BOOLEAN, nextOrder < MaxPushes,
         nextOrder' = nextOrder + 1, prevOrder' = prevOrder
  PROVE  /\ NewItem(id, hash, isolate) \in Item /\ NewItem(id, hash, isolate).order \notin Used
         /\ NewItem(id, hash, isolate).order \in Used' /\ Used \subseteq Used' /\ nextOrder' \in 0 .. MaxPushes
         /\ \A x \in Range(queue) : x.order < NewItem(id, hash, isolate).order
<1>1. /\ nextOrder \in Nat /\ prevOrder \in Int /\ prevOrder <= -1 /\ prevOrder >= -MaxRequeues - 1
      /\ MaxRequeues \in Nat /\ MaxPushes \in Nat
  BY QueueAssumption DEF IInv, TypeOK
<1>2. nextOrder \in Order
  BY <1>1 DEF Order
<1>3. NewItem(id, hash, isolate) \in Item /\ NewItem(id, hash, isolate).order = nextOrder
  BY <1>2 DEF NewItem, Item
<1>4. nextOrder \notin Used /\ nextOrder \in Used' /\ Used \subseteq Used' /\ nextOrder' \in 0 .. MaxPushes
  BY <1>1 DEF Used
<1>5. \A x \in Range(queue) : x.order < nextOrder
  BY <1>1 DEF IInv, Ranged, Used
<1> QED
  BY <1>3, <1>4, <1>5

\* push.
LEMMA PushKeeps ==
  ASSUME IInv, NEW id \in Ids, NEW hash \in Hashes, NEW isolate \in BOOLEAN, Push(id, hash, isolate)
  PROVE  IInv'
<1>1. PICK x \in Item : x = NewItem(id, hash, isolate)
  BY NewItemIs DEF Push
<1>2. /\ x.order \notin Used /\ x.order \in Used' /\ Used \subseteq Used' /\ nextOrder' \in 0 .. MaxPushes
      /\ \A y \in Range(queue) : y.order < x.order
  BY <1>1, NewItemIs DEF Push
<1>3. queue \in Seq(Item) /\ Distinct(queue) /\ \A y \in Range(queue) : y.order \in Used
  BY DEF IInv, TypeOK, Ranged
<1>4. /\ queue' = Append(queue, x) /\ handles' = handles /\ reservations' = reservations /\ delivered' = delivered
      /\ cancelled' = cancelled /\ discarded' = discarded /\ consumed' = consumed /\ prevOrder' = prevOrder
      /\ known' = known \cup {id} /\ Wake
  BY <1>1 DEF Push, history
<1>5. queue' \in Seq(Item) /\ Range(queue') = Range(queue) \cup {x} /\ Distinct(queue')
  BY <1>2, <1>3, <1>4, AppendedQueue
<1>6. waiter' \in BOOLEAN /\ loop' \in Loop /\ aborted' \in BOOLEAN /\ batch' \in Seq(Item) /\ WaiterNotStranded'
  BY <1>4, WakeKeeps
<1>7. TypeOK'
  BY <1>2, <1>4, <1>5, <1>6 DEF IInv, TypeOK
<1>8. Kept /\ Mapped' /\ LiveHandleIsMapped'
  BY <1>4, Untouched
<1>9. /\ Ranged' /\ Waits' /\ Potents' /\ OnePotent' /\ Origins'
      /\ DeliveredOnce' /\ CancelledNeverDelivered' /\ HeldNeverReplayed'
  BY <1>2, <1>4, <1>5, <1>7, <1>8, Shrinks
<1> QED
  BY <1>5, <1>6, <1>7, <1>8, <1>9 DEF IInv, Fates, Distinct

\* pushIsolateAndClear.
LEMMA PushClearKeeps ==
  ASSUME IInv, NEW id \in Ids, NEW hash \in Hashes, PushIsolateAndClear(id, hash)
  PROVE  IInv'
<1>1. PICK x \in Item : x = NewItem(id, hash, TRUE)
  BY NewItemIs DEF PushIsolateAndClear
<1>2. x.order \notin Used /\ x.order \in Used' /\ Used \subseteq Used' /\ nextOrder' \in 0 .. MaxPushes
  BY <1>1, NewItemIs DEF PushIsolateAndClear
<1>4. /\ queue' = <<x>> /\ delivered' = delivered
      /\ cancelled' = cancelled /\ consumed' = consumed /\ prevOrder' = prevOrder
      /\ known' = known \cup {id} /\ Wake
  BY <1>1 DEF PushIsolateAndClear
<1>5. queue' \in Seq(Item) /\ Distinct(queue') /\ \A y \in Range(queue') : y = x
  BY <1>4 DEF Distinct, Range
<1>6. waiter' \in BOOLEAN /\ loop' \in Loop /\ aborted' \in BOOLEAN /\ batch' \in Seq(Item) /\ WaiterNotStranded'
  BY <1>4, WakeKeeps
<1>7. /\ handles' \in Seq(Handle) /\ reservations' \in [Ids -> 0 .. Len(handles')]
      /\ Kept /\ Mapped' /\ LiveHandleIsMapped' /\ discarded' \subseteq Order
      /\ \A o \in discarded' : \/ o \in discarded
                               \/ /\ o \in Used /\ \A y \in Range(queue') : y.order # o
                                  /\ \A h \in DOMAIN handles : Maps(h)' => handles[h].item.order # o
  BY <1>2, <1>5, ResetKeeps DEF PushIsolateAndClear
<1>8. TypeOK'
  BY <1>2, <1>4, <1>5, <1>6, <1>7 DEF IInv, TypeOK
<1>9. /\ Ranged' /\ Waits' /\ Potents' /\ OnePotent' /\ Origins'
      /\ DeliveredOnce' /\ CancelledNeverDelivered' /\ HeldNeverReplayed'
  BY <1>2, <1>4, <1>5, <1>7, <1>8, Shrinks
<1> QED
  BY <1>5, <1>6, <1>7, <1>8, <1>9 DEF IInv, Fates, Distinct

\* cancelByLocalId.
LEMMA CancelKeeps ==
  ASSUME IInv, NEW id \in Ids, CancelByLocalId(id)
  PROVE  IInv'
<1>1. /\ queue' = Waiting(id) /\ Release(id) /\ delivered' = delivered /\ discarded' = discarded
      /\ consumed' = consumed /\ prevOrder' = prevOrder /\ nextOrder' = nextOrder /\ known' = known
      /\ waiter' = waiter /\ loop' = loop /\ aborted' = aborted /\ batch' = batch
  BY DEF CancelByLocalId, loopVars
<1>2. TypeOK /\ queue \in Seq(Item) /\ Distinct(queue) /\ Used' = Used
  BY <1>1 DEF IInv, TypeOK, Used
<1>3. queue' \in Seq(Item) /\ Range(queue') \subseteq Range(queue) /\ Distinct(queue')
  BY <1>1, <1>2, WaitingIs
<1>4. /\ handles' \in Seq(Handle) /\ reservations' \in [Ids -> 0 .. Len(handles')]
      /\ Kept /\ Mapped' /\ LiveHandleIsMapped' /\ cancelled' \subseteq Order
      /\ \A o \in cancelled' : o \in cancelled \/ (o \in Used /\ delivered[o] = 0 /\ Gone(o)')
  BY <1>1, ReleaseKeeps
<1>5. TypeOK'
  BY <1>1, <1>3, <1>4 DEF IInv, TypeOK
<1>6. WaiterNotStranded'
  <2>1. queue = <<>> => queue' = <<>>
    <3>1. queue = <<>> => Range(queue) = {}
      BY DEF Range
    <3>2. queue' # <<>> => queue'[1] \in Range(queue')
      BY <1>3 DEF Range
    <3> QED
      BY <1>3, <3>1, <3>2
  <2> QED
    BY <1>1, <2>1 DEF IInv, WaiterNotStranded
<1>7. /\ Ranged' /\ Waits' /\ Potents' /\ OnePotent' /\ Origins'
      /\ DeliveredOnce' /\ CancelledNeverDelivered' /\ HeldNeverReplayed'
  BY <1>1, <1>2, <1>3, <1>4, <1>5, Shrinks
<1> QED
  BY <1>3, <1>4, <1>5, <1>6, <1>7 DEF IInv, Fates, Distinct

\* A cancel and a push.
LEMMA RetryKeeps ==
  ASSUME IInv, NEW id \in Ids, NEW hash \in Hashes, NEW isolate \in BOOLEAN, Retry(id, hash, isolate)
  PROVE  IInv'
<1>1. PICK x \in Item : x = NewItem(id, hash, isolate)
  BY NewItemIs DEF Retry
<1>2. /\ x.order \notin Used /\ x.order \in Used' /\ Used \subseteq Used' /\ nextOrder' \in 0 .. MaxPushes
      /\ \A y \in Range(queue) : y.order < x.order
  BY <1>1, NewItemIs DEF Retry
<1>3. /\ queue' = Append(Waiting(id), x) /\ Release(id) /\ delivered' = delivered /\ discarded' = discarded
      /\ consumed' = consumed /\ prevOrder' = prevOrder /\ known' = known /\ Wake
  BY <1>1 DEF Retry
<1>4. TypeOK /\ queue \in Seq(Item) /\ Distinct(queue)
  BY DEF IInv, TypeOK
<1>5. Waiting(id) \in Seq(Item) /\ Range(Waiting(id)) \subseteq Range(queue) /\ Distinct(Waiting(id))
  BY <1>4, WaitingIs
<1>6. \A y \in Range(Waiting(id)) : y.order # x.order
  <2>1. \A y \in Range(queue) : y.order # x.order
    BY <1>2 DEF IInv, Ranged
  <2> QED
    BY <1>5, <2>1
<1>7. queue' \in Seq(Item) /\ Range(queue') = Range(Waiting(id)) \cup {x} /\ Distinct(queue')
  BY <1>3, <1>5, <1>6, AppendedQueue
<1>8. /\ handles' \in Seq(Handle) /\ reservations' \in [Ids -> 0 .. Len(handles')]
      /\ Kept /\ Mapped' /\ LiveHandleIsMapped' /\ cancelled' \subseteq Order
      /\ \A o \in cancelled' : o \in cancelled \/ (o \in Used /\ delivered[o] = 0 /\ Gone(o)')
  BY <1>2, <1>3, <1>7, ReleaseKeeps
<1>9. waiter' \in BOOLEAN /\ loop' \in Loop /\ aborted' \in BOOLEAN /\ batch' \in Seq(Item) /\ WaiterNotStranded'
  BY <1>3, WakeKeeps
<1>10. TypeOK'
  BY <1>2, <1>3, <1>7, <1>8, <1>9 DEF IInv, TypeOK
<1>11. /\ Ranged' /\ Waits' /\ Potents' /\ OnePotent' /\ Origins'
       /\ DeliveredOnce' /\ CancelledNeverDelivered' /\ HeldNeverReplayed'
  BY <1>2, <1>3, <1>5, <1>7, <1>8, <1>10, Shrinks
<1> QED
  BY <1>7, <1>8, <1>9, <1>10, <1>11 DEF IInv, Fates, Distinct

---------------------------------------------------------------------------
(* The loop's steps.                                                       *)

\* collectBatch.
LEMMA CollectKeeps ==
  ASSUME IInv, CollectBatch
  PROVE  IInv'
<1> DEFINE n == BatchSize(queue)
           front == SubSeq(queue, 1, n)
           rest == SubSeq(queue, n + 1, Len(queue))
<1>1. /\ queue # <<>> /\ batch' = front /\ queue' = rest
      /\ delivered' = [o \in Order |-> delivered[o] + IF o \in OrdersOf(front) THEN 1 ELSE 0]
      /\ loop' = "turn" /\ nextOrder' = nextOrder /\ prevOrder' = prevOrder /\ handles' = handles
      /\ reservations' = reservations /\ consumed' = consumed /\ waiter' = waiter /\ aborted' = aborted
      /\ known' = known /\ cancelled' = cancelled /\ discarded' = discarded
  BY DEF CollectBatch
<1>2. queue \in Seq(Item) /\ Distinct(queue) /\ Used' = Used /\ delivered \in [Order -> Nat]
  BY <1>1 DEF IInv, TypeOK, Used
<1>3. n \in 1 .. Len(queue)
  BY <1>1, <1>2, BatchSizeIs
<1> HIDE DEF n
<1>4. /\ front \in Seq(Item) /\ rest \in Seq(Item) /\ Range(front) \subseteq Range(queue)
      /\ Range(rest) \subseteq Range(queue) /\ Distinct(rest)
      /\ \A x \in Range(front), y \in Range(rest) : x.order # y.order
  BY <1>2, <1>3, SplitQueue
<1> HIDE DEF front, rest
<1>5. ASSUME NEW o \in Order
      PROVE  IF o \in OrdersOf(front) THEN delivered'[o] = delivered[o] + 1 ELSE delivered'[o] = delivered[o]
  BY <1>1, <1>2
<1>6. delivered' \in [Order -> Nat]
  BY <1>1, <1>2
<1>7. TypeOK'
  BY <1>1, <1>4, <1>6 DEF IInv, TypeOK, Loop
<1>8. Kept /\ Mapped' /\ LiveHandleIsMapped'
  BY <1>1, Untouched
<1>9. ASSUME NEW o \in Order, o \in OrdersOf(front)
      PROVE  delivered'[o] = 1 /\ o \in Used /\ o \notin cancelled' /\ Gone(o)'
  <2>1. PICK x \in Range(front) : x.order = o
    BY <1>9, OrdersAre
  <2>2. \A y \in Range(queue') : y.order # o
    BY <1>1, <1>4, <2>1
  <2>3. Gone(o)' /\ o \in Used /\ delivered[o] = 0 /\ o \notin cancelled
    BY <1>4, <1>8, <2>1, <2>2, GoneFromQueue
  <2> QED
    BY <1>1, <1>5, <1>9, <2>3
<1>10. \A o \in Order : \/ delivered'[o] = delivered[o]
                        \/ delivered'[o] = 1 /\ o \in Used /\ o \notin cancelled' /\ Gone(o)'
  BY <1>5, <1>9
<1>11. /\ Ranged' /\ Waits' /\ Potents' /\ OnePotent' /\ Origins'
       /\ DeliveredOnce' /\ CancelledNeverDelivered' /\ HeldNeverReplayed'
  BY <1>1, <1>2, <1>4, <1>7, <1>8, <1>10, Shrinks
<1>12. WaiterNotStranded' /\ Distinct(queue)'
  BY <1>1, <1>4 DEF WaiterNotStranded, Distinct
<1> QED
  BY <1>7, <1>8, <1>11, <1>12 DEF IInv, Fates

\* What only the loop sees.
LEMMA LoopKeeps ==
  ASSUME IInv, UNCHANGED <<queueVars, known, history>>, waiter' \in BOOLEAN, loop' \in Loop, aborted' \in BOOLEAN,
         batch' \in Seq(Item), WaiterNotStranded'
  PROVE  IInv'
<1>1. /\ queue' = queue /\ nextOrder' = nextOrder /\ prevOrder' = prevOrder /\ handles' = handles
      /\ reservations' = reservations /\ consumed' = consumed /\ known' = known
      /\ delivered' = delivered /\ cancelled' = cancelled /\ discarded' = discarded /\ Used' = Used
  BY DEF queueVars, history, Used
<1>2. TypeOK'
  BY <1>1 DEF IInv, TypeOK
<1>3. Kept /\ Mapped' /\ LiveHandleIsMapped'
  BY <1>1, Untouched
<1>4. /\ Ranged' /\ Waits' /\ Potents' /\ OnePotent' /\ Origins'
      /\ DeliveredOnce' /\ CancelledNeverDelivered' /\ HeldNeverReplayed'
  BY <1>1, <1>2, <1>3, Shrinks
<1>5. Distinct(queue)'
  BY <1>1 DEF IInv, Distinct
<1> QED
  BY <1>2, <1>3, <1>4, <1>5 DEF IInv, Fates

\* waitForMessagesAndGetAsString.
LEMMA WaitKeeps ==
  ASSUME IInv, WaitForMessages
  PROVE  IInv'
<1>1. CASE CollectBatch
  BY <1>1, CollectKeeps
<1>2. CASE /\ queue = <<>>
           /\ loop' = "waiting" /\ waiter' = TRUE /\ aborted' = FALSE /\ batch' = <<>>
           /\ UNCHANGED <<queueVars, known, history>>
  <2>1. /\ waiter' \in BOOLEAN /\ loop' \in Loop /\ aborted' \in BOOLEAN /\ batch' \in Seq(Item)
    <3>1. loop' \in Loop /\ batch' \in Seq(Item)
      BY <1>2 DEF Loop
    <3>2. waiter' \in BOOLEAN /\ aborted' \in BOOLEAN
      BY <1>2, Zenon
    <3> QED
      BY <3>1, <3>2
  <2>2. WaiterNotStranded'
    BY <1>2 DEF WaiterNotStranded, queueVars
  <2> QED
    BY <1>2, <2>1, <2>2, LoopKeeps
<1> QED
  BY <1>1, <1>2 DEF WaitForMessages

\* The continuation of a wait.
LEMMA ResumeKeeps ==
  ASSUME IInv, Resume
  PROVE  IInv'
<1>1. CASE CollectBatch
  BY <1>1, CollectKeeps
<1>2. CASE /\ loop = "refused" \/ queue = <<>>
           /\ loop' = IF aborted THEN "turn" ELSE "over"
           /\ UNCHANGED <<queueVars, waiter, aborted, batch, known, history>>
  <2>1. /\ waiter' \in BOOLEAN /\ loop' \in Loop /\ aborted' \in BOOLEAN /\ batch' \in Seq(Item)
    <3>1. waiter' = waiter /\ aborted' = aborted /\ batch' = batch /\ loop' \in {"turn", "over"}
      BY <1>2
    <3>2. waiter \in BOOLEAN /\ aborted \in BOOLEAN /\ batch \in Seq(Item)
      BY DEF IInv, TypeOK
    <3> QED
      BY <3>1, <3>2 DEF Loop
  <2>2. WaiterNotStranded'
    BY <1>2 DEF WaiterNotStranded
  <2>3. UNCHANGED <<queueVars, known, history>>
    BY <1>2
  <2> QED
    BY <2>1, <2>2, <2>3, LoopKeeps
<1> QED
  BY <1>1, <1>2 DEF Resume

\* A failed batch goes back.
LEMMA RequeueKeeps ==
  ASSUME IInv, Requeue
  PROVE  IInv'
<1> DEFINE n == Len(batch)
           back == [i \in 1 .. Len(batch) |-> [batch[i] EXCEPT !.order = prevOrder - (Len(batch) - i)]]
<1>1. /\ loop = "turn" /\ n > 0 /\ prevOrder - n >= -MaxRequeues - 1
      /\ queue' = back \o queue /\ prevOrder' = prevOrder - n /\ batch' = <<>>
      /\ nextOrder' = nextOrder /\ handles' = handles /\ reservations' = reservations
      /\ consumed' = consumed /\ waiter' = waiter /\ loop' = loop /\ aborted' = aborted
      /\ known' = known /\ delivered' = delivered /\ cancelled' = cancelled /\ discarded' = discarded
  BY DEF Requeue, history
<1>2. /\ back \o queue \in Seq(Item) /\ Distinct(back \o queue)
      /\ \A x \in Range(back \o queue) :
           x \in Range(queue) \/ (x.order \notin Used /\ x.order \in prevOrder - n + 1 .. nextOrder - 1)
  BY <1>1, BackIs
<1> HIDE DEF back
<1>3. n \in Nat /\ prevOrder \in Int /\ prevOrder <= -1 /\ nextOrder \in Nat /\ MaxRequeues \in Nat
  BY QueueAssumption DEF IInv, TypeOK
<1> HIDE DEF n
<1>4. Used \subseteq Used' /\ Used' = prevOrder - n + 1 .. nextOrder - 1 /\ prevOrder' \in -MaxRequeues - 1 .. -1
  BY <1>1, <1>3 DEF Used
<1>5. TypeOK'
  BY <1>1, <1>2, <1>4 DEF IInv, TypeOK
<1>6. Kept /\ Mapped' /\ LiveHandleIsMapped'
  BY <1>1, Untouched
<1>7. /\ Ranged' /\ Waits' /\ Potents' /\ OnePotent' /\ Origins'
      /\ DeliveredOnce' /\ CancelledNeverDelivered' /\ HeldNeverReplayed'
  BY <1>1, <1>2, <1>4, <1>5, <1>6, Shrinks
<1>8. WaiterNotStranded' /\ Distinct(queue)'
  BY <1>1, <1>2 DEF WaiterNotStranded, Distinct
<1> QED
  BY <1>5, <1>6, <1>7, <1>8 DEF IInv, Fates

\* handleAbort.
LEMMA AbortKeeps ==
  ASSUME IInv, NEW preserve \in BOOLEAN, Abort(preserve)
  PROVE  IInv'
<1>1. /\ CancelReservations(preserve) /\ queue' = <<>> /\ waiter' = FALSE /\ aborted' = TRUE
      /\ loop' = IF loop = "waiting" THEN "refused" ELSE loop
      /\ batch' = <<>> /\ nextOrder' = nextOrder /\ prevOrder' = prevOrder /\ consumed' = consumed
      /\ known' = known /\ delivered' = delivered /\ cancelled' = cancelled /\ Used' = Used
  BY DEF Abort, Used
<1>2. Range(queue') = {} /\ queue' \in Seq(Item)
  BY <1>1 DEF Range
<1>3. /\ handles' \in Seq(Handle) /\ reservations' \in [Ids -> 0 .. Len(handles')]
      /\ Kept /\ Mapped' /\ LiveHandleIsMapped' /\ discarded' \subseteq Order
      /\ \A o \in discarded' : \/ o \in discarded
                               \/ /\ o \in Used /\ \A y \in Range(queue') : y.order # o
                                  /\ \A h \in DOMAIN handles : Maps(h)' => handles[h].item.order # o
  BY <1>1, <1>2, ResetKeeps
<1>4. TypeOK'
  BY <1>1, <1>2, <1>3 DEF IInv, TypeOK, Loop
<1>5. /\ Ranged' /\ Waits' /\ Potents' /\ OnePotent' /\ Origins'
      /\ DeliveredOnce' /\ CancelledNeverDelivered' /\ HeldNeverReplayed'
  BY <1>1, <1>2, <1>3, <1>4, Shrinks
<1>6. WaiterNotStranded' /\ Distinct(queue)'
  BY <1>1 DEF WaiterNotStranded, Distinct
<1> QED
  BY <1>3, <1>4, <1>5, <1>6 DEF IInv, Fates

---------------------------------------------------------------------------
(* The steer calls' steps.                                                 *)

\* A reservation of a waiting item.
LEMMA TakenAtIs ==
  ASSUME TypeOK, NEW i \in DOMAIN queue
  PROVE  /\ TakenAt(i) \in Handle /\ TakenAt(i).item = queue[i] /\ ~TakenAt(i).origin /\ TakenAt(i).open
         /\ TakenAt(i).state = "dispatching" /\ TakenAt(i).reason = "none"
<1> DEFINE rest == RemoveAt(queue, i)
           p == {rest[j] : j \in {i - 1} \cap DOMAIN rest}
           q == {rest[j] : j \in {i} \cap DOMAIN rest}
<1>1. queue \in Seq(Item) /\ queue[i] \in Item
  BY DEF TypeOK
<1>2. rest \in Seq(Item)
  BY <1>1, RemovedQueue
<1> HIDE DEF rest
<1>3. p \in SUBSET Item /\ q \in SUBSET Item
  BY <1>2
<1>4. TakenAt(i) = [item |-> queue[i], prev |-> p, next |-> q, origin |-> FALSE, reason |-> "none",
                    state |-> "dispatching", open |-> TRUE]
  BY DEF TakenAt, rest
<1> HIDE DEF p, q
<1> QED
  BY <1>1, <1>3, <1>4 DEF Handle

\* Taken and put back.
LEMMA RefusedKeeps ==
  ASSUME IInv, NEW id \in Ids, SteerRefused(id)
  PROVE  IInv'
<1>0. TypeOK /\ queue \in Seq(Item) /\ Distinct(queue)
  BY DEF IInv, TypeOK
<1>1. PICK i \in DOMAIN queue : i = Find(id)
  BY <1>0, FindIs DEF SteerRefused
<1> DEFINE rest == RemoveAt(queue, i)
           k == RestoreIndex(rest, TakenAt(i))
<1>2. /\ queue' = InsertAt(rest, k, queue[i]) /\ Wake /\ Used' = Used
      /\ nextOrder' = nextOrder /\ prevOrder' = prevOrder /\ handles' = handles /\ reservations' = reservations
      /\ consumed' = consumed /\ known' = known /\ delivered' = delivered /\ cancelled' = cancelled
      /\ discarded' = discarded
  BY <1>1 DEF SteerRefused, history, Used
<1>3. /\ rest \in Seq(Item) /\ Range(rest) \subseteq Range(queue) /\ Distinct(rest)
      /\ \A x \in Range(rest) : x.order # queue[i].order
  BY <1>0, RemovedQueue
<1> HIDE DEF rest
<1>4. TakenAt(i) \in Handle /\ queue[i] \in Item /\ queue[i] \in Range(queue)
  BY <1>0, TakenAtIs DEF Range
<1>5. k \in 1 .. Len(rest) + 1
  BY <1>3, <1>4, RestoreIndexIs
<1> HIDE DEF k
<1>6. queue' \in Seq(Item) /\ Range(queue') \subseteq Range(queue) /\ Distinct(queue')
  BY <1>2, <1>3, <1>4, <1>5, InsertedQueue
<1>7. waiter' \in BOOLEAN /\ loop' \in Loop /\ aborted' \in BOOLEAN /\ batch' \in Seq(Item) /\ WaiterNotStranded'
  BY <1>2, WakeKeeps
<1>8. TypeOK'
  BY <1>2, <1>6, <1>7 DEF IInv, TypeOK
<1>9. Kept /\ Mapped' /\ LiveHandleIsMapped'
  BY <1>2, Untouched
<1>10. /\ Ranged' /\ Waits' /\ Potents' /\ OnePotent' /\ Origins'
       /\ DeliveredOnce' /\ CancelledNeverDelivered' /\ HeldNeverReplayed'
  BY <1>2, <1>6, <1>8, <1>9, Shrinks
<1> QED
  BY <1>6, <1>7, <1>8, <1>9, <1>10 DEF IInv, Fates, Distinct

\* One reservation changed in place.
LEMMA ChangedHandle ==
  ASSUME TypeOK, NEW h \in DOMAIN handles, NEW k \in Handle, handles' = [handles EXCEPT ![h] = k]
  PROVE  /\ handles' \in Seq(Handle) /\ DOMAIN handles' = DOMAIN handles /\ Len(handles') = Len(handles)
         /\ handles'[h] = k /\ \A g \in DOMAIN handles : g # h => handles'[g] = handles[g]
<1>1. handles \in Seq(Handle) /\ DOMAIN handles = 1 .. Len(handles) /\ Len(handles) \in Nat
  BY DEF TypeOK
<1>2. handles' \in [1 .. Len(handles) -> Handle]
  BY <1>1
<1> QED
  BY <1>1, <1>2

\* commitReservation.
LEMMA CommitKeeps ==
  ASSUME IInv, NEW h \in DOMAIN handles, CommitReservation(h)
  PROVE  IInv'
<1> DEFINE k == [handles[h] EXCEPT !.open = FALSE]
<1>0. /\ TypeOK /\ handles[h] \in Handle /\ handles[h].item.id \in Ids /\ handles[h].item.order \in Order
      /\ handles \in Seq(Handle) /\ reservations \in [Ids -> 0 .. Len(handles)] /\ delivered \in [Order -> Nat]
  BY HandleIs DEF IInv, TypeOK
<1>1. PICK o \in Order : o = handles[h].item.order
  BY <1>0
<1>2. PICK id \in Ids : id = handles[h].item.id
  BY <1>0
<1>3. /\ handles[h].open /\ handles' = [handles EXCEPT ![h].open = FALSE]
      /\ queue' = queue /\ nextOrder' = nextOrder /\ prevOrder' = prevOrder
      /\ waiter' = waiter /\ loop' = loop /\ aborted' = aborted /\ batch' = batch
      /\ known' = known /\ cancelled' = cancelled /\ discarded' = discarded /\ Used' = Used
  BY DEF CommitReservation, loopVars, Used
<1>4. /\ k \in Handle /\ k.item = handles[h].item /\ k.origin = handles[h].origin /\ ~k.open
      /\ k.state = handles[h].state /\ k.reason = handles[h].reason
  BY <1>0 DEF Handle
<1>5. handles' = [handles EXCEPT ![h] = k]
  BY <1>0, <1>3
<1> HIDE DEF k
<1>6. /\ handles' \in Seq(Handle) /\ DOMAIN handles' = DOMAIN handles /\ Len(handles') = Len(handles)
      /\ handles'[h] = k /\ \A g \in DOMAIN handles : g # h => handles'[g] = handles[g]
  BY <1>0, <1>4, <1>5, ChangedHandle
<1>7. WaiterNotStranded' /\ Distinct(queue)'
  BY <1>3 DEF IInv, WaiterNotStranded, Distinct
<1>8. CASE /\ Commits(h)
           /\ reservations' = [reservations EXCEPT ![id] = IF @ = h THEN 0 ELSE @]
           /\ consumed' = RememberConsumed(id)
           /\ delivered' = [delivered EXCEPT ![o] = @ + 1]
  <2>1. consumed' \in Seq(Ids)
    BY <1>0, <1>8, RememberType
  <2>2. Potent(h)
    BY <1>3, <1>8 DEF Commits, Potent, Maps
  <2>3. Kept /\ Mapped' /\ LiveHandleIsMapped' /\ ~Potent(h)'
    <3>1. CASE Maps(h)
      <4>1. reservations' = [reservations EXCEPT ![handles[h].item.id] = 0]
        BY <1>0, <1>2, <1>8, <3>1 DEF Maps
      <4> QED
        BY <1>4, <1>6, <3>1, <4>1, TakenOut
    <3>2. CASE ~Maps(h)
      <4>1. reservations' = reservations
        BY <1>0, <1>2, <1>8, <3>2 DEF Maps
      <4> QED
        BY <1>4, <1>6, <3>2, <4>1, ClosedOnly
    <3> QED
      BY <3>1, <3>2
  <2>4. Gone(o)' /\ o \in Used /\ delivered[o] = 0 /\ o \notin cancelled
    BY <1>1, <1>3, <2>2, <2>3, GoneIs
  <2>5. delivered' \in [Order -> Nat] /\ delivered'[o] = 1 /\ \A q \in Order : q # o => delivered'[q] = delivered[q]
    BY <1>0, <1>8, <2>4
  <2>6. reservations' \in [Ids -> 0 .. Len(handles')]
    <3>1. reservations' \in [Ids -> 0 .. Len(handles)]
      BY <1>0, <1>8
    <3> QED
      BY <1>6, <3>1
  <2>7. TypeOK'
    BY <1>3, <1>6, <2>1, <2>5, <2>6 DEF IInv, TypeOK
  <2>8. \A q \in Order : \/ delivered'[q] = delivered[q]
                         \/ delivered'[q] = 1 /\ q \in Used /\ q \notin cancelled' /\ Gone(q)'
    BY <1>3, <2>4, <2>5
  <2>9. /\ Ranged' /\ Waits' /\ Potents' /\ OnePotent' /\ Origins'
        /\ DeliveredOnce' /\ CancelledNeverDelivered' /\ HeldNeverReplayed'
    BY <1>3, <2>3, <2>7, <2>8, Shrinks
  <2> QED
    BY <1>7, <2>3, <2>7, <2>9 DEF IInv, Fates
<1>9. CASE ~Commits(h) /\ UNCHANGED <<reservations, consumed, delivered>>
  <2>2. ~Maps(h) \/ handles[h].state \in {"dispatching", "indeterminate"}
    BY <1>0 DEF IInv, Mapped, Maps, Handle
  <2>3. Kept /\ Mapped' /\ LiveHandleIsMapped'
    BY <1>4, <1>6, <1>9, <2>2, ClosedOnly
  <2>4. TypeOK'
    BY <1>3, <1>6, <1>9 DEF IInv, TypeOK
  <2>5. /\ Ranged' /\ Waits' /\ Potents' /\ OnePotent' /\ Origins'
        /\ DeliveredOnce' /\ CancelledNeverDelivered' /\ HeldNeverReplayed'
    BY <1>3, <1>9, <2>3, <2>4, Shrinks
  <2> QED
    BY <1>7, <2>3, <2>4, <2>5 DEF IInv, Fates
<1> QED
  BY <1>1, <1>2, <1>8, <1>9 DEF CommitReservation

\* restoreReservation.
LEMMA RestoreKeeps ==
  ASSUME IInv, NEW h \in DOMAIN handles, RestoreReservation(h)
  PROVE  IInv'
<1>0. /\ TypeOK /\ handles[h] \in Handle /\ handles[h].item \in Item /\ handles[h].item.id \in Ids
      /\ handles[h].item.order \in Order /\ queue \in Seq(Item) /\ Distinct(queue)
      /\ handles \in Seq(Handle) /\ reservations \in [Ids -> 0 .. Len(handles)]
  BY HandleIs DEF IInv, TypeOK
<1>1. PICK x \in Item : x = handles[h].item
  BY <1>0
<1>2. /\ Live(h) /\ nextOrder' = nextOrder /\ prevOrder' = prevOrder /\ consumed' = consumed /\ known' = known
      /\ delivered' = delivered /\ cancelled' = cancelled /\ discarded' = discarded /\ Used' = Used
  BY DEF RestoreReservation, history, Used
<1>3. CASE /\ HeldOn(handles[h])
           /\ handles' = [handles EXCEPT ![h].state = "indeterminate", ![h].open = FALSE]
           /\ UNCHANGED <<queue, reservations, loopVars>>
  <2> DEFINE k == [handles[h] EXCEPT !.state = "indeterminate", !.open = FALSE]
  <2>1. /\ k \in Handle /\ k.item = handles[h].item /\ k.origin = handles[h].origin /\ ~k.open
        /\ k.state = "indeterminate"
    BY <1>0 DEF Handle
  <2>2. handles' = [handles EXCEPT ![h] = k]
    BY <1>0, <1>3
  <2> HIDE DEF k
  <2>3. /\ handles' \in Seq(Handle) /\ DOMAIN handles' = DOMAIN handles /\ Len(handles') = Len(handles)
        /\ handles'[h] = k /\ \A g \in DOMAIN handles : g # h => handles'[g] = handles[g]
    BY <1>0, <2>1, <2>2, ChangedHandle
  <2>4. /\ queue' = queue /\ reservations' = reservations /\ waiter' = waiter /\ loop' = loop
        /\ aborted' = aborted /\ batch' = batch
    BY <1>3 DEF loopVars
  <2>5. Kept /\ Mapped' /\ LiveHandleIsMapped'
    BY <2>1, <2>3, <2>4, ClosedOnly
  <2>6. TypeOK'
    BY <1>2, <2>3, <2>4 DEF IInv, TypeOK
  <2>7. WaiterNotStranded' /\ Distinct(queue)'
    BY <2>4 DEF IInv, WaiterNotStranded, Distinct
  <2>8. /\ Ranged' /\ Waits' /\ Potents' /\ OnePotent' /\ Origins'
        /\ DeliveredOnce' /\ CancelledNeverDelivered' /\ HeldNeverReplayed'
    BY <1>2, <2>4, <2>5, <2>6, Shrinks
  <2> QED
    BY <2>5, <2>6, <2>7, <2>8 DEF IInv, Fates
<1>4. CASE /\ ~HeldOn(handles[h]) /\ reservations[handles[h].item.id] = h
           /\ handles' = [handles EXCEPT ![h].open = FALSE]
           /\ reservations' = Restored(handles[h].item.id)
           /\ queue' = InsertAt(queue, RestoreIndex(queue, handles[h]), handles[h].item)
           /\ Wake
  <2> DEFINE k == [handles[h] EXCEPT !.open = FALSE]
             i == RestoreIndex(queue, handles[h])
  <2>1. k \in Handle /\ k.item = handles[h].item /\ k.origin = handles[h].origin /\ ~k.open
    BY <1>0 DEF Handle
  <2>2. handles' = [handles EXCEPT ![h] = k]
    BY <1>0, <1>4
  <2> HIDE DEF k
  <2>3. /\ handles' \in Seq(Handle) /\ DOMAIN handles' = DOMAIN handles /\ Len(handles') = Len(handles)
        /\ handles'[h] = k /\ \A g \in DOMAIN handles : g # h => handles'[g] = handles[g]
    BY <1>0, <2>1, <2>2, ChangedHandle
  <2>4. Maps(h) /\ Potent(h) /\ reservations' = [reservations EXCEPT ![handles[h].item.id] = 0]
    BY <1>4 DEF Maps, Potent, Restored
  <2>5. Kept /\ Mapped' /\ LiveHandleIsMapped' /\ ~Potent(h)'
    BY <2>1, <2>3, <2>4, TakenOut
  <2>6. /\ delivered[x.order] = 0 /\ x.order \notin cancelled /\ x.order \notin discarded
        /\ x.order \in Used /\ \A y \in Range(queue) : y.order # x.order
    BY <1>1, <2>4 DEF IInv, Fates, Potents, Free, Ranged
  <2>7. i \in 1 .. Len(queue) + 1 /\ queue' = InsertAt(queue, i, x)
    BY <1>0, <1>1, <1>4, RestoreIndexIs
  <2> HIDE DEF i
  <2>8. queue' \in Seq(Item) /\ Range(queue') = Range(queue) \cup {x} /\ Distinct(queue')
    <3>1. \A y \in Range(queue) : y.order # x.order
      BY <2>6
    <3>2. /\ InsertAt(queue, i, x) \in Seq(Item) /\ Range(InsertAt(queue, i, x)) = Range(queue) \cup {x}
          /\ Distinct(InsertAt(queue, i, x))
      BY <1>0, <2>7, <3>1, InsertedQueue
    <3> QED
      BY <2>7, <3>2
  <2>9. waiter' \in BOOLEAN /\ loop' \in Loop /\ aborted' \in BOOLEAN /\ batch' \in Seq(Item) /\ WaiterNotStranded'
    BY <1>4, WakeKeeps
  <2>10. TypeOK'
    <3>1. reservations' \in [Ids -> 0 .. Len(handles')]
      BY <1>0, <2>3, <2>4
    <3> QED
      BY <1>2, <2>3, <2>8, <2>9, <3>1 DEF IInv, TypeOK
  <2>11. Ranged'
    BY <1>2, <2>5, <2>6, <2>8 DEF IInv, Ranged, Kept
  <2>12. Waits'
    BY <1>2, <2>6, <2>8 DEF IInv, Fates, Waits, Free
  <2>13. Potents'
    <3>1. ASSUME NEW g \in DOMAIN handles, Potent(g)'
          PROVE  Free(handles[g].item.order) /\ \A y \in Range(queue') : y.order # handles[g].item.order
      <4>1. Potent(g) /\ g # h
        BY <2>5, <3>1 DEF Kept
      <4>2. handles[g].item.order # x.order
        BY <1>1, <2>4, <4>1 DEF IInv, Fates, OnePotent
      <4>3. Free(handles[g].item.order) /\ \A y \in Range(queue) : y.order # handles[g].item.order
        BY <4>1 DEF IInv, Fates, Potents
      <4> QED
        BY <2>8, <4>2, <4>3
    <3>2. \A g \in DOMAIN handles : Maps(g)' => handles[g].item.order \notin discarded
      BY <2>5 DEF IInv, Fates, Potents, Kept
    <3> QED
      BY <1>2, <2>5, <3>1, <3>2 DEF Potents, Kept, Free
  <2>14. OnePotent'
    BY <2>5 DEF IInv, Fates, OnePotent, Kept
  <2>15. Origins'
    BY <2>5 DEF IInv, Fates, Origins, Kept
  <2>16. DeliveredOnce' /\ CancelledNeverDelivered'
    BY <1>2 DEF IInv, Fates, DeliveredOnce, CancelledNeverDelivered
  <2>17. HeldNeverReplayed'
    <3>1. ASSUME NEW g \in DOMAIN handles, handles[g].origin, NEW y \in Range(queue')
          PROVE  y.order # handles[g].item.order
      <4>1. handles[g].item.order # x.order
        BY <1>1, <1>4, <2>4, <3>1 DEF IInv, Fates, Origins, HeldOn
      <4>2. \A z \in Range(queue) : z.order # handles[g].item.order
        BY <3>1, OrdersAre DEF IInv, Fates, HeldNeverReplayed
      <4> QED
        BY <2>8, <4>1, <4>2
    <3>2. \A g \in DOMAIN handles' : handles'[g].origin => handles'[g].item.order \notin OrdersOf(queue')
      BY <2>5, <3>1, OrdersAre DEF Kept
    <3> QED
      BY <3>2 DEF HeldNeverReplayed, OrdersOf
  <2> QED
    BY <2>5, <2>8, <2>9, <2>10, <2>11, <2>12, <2>13, <2>14, <2>15, <2>16, <2>17 DEF IInv, Fates, Distinct
<1> QED
  BY <1>3, <1>4 DEF RestoreReservation

\* markReservationIndeterminate.
LEMMA MarkKeeps ==
  ASSUME IInv, NEW h \in DOMAIN handles, MarkReservationIndeterminate(h)
  PROVE  IInv'
<1> DEFINE k == [handles[h] EXCEPT !.state = "indeterminate", !.origin = TRUE]
<1>0. TypeOK /\ handles[h] \in Handle
  BY HandleIs DEF IInv
<1>1. /\ Maps(h) /\ handles' = [handles EXCEPT ![h].state = "indeterminate", ![h].origin = TRUE]
      /\ queue' = queue /\ nextOrder' = nextOrder /\ prevOrder' = prevOrder /\ reservations' = reservations
      /\ consumed' = consumed /\ waiter' = waiter /\ loop' = loop /\ aborted' = aborted /\ batch' = batch
      /\ known' = known /\ delivered' = delivered /\ cancelled' = cancelled /\ discarded' = discarded
      /\ Used' = Used
  BY DEF MarkReservationIndeterminate, Maps, loopVars, history, Used
<1>2. /\ k \in Handle /\ k.item = handles[h].item /\ k.origin /\ k.open = handles[h].open
      /\ k.state = "indeterminate" /\ k.reason = handles[h].reason
  BY <1>0 DEF Handle
<1>3. handles' = [handles EXCEPT ![h] = k]
  BY <1>0, <1>1
<1> HIDE DEF k
<1>4. /\ handles' \in Seq(Handle) /\ DOMAIN handles' = DOMAIN handles /\ Len(handles') = Len(handles)
      /\ handles'[h] = k /\ \A g \in DOMAIN handles : g # h => handles'[g] = handles[g]
  BY <1>0, <1>2, <1>3, ChangedHandle
<1>5. ASSUME NEW g \in DOMAIN handles
      PROVE  /\ handles'[g].item = handles[g].item /\ handles'[g].open = handles[g].open
             /\ handles'[g].reason = handles[g].reason
             /\ g # h => handles'[g].origin = handles[g].origin /\ handles'[g].state = handles[g].state
  <2>1. CASE g = h
    BY <1>2, <1>4, <2>1
  <2>2. CASE g # h
    BY <1>4, <2>2
  <2> QED
    BY <2>1, <2>2
<1>6. \A g \in DOMAIN handles : (Maps(g)' <=> Maps(g)) /\ (Potent(g)' <=> Potent(g))
  BY <1>1, <1>5 DEF Maps, Potent
<1>7. TypeOK'
  BY <1>1, <1>4 DEF IInv, TypeOK
<1>8. Ranged' /\ Waits' /\ Distinct(queue)' /\ DeliveredOnce' /\ CancelledNeverDelivered' /\ WaiterNotStranded'
  <2>1. Ranged'
    BY <1>1, <1>4, <1>5 DEF IInv, Ranged
  <2>2. Waits' /\ Distinct(queue)' /\ DeliveredOnce' /\ CancelledNeverDelivered' /\ WaiterNotStranded'
    BY <1>1 DEF IInv, Fates, Waits, Free, Distinct, DeliveredOnce, CancelledNeverDelivered, WaiterNotStranded
  <2> QED
    BY <2>1, <2>2
<1>9. Potents'
  BY <1>1, <1>4, <1>5, <1>6 DEF IInv, Fates, Potents, Free
<1>10. OnePotent'
  BY <1>4, <1>5, <1>6 DEF IInv, Fates, OnePotent
<1>11. Origins'
  <2>1. ASSUME NEW f \in DOMAIN handles, NEW g \in DOMAIN handles, handles'[f].origin, Maps(g),
               handles[f].item.order = handles[g].item.order
        PROVE  handles'[g].origin
    <3>1. CASE g = h
      BY <1>2, <1>4, <3>1
    <3>2. CASE g # h /\ f = h
      BY <1>1, <2>1, <3>2 DEF IInv, Fates, OnePotent, Potent
    <3>3. CASE g # h /\ f # h
      BY <1>5, <2>1, <3>3 DEF IInv, Fates, Origins
    <3> QED
      BY <3>1, <3>2, <3>3
  <2> QED
    BY <1>4, <1>5, <1>6, <2>1 DEF Origins
<1>12. Mapped'
  <2>1. ASSUME NEW id \in Ids, reservations[id] > 0
        PROVE  handles'[reservations[id]].item.id = id /\ handles'[reservations[id]].state \in {"dispatching", "indeterminate"}
    <3>1. /\ reservations[id] \in DOMAIN handles /\ handles[reservations[id]].item.id = id
          /\ handles[reservations[id]].state \in {"dispatching", "indeterminate"}
      BY <2>1, MappedIs
    <3>2. CASE reservations[id] = h
      BY <1>2, <1>4, <3>1, <3>2
    <3>3. CASE reservations[id] # h
      BY <1>4, <3>1, <3>3
    <3> QED
      BY <3>2, <3>3
  <2> QED
    BY <1>1, <2>1 DEF Mapped
<1>13. LiveHandleIsMapped'
  <2>1. ASSUME NEW g \in DOMAIN handles, handles'[g].open, handles'[g].state # "cancelled"
        PROVE  Maps(g)'
    <3>1. CASE g = h
      BY <1>1, <1>6, <3>1
    <3>2. CASE g # h
      BY <1>5, <1>6, <2>1, <3>2 DEF IInv, Fates, LiveHandleIsMapped, Maps
    <3> QED
      BY <3>1, <3>2
  <2> QED
    BY <1>4, <2>1 DEF LiveHandleIsMapped, Maps
<1>14. HeldNeverReplayed'
  <2>1. ASSUME NEW g \in DOMAIN handles, handles'[g].origin
        PROVE  handles[g].item.order \notin OrdersOf(queue)
    <3>1. CASE g = h
      <4>1. \A x \in Range(queue) : x.order # handles[g].item.order
        BY <1>1, <3>1 DEF IInv, Fates, Potents, Potent
      <4> QED
        BY <4>1, OrdersAre
    <3>2. CASE g # h
      BY <1>5, <2>1, <3>2 DEF IInv, Fates, HeldNeverReplayed
    <3> QED
      BY <3>1, <3>2
  <2> QED
    BY <1>1, <1>4, <1>5, <2>1 DEF HeldNeverReplayed, OrdersOf
<1> QED
  BY <1>7, <1>8, <1>9, <1>10, <1>11, <1>12, <1>13, <1>14 DEF IInv, Fates

\* A step that makes a reservation of an item that is nowhere else.
LEMMA Grows ==
  ASSUME IInv, NEW k \in Handle, DOMAIN handles' = 1 .. Len(handles) + 1, handles'[Len(handles) + 1] = k,
         \A g \in DOMAIN handles :
           /\ handles'[g].item = handles[g].item /\ handles'[g].origin = handles[g].origin
           /\ Potent(g)' => Potent(g) /\ handles[g].item.order # k.item.order
           /\ Maps(g)' => Maps(g)
           /\ handles[g].origin /\ handles[g].item.order = k.item.order => k.origin,
         UNCHANGED <<nextOrder, prevOrder, history>>,
         Range(queue') \subseteq Range(queue), \A x \in Range(queue') : x.order # k.item.order,
         k.item.order \in Used, Free(k.item.order), k.item.order \notin discarded
  PROVE  /\ Ranged' /\ Waits' /\ Potents' /\ OnePotent' /\ Origins'
         /\ DeliveredOnce' /\ CancelledNeverDelivered' /\ HeldNeverReplayed'
<1> DEFINE n == Len(handles) + 1
<1>1. /\ Len(handles) \in Nat /\ DOMAIN handles = 1 .. Len(handles) /\ Used' = Used
      /\ delivered' = delivered /\ cancelled' = cancelled /\ discarded' = discarded
  BY DEF IInv, TypeOK, Used, history
<1>2. \A g \in DOMAIN handles' : g \in DOMAIN handles \/ g = n
  BY <1>1
<1>3. handles'[n] = k /\ n \in DOMAIN handles'
  BY <1>1
<1> HIDE DEF n
<1>4. Ranged'
  <2>1. \A h \in DOMAIN handles' : handles'[h].item.order \in Used
    BY <1>2, <1>3 DEF IInv, Ranged
  <2> QED
    BY <1>1, <2>1 DEF IInv, Ranged
<1>5. Waits'
  BY <1>1 DEF IInv, Fates, Waits, Free
<1>6. Potents'
  <2>1. ASSUME NEW g \in DOMAIN handles, Potent(g)'
        PROVE  Free(handles[g].item.order) /\ \A x \in Range(queue') : x.order # handles[g].item.order
    <3>1. Potent(g)
      BY <2>1
    <3> QED
      BY <3>1 DEF IInv, Fates, Potents
  <2>2. ASSUME NEW g \in DOMAIN handles, Maps(g)'
        PROVE  handles[g].item.order \notin discarded
    BY <2>2 DEF IInv, Fates, Potents
  <2>3. ASSUME NEW g \in DOMAIN handles'
        PROVE  /\ Potent(g)' => /\ Free(handles'[g].item.order)
                                /\ \A x \in Range(queue') : x.order # handles'[g].item.order
               /\ Maps(g)' => handles'[g].item.order \notin discarded
    <3>1. CASE g \in DOMAIN handles
      BY <2>1, <2>2, <3>1
    <3>2. CASE g = n
      BY <1>3, <3>2
    <3> QED
      BY <1>2, <3>1, <3>2
  <2> QED
    BY <1>1, <2>3 DEF Potents, Free
<1>7. OnePotent'
  <2>1. ASSUME NEW f \in DOMAIN handles', NEW g \in DOMAIN handles', Potent(f)', Potent(g)',
               handles'[f].item.order = handles'[g].item.order
        PROVE  f = g
    <3>1. CASE f \in DOMAIN handles /\ g \in DOMAIN handles
      BY <2>1, <3>1 DEF IInv, Fates, OnePotent
    <3>2. CASE f = n \/ g = n
      BY <1>2, <1>3, <2>1, <3>2
    <3> QED
      BY <1>2, <3>1, <3>2
  <2> QED
    BY <2>1 DEF OnePotent
<1>8. Origins'
  <2>1. ASSUME NEW f \in DOMAIN handles', NEW g \in DOMAIN handles', handles'[f].origin, Maps(g)',
               handles'[f].item.order = handles'[g].item.order
        PROVE  handles'[g].origin
    <3>1. CASE f \in DOMAIN handles /\ g \in DOMAIN handles
      BY <2>1, <3>1 DEF IInv, Fates, Origins
    <3>2. CASE g = n
      BY <1>2, <1>3, <2>1, <3>2
    <3>3. CASE g \in DOMAIN handles /\ f = n
      BY <1>3, <2>1, <3>3 DEF Potent
    <3> QED
      BY <1>2, <3>1, <3>2, <3>3
  <2> QED
    BY <2>1 DEF Origins
<1>9. DeliveredOnce' /\ CancelledNeverDelivered'
  BY <1>1 DEF IInv, Fates, DeliveredOnce, CancelledNeverDelivered
<1>10. HeldNeverReplayed'
  <2>1. ASSUME NEW g \in DOMAIN handles', handles'[g].origin, NEW x \in Range(queue')
        PROVE  x.order # handles'[g].item.order
    <3>1. CASE g \in DOMAIN handles
      BY <2>1, <3>1, OrdersAre DEF IInv, Fates, HeldNeverReplayed
    <3>2. CASE g = n
      BY <1>3, <3>2
    <3> QED
      BY <1>2, <3>1, <3>2
  <2>2. \A g \in DOMAIN handles' : handles'[g].origin => handles'[g].item.order \notin OrdersOf(queue')
    BY <2>1, OrdersAre
  <2> QED
    BY <2>2 DEF HeldNeverReplayed, OrdersOf
<1> QED
  BY <1>4, <1>5, <1>6, <1>7, <1>8, <1>9, <1>10

\* The map after a reservation was made.
LEMMA NewlyMapped ==
  ASSUME IInv, NEW id \in Ids, NEW k \in Handle, handles' \in Seq(Handle),
         DOMAIN handles' = 1 .. Len(handles) + 1, handles'[Len(handles) + 1] = k,
         reservations' = [reservations EXCEPT ![id] = Len(handles) + 1],
         k.item.id = id, k.state \in {"dispatching", "indeterminate"},
         \A g \in DOMAIN handles :
           /\ handles'[g].item = handles[g].item /\ handles'[g].open = handles[g].open
           /\ reservations[id] # g => handles'[g] = handles[g],
         reservations[id] > 0 => /\ handles'[reservations[id]].state = "cancelled"
                                 /\ handles'[reservations[id]].reason # "queue-reset"
  PROVE  /\ reservations' \in [Ids -> 0 .. Len(handles')] /\ Mapped' /\ LiveHandleIsMapped'
         /\ \A g \in DOMAIN handles : /\ Maps(g)' => Maps(g)
                                      /\ Potent(g)' => Potent(g) /\ g # reservations[id]
<1> DEFINE n == Len(handles) + 1
<1>1. /\ Len(handles) \in Nat /\ DOMAIN handles = 1 .. Len(handles) /\ reservations \in [Ids -> 0 .. Len(handles)]
      /\ handles \in Seq(Handle)
  BY DEF IInv, TypeOK
<1>2. Len(handles') = n /\ DOMAIN handles' = 1 .. n /\ handles'[n] = k
  BY <1>1
<1>3. \A g \in DOMAIN handles : g # n /\ g > 0 /\ g \in Nat /\ handles[g].item.id \in Ids
  BY <1>1, HandleIs DEF IInv
<1>4. \A g \in DOMAIN handles' : g \in DOMAIN handles \/ g = n
  BY <1>1, <1>2
<1>5. reservations' \in [Ids -> 0 .. n]
  BY <1>1
<1>6. reservations'[id] = n /\ \A j \in Ids : j # id => reservations'[j] = reservations[j]
  BY <1>1
<1>7. n \in Nat /\ n > 0
  BY <1>1
<1> HIDE DEF n
<1>8. ASSUME NEW g \in DOMAIN handles
      PROVE  /\ Maps(g)' => Maps(g) /\ g # reservations[id]
             /\ Maps(g) /\ g # reservations[id] => Maps(g)'
  <2>1. handles'[g].item = handles[g].item
    BY <1>2
  <2>2. CASE handles[g].item.id = id
    BY <1>3, <1>6, <2>1, <2>2 DEF Maps
  <2>3. CASE handles[g].item.id # id
    <3>1. reservations'[handles[g].item.id] = reservations[handles[g].item.id]
      BY <1>3, <1>6, <2>3
    <3>2. Maps(g) <=> Maps(g)'
      BY <2>1, <3>1 DEF Maps
    <3>3. g = reservations[id] => handles[g].item.id = id
      BY <1>3, MappedIs
    <3> QED
      BY <2>3, <3>2, <3>3
  <2> QED
    BY <2>2, <2>3
<1>9. ASSUME NEW g \in DOMAIN handles, Potent(g)'
      PROVE  Potent(g) /\ g # reservations[id]
  <2>1. CASE Maps(g)'
    BY <1>8, <2>1 DEF Potent
  <2>2. CASE ~Maps(g)'
    <3>1. handles'[g].open /\ handles'[g].reason = "queue-reset"
      BY <1>9, <2>2 DEF Potent
    <3>2. g # reservations[id]
      BY <1>3, <3>1
    <3>3. handles'[g] = handles[g]
      BY <3>2
    <3> QED
      BY <3>1, <3>2, <3>3 DEF Potent
  <2> QED
    BY <2>1, <2>2
<1>10. Mapped'
  <2>1. ASSUME NEW j \in Ids, reservations'[j] > 0
        PROVE  handles'[reservations'[j]].item.id = j /\ handles'[reservations'[j]].state \in {"dispatching", "indeterminate"}
    <3>1. CASE j = id
      BY <1>2, <1>6, <3>1
    <3>2. CASE j # id
      <4>1. reservations'[j] = reservations[j] /\ reservations[j] > 0
        BY <1>6, <2>1, <3>2
      <4>2. /\ reservations[j] \in DOMAIN handles /\ handles[reservations[j]].item.id = j
            /\ handles[reservations[j]].state \in {"dispatching", "indeterminate"}
        BY <4>1, MappedIs
      <4>3. reservations[j] # reservations[id]
        BY <3>2, <4>1, <4>2, MappedIs
      <4>4. handles'[reservations[j]] = handles[reservations[j]]
        BY <1>2, <4>2, <4>3
      <4> QED
        BY <4>1, <4>2, <4>4
    <3> QED
      BY <3>1, <3>2
  <2> QED
    BY <2>1 DEF Mapped
<1>11. LiveHandleIsMapped'
  <2>1. ASSUME NEW g \in DOMAIN handles', handles'[g].open, handles'[g].state # "cancelled"
        PROVE  Maps(g)'
    <3>1. CASE g = n
      BY <1>2, <1>6, <3>1 DEF Maps
    <3>2. CASE g \in DOMAIN handles
      <4>1. g # reservations[id]
        BY <1>2, <1>3, <2>1, <3>2
      <4>2. handles'[g] = handles[g]
        BY <1>2, <3>2, <4>1
      <4>3. Maps(g)
        BY <2>1, <3>2, <4>2 DEF IInv, Fates, LiveHandleIsMapped, Maps
      <4> QED
        BY <1>8, <3>2, <4>1, <4>3
    <3> QED
      BY <1>4, <3>1, <3>2
  <2> QED
    BY <2>1 DEF LiveHandleIsMapped, Maps
<1> QED
  BY <1>2, <1>5, <1>8, <1>9, <1>10, <1>11 DEF n

\* A steer call that takes a waiting item.
LEMMA SteerQueuedKeeps ==
  ASSUME IInv, NEW id \in Ids, SteerQueued(id)
  PROVE  IInv'
<1>0. TypeOK /\ queue \in Seq(Item) /\ Distinct(queue) /\ handles \in Seq(Handle)
  BY DEF IInv, TypeOK
<1>1. PICK i \in DOMAIN queue : i = Find(id) /\ queue[i].id = id
  BY <1>0, FindIs DEF SteerQueued
<1>2. PICK k \in Handle : k = TakenAt(i)
  BY <1>0, TakenAtIs
<1>3. k.item = queue[i] /\ ~k.origin /\ k.state = "dispatching" /\ queue[i] \in Range(queue)
  BY <1>0, <1>2, TakenAtIs DEF Range
<1>4. /\ reservations[id] = 0 /\ handles' = Append(handles, k)
      /\ reservations' = [reservations EXCEPT ![id] = Len(handles) + 1]
      /\ queue' = RemoveAt(queue, i) /\ loop = "turn"
      /\ nextOrder' = nextOrder /\ prevOrder' = prevOrder /\ consumed' = consumed
      /\ waiter' = waiter /\ loop' = loop /\ aborted' = aborted /\ batch' = batch /\ known' = known
      /\ UNCHANGED <<nextOrder, prevOrder, history>>
  BY <1>1, <1>2 DEF SteerQueued, loopVars
<1>5. /\ handles' \in Seq(Handle) /\ DOMAIN handles' = 1 .. Len(handles) + 1 /\ handles'[Len(handles) + 1] = k
      /\ reservations' \in [Ids -> 0 .. Len(handles')] /\ Mapped' /\ LiveHandleIsMapped'
      /\ \A g \in DOMAIN handles : /\ handles'[g] = handles[g] /\ (Maps(g)' => Maps(g))
                                   /\ Potent(g)' => Potent(g) /\ g # reservations[id]
  <2>2. /\ handles' \in Seq(Handle) /\ DOMAIN handles' = 1 .. Len(handles) + 1 /\ handles'[Len(handles) + 1] = k
        /\ \A g \in DOMAIN handles : handles'[g] = handles[g]
    BY <1>0, <1>4
  <2>3. k.item.id = id /\ k.state \in {"dispatching", "indeterminate"}
    BY <1>1, <1>3
  <2>4. \A g \in DOMAIN handles : /\ handles'[g].item = handles[g].item /\ handles'[g].open = handles[g].open
                                  /\ reservations[id] # g => handles'[g] = handles[g]
    BY <2>2
  <2>5. reservations[id] > 0 => /\ handles'[reservations[id]].state = "cancelled"
                                /\ handles'[reservations[id]].reason # "queue-reset"
    BY <1>4
  <2>6. /\ reservations' \in [Ids -> 0 .. Len(handles')] /\ Mapped' /\ LiveHandleIsMapped'
        /\ \A g \in DOMAIN handles : /\ Maps(g)' => Maps(g)
                                     /\ Potent(g)' => Potent(g) /\ g # reservations[id]
    BY <1>4, <2>2, <2>3, <2>4, <2>5, NewlyMapped
  <2> QED
    BY <2>2, <2>6
<1>6. /\ queue' \in Seq(Item) /\ Range(queue') \subseteq Range(queue) /\ Distinct(queue')
      /\ \A x \in Range(queue') : x.order # k.item.order
  BY <1>0, <1>3, <1>4, RemovedQueue
<1>7. k.item.order \in Used /\ Free(k.item.order) /\ k.item.order \notin discarded
  BY <1>3 DEF IInv, Fates, Waits, Ranged
<1>8. ASSUME NEW g \in DOMAIN handles
      PROVE  /\ Potent(g) => handles[g].item.order # k.item.order
             /\ handles[g].origin => handles[g].item.order # k.item.order
  <2>1. Potent(g) => handles[g].item.order # k.item.order
    BY <1>3 DEF IInv, Fates, Potents
  <2>2. handles[g].origin => handles[g].item.order # k.item.order
    BY <1>3, OrdersAre DEF IInv, Fates, HeldNeverReplayed
  <2> QED
    BY <2>1, <2>2
<1>9. TypeOK'
  BY <1>4, <1>5, <1>6 DEF IInv, TypeOK, history
<1>10. \A g \in DOMAIN handles :
         /\ handles'[g].item = handles[g].item /\ handles'[g].origin = handles[g].origin
         /\ Potent(g)' => Potent(g) /\ handles[g].item.order # k.item.order
         /\ Maps(g)' => Maps(g)
         /\ handles[g].origin /\ handles[g].item.order = k.item.order => k.origin
  BY <1>5, <1>8
<1>11. /\ Ranged' /\ Waits' /\ Potents' /\ OnePotent' /\ Origins'
       /\ DeliveredOnce' /\ CancelledNeverDelivered' /\ HeldNeverReplayed'
  BY <1>4, <1>5, <1>6, <1>7, <1>10, Grows
<1>12. WaiterNotStranded'
  BY <1>4 DEF WaiterNotStranded
<1> QED
  BY <1>5, <1>6, <1>9, <1>11, <1>12 DEF IInv, Fates, Distinct

\* A steer call that tries a held message again.
LEMMA SteerHeldKeeps ==
  ASSUME IInv, NEW id \in Ids, SteerHeld(id)
  PROVE  IInv'
<1>0. TypeOK /\ handles \in Seq(Handle) /\ reservations[id] \in 0 .. Len(handles) /\ Len(handles) \in Nat
  BY DEF IInv, TypeOK
<1>1. PICK h \in DOMAIN handles : h = reservations[id] /\ h > 0
  BY <1>0 DEF SteerHeld
<1>2. Maps(h) /\ Potent(h) /\ handles[h].item.id = id /\ handles[h] \in Handle
  BY <1>0, <1>1, MappedIs, HandleIs
<1> DEFINE retry == [handles[h] EXCEPT !.reason = "none", !.open = Turn(handles[h].item),
                       !.state = IF Turn(handles[h].item) THEN "dispatching" ELSE "indeterminate"]
<1>3. /\ retry \in Handle /\ retry.item = handles[h].item /\ retry.origin = handles[h].origin
      /\ retry.state \in {"dispatching", "indeterminate"}
  <2>1. Turn(handles[h].item) \in BOOLEAN
    BY Zenon DEF Turn
  <2> QED
    BY <1>2, <2>1 DEF Handle
<1>4. /\ handles' = Append(Voided(h), retry)
      /\ reservations' = [reservations EXCEPT ![id] = Len(handles) + 1]
      /\ queue' = queue /\ loop = "turn"
      /\ nextOrder' = nextOrder /\ prevOrder' = prevOrder /\ consumed' = consumed
      /\ waiter' = waiter /\ loop' = loop /\ aborted' = aborted /\ batch' = batch /\ known' = known
      /\ UNCHANGED <<nextOrder, prevOrder, history>>
  BY <1>1 DEF SteerHeld, loopVars
<1> HIDE DEF retry
<1>5. PICK k \in Handle : k = retry
  BY <1>3
<1>6. /\ Voided(h) \in Seq(Handle) /\ DOMAIN Voided(h) = DOMAIN handles
      /\ \A g \in DOMAIN handles :
           /\ Voided(h)[g].item = handles[g].item /\ Voided(h)[g].origin = handles[g].origin
           /\ Voided(h)[g].open = handles[g].open
           /\ g # h => Voided(h)[g] = handles[g]
      /\ Voided(h)[h].reason = "explicit" /\ Voided(h)[h].state = "cancelled"
  BY <1>0, VoidedIs
<1>7. Len(Voided(h)) = Len(handles)
  BY <1>0, <1>6
<1>8. PICK hs \in Seq(Handle) : hs = Voided(h)
  BY <1>6
<1>9. /\ handles' \in Seq(Handle) /\ DOMAIN handles' = 1 .. Len(handles) + 1 /\ handles'[Len(handles) + 1] = k
      /\ reservations' \in [Ids -> 0 .. Len(handles')] /\ Mapped' /\ LiveHandleIsMapped'
      /\ \A g \in DOMAIN handles : /\ handles'[g] = hs[g] /\ (Maps(g)' => Maps(g))
                                   /\ Potent(g)' => Potent(g) /\ g # reservations[id]
  <2>2. /\ handles' \in Seq(Handle) /\ DOMAIN handles' = 1 .. Len(handles) + 1 /\ handles'[Len(handles) + 1] = k
        /\ \A g \in DOMAIN handles : handles'[g] = hs[g]
    BY <1>0, <1>4, <1>5, <1>7, <1>8
  <2>3. k.item.id = id /\ k.state \in {"dispatching", "indeterminate"}
    BY <1>2, <1>3, <1>5
  <2>4. \A g \in DOMAIN handles : /\ handles'[g].item = handles[g].item /\ handles'[g].open = handles[g].open
                                  /\ reservations[id] # g => handles'[g] = handles[g]
    BY <1>1, <1>6, <1>8, <2>2
  <2>5. reservations[id] > 0 => /\ handles'[reservations[id]].state = "cancelled"
                                /\ handles'[reservations[id]].reason # "queue-reset"
    BY <1>1, <1>6, <1>8, <2>2
  <2>6. /\ reservations' \in [Ids -> 0 .. Len(handles')] /\ Mapped' /\ LiveHandleIsMapped'
        /\ \A g \in DOMAIN handles : /\ Maps(g)' => Maps(g)
                                     /\ Potent(g)' => Potent(g) /\ g # reservations[id]
    BY <1>4, <2>2, <2>3, <2>4, <2>5, NewlyMapped
  <2> QED
    BY <2>2, <2>6
<1>10. /\ \A x \in Range(queue') : x.order # k.item.order
       /\ k.item.order \in Used /\ Free(k.item.order) /\ k.item.order \notin discarded
  BY <1>2, <1>3, <1>4, <1>5 DEF IInv, Fates, Potents, Ranged
<1>11. ASSUME NEW g \in DOMAIN handles
       PROVE  /\ handles'[g].item = handles[g].item /\ handles'[g].origin = handles[g].origin
              /\ Potent(g)' => Potent(g) /\ handles[g].item.order # k.item.order
              /\ Maps(g)' => Maps(g)
              /\ handles[g].origin /\ handles[g].item.order = k.item.order => k.origin
  <2>1. handles'[g].item = handles[g].item /\ handles'[g].origin = handles[g].origin
    BY <1>6, <1>8, <1>9
  <2>2. Potent(g)' => Potent(g) /\ handles[g].item.order # k.item.order
    BY <1>1, <1>2, <1>3, <1>5, <1>9 DEF IInv, Fates, OnePotent
  <2>3. handles[g].origin /\ handles[g].item.order = k.item.order => k.origin
    BY <1>2, <1>3, <1>5 DEF IInv, Fates, Origins
  <2> QED
    BY <1>9, <2>1, <2>2, <2>3
<1>12. TypeOK'
  BY <1>4, <1>9 DEF IInv, TypeOK, history
<1>13. /\ Ranged' /\ Waits' /\ Potents' /\ OnePotent' /\ Origins'
       /\ DeliveredOnce' /\ CancelledNeverDelivered' /\ HeldNeverReplayed'
  BY <1>4, <1>9, <1>10, <1>11, Grows
<1>14. WaiterNotStranded' /\ Distinct(queue)'
  BY <1>4 DEF WaiterNotStranded, IInv, Distinct
<1> QED
  BY <1>9, <1>12, <1>13, <1>14 DEF IInv, Fates

---------------------------------------------------------------------------
(* The theorems.                                                           *)

\* Nothing waits, is reserved or was delivered at first.
LEMMA InitInv ==
  ASSUME Init
  PROVE  IInv
<1>1. /\ queue = <<>> /\ nextOrder = 0 /\ prevOrder = -1 /\ handles = <<>> /\ consumed = <<>>
      /\ reservations = [id \in Ids |-> 0] /\ waiter = FALSE /\ loop = "turn" /\ aborted = FALSE
      /\ batch = <<>> /\ known = {} /\ delivered = [o \in Order |-> 0] /\ cancelled = {} /\ discarded = {}
  BY DEF Init
<1>2. MaxPushes \in Nat /\ MaxRequeues \in Nat
  BY QueueAssumption
<1>3. DOMAIN queue = {} /\ DOMAIN handles = {} /\ Range(queue) = {}
  BY <1>1 DEF Range
<1>4. TypeOK
  <2>1. Len(handles) = 0 /\ reservations \in [Ids -> 0 .. Len(handles)] /\ delivered \in [Order -> Nat]
    BY <1>1
  <2>2. nextOrder \in 0 .. MaxPushes /\ prevOrder \in -MaxRequeues - 1 .. -1
    BY <1>1, <1>2
  <2>3. queue \in Seq(Item) /\ handles \in Seq(Handle) /\ consumed \in Seq(Ids) /\ batch \in Seq(Item)
    BY <1>1
  <2>4. waiter \in BOOLEAN /\ loop \in Loop /\ aborted \in BOOLEAN
    BY <1>1 DEF Loop
  <2>5. known \in SUBSET Ids /\ cancelled \in SUBSET Order /\ discarded \in SUBSET Order
    BY <1>1
  <2> QED
    BY <2>1, <2>2, <2>3, <2>4, <2>5 DEF TypeOK
<1>5. Distinct(queue) /\ WaiterNotStranded /\ Mapped
  BY <1>1, <1>3 DEF Distinct, WaiterNotStranded, Mapped
<1>6. Ranged
  BY <1>1, <1>3 DEF Ranged
<1>7. Fates
  BY <1>1, <1>3 DEF Fates, Waits, Potents, OnePotent, Origins, DeliveredOnce, CancelledNeverDelivered,
                    LiveHandleIsMapped, HeldNeverReplayed
<1> QED
  BY <1>4, <1>5, <1>6, <1>7 DEF IInv

\* Nothing happens.
LEMMA StutterKeeps ==
  ASSUME IInv, UNCHANGED vars
  PROVE  IInv'
<1>1. UNCHANGED <<queueVars, known, history>> /\ UNCHANGED loopVars
  BY DEF vars
<1>2. waiter' = waiter /\ loop' = loop /\ aborted' = aborted /\ batch' = batch /\ queue' = queue
  BY <1>1 DEF loopVars, queueVars
<1>3. waiter' \in BOOLEAN /\ loop' \in Loop /\ aborted' \in BOOLEAN /\ batch' \in Seq(Item)
  BY <1>2 DEF IInv, TypeOK
<1>4. WaiterNotStranded'
  BY <1>2 DEF IInv, WaiterNotStranded
<1> QED
  BY <1>1, <1>3, <1>4, LoopKeeps

\* Every step keeps the invariant.
LEMMA NextKeeps ==
  ASSUME IInv, [Next]_vars
  PROVE  IInv'
<1>1. ASSUME NEW id \in Ids, NEW hash \in Hashes, NEW isolate \in BOOLEAN,
             Push(id, hash, isolate) \/ Retry(id, hash, isolate)
      PROVE  IInv'
  BY <1>1, PushKeeps, RetryKeeps
<1>2. ASSUME NEW id \in Ids, NEW hash \in Hashes, PushIsolateAndClear(id, hash)
      PROVE  IInv'
  BY <1>2, PushClearKeeps
<1>3. ASSUME NEW id \in Ids, CancelByLocalId(id) \/ SteerQueued(id) \/ SteerHeld(id) \/ SteerRefused(id)
      PROVE  IInv'
  BY <1>3, CancelKeeps, SteerQueuedKeeps, SteerHeldKeeps, RefusedKeeps
<1>4. ASSUME NEW h \in DOMAIN handles,
             RestoreReservation(h) \/ CommitReservation(h) \/ MarkReservationIndeterminate(h)
      PROVE  IInv'
  BY <1>4, RestoreKeeps, CommitKeeps, MarkKeeps
<1>5. CASE WaitForMessages \/ Resume \/ Requeue
  BY <1>5, WaitKeeps, ResumeKeeps, RequeueKeeps
<1>6. ASSUME NEW preserve \in BOOLEAN, Abort(preserve)
      PROVE  IInv'
  BY <1>6, AbortKeeps
<1>7. CASE UNCHANGED vars
  BY <1>7, StutterKeeps
<1> QED
  BY <1>1, <1>2, <1>3, <1>4, <1>5, <1>6, <1>7 DEF Next

\* The invariant holds in every state the queue and its callers reach.
THEOREM Inductive == Spec => []IInv
<1>1. Init => IInv
  BY InitInv
<1>2. IInv /\ [Next]_vars => IInv'
  BY NextKeeps
<1> QED
  BY <1>1, <1>2, PTL DEF Spec

\* Every variable keeps its type.
THEOREM TypeCorrect == Spec => []TypeOK
<1>1. IInv => TypeOK
  BY DEF IInv
<1> QED
  BY <1>1, Inductive, PTL

\* No prompt is doubled: an item waits once, and not while its localId is reserved
\* (takeByLocalId, restoreReservation, requeue).
THEOREM NothingDoubles == Spec => []ItemInOnePlace
<1>1. IInv => ItemInOnePlace
  <2> SUFFICES ASSUME IInv
               PROVE  ItemInOnePlace
    OBVIOUS
  <2>1. \A i, j \in DOMAIN queue : queue[i].order = queue[j].order => i = j
    BY DEF IInv, Distinct
  <2>2. ASSUME NEW id \in Ids, reservations[id] > 0
        PROVE  handles[reservations[id]].item.order \notin OrdersOf(queue)
    <3>1. reservations[id] \in DOMAIN handles /\ Potent(reservations[id])
      BY <2>2, MappedIs
    <3>2. \A x \in Range(queue) : x.order # handles[reservations[id]].item.order
      BY <3>1 DEF IInv, Fates, Potents
    <3> QED
      BY <3>2, OrdersAre
  <2> QED
    BY <2>1, <2>2 DEF ItemInOnePlace
<1> QED
  BY <1>1, Inductive, PTL

\* A cancel finds every reservation that a call may still settle (cancelByLocalId).
THEOREM SettlersAreFound == Spec => []LiveHandleIsMapped
<1>1. IInv => LiveHandleIsMapped
  BY DEF IInv, Fates
<1> QED
  BY <1>1, Inductive, PTL

\* A prompt whose outcome was ever unknown never waits again (restoreReservation).
THEOREM UnknownStaysHeld == Spec => []HeldNeverReplayed
<1>1. IInv => HeldNeverReplayed
  BY DEF IInv, Fates
<1> QED
  BY <1>1, Inductive, PTL

\* An item is collected or committed once (collectBatch, commitReservation).
THEOREM OneDelivery == Spec => []DeliveredOnce
<1>1. IInv => DeliveredOnce
  BY DEF IInv, Fates
<1> QED
  BY <1>1, Inductive, PTL

\* A cancel that answered true is final (cancelByLocalId, commitReservation).
THEOREM CancelIsFinal == Spec => []CancelledNeverDelivered
<1>1. IInv => CancelledNeverDelivered
  BY DEF IInv, Fates
<1> QED
  BY <1>1, Inductive, PTL

\* What a clear or an abort dropped does not come back (cancelReservations, restoreReservation).
THEOREM DiscardIsFinal == Spec => []DiscardedNeverQueued
<1>1. IInv => DiscardedNeverQueued
  <2> SUFFICES ASSUME IInv, NEW o \in discarded
               PROVE  o \notin OrdersOf(queue)
    BY DEF DiscardedNeverQueued
  <2>1. \A x \in Range(queue) : x.order # o
    BY DEF IInv, Fates, Waits
  <2> QED
    BY <2>1, OrdersAre
<1> QED
  BY <1>1, Inductive, PTL

\* The loop sleeps only with a waiter registered and nothing to do (waitForMessages, reset).
THEOREM LoopIsWoken == Spec => []WaiterNotStranded
<1>1. IInv => WaiterNotStranded
  BY DEF IInv
<1> QED
  BY <1>1, Inductive, PTL

---------------------------------------------------------------------------
(* FIFO order, with one steer call at a time.                              *)

\* The neighbours an item had when it was taken say where it belongs.
Belongs(s, taken) ==
  /\ \A x \in taken.prev :
       /\ x.order \in Used /\ x.order < taken.item.order
       /\ \A y \in Range(s) : ~(x.order < y.order /\ y.order < taken.item.order)
  /\ \A x \in taken.next : x.order > taken.item.order

\* One steer call at a time may put its item back, and only one whose outcome was always known.
OneLive == \A g, h \in DOMAIN handles : Live(g) /\ Live(h) => g = h
HeldKnown == \A h \in DOMAIN handles : handles[h].state = "indeterminate" => handles[h].origin
OrderInv ==
  /\ Sorted(queue) /\ OneLive /\ HeldKnown
  /\ \A h \in DOMAIN handles : Live(h) /\ ~handles[h].origin => Belongs(queue, handles[h])

\* An item that belongs where restoreReservation looks is put there.
LEMMA RestoredSorted ==
  ASSUME NEW s \in Seq(Item), NEW taken \in Handle, Sorted(s), Belongs(s, taken),
         \A y \in Range(s) : y.order # taken.item.order
  PROVE  Sorted(InsertAt(s, RestoreIndex(s, taken), taken.item))
<1> DEFINE k == RestoreIndex(s, taken)
           o == taken.item.order
<1>1. DOMAIN s = 1 .. Len(s) /\ Len(s) \in Nat /\ taken.item \in Item /\ o \in Int
  BY OrderIsInt DEF Handle
<1>2. \A j \in DOMAIN s : s[j].order \in Int /\ s[j].order # o /\ s[j] \in Range(s)
  BY OrderIsInt DEF Range
<1>3. /\ k \in 1 .. Len(s) + 1
      /\ (\E i \in DOMAIN s : s[i].order > o) =>
           /\ k \in DOMAIN s /\ s[k].order > o
           /\ \A i \in 1 .. k - 1 : ~(s[i].order > o)
      /\ ~(\E i \in DOMAIN s : s[i].order > o) =>
           \/ \E i \in DOMAIN s : s[i] \in taken.next
           \/ \E i \in DOMAIN s : s[i] \in taken.prev /\ k = i + 1
           \/ k = Len(s) + 1
  BY RestoreIndexIs
<1> HIDE DEF k, o
<1>4. (\A j \in 1 .. k - 1 : s[j].order < o) /\ \A j \in k .. Len(s) : o < s[j].order
  <2>1. CASE \E i \in DOMAIN s : s[i].order > o
    <3>1. k \in DOMAIN s /\ s[k].order > o /\ \A i \in 1 .. k - 1 : ~(s[i].order > o)
      BY <1>3, <2>1
    <3>2. ASSUME NEW j \in 1 .. k - 1
          PROVE  s[j].order < o
      <4>1. j \in DOMAIN s /\ ~(s[j].order > o)
        BY <1>1, <3>1
      <4> QED
        BY <1>1, <1>2, <4>1
    <3>3. ASSUME NEW j \in k .. Len(s)
          PROVE  o < s[j].order
      <4>1. j \in DOMAIN s /\ (j = k \/ k < j)
        BY <1>1, <3>1
      <4>2. j = k \/ s[k].order < s[j].order
        BY <3>1, <4>1 DEF Sorted
      <4> QED
        BY <1>1, <1>2, <3>1, <4>1, <4>2
    <3> QED
      BY <3>2, <3>3
  <2>2. CASE ~(\E i \in DOMAIN s : s[i].order > o)
    <3>1. \A j \in DOMAIN s : s[j].order < o
      BY <1>1, <1>2, <2>2
    <3>2. \/ \E i \in DOMAIN s : s[i] \in taken.next
          \/ \E i \in DOMAIN s : s[i] \in taken.prev /\ k = i + 1
          \/ k = Len(s) + 1
      BY <1>3, <2>2
    <3>3. ~(\E i \in DOMAIN s : s[i] \in taken.next)
      BY <2>2 DEF Belongs, o
    <3>4. \A j \in k .. Len(s) : FALSE
      <4>1. CASE k = Len(s) + 1
        BY <1>1, <4>1
      <4>2. ASSUME NEW i \in DOMAIN s, s[i] \in taken.prev, k = i + 1, NEW j \in k .. Len(s)
            PROVE  FALSE
        <5>1. j \in DOMAIN s /\ i < j
          BY <1>1, <4>2
        <5>2. s[i].order < s[j].order /\ s[j].order < o /\ s[j] \in Range(s)
          BY <1>2, <3>1, <5>1 DEF Sorted
        <5> QED
          BY <4>2, <5>2 DEF Belongs, o
      <4> QED
        BY <3>2, <3>3, <4>1, <4>2
    <3> QED
      BY <1>1, <1>3, <3>1, <3>4
  <2> QED
    BY <2>1, <2>2
<1>5. Sorted(InsertAt(s, k, taken.item))
  BY <1>1, <1>3, <1>4, InsertedQueue DEF o
<1> QED
  BY <1>5 DEF k

\* An item belongs where it was.
LEMMA TakenBelongs ==
  ASSUME IInv, Sorted(queue), NEW i \in DOMAIN queue
  PROVE  Belongs(queue, TakenAt(i)) /\ TakenAt(i).item = queue[i]
<1> DEFINE rest == RemoveAt(queue, i)
           o == queue[i].order
<1>1. queue \in Seq(Item) /\ DOMAIN queue = 1 .. Len(queue) /\ Len(queue) \in Nat
  BY DEF IInv, TypeOK
<1>2. /\ rest \in Seq(Item) /\ Len(rest) = Len(queue) - 1
      /\ \A j \in 1 .. Len(queue) - 1 : rest[j] = IF j < i THEN queue[j] ELSE queue[j + 1]
  BY <1>1, RemoveIs
<1>3. \A j \in DOMAIN queue : queue[j].order \in Int /\ queue[j].order \in Used
  BY <1>1, OrderIsInt DEF IInv, Ranged, Range
<1>4. /\ TakenAt(i).item = queue[i]
      /\ TakenAt(i).prev = {rest[j] : j \in {i - 1} \cap DOMAIN rest}
      /\ TakenAt(i).next = {rest[j] : j \in {i} \cap DOMAIN rest}
  BY DEF TakenAt
<1> HIDE DEF rest
<1>5. DOMAIN rest = 1 .. Len(queue) - 1
  BY <1>1, <1>2
<1>6. ASSUME NEW x \in TakenAt(i).prev
      PROVE  /\ x.order \in Used /\ x.order < o
             /\ \A y \in Range(queue) : ~(x.order < y.order /\ y.order < o)
  <2>1. i - 1 \in DOMAIN rest /\ x = rest[i - 1]
    BY <1>4, <1>6
  <2>2. i - 1 \in DOMAIN queue /\ x = queue[i - 1]
    BY <1>1, <1>2, <1>5, <2>1
  <2>3. x.order < o
    BY <1>1, <2>2 DEF Sorted
  <2>4. ASSUME NEW j \in DOMAIN queue
        PROVE  ~(x.order < queue[j].order /\ queue[j].order < o)
    <3>1. j < i - 1 \/ j = i - 1 \/ j = i \/ i < j
      BY <1>1
    <3>2. CASE j < i - 1
      BY <1>3, <2>2, <3>2 DEF Sorted
    <3>3. CASE j = i - 1 \/ j = i
      BY <1>3, <2>2, <3>3
    <3>4. CASE i < j
      BY <1>3, <3>4 DEF Sorted
    <3> QED
      BY <3>1, <3>2, <3>3, <3>4
  <2> QED
    BY <1>3, <2>2, <2>3, <2>4 DEF Range
<1>7. ASSUME NEW x \in TakenAt(i).next
      PROVE  x.order > o
  <2>1. i \in DOMAIN rest /\ x = rest[i]
    BY <1>4, <1>7
  <2>2. i + 1 \in DOMAIN queue /\ x = queue[i + 1]
    BY <1>1, <1>2, <1>5, <2>1
  <2>3. o < x.order
    BY <1>1, <2>2 DEF Sorted
  <2> QED
    BY <1>3, <2>2, <2>3
<1> QED
  BY <1>4, <1>6, <1>7 DEF Belongs

\* A step that begins no steer call.
NoneBegins ==
  /\ DOMAIN handles' = DOMAIN handles
  /\ \A g \in DOMAIN handles :
       \/ handles'[g] = handles[g]
       \/ ~Live(g)' /\ (handles'[g].state = "indeterminate" => handles'[g].origin)

\* Such a step keeps the order if the queue stays sorted and what it queues is new.
LEMMA OrderKept ==
  ASSUME IInv, OrderInv, NoneBegins, Sorted(queue'), Used \subseteq Used',
         \A x \in Range(queue') : x \in Range(queue) \/ x.order \notin Used,
         \A x \in Range(queue') : x.order \in Int
  PROVE  OrderInv'
<1>1. ASSUME NEW g \in DOMAIN handles, Live(g)'
      PROVE  Live(g) /\ handles'[g] = handles[g]
  BY <1>1 DEF NoneBegins, Live
<1>2. OneLive'
  BY <1>1 DEF OneLive, OrderInv, NoneBegins
<1>3. HeldKnown'
  BY DEF HeldKnown, OrderInv, NoneBegins
<1>4. ASSUME NEW h \in DOMAIN handles, Live(h)', ~handles'[h].origin
      PROVE  Belongs(queue, handles[h])'
  <2>1. handles'[h] = handles[h] /\ Belongs(queue, handles[h])
    BY <1>1, <1>4 DEF OrderInv
  <2>2. handles[h].item.order \in Used /\ prevOrder \in Int /\ nextOrder \in Int
    BY DEF IInv, Ranged, TypeOK
  <2>3. ASSUME NEW x \in handles[h].prev, NEW y \in Range(queue')
        PROVE  ~(x.order < y.order /\ y.order < handles[h].item.order)
    <3>1. CASE y \in Range(queue)
      BY <2>1, <3>1 DEF Belongs
    <3>2. CASE y.order \notin Used
      <4>1. x.order \in Used
        BY <2>1 DEF Belongs
      <4>2. y.order \in Int
        OBVIOUS
      <4> QED
        BY <2>2, <3>2, <4>1, <4>2 DEF Used
    <3> QED
      BY <3>1, <3>2
  <2>4. \A x \in handles[h].prev : x.order \in Used' /\ x.order < handles[h].item.order
    BY <2>1 DEF Belongs
  <2>5. \A x \in handles[h].next : x.order > handles[h].item.order
    BY <2>1 DEF Belongs
  <2> QED
    BY <2>1, <2>3, <2>4, <2>5 DEF Belongs
<1>5. \A h \in DOMAIN handles' : Live(h)' /\ ~handles'[h].origin => Belongs(queue, handles[h])'
  BY <1>4 DEF NoneBegins
<1>6. Sorted(queue)'
  BY DEF Sorted
<1> QED
  BY <1>2, <1>3, <1>5, <1>6 DEF OrderInv

\* With the bound below two, a steer call begins only when no other is open.
LEMMA NoneLive ==
  ASSUME TypeOK, MaxOpen <= 1, Cardinality({h \in DOMAIN handles : Live(h)}) < MaxOpen
  PROVE  \A h \in DOMAIN handles : ~Live(h)
<1> DEFINE S == {h \in DOMAIN handles : Live(h)}
<1>1. DOMAIN handles = 1 .. Len(handles) /\ Len(handles) \in Nat
  BY DEF TypeOK
<1>2. IsFiniteSet(1 .. Len(handles))
  BY <1>1, FS_Interval
<1>3. S \subseteq 1 .. Len(handles)
  BY <1>1
<1>4. IsFiniteSet(S)
  BY <1>2, <1>3, FS_Subset
<1>5. Cardinality(S) \in Nat /\ (Cardinality(S) = 0 <=> S = {})
  BY <1>4, FS_CardinalityType, FS_EmptySet
<1>6. Cardinality(S) < MaxOpen
  OBVIOUS
<1> HIDE DEF S
<1>7. S = {}
  BY <1>5, <1>6, QueueAssumption
<1> QED
  BY <1>7 DEF S

\* A step that begins one steer call keeps the order if no other is open.
LEMMA OrderGrows ==
  ASSUME IInv, OrderInv, NEW k \in Handle, \A h \in DOMAIN handles : ~Live(h),
         DOMAIN handles' = 1 .. Len(handles) + 1, handles'[Len(handles) + 1] = k,
         \A g \in DOMAIN handles : handles'[g] = handles[g] \/ handles'[g].state = "cancelled",
         k.state = "indeterminate" => k.origin, ~k.origin => Belongs(queue', k),
         Sorted(queue'), Used' = Used
  PROVE  OrderInv'
<1> DEFINE n == Len(handles) + 1
<1>1. DOMAIN handles = 1 .. Len(handles) /\ Len(handles) \in Nat
  BY DEF IInv, TypeOK
<1>2. \A g \in DOMAIN handles' : g \in DOMAIN handles \/ g = n
  BY <1>1
<1>3. handles'[n] = k
  OBVIOUS
<1> HIDE DEF n
<1>4. \A g \in DOMAIN handles : ~Live(g)'
  BY DEF Live
<1>5. OneLive'
  BY <1>2, <1>4 DEF OneLive
<1>6. HeldKnown'
  BY <1>2, <1>3 DEF HeldKnown, OrderInv
<1>7. \A h \in DOMAIN handles' : Live(h)' /\ ~handles'[h].origin => Belongs(queue, handles[h])'
  <2>1. ASSUME NEW h \in DOMAIN handles', Live(h)', ~handles'[h].origin
        PROVE  Belongs(queue, handles[h])'
    <3>1. handles'[h] = k /\ ~k.origin
      BY <1>2, <1>3, <1>4, <2>1
    <3> QED
      BY <3>1 DEF Belongs
  <2> QED
    BY <2>1
<1>8. Sorted(queue)'
  BY DEF Sorted
<1> QED
  BY <1>5, <1>6, <1>7, <1>8 DEF OrderInv

\* A step that leaves the reservations alone begins no steer call, nor does one that voids some.
LEMMA NoneBegun ==
  ASSUME TypeOK
  PROVE  /\ handles' = handles => NoneBegins
         /\ \A h \in DOMAIN handles : handles' = Voided(h) => NoneBegins
         /\ \A preserve \in BOOLEAN : CancelReservations(preserve) => NoneBegins
<1>1. handles' = handles => NoneBegins
  BY DEF NoneBegins
<1>2. ASSUME NEW h \in DOMAIN handles, handles' = Voided(h)
      PROVE  NoneBegins
  BY <1>2, VoidedIs DEF NoneBegins, Live
<1>3. ASSUME NEW preserve \in BOOLEAN, CancelReservations(preserve)
      PROVE  NoneBegins
  BY <1>3, ResetIs DEF NoneBegins, Live
<1> QED
  BY <1>1, <1>2, <1>3

\* Steps of the socket.
LEMMA SocketOrder ==
  ASSUME IInv, IInv', OrderInv,
         \/ \E id \in Ids, hash \in Hashes, isolate \in BOOLEAN :
              Push(id, hash, isolate) \/ Retry(id, hash, isolate)
         \/ \E id \in Ids, hash \in Hashes : PushIsolateAndClear(id, hash)
         \/ \E id \in Ids : CancelByLocalId(id)
  PROVE  OrderInv'
<1>1. TypeOK /\ Sorted(queue) /\ queue \in Seq(Item) /\ \A x \in Range(queue') : x.order \in Int
  BY SMTT(30), OrderIsInt DEF IInv, TypeOK, OrderInv, Range
<1>2. ASSUME NEW id \in Ids, NEW hash \in Hashes, NEW isolate \in BOOLEAN, Push(id, hash, isolate)
      PROVE  OrderInv'
  <2>1. PICK x \in Item : x = NewItem(id, hash, isolate)
    BY <1>2, NewItemIs DEF Push
  <2>2. x.order \notin Used /\ Used \subseteq Used' /\ \A y \in Range(queue) : y.order < x.order
    BY <1>2, <2>1, NewItemIs DEF Push
  <2>3. queue' = Append(queue, x) /\ handles' = handles
    BY <1>2, <2>1 DEF Push
  <2>4. Sorted(queue') /\ Range(queue') = Range(queue) \cup {x}
    BY <1>1, <2>2, <2>3, AppendedQueue
  <2>5. NoneBegins
    BY <1>1, <2>3, NoneBegun
  <2> QED
    BY <1>1, <2>2, <2>4, <2>5, OrderKept
<1>3. ASSUME NEW id \in Ids, NEW hash \in Hashes, NEW isolate \in BOOLEAN, Retry(id, hash, isolate)
      PROVE  OrderInv'
  <2>1. PICK x \in Item : x = NewItem(id, hash, isolate)
    BY <1>3, NewItemIs DEF Retry
  <2>2. x.order \notin Used /\ Used \subseteq Used' /\ \A y \in Range(queue) : y.order < x.order
    BY <1>3, <2>1, NewItemIs DEF Retry
  <2>3. queue' = Append(Waiting(id), x) /\ Release(id)
    BY <1>3, <2>1 DEF Retry
  <2>4. Waiting(id) \in Seq(Item) /\ Range(Waiting(id)) \subseteq Range(queue) /\ Sorted(Waiting(id))
    BY <1>1, WaitingIs
  <2>5. \A y \in Range(Waiting(id)) : y.order < x.order
    BY <2>2, <2>4
  <2>6. Sorted(queue') /\ Range(queue') = Range(Waiting(id)) \cup {x}
    BY <2>3, <2>4, <2>5, AppendedQueue
  <2>7. NoneBegins
    BY <1>1, <2>3, NoneBegun, ReleaseIs
  <2> QED
    BY <1>1, <2>2, <2>4, <2>6, <2>7, OrderKept
<1>4. ASSUME NEW id \in Ids, NEW hash \in Hashes, PushIsolateAndClear(id, hash)
      PROVE  OrderInv'
  <2>1. PICK x \in Item : x = NewItem(id, hash, TRUE)
    BY <1>4, NewItemIs DEF PushIsolateAndClear
  <2>2. x.order \notin Used /\ Used \subseteq Used'
    BY <1>4, <2>1, NewItemIs DEF PushIsolateAndClear
  <2>3. queue' = <<x>> /\ CancelReservations(FALSE)
    BY <1>4, <2>1 DEF PushIsolateAndClear
  <2>4. Sorted(queue') /\ Range(queue') = {x}
    BY <2>3 DEF Sorted, Range
  <2>5. NoneBegins
    BY <1>1, <2>3, NoneBegun
  <2> QED
    BY <1>1, <2>2, <2>4, <2>5, OrderKept
<1>5. ASSUME NEW id \in Ids, CancelByLocalId(id)
      PROVE  OrderInv'
  <2>1. queue' = Waiting(id) /\ Release(id) /\ Used' = Used
    BY <1>5 DEF CancelByLocalId, Used
  <2>2. Range(queue') \subseteq Range(queue) /\ Sorted(queue')
    BY <1>1, <2>1, WaitingIs
  <2>3. NoneBegins
    BY <1>1, <2>1, NoneBegun, ReleaseIs
  <2> QED
    BY <1>1, <2>1, <2>2, <2>3, OrderKept
<1> QED
  BY <1>2, <1>3, <1>4, <1>5

\* Steps of the loop.
LEMMA LoopOrder ==
  ASSUME IInv, IInv', OrderInv,
         WaitForMessages \/ Resume \/ Requeue \/ (\E preserve \in BOOLEAN : Abort(preserve)) \/ UNCHANGED vars
  PROVE  OrderInv'
<1>1. TypeOK /\ Sorted(queue) /\ queue \in Seq(Item) /\ \A x \in Range(queue') : x.order \in Int
  BY OrderIsInt DEF IInv, TypeOK, OrderInv, Range
<1>2. CASE CollectBatch
  <2>1. BatchSize(queue) \in 1 .. Len(queue)
    BY <1>1, <1>2, BatchSizeIs DEF CollectBatch
  <2>2. queue' = SubSeq(queue, BatchSize(queue) + 1, Len(queue)) /\ handles' = handles /\ Used' = Used
    BY <1>2 DEF CollectBatch, Used
  <2>3. Range(queue') \subseteq Range(queue) /\ Sorted(queue')
    BY <1>1, <2>1, <2>2, SplitQueue
  <2>4. NoneBegins
    BY <1>1, <2>2, NoneBegun
  <2> QED
    BY <1>1, <2>2, <2>3, <2>4, OrderKept
<1>3. CASE UNCHANGED queueVars
  <2>1. queue' = queue /\ handles' = handles /\ Used' = Used
    BY <1>3 DEF queueVars, Used
  <2>2. NoneBegins
    BY <1>1, <2>1, NoneBegun
  <2> QED
    BY <1>1, <2>1, <2>2, OrderKept
<1>4. CASE Requeue
  <2> DEFINE back == [i \in 1 .. Len(batch) |-> [batch[i] EXCEPT !.order = prevOrder - (Len(batch) - i)]]
  <2>1. /\ prevOrder - Len(batch) >= -MaxRequeues - 1 /\ queue' = back \o queue
        /\ prevOrder' = prevOrder - Len(batch) /\ nextOrder' = nextOrder /\ handles' = handles
    BY <1>4 DEF Requeue
  <2>2. Sorted(queue') /\ \A x \in Range(queue') : x \in Range(queue) \/ x.order \notin Used
    <3>1. /\ Sorted(queue) => Sorted(back \o queue)
          /\ \A x \in Range(back \o queue) :
               x \in Range(queue) \/ (x.order \notin Used /\ x.order \in prevOrder - Len(batch) + 1 .. nextOrder - 1)
      BY <2>1, BackIs
    <3> HIDE DEF back
    <3> QED
      BY <1>1, <2>1, <3>1
  <2>3. Used \subseteq Used'
    <3>1. prevOrder \in Int /\ Len(batch) \in Nat /\ nextOrder \in Int
      BY DEF IInv, TypeOK
    <3> QED
      BY <2>1, <3>1 DEF Used
  <2>4. NoneBegins
    BY <1>1, <2>1, NoneBegun
  <2> QED
    BY <1>1, <2>2, <2>3, <2>4, OrderKept
<1>5. ASSUME NEW preserve \in BOOLEAN, Abort(preserve)
      PROVE  OrderInv'
  <2>1. queue' = <<>> /\ CancelReservations(preserve) /\ Used' = Used
    BY <1>5 DEF Abort, Used
  <2>2. Sorted(queue') /\ Range(queue') = {}
    BY <2>1 DEF Sorted, Range
  <2>3. NoneBegins
    BY <1>1, <2>1, NoneBegun
  <2> QED
    BY <1>1, <2>1, <2>2, <2>3, OrderKept
<1> QED
  BY <1>2, <1>3, <1>4, <1>5 DEF WaitForMessages, Resume, vars

\* Steps of the steer calls.
LEMMA SteerOrder ==
  ASSUME IInv, IInv', OrderInv, MaxOpen <= 1,
         \/ \E id \in Ids : SteerQueued(id) \/ SteerHeld(id) \/ SteerRefused(id)
         \/ \E h \in DOMAIN handles :
              RestoreReservation(h) \/ CommitReservation(h) \/ MarkReservationIndeterminate(h)
  PROVE  OrderInv'
<1>1. /\ TypeOK /\ Sorted(queue) /\ queue \in Seq(Item) /\ handles \in Seq(Handle) /\ Distinct(queue)
      /\ \A x \in Range(queue') : x.order \in Int
  BY SMTT(30), OrderIsInt DEF IInv, TypeOK, OrderInv, Range
<1>2. ASSUME NEW id \in Ids, SteerQueued(id)
      PROVE  OrderInv'
  <2>1. PICK i \in DOMAIN queue : i = Find(id)
    BY <1>1, <1>2, FindIs DEF SteerQueued
  <2>2. PICK k \in Handle : k = TakenAt(i)
    BY <1>1, TakenAtIs
  <2>3. handles' = Append(handles, k) /\ queue' = RemoveAt(queue, i) /\ Used' = Used
    BY <1>2, <2>1, <2>2 DEF SteerQueued, Used
  <2>4. Sorted(queue') /\ Range(queue') \subseteq Range(queue)
    BY <1>1, <2>3, RemovedQueue
  <2>5. k.state = "dispatching" /\ Belongs(queue, k)
    BY <1>1, <2>2, TakenAtIs, TakenBelongs
  <2>6. Belongs(queue', k)
    BY <2>4, <2>5 DEF Belongs
  <2>7. /\ DOMAIN handles' = 1 .. Len(handles) + 1 /\ handles'[Len(handles) + 1] = k
        /\ \A g \in DOMAIN handles : handles'[g] = handles[g]
    BY <1>1, <2>3
  <2>8. \A h \in DOMAIN handles : ~Live(h)
    BY <1>1, <1>2, NoneLive DEF SteerQueued
  <2> QED
    BY <2>3, <2>4, <2>5, <2>6, <2>7, <2>8, OrderGrows
<1>3. ASSUME NEW id \in Ids, SteerHeld(id)
      PROVE  OrderInv'
  <2>0. reservations[id] \in 0 .. Len(handles) /\ Len(handles) \in Nat
    BY DEF IInv, TypeOK
  <2>1. PICK h \in DOMAIN handles : h = reservations[id] /\ handles[h].state = "indeterminate"
    <3>1. reservations[id] > 0 /\ handles[reservations[id]].state = "indeterminate"
      BY <1>3 DEF SteerHeld
    <3>2. reservations[id] \in DOMAIN handles
      BY <1>1, <2>0, <3>1
    <3> QED
      BY <3>1, <3>2
  <2> DEFINE retry == [handles[h] EXCEPT !.reason = "none", !.open = Turn(handles[h].item),
                         !.state = IF Turn(handles[h].item) THEN "dispatching" ELSE "indeterminate"]
  <2>2. handles' = Append(Voided(h), retry) /\ queue' = queue /\ Used' = Used
    BY <1>3, <2>1 DEF SteerHeld, Used
  <2>3. retry \in Handle /\ retry.origin
    <3>1. Turn(handles[h].item) \in BOOLEAN
      BY Zenon DEF Turn
    <3>2. handles[h] \in Handle
      BY <1>1
    <3>3. handles[h].origin
      BY <2>1 DEF OrderInv, HeldKnown
    <3> QED
      BY <3>1, <3>2, <3>3 DEF Handle
  <2> HIDE DEF retry
  <2>4. PICK k \in Handle : k = retry
    BY <2>3
  <2>5. /\ Voided(h) \in Seq(Handle) /\ DOMAIN Voided(h) = DOMAIN handles
        /\ \A g \in DOMAIN handles : g # h => Voided(h)[g] = handles[g]
        /\ Voided(h)[h].state = "cancelled"
    BY <1>1, VoidedIs
  <2>6. /\ DOMAIN handles' = 1 .. Len(handles) + 1 /\ handles'[Len(handles) + 1] = k
        /\ \A g \in DOMAIN handles : handles'[g] = Voided(h)[g]
    <3>1. PICK hs \in Seq(Handle) : hs = Voided(h)
      BY <2>5
    <3>2. Len(hs) = Len(handles) /\ DOMAIN hs = DOMAIN handles /\ handles' = Append(hs, k)
      BY <1>1, <2>2, <2>4, <2>5, <3>1
    <3> QED
      BY SMTT(30), <1>1, <3>1, <3>2
  <2>7. \A g \in DOMAIN handles : handles'[g] = handles[g] \/ handles'[g].state = "cancelled"
    BY <2>5, <2>6
  <2>8. \A g \in DOMAIN handles : ~Live(g)
    BY <1>1, <1>3, NoneLive DEF SteerHeld
  <2>9. k.origin /\ Sorted(queue') /\ Used' = Used
    BY <1>1, <2>2, <2>3, <2>4
  <2> QED
    BY <2>6, <2>7, <2>8, <2>9, OrderGrows
<1>4. ASSUME NEW id \in Ids, SteerRefused(id)
      PROVE  OrderInv'
  <2>1. PICK i \in DOMAIN queue : i = Find(id)
    BY <1>1, <1>4, FindIs DEF SteerRefused
  <2>2. PICK k \in Handle : k = TakenAt(i)
    BY <1>1, TakenAtIs
  <2> DEFINE rest == RemoveAt(queue, i)
  <2>3. queue' = InsertAt(rest, RestoreIndex(rest, k), queue[i]) /\ handles' = handles /\ Used' = Used
    BY <1>4, <2>1, <2>2 DEF SteerRefused, Used
  <2>4. /\ rest \in Seq(Item) /\ Range(rest) \subseteq Range(queue) /\ Sorted(rest)
        /\ \A x \in Range(rest) : x.order # queue[i].order
    BY <1>1, RemovedQueue
  <2> HIDE DEF rest
  <2>5. Belongs(queue, k) /\ k.item = queue[i] /\ queue[i] \in Item /\ queue[i] \in Range(queue)
    BY <1>1, <2>2, TakenBelongs DEF Range
  <2>6. Belongs(rest, k)
    BY <2>4, <2>5 DEF Belongs
  <2>7. Sorted(queue')
    BY <2>3, <2>4, <2>5, <2>6, RestoredSorted
  <2>8. Range(queue') \subseteq Range(queue)
    <3>1. RestoreIndex(rest, k) \in 1 .. Len(rest) + 1
      BY <2>4, RestoreIndexIs
    <3> QED
      BY <2>3, <2>4, <2>5, <3>1, InsertedQueue
  <2>9. NoneBegins
    BY <1>1, <2>3, NoneBegun
  <2> QED
    BY <1>1, <2>3, <2>7, <2>8, <2>9, OrderKept
<1>5. ASSUME NEW h \in DOMAIN handles, RestoreReservation(h)
      PROVE  OrderInv'
  <2>0. handles[h] \in Handle /\ handles[h].item \in Item
    BY <1>1, HandleIs
  <2>1. Used' = Used
    BY <1>5 DEF RestoreReservation, Used
  <2>2. CASE /\ HeldOn(handles[h])
             /\ handles' = [handles EXCEPT ![h].state = "indeterminate", ![h].open = FALSE]
             /\ UNCHANGED <<queue, reservations, loopVars>>
    <3>1. NoneBegins
      BY <2>0, <2>2 DEF NoneBegins, Live, HeldOn, Handle
    <3> QED
      BY <1>1, <2>1, <2>2, <3>1, OrderKept
  <2>3. CASE /\ ~HeldOn(handles[h]) /\ reservations[handles[h].item.id] = h
             /\ handles' = [handles EXCEPT ![h].open = FALSE]
             /\ queue' = InsertAt(queue, RestoreIndex(queue, handles[h]), handles[h].item)
    <3>1. Live(h) /\ ~handles[h].origin
      BY <1>5, <2>3 DEF RestoreReservation, HeldOn
    <3>2. Belongs(queue, handles[h])
      BY <3>1 DEF OrderInv
    <3>3. \A y \in Range(queue) : y.order # handles[h].item.order
      BY <2>3 DEF IInv, Fates, Potents, Potent, Maps
    <3>4. Sorted(queue')
      BY <1>1, <2>0, <2>3, <3>2, <3>3, RestoredSorted
    <3>5. /\ DOMAIN handles' = DOMAIN handles
          /\ \A g \in DOMAIN handles : ~Live(g)' /\ (handles'[g].state = "indeterminate" => handles'[g].origin)
      <4>1. DOMAIN handles' = DOMAIN handles /\ \A g \in DOMAIN handles : g # h => handles'[g] = handles[g]
        BY <2>3
      <4>2. ~handles'[h].open /\ handles'[h].state = handles[h].state /\ handles'[h].origin = handles[h].origin
        BY <2>0, <2>3 DEF Handle
      <4>3. \A g \in DOMAIN handles : g # h => ~Live(g)
        BY <3>1 DEF OrderInv, OneLive
      <4>4. ASSUME NEW g \in DOMAIN handles
            PROVE  ~Live(g)' /\ (handles'[g].state = "indeterminate" => handles'[g].origin)
        <5>1. CASE g = h
          BY <4>2, <5>1 DEF Live, OrderInv, HeldKnown
        <5>2. CASE g # h
          BY <4>1, <4>3, <5>2 DEF Live, OrderInv, HeldKnown
        <5> QED
          BY <5>1, <5>2
      <4> QED
        BY <4>1, <4>4
    <3>6. Sorted(queue)'
      BY <3>4 DEF Sorted
    <3> QED
      BY <3>5, <3>6 DEF OrderInv, OneLive, HeldKnown
  <2> QED
    BY <1>5, <2>2, <2>3 DEF RestoreReservation
<1>6. ASSUME NEW h \in DOMAIN handles, CommitReservation(h)
      PROVE  OrderInv'
  <2>1. handles[h] \in Handle
    BY <1>1
  <2>2. handles' = [handles EXCEPT ![h].open = FALSE] /\ queue' = queue /\ Used' = Used
    BY <1>6 DEF CommitReservation, Used
  <2>3. NoneBegins
    BY <2>1, <2>2 DEF NoneBegins, Live, Handle, OrderInv, HeldKnown
  <2> QED
    BY <1>1, <2>2, <2>3, OrderKept
<1>7. ASSUME NEW h \in DOMAIN handles, MarkReservationIndeterminate(h)
      PROVE  OrderInv'
  <2>1. handles[h] \in Handle
    BY <1>1
  <2>2. /\ handles' = [handles EXCEPT ![h].state = "indeterminate", ![h].origin = TRUE]
        /\ queue' = queue /\ Used' = Used
    BY <1>7 DEF MarkReservationIndeterminate, Used
  <2>3. NoneBegins
    BY <2>1, <2>2 DEF NoneBegins, Live, Handle
  <2> QED
    BY <1>1, <2>2, <2>3, OrderKept
<1> QED
  BY <1>2, <1>3, <1>4, <1>5, <1>6, <1>7

\* With one steer call at a time the queue is in FIFO order, restored and requeued items included
\* (restoreReservation, requeueFront).  With two it is not.
THEOREM OneSteerKeepsOrder ==
  ASSUME MaxOpen <= 1
  PROVE  Spec => []Fifo
<1>1. Init => OrderInv
  <2> SUFFICES ASSUME Init
               PROVE  OrderInv
    OBVIOUS
  <2>1. DOMAIN queue = {} /\ DOMAIN handles = {}
    BY DEF Init
  <2> QED
    BY <2>1 DEF OrderInv, Sorted, OneLive, HeldKnown
<1>2. IInv /\ IInv' /\ OrderInv /\ [Next]_vars => OrderInv'
  <2> SUFFICES ASSUME IInv, IInv', OrderInv, [Next]_vars
               PROVE  OrderInv'
    OBVIOUS
  <2> QED
    BY SocketOrder, LoopOrder, SteerOrder DEF Next
<1>3. OrderInv => Fifo
  BY DEF OrderInv, Sorted, Fifo
<1> QED
  BY <1>1, <1>2, <1>3, Inductive, PTL DEF Spec
===========================================================================
