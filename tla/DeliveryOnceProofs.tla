------------------------ MODULE DeliveryOnceProofs -------------------------
(***************************************************************************)
(* Proofs about MessageDelivery that count deliveries: a process delivers  *)
(* a message once, and once more per retry the user asked for              *)
(* (TakenOncePerProcess), a confirmed cancel covers no delivery by the     *)
(* process that confirmed it (CancelledNotDelivered), and a prompt whose   *)
(* steer reached an agent with unknown outcome waits in no queue           *)
(* (UnprovenNotQueued), as long as nobody posts it again.                  *)
(***************************************************************************)
EXTENDS MessageDeliveryProofs

---------------------------------------------------------------------------
(* The invariant.                                                          *)

\* m is in p's queue or in the hands of its steer handler.
Active(p, m) == held[p][m] \notin {"none", "committed"}

\* The deliveries by p, the one that may still come included.
Deliveries(p, m) == taken[p][m] + (IF Active(p, m) THEN 1 ELSE 0)

\* The retries of m, those the room was offered or that ended without an offer,
\* and those whose offer is on its way to p.
Retries(m) == {i \in DOMAIN ops : ops[i].kind = "retry" /\ ops[i].m = m}
Offered(m) == {i \in Retries(m) : ops[i].stage # "ask"}
Waiting(p) == {toCli[p][x].id : x \in {y \in DOMAIN toCli[p] : toCli[p][y].t = "retry"}}

\* What the filter has not seen was not delivered.
Unseen == \A p \in Procs, m \in Messages : m \notin seen[p] => Deliveries(p, m) = 0

\* An offer that has arrived, or never will, has paid for one delivery.
Once ==
  \A p \in Procs, m \in Messages :
    Deliveries(p, m) <= 1 + Cardinality(Offered(m) \ Waiting(p))

\* An offer is about the message of its request, and made once.
OfferGood(k) ==
  k.t = "retry" => /\ k.id \in DOMAIN ops /\ k.ms = {ops[k.id].m}
                   /\ k.id \in Offered(ops[k.id].m)
OfferOnce(s) ==
  \A x, y \in DOMAIN s : s[x].t = "retry" /\ s[y].t = "retry" /\ s[x].id = s[y].id => x = y
Offers ==
  \A p \in Procs : OfferOnce(toCli[p]) /\ \A x \in DOMAIN toCli[p] : OfferGood(toCli[p][x])

\* What p removed on request it never delivers, unless by a retry.
LetGo(p, m) == Retries(m) = {} => m \in seen[p] /\ Deliveries(p, m) = 0
Releases ==
  \A p \in Procs : \A i \in released[p] : i \in DOMAIN ops /\ LetGo(p, ops[i].m)

\* Who says so has removed it.
AckGood(p, k) == k.t = "cancelAck" /\ k.st = "removed" => k.id \in released[p]
Acks == \A p \in Procs : \A k \in Range(toHub[p]) : AckGood(p, k)
IsReleased(i) == \E p \in Procs : i \in released[p]

OpGood(i) ==
  /\ ops[i].stage = "ask" /\ "removed" \in ops[i].got => IsReleased(i)
  /\ IF ops[i].stage = "done" THEN ops[i].need = {} ELSE ops[i].ans = "none"
  /\ row[ops[i].m] # "none"
  /\ ops[i].ans = "cancelled" =>
       row[ops[i].m] = "deleted" \/ (row[ops[i].m] = "invoked" /\ IsReleased(i))
Requests == \A i \in DOMAIN ops : OpGood(i)

Parts == Unseen /\ Once /\ Offers /\ Releases /\ Acks /\ Requests
OnceInv == DeliveryInv /\ Parts

---------------------------------------------------------------------------
(* What a step may do to each part.                                        *)

\* Rows are not taken back from the table's final states.
Forward(r, s) ==
  \A m \in Messages : /\ r[m] # "none" => s[m] # "none"
                      /\ r[m] \in {"invoked", "deleted"} => s[m] = r[m]

\* A request keeps what it asks, and a finished one stays as it is.
OpsForward ==
  \A i \in DOMAIN ops :
    /\ i \in DOMAIN ops' /\ ops'[i].kind = ops[i].kind /\ ops'[i].m = ops[i].m
    /\ ops[i].stage # "ask" => ops'[i].stage # "ask"

\* No process delivers more, but what is new to it.
Calm ==
  \A p \in Procs, m \in Messages :
    /\ m \in seen[p] => m \in seen'[p]
    /\ \/ Deliveries(p, m)' <= Deliveries(p, m)
       \/ m \notin seen[p] /\ m \in seen'[p] /\ Deliveries(p, m)' <= 1

\* A downward link loses packets or gains one that is no offer.
Plain(s, t) ==
  \/ t = s \/ t = <<>> \/ (s # <<>> /\ t = Tail(s))
  \/ \E k \in DownPacket : k.t # "retry" /\ t = Append(s, k)
PlainLinks == \A p \in Procs : Plain(toCli[p], toCli'[p])

ReleasesGrow == \A p \in Procs : released[p] \subseteq released'[p]

---------------------------------------------------------------------------
(* The parts are preserved.                                                *)

\* A request is a request, and about a message.
LEMMA OpFields ==
  ASSUME TypeOK
  PROVE  /\ DOMAIN ops = 1 .. Len(ops) /\ Len(ops) \in Nat /\ ops \in Seq(Op)
         /\ \A i \in DOMAIN ops : ops[i] \in Op /\ ops[i].m \in Messages
                                  /\ ops[i].need \in SUBSET Procs
<1>1. ops \in Seq(Op)
  BY DEF TypeOK, HubTypeOK
<1>2. DOMAIN ops = 1 .. Len(ops) /\ Len(ops) \in Nat
  BY <1>1
<1>3. \A i \in DOMAIN ops : ops[i] \in Op
  BY <1>1
<1>4. \A x \in Op : x.m \in Messages /\ x.need \in SUBSET Procs
  BY DEF Op
<1> QED
  BY <1>1, <1>2, <1>3, <1>4

\* Requests are finitely many.
LEMMA SpentFinite ==
  ASSUME NEW p \in Procs, NEW m \in Messages
  PROVE  /\ TypeOK => /\ IsFiniteSet(Offered(m) \ Waiting(p))
                      /\ Cardinality(Offered(m) \ Waiting(p)) \in Nat
         /\ TypeOK' => /\ IsFiniteSet((Offered(m) \ Waiting(p))')
                       /\ Cardinality((Offered(m) \ Waiting(p))') \in Nat
<1>1. ASSUME NEW n \in Nat, NEW S, S \subseteq 1 .. n
      PROVE  IsFiniteSet(S) /\ Cardinality(S) \in Nat
  <2>1. IsFiniteSet(1 .. n)
    BY FS_Interval
  <2>2. IsFiniteSet(S)
    BY <1>1, <2>1, FS_Subset
  <2> QED
    BY <2>2, FS_CardinalityType
<1>2. ASSUME TypeOK
      PROVE  Len(ops) \in Nat /\ Offered(m) \ Waiting(p) \subseteq 1 .. Len(ops)
  BY <1>2, OpFields DEF Offered, Retries
<1>3. ASSUME TypeOK'
      PROVE  Len(ops') \in Nat /\ (Offered(m) \ Waiting(p))' \subseteq 1 .. Len(ops')
  <2>1. ops' \in Seq(Op)
    BY <1>3 DEF TypeOK, HubTypeOK
  <2> QED
    BY <2>1 DEF Offered, Retries
<1> QED
  BY <1>1, <1>2, <1>3

\* A delivery count is a number.
LEMMA DeliveriesNat ==
  ASSUME NEW p \in Procs, NEW m \in Messages
  PROVE  /\ TypeOK => /\ Deliveries(p, m) \in Nat /\ taken[p][m] \in Nat
                      /\ taken[p][m] <= Deliveries(p, m)
         /\ TypeOK' => Deliveries(p, m)' \in Nat
<1>1. TypeOK => taken[p][m] \in Nat
  BY DEF TypeOK, HistoryTypeOK
<1>2. TypeOK' => taken'[p][m] \in Nat
  BY DEF TypeOK, HistoryTypeOK
<1> QED
  BY <1>1, <1>2 DEF Deliveries

\* Retries are not forgotten and offers stay made.
LEMMA OffersGrow ==
  ASSUME OpsForward, NEW m
  PROVE  Retries(m) \subseteq Retries(m)' /\ Offered(m) \subseteq Offered(m)'
BY DEF OpsForward, Retries, Offered

\* A good offer stays good.
LEMMA OfferStays ==
  ASSUME OpsForward, NEW k, OfferGood(k)
  PROVE  OfferGood(k)'
BY OffersGrow DEF OfferGood, OpsForward

\* On plain links no offer is made.
LEMMA PlainWaiting ==
  ASSUME TypeOK, PlainLinks
  PROVE  \A p \in Procs : Waiting(p)' \subseteq Waiting(p)
<1> SUFFICES ASSUME NEW p \in Procs
             PROVE  Waiting(p)' \subseteq Waiting(p)
  OBVIOUS
<1>1. toCli[p] \in Seq(DownPacket)
  BY DEF TypeOK, NetTypeOK
<1>2. ASSUME NEW y \in DOMAIN toCli'[p], toCli'[p][y].t = "retry"
      PROVE  \E x \in DOMAIN toCli[p] : toCli[p][x] = toCli'[p][y]
  <2>1. CASE toCli'[p] = toCli[p]
    BY <2>1
  <2>2. CASE toCli'[p] = <<>>
    BY <2>2
  <2>3. CASE toCli[p] # <<>> /\ toCli'[p] = Tail(toCli[p])
    BY <1>1, <2>3
  <2>4. ASSUME NEW k \in DownPacket, k.t # "retry", toCli'[p] = Append(toCli[p], k)
        PROVE  \E x \in DOMAIN toCli[p] : toCli[p][x] = toCli'[p][y]
    <3>1. y = Len(toCli[p]) + 1 => toCli'[p][y] = k
      BY <1>1, <2>4
    <3> QED
      BY <1>1, <1>2, <2>4, <3>1
  <2> QED
    BY <2>1, <2>2, <2>3, <2>4 DEF PlainLinks, Plain
<1> QED
  BY <1>2 DEF Waiting

\* A plain link keeps its offers good and single.
LEMMA OffersOnLink ==
  ASSUME OpsForward, NEW s \in Seq(DownPacket), NEW t, Plain(s, t),
         OfferOnce(s), \A x \in DOMAIN s : OfferGood(s[x])
  PROVE  OfferOnce(t) /\ \A x \in DOMAIN t : OfferGood(t[x])'
<1>1. \A x \in DOMAIN s : OfferGood(s[x])'
  BY OfferStays
<1>3. CASE t = s
  BY <1>1, <1>3
<1>4. CASE t = <<>>
  BY <1>4 DEF OfferOnce
<1>5. CASE s # <<>> /\ t = Tail(s)
  <2>1. \A x \in DOMAIN t : x + 1 \in DOMAIN s /\ t[x] = s[x + 1] /\ x \in Nat
    BY <1>5
  <2>2. OfferOnce(t)
    BY <2>1 DEF OfferOnce
  <2> QED
    BY <1>1, <2>1, <2>2
<1>6. ASSUME NEW k \in DownPacket, k.t # "retry", t = Append(s, k)
      PROVE  OfferOnce(t) /\ \A x \in DOMAIN t : OfferGood(t[x])'
  <2>1. \A x \in DOMAIN t : (x \in DOMAIN s /\ t[x] = s[x]) \/ t[x] = k
    BY <1>6
  <2>2. OfferGood(k)'
    BY <1>6 DEF OfferGood
  <2>3. OfferOnce(t)
    BY <1>6, <2>1 DEF OfferOnce
  <2> QED
    BY <1>1, <2>1, <2>2, <2>3
<1> QED
  BY <1>3, <1>4, <1>5, <1>6 DEF Plain

\* The same for all links.
LEMMA OffersKept ==
  ASSUME TypeOK, Offers, OpsForward, PlainLinks
  PROVE  Offers'
<1>1. ASSUME NEW p \in Procs
      PROVE  (OfferOnce(toCli[p]) /\ \A x \in DOMAIN toCli[p] : OfferGood(toCli[p][x]))'
  <2>1. PICK s : s = toCli[p]
    OBVIOUS
  <2>2. PICK t : t = toCli'[p]
    OBVIOUS
  <2>3. s \in Seq(DownPacket) /\ OfferOnce(s) /\ \A x \in DOMAIN s : OfferGood(s[x])
    BY <2>1 DEF TypeOK, NetTypeOK, Offers
  <2>4. Plain(s, t)
    BY <2>1, <2>2 DEF PlainLinks
  <2>5. OfferOnce(t) /\ \A x \in DOMAIN t : OfferGood(t[x])'
    BY <2>3, <2>4, OffersOnLink
  <2> QED
    BY <2>2, <2>5
<1> QED
  BY <1>1 DEF Offers

\* The count holds while nothing but new messages adds to it.
LEMMA OnceKept ==
  ASSUME TypeOK, TypeOK', Unseen, Once, OpsForward, Calm,
         \A p \in Procs, m \in Messages : Offered(m) \ Waiting(p) \subseteq (Offered(m) \ Waiting(p))'
  PROVE  Unseen' /\ Once'
<1>1. Unseen'
  <2> SUFFICES ASSUME NEW p \in Procs, NEW m \in Messages, m \notin seen'[p]
               PROVE  Deliveries(p, m)' = 0
    BY DEF Unseen
  <2>1. Deliveries(p, m) = 0
    BY DEF Unseen, Calm
  <2>2. Deliveries(p, m)' <= Deliveries(p, m)
    BY DEF Calm
  <2>3. Deliveries(p, m)' \in Nat
    BY DeliveriesNat
  <2> QED
    BY <2>1, <2>2, <2>3
<1>2. ASSUME NEW p \in Procs, NEW m \in Messages
      PROVE  (Deliveries(p, m) <= 1 + Cardinality(Offered(m) \ Waiting(p)))'
  <2> DEFINE S == Offered(m) \ Waiting(p)
             T == (Offered(m) \ Waiting(p))'
  <2>1. IsFiniteSet(S) /\ Cardinality(S) \in Nat
    BY SpentFinite
  <2>2. IsFiniteSet(T) /\ Cardinality(T) \in Nat
    BY SpentFinite
  <2>3. S \subseteq T
    OBVIOUS
  <2>4. Cardinality(S) <= Cardinality(T)
    BY <2>2, <2>3, FS_Subset
  <2>5. Deliveries(p, m) \in Nat /\ Deliveries(p, m)' \in Nat
    BY DeliveriesNat
  <2>6. Deliveries(p, m) <= 1 + Cardinality(S)
    BY DEF Once
  <2>7. Deliveries(p, m)' <= Deliveries(p, m) \/ Deliveries(p, m)' <= 1
    BY DEF Calm
  <2> HIDE DEF S, T
  <2>8. Deliveries(p, m)' <= 1 + Cardinality(T)
    BY <2>1, <2>2, <2>4, <2>5, <2>6, <2>7
  <2> QED
    BY <2>8 DEF T
<1> QED
  BY <1>1, <1>2 DEF Once

\* The same on plain links.
LEMMA OnceKeptPlain ==
  ASSUME TypeOK, TypeOK', Unseen, Once, OpsForward, Calm, PlainLinks
  PROVE  Unseen' /\ Once'
<1>1. \A p \in Procs, m \in Messages : Offered(m) \ Waiting(p) \subseteq (Offered(m) \ Waiting(p))'
  BY PlainWaiting, OffersGrow
<1> QED
  BY <1>1, OnceKept

\* What was removed stays away.
LEMMA LetGoKept ==
  ASSUME TypeOK, TypeOK', OpsForward, Calm, NEW p \in Procs, NEW m \in Messages, LetGo(p, m)
  PROVE  LetGo(p, m)'
<1>1. Retries(m) \subseteq Retries(m)'
  BY OffersGrow
<1>2. Deliveries(p, m) \in Nat /\ Deliveries(p, m)' \in Nat
  BY DeliveriesNat
<1> QED
  BY <1>1, <1>2 DEF LetGo, Calm

\* The same for all of it.
LEMMA ReleasesKept ==
  ASSUME TypeOK, TypeOK', OpsForward, Calm, Releases, UNCHANGED released
  PROVE  Releases'
<1> SUFFICES ASSUME NEW p \in Procs, NEW i \in released[p]
             PROVE  \E m \in Messages : i \in DOMAIN ops' /\ ops'[i].m = m /\ LetGo(p, m)'
  BY DEF Releases, LetGo
<1>1. i \in DOMAIN ops /\ LetGo(p, ops[i].m)
  BY DEF Releases
<1>2. i \in DOMAIN ops' /\ ops'[i].m = ops[i].m
  BY <1>1 DEF OpsForward
<1>3. PICK m \in Messages : m = ops[i].m
  BY <1>1, OpFields
<1>4. LetGo(p, m)'
  BY <1>1, <1>3, LetGoKept
<1> QED
  BY <1>2, <1>3, <1>4

\* Answers on their way rest on what was removed.
LEMMA AcksKept ==
  ASSUME Acks, ReleasesGrow,
         \A p \in Procs : \A k \in Range(toHub'[p]) : k \in Range(toHub[p]) \/ AckGood(p, k)'
  PROVE  Acks'
BY DEF Acks, AckGood, ReleasesGrow

\* Requests a step leaves alone.
LEMMA RequestsKept ==
  ASSUME TypeOK, Requests, Forward(row, row'), ReleasesGrow, UNCHANGED ops
  PROVE  Requests'
<1>1. \A i : IsReleased(i) => IsReleased(i)'
  BY DEF IsReleased, ReleasesGrow
<1>2. \A i \in DOMAIN ops : ops[i].m \in Messages
  BY OpFields
<1> QED
  BY <1>1, <1>2 DEF Requests, OpGood, Forward

---------------------------------------------------------------------------
(* Steps that share their argument.                                        *)

\* The store's statements only move a row forward.
LEMMA StoreForward ==
  ASSUME NEW r \in [Messages -> RowState]
  PROVE  /\ Forward(r, r)
         /\ \A ms : Forward(r, MarkMessagesInvoked(r, ms))
         /\ \A ms : \A state \in Uninvoked : Forward(r, SetMessagesDeliveryState(r, ms, state))
         /\ \A m : Forward(r, DeleteQueuedMessageById(r, m))
<1>1. Forward(r, r)
  BY DEF Forward
<1>2. \A ms : Forward(r, MarkMessagesInvoked(r, ms))
  BY DEF Forward, MarkMessagesInvoked, Uninvoked
<1>3. \A ms : \A state \in Uninvoked : Forward(r, SetMessagesDeliveryState(r, ms, state))
  BY DEF Forward, SetMessagesDeliveryState, StateChanges, Uninvoked
<1>4. \A m : Forward(r, DeleteQueuedMessageById(r, m))
  BY DEF Forward, DeleteQueuedMessageById, Uninvoked
<1> QED
  BY <1>1, <1>2, <1>3, <1>4

\* A process whose queue, filter and count stay is calm.
LEMMA StillCalm ==
  ASSUME TypeOK, UNCHANGED <<taken, held, seen>>
  PROVE  Calm
<1>1. \A p \in Procs, m \in Messages : Deliveries(p, m)' = Deliveries(p, m)
  BY DEF Deliveries, Active
<1>2. \A p \in Procs, m \in Messages : Deliveries(p, m) \in Nat
  BY DeliveriesNat
<1> QED
  BY <1>1, <1>2 DEF Calm

\* Nothing is broadcast but packets that are no offers.
LEMMA BroadcastPlain ==
  ASSUME TypeOK, NEW k \in DownPacket, k.t # "retry", toCli' = Broadcast(<<k>>)
  PROVE  PlainLinks
<1> SUFFICES ASSUME NEW p \in Procs
             PROVE  Plain(toCli[p], toCli'[p])
  BY DEF PlainLinks
<1>1. toCli[p] \in Seq(DownPacket)
  BY DEF TypeOK, NetTypeOK
<1>2. toCli'[p] = toCli[p] \/ toCli'[p] = toCli[p] \o <<k>>
  BY DEF Broadcast
<1>3. toCli[p] \o <<k>> = Append(toCli[p], k)
  BY <1>1
<1> QED
  BY <1>2, <1>3 DEF Plain

\* A replay is such a packet, or nothing.
LEMMA BroadcastNewPlain ==
  ASSUME TypeOK, NEW ms \in SUBSET Messages, toCli' = Broadcast(NewMessages(ms))
  PROVE  PlainLinks
<1>1. CASE ms = {}
  <2>1. NewMessages(ms) = <<>>
    BY <1>1, Zenon DEF NewMessages
  <2>2. \A p \in Procs : toCli[p] \in Seq(DownPacket)
    BY DEF TypeOK, NetTypeOK
  <2>3. \A p \in Procs : toCli'[p] = toCli[p]
    BY <2>1, <2>2 DEF Broadcast
  <2> QED
    BY <2>3 DEF PlainLinks, Plain
<1>2. CASE ms # {}
  <2>1. PICK k : k = Pkt("new", ms, 0, "nil")
    OBVIOUS
  <2>2. NewMessages(ms) = <<k>>
    BY <1>2, <2>1, Zenon DEF NewMessages
  <2>3. k \in DownPacket
    BY <2>1, DownPktType
  <2>4. k.t # "retry"
    BY <2>1 DEF Pkt
  <2> QED
    BY <2>2, <2>3, <2>4, BroadcastPlain
<1> QED
  BY <1>1, <1>2

\* Links of one process that are read, lost or answered.
LEMMA LinkPlain ==
  ASSUME TypeOK, NEW p \in Procs,
         \/ UNCHANGED toCli
         \/ toCli' = [toCli EXCEPT ![p] = <<>>]
         \/ toCli[p] # <<>> /\ toCli' = [toCli EXCEPT ![p] = Tail(toCli[p])]
         \/ \E k \in DownPacket : k.t # "retry" /\ toCli' = [toCli EXCEPT ![p] = Append(toCli[p], k)]
  PROVE  PlainLinks
<1>1. \A q \in Procs : q # p => toCli'[q] = toCli[q]
  BY DEF TypeOK, NetTypeOK
<1>2. Plain(toCli[p], toCli'[p])
  BY DEF TypeOK, NetTypeOK, Plain
<1> QED
  BY <1>1, <1>2 DEF PlainLinks, Plain

\* A step of the hub leaves the processes alone.
LEMMA HubStep ==
  ASSUME OnceInv, TypeOK', OpsForward, PlainLinks, UNCHANGED <<taken, held, seen, released>>,
         \A p \in Procs : Range(toHub'[p]) \subseteq Range(toHub[p]), Requests'
  PROVE  Parts'
<1>1. TypeOK
  BY DEF OnceInv, DeliveryInv
<1>2. Calm
  BY <1>1, StillCalm
<1>3. ReleasesGrow
  BY DEF ReleasesGrow
<1>4. Unseen' /\ Once'
  BY <1>1, <1>2, OnceKeptPlain DEF OnceInv, Parts
<1>5. Offers'
  BY <1>1, OffersKept DEF OnceInv, Parts
<1>6. Releases'
  BY <1>1, <1>2, ReleasesKept DEF OnceInv, Parts
<1>7. Acks'
  BY <1>3, AcksKept DEF OnceInv, Parts
<1> QED
  BY <1>4, <1>5, <1>6, <1>7 DEF Parts

\* A step of a process leaves the rows and the requests alone.
LEMMA CliStep ==
  ASSUME OnceInv, TypeOK', UNCHANGED <<row, ops, released>>, Calm, PlainLinks,
         \A p \in Procs : \A k \in Range(toHub'[p]) : k \in Range(toHub[p]) \/ AckGood(p, k)'
  PROVE  Parts'
<1>1. TypeOK
  BY DEF OnceInv, DeliveryInv
<1>2. OpsForward
  BY DEF OpsForward
<1>3. ReleasesGrow
  BY DEF ReleasesGrow
<1>4. Unseen' /\ Once'
  BY <1>1, <1>2, OnceKeptPlain DEF OnceInv, Parts
<1>5. Offers'
  BY <1>1, <1>2, OffersKept DEF OnceInv, Parts
<1>6. Releases'
  BY <1>1, <1>2, ReleasesKept DEF OnceInv, Parts
<1>7. Acks'
  BY <1>3, AcksKept DEF OnceInv, Parts
<1>8. Requests'
  BY <1>1, <1>3, RequestsKept DEF OnceInv, Parts, Forward
<1> QED
  BY <1>4, <1>5, <1>6, <1>7, <1>8 DEF Parts

\* An emitted packet that is no cancel answer.
LEMMA EmitNoAck ==
  ASSUME TypeOK, NEW p \in Procs,
         NEW t \in {"alive", "consumed", "indeterminate", "steerState", "retryAck", "end"},
         NEW ms, NEW id, NEW st, Emit(p, Pkt(t, ms, id, st))
  PROVE  \A q \in Procs : \A k \in Range(toHub'[q]) : k \in Range(toHub[q]) \/ AckGood(q, k)'
<1>1. \A q, k : k.t = t => AckGood(q, k)'
  BY DEF AckGood
<1>2. Pkt(t, ms, id, st).t = t
  BY DEF Pkt
<1> QED
  BY <1>1, <1>2, EmitRange

\* The rows move and the requests stay.
LEMMA RowStep ==
  ASSUME OnceInv, TypeOK', Forward(row, row'), UNCHANGED <<ops, taken, held, seen, released>>,
         PlainLinks, \A p \in Procs : Range(toHub'[p]) \subseteq Range(toHub[p])
  PROVE  Parts'
<1>1. OpsForward /\ ReleasesGrow
  BY DEF OpsForward, ReleasesGrow
<1>2. Requests'
  BY <1>1, RequestsKept DEF OnceInv, DeliveryInv, Parts
<1> QED
  BY <1>1, <1>2, HubStep

---------------------------------------------------------------------------
(* The hub.                                                                *)

\* SendMessage keeps the parts.
LEMMA OnceSendMessage ==
  ASSUME OnceInv, TypeOK', NEW m \in Messages, NEW when \in {"immediate", "future"},
         SendMessage(m, when)
  PROVE  Parts'
<1>1. TypeOK /\ row \in [Messages -> RowState]
  BY DEF OnceInv, DeliveryInv, TypeOK, HubTypeOK
<1>2. Forward(row, row')
  BY <1>1 DEF SendMessage, Forward
<1>3. PlainLinks
  <2>1. CASE UNCHANGED toCli
    BY <2>1 DEF PlainLinks, Plain
  <2>2. CASE toCli' = Broadcast(NewMessages({m}))
    BY <1>1, <2>2, BroadcastNewPlain
  <2> QED
    BY <2>1, <2>2 DEF SendMessage
<1> QED
  BY <1>2, <1>3, RowStep DEF SendMessage, cliVars, history

\* A request is added.
LEMMA RequestAdded ==
  ASSUME TypeOK, Requests, Forward(row, row'), UNCHANGED released, NEW op,
         ops' = Append(ops, op), row'[op.m] # "none", op.got = {},
         IF op.stage = "done" THEN op.need = {} ELSE op.ans = "none",
         op.ans = "cancelled" => row'[op.m] = "deleted"
  PROVE  OpsForward /\ Requests'
<1>0. PICK n : n = Len(ops) + 1
  OBVIOUS
<1>1. /\ DOMAIN ops' = DOMAIN ops \cup {n} /\ ops'[n] = op
      /\ \A i \in DOMAIN ops : ops'[i] = ops[i]
  BY <1>0, OpFields
<1>2. OpsForward
  BY <1>1 DEF OpsForward
<1>3. \A i : IsReleased(i)' <=> IsReleased(i)
  BY DEF IsReleased
<1>4. ASSUME NEW i \in DOMAIN ops
      PROVE  OpGood(i)'
  <2>1. OpGood(i) /\ ops'[i] = ops[i] /\ ops[i].m \in Messages
    BY <1>1, OpFields DEF Requests
  <2> QED
    BY <1>3, <2>1 DEF OpGood, Forward
<1>5. OpGood(n)'
  BY <1>1 DEF OpGood
<1> QED
  BY <1>1, <1>2, <1>4, <1>5 DEF Requests

\* A cancel packet, or none, goes out.
LEMMA AskPlain ==
  ASSUME TypeOK, NEW m \in Messages,
         UNCHANGED toCli \/ toCli' = Broadcast(<<Pkt("cancel", {m}, Len(ops) + 1, "nil")>>)
  PROVE  PlainLinks
<1>1. CASE UNCHANGED toCli
  BY <1>1 DEF PlainLinks, Plain
<1>2. CASE toCli' = Broadcast(<<Pkt("cancel", {m}, Len(ops) + 1, "nil")>>)
  <2>1. PICK k : k = Pkt("cancel", {m}, Len(ops) + 1, "nil")
    OBVIOUS
  <2>2. k \in DownPacket
    BY <2>1, OpFields, DownPktType
  <2>3. k.t # "retry"
    BY <2>1 DEF Pkt
  <2> QED
    BY <1>2, <2>1, <2>2, <2>3, BroadcastPlain
<1> QED
  BY <1>1, <1>2

\* Cancel keeps the parts.
LEMMA OnceCancel ==
  ASSUME OnceInv, TypeOK', NEW m \in Messages, Cancel(m)
  PROVE  Parts'
<1>1. TypeOK /\ row \in [Messages -> RowState] /\ "indeterminate" \in Uninvoked
  BY DEF OnceInv, DeliveryInv, TypeOK, HubTypeOK, Uninvoked
<1> DEFINE op == [kind |-> "cancel", m |-> m, stage |-> "ask", at |-> row[m],
                  need |-> Room, got |-> {}, ans |-> "none"]
<1>2. \A ans : /\ Finish(op, ans).m = m /\ Finish(op, ans).got = {} /\ Finish(op, ans).need = {}
               /\ Finish(op, ans).stage = "done" /\ Finish(op, ans).ans = ans
  BY DEF Finish
<1>3. row[m] \in Uninvoked
  BY DEF Cancel
<1>4. PICK o : /\ ops' = Append(ops, o) /\ o.m = m /\ o.got = {}
               /\ IF o.stage = "done" THEN o.need = {} ELSE o.ans = "none"
               /\ o.ans = "cancelled" => row' = DeleteQueuedMessageById(row, m)
  <2>1. CASE row' = DeleteQueuedMessageById(row, m) /\ ops' = Append(ops, Finish(op, "cancelled"))
    BY <1>2, <2>1
  <2>2. CASE ops' = Append(ops, Finish(op, "busy"))
    BY <1>2, <2>2
  <2>3. CASE ops' = Append(ops, op)
    BY <2>3
  <2> QED
    BY <2>1, <2>2, <2>3 DEF Cancel
<1>5. Forward(row, row')
  BY <1>1, StoreForward DEF Cancel, HoldUnknown
<1>6. row'[m] # "none" /\ (o.ans = "cancelled" => row'[m] = "deleted")
  BY <1>1, <1>3, <1>4, <1>5 DEF Forward, DeleteQueuedMessageById, Uninvoked
<1>7. UNCHANGED <<taken, held, seen, released, toHub>>
  BY DEF Cancel, cliVars, history
<1>8. OpsForward /\ Requests'
  BY <1>1, <1>4, <1>5, <1>6, <1>7, RequestAdded DEF OnceInv, Parts
<1>9. PlainLinks
  BY <1>1, AskPlain DEF Cancel
<1> QED
  BY <1>7, <1>8, <1>9, HubStep

\* Retry keeps the parts.
LEMMA OnceRetry ==
  ASSUME OnceInv, TypeOK', NEW m \in Messages, Retry(m)
  PROVE  Parts'
<1>1. TypeOK /\ row \in [Messages -> RowState]
  BY DEF OnceInv, DeliveryInv, TypeOK, HubTypeOK
<1>2. PICK o : ops' = Append(ops, o) /\ o.m = m /\ o.got = {} /\ o.ans = "none" /\ o.stage = "ask"
  BY DEF Retry
<1>3. Forward(row, row') /\ row'[m] # "none"
  BY DEF Retry, Forward
<1>4. UNCHANGED <<taken, held, seen, released, toHub>>
  BY DEF Retry, cliVars, history
<1>5. OpsForward /\ Requests'
  BY <1>1, <1>2, <1>3, <1>4, RequestAdded DEF OnceInv, Parts
<1>6. PlainLinks
  BY <1>1, AskPlain DEF Retry
<1> QED
  BY <1>4, <1>5, <1>6, HubStep

\* A cancel's answer leaves the row and what it reports in agreement.
LEMMA CancelGood ==
  ASSUME TypeOK, NEW op, op.m \in Messages, NEW res, row[op.m] # "none"
  PROVE  /\ Forward(row, CancelRow(op, res))
         /\ CancelAnswer(op, res) = "cancelled" =>
              \/ CancelRow(op, res)[op.m] = "deleted"
              \/ CancelRow(op, res)[op.m] = "invoked" /\ res = "removed"
<1>1. row \in [Messages -> RowState] /\ "indeterminate" \in Uninvoked
  BY DEF TypeOK, HubTypeOK, Uninvoked
<1>2. Forward(row, CancelRow(op, res))
  BY <1>1, StoreForward DEF CancelRow, HoldUnknown
<1>3. CancelRow(op, res) \in [Messages -> RowState]
  BY <1>1, StoreType DEF CancelRow, HoldUnknown
<1>4. CancelRow(op, res)[op.m] \in RowState \ {"none"}
  BY <1>2, <1>3 DEF Forward
<1>5. CASE op.at = "queued" /\ res = "removed"
  <2>1. CancelRow(op, res) = DeleteQueuedMessageById(row, op.m)
    BY <1>5 DEF CancelRow
  <2> QED
    BY <1>1, <1>2, <1>5, <2>1 DEF DeleteQueuedMessageById, RowState
<1>6. CASE ~(op.at = "queued" /\ res = "removed")
  <2>1. CancelAnswer(op, res) = "cancelled" => Settled(CancelRow(op, res)[op.m]) = "cancelled"
    BY <1>6 DEF CancelAnswer
  <2> QED
    BY <1>2, <1>4, <2>1 DEF Settled, RowState
<1> QED
  BY <1>2, <1>5, <1>6

\* A request that is not finished moves on.
LEMMA RequestReplaced ==
  ASSUME TypeOK, Requests, Forward(row, row'), UNCHANGED released,
         NEW i \in DOMAIN ops, NEW op, ops' = [ops EXCEPT ![i] = op],
         op.kind = ops[i].kind, op.m = ops[i].m, ops[i].stage # "ask" => op.stage # "ask",
         op.stage = "ask" /\ "removed" \in op.got => IsReleased(i),
         IF op.stage = "done" THEN op.need = {} ELSE op.ans = "none",
         op.ans = "cancelled" =>
           row'[op.m] = "deleted" \/ (row'[op.m] = "invoked" /\ IsReleased(i))
  PROVE  OpsForward /\ Requests'
<1>1. /\ DOMAIN ops' = DOMAIN ops /\ ops'[i] = op
      /\ \A j \in DOMAIN ops : j # i => ops'[j] = ops[j]
  BY OpFields
<1>2. OpsForward
  BY <1>1 DEF OpsForward
<1>3. \A j : IsReleased(j)' <=> IsReleased(j)
  BY DEF IsReleased
<1>4. ASSUME NEW j \in DOMAIN ops, j # i
      PROVE  OpGood(j)'
  <2>1. OpGood(j) /\ ops'[j] = ops[j] /\ ops[j].m \in Messages
    BY <1>1, <1>4, OpFields DEF Requests
  <2> QED
    BY <1>3, <2>1 DEF OpGood, Forward
<1>5. OpGood(i)'
  <2>1. row[ops[i].m] # "none" /\ ops[i].m \in Messages
    BY OpFields DEF Requests, OpGood
  <2> QED
    BY <1>1, <1>3, <2>1 DEF OpGood, Forward
<1> QED
  BY <1>1, <1>2, <1>4, <1>5 DEF Requests

\* The offer of a claimed retry goes out.
LEMMA OfferMade ==
  ASSUME OnceInv, TypeOK', OpsForward, Requests',
         UNCHANGED <<taken, held, seen, released>>,
         \A p \in Procs : Range(toHub'[p]) \subseteq Range(toHub[p]),
         NEW i \in DOMAIN ops, ops[i].stage = "ask", ops[i].kind = "retry",
         ops'[i].stage # "ask", NEW m \in Messages, m = ops[i].m,
         toCli' = Broadcast(<<Pkt("retry", {m}, i, "nil")>>)
  PROVE  Parts'
<1>1. TypeOK
  BY DEF OnceInv, DeliveryInv
<1>2. Calm /\ ReleasesGrow
  BY <1>1, StillCalm DEF ReleasesGrow
<1>3. PICK k : k = Pkt("retry", {m}, i, "nil")
  OBVIOUS
<1>4. k.t = "retry" /\ k.id = i /\ k.ms = {m}
  BY <1>3 DEF Pkt
<1>5. OfferGood(k)'
  <2>1. i \in DOMAIN ops' /\ ops'[i].kind = "retry" /\ ops'[i].m = m
    BY DEF OpsForward
  <2> QED
    BY <1>4, <2>1 DEF OfferGood, Offered, Retries
<1>6. ASSUME NEW p \in Procs
      PROVE  /\ (OfferOnce(toCli[p]) /\ \A x \in DOMAIN toCli[p] : OfferGood(toCli[p][x]))'
             /\ Waiting(p)' \subseteq Waiting(p) \cup {i}
  <2>1. PICK s : s = toCli[p]
    OBVIOUS
  <2>2. PICK t : t = toCli'[p]
    OBVIOUS
  <2>3. s \in Seq(DownPacket) /\ OfferOnce(s) /\ \A x \in DOMAIN s : OfferGood(s[x])
    BY <1>1, <2>1 DEF TypeOK, NetTypeOK, OnceInv, Parts, Offers
  <2>4. t = s \/ t = s \o <<k>>
    BY <1>3, <2>1, <2>2 DEF Broadcast
  <2>5. \A x \in DOMAIN s : OfferGood(s[x])'
    BY <2>3, OfferStays
  <2>6. \A x \in DOMAIN s : s[x].t = "retry" => s[x].id # i
    BY <2>3 DEF OfferGood, Offered
  <2>7. \A x \in DOMAIN t : (x \in DOMAIN s /\ t[x] = s[x]) \/ (x = Len(s) + 1 /\ t[x] = k)
    BY <2>3, <2>4
  <2>8. OfferOnce(t)
    BY <1>4, <2>3, <2>6, <2>7 DEF OfferOnce
  <2>9. \A x \in DOMAIN t : OfferGood(t[x])'
    BY <1>5, <2>5, <2>7
  <2>10. Waiting(p)' \subseteq Waiting(p) \cup {i}
    BY <1>4, <2>1, <2>2, <2>7 DEF Waiting
  <2> QED
    BY <2>2, <2>8, <2>9, <2>10
<1>7. Offers'
  BY <1>6 DEF Offers
<1>8. ASSUME NEW p \in Procs, NEW n \in Messages
      PROVE  Offered(n) \ Waiting(p) \subseteq (Offered(n) \ Waiting(p))'
  <2>1. i \notin Offered(n)
    BY DEF Offered
  <2>2. Offered(n) \subseteq Offered(n)'
    BY OffersGrow
  <2> QED
    BY <1>6, <2>1, <2>2
<1>9. Unseen' /\ Once'
  BY <1>1, <1>2, <1>8, OnceKept DEF OnceInv, Parts
<1>10. Releases'
  BY <1>1, <1>2, ReleasesKept DEF OnceInv, Parts
<1>11. Acks'
  BY <1>2, AcksKept DEF OnceInv, Parts
<1> QED
  BY <1>7, <1>9, <1>10, <1>11 DEF Parts

\* A request that gets its answer keeps the parts.
LEMMA OnceResolve ==
  ASSUME OnceInv, TypeOK', NEW i \in DOMAIN ops, ops[i].stage # "done", NEW got,
         NEW complete, ops[i].stage = "ask" /\ "removed" \in got => IsReleased(i),
         Resolve(i, got, complete), UNCHANGED <<taken, held, seen, released>>,
         \A p \in Procs : Range(toHub'[p]) \subseteq Range(toHub[p])
  PROVE  Parts'
<1>1. /\ TypeOK /\ Requests /\ row \in [Messages -> RowState]
      /\ {"queued", "indeterminate"} \subseteq Uninvoked
  BY DEF OnceInv, DeliveryInv, Parts, TypeOK, HubTypeOK, Uninvoked
<1>2. PICK op : op = ops[i]
  OBVIOUS
<1>3. op \in Op /\ op.m \in Messages /\ row[op.m] # "none"
  BY <1>1, <1>2, OpFields DEF Requests, OpGood
<1>4. \A ans : /\ Finish(op, ans).m = op.m /\ Finish(op, ans).kind = op.kind
               /\ Finish(op, ans).stage = "done" /\ Finish(op, ans).need = {}
               /\ Finish(op, ans).got = {} /\ Finish(op, ans).ans = ans
  BY <1>3 DEF Finish, Op
<1>5. ASSUME NEW ans, ops' = [ops EXCEPT ![i] = Finish(op, ans)], UNCHANGED toCli,
             Forward(row, row'),
             ans = "cancelled" =>
               row'[op.m] = "deleted" \/ (row'[op.m] = "invoked" /\ IsReleased(i))
      PROVE  Parts'
  <2>1. PICK o : o = Finish(op, ans)
    OBVIOUS
  <2>2. /\ o.kind = ops[i].kind /\ o.m = ops[i].m /\ o.m = op.m /\ o.stage = "done"
        /\ o.need = {} /\ o.ans = ans
    BY <1>2, <1>4, <2>1
  <2>3. OpsForward /\ Requests'
    <3>1. ops' = [ops EXCEPT ![i] = o]
      BY <1>5, <2>1
    <3>2. /\ IF o.stage = "done" THEN o.need = {} ELSE o.ans = "none"
          /\ o.ans = "cancelled" =>
               row'[o.m] = "deleted" \/ (row'[o.m] = "invoked" /\ IsReleased(i))
          /\ o.stage # "ask"
      BY <1>5, <2>2
    <3>3. UNCHANGED released
      OBVIOUS
    <3> QED
      BY <1>1, <1>5, <2>2, <3>1, <3>2, <3>3, RequestReplaced, Zenon
  <2>4. PlainLinks
    BY <1>5 DEF PlainLinks, Plain
  <2> QED
    BY <2>3, <2>4, HubStep
<1>6. CASE ops[i].stage = "ask"
  <2> DEFINE res == CancelResult(got, complete)
  <2>1. res = "removed" => "removed" \in got
    BY DEF CancelResult
  <2>2. CASE /\ row' = CancelRow(op, res)
             /\ ops' = [ops EXCEPT ![i] = Finish(op, CancelAnswer(op, res))]
             /\ UNCHANGED toCli
    <3>1. /\ Forward(row, CancelRow(op, res))
          /\ CancelAnswer(op, res) = "cancelled" =>
               \/ CancelRow(op, res)[op.m] = "deleted"
               \/ CancelRow(op, res)[op.m] = "invoked" /\ res = "removed"
      BY <1>1, <1>3, CancelGood
    <3> QED
      BY <1>5, <1>6, <2>1, <2>2, <3>1
  <2>3. CASE /\ op.kind = "retry"
             /\ row' = ClaimIndeterminateMessage(HoldUnknown(op.m), op.m)
             /\ toCli' = Broadcast(<<Pkt("retry", {op.m}, i, "nil")>>)
             /\ ops' = [ops EXCEPT ![i] = [op EXCEPT !.stage = "offer", !.need = Room, !.got = {}]]
    <3>1. Forward(row, row')
      <4>1. PICK r : r = HoldUnknown(op.m)
        OBVIOUS
      <4>2. r \in [Messages -> RowState] /\ Forward(row, r)
        BY <1>1, <1>3, <4>1, StoreForward, StoreType DEF HoldUnknown
      <4>3. Forward(r, ClaimIndeterminateMessage(r, op.m))
        BY <4>2 DEF Forward, ClaimIndeterminateMessage
      <4> QED
        BY <2>3, <4>1, <4>2, <4>3 DEF Forward
    <3>2. PICK o : o = [op EXCEPT !.stage = "offer", !.need = Room, !.got = {}]
      OBVIOUS
    <3>3. o.kind = op.kind /\ o.m = op.m /\ o.stage = "offer" /\ o.ans = op.ans
      BY <1>3, <3>2 DEF Op
    <3>4. op.ans = "none"
      BY <1>1, <1>2 DEF Requests, OpGood
    <3>41. ops' = [ops EXCEPT ![i] = o]
      BY <2>3, <3>2
    <3>42. /\ o.kind = ops[i].kind /\ o.m = ops[i].m /\ o.stage # "ask" /\ o.stage # "done"
           /\ o.ans = "none"
      BY <1>2, <3>3, <3>4
    <3>5. OpsForward /\ Requests'
      <4>1. o.ans # "cancelled" /\ UNCHANGED released
        BY <3>42
      <4> QED
        BY <1>1, <3>1, <3>41, <3>42, <4>1, RequestReplaced, Zenon
    <3>6. ops'[i].stage # "ask"
      BY <1>1, <2>3, <3>2, <3>3, OpFields
    <3> QED
      BY <1>2, <1>3, <1>6, <2>3, <3>5, <3>6, OfferMade
  <2>4. CASE /\ row' = IF res = "consumed" THEN MarkMessagesInvoked(row, {op.m}) ELSE row
             /\ ops' = [ops EXCEPT ![i] = Finish(op, "unavailable")]
             /\ UNCHANGED toCli
    <3>1. Forward(row, row')
      BY <1>1, <1>3, <2>4, StoreForward
    <3> QED
      BY <1>5, <2>4, <3>1
  <2> QED
    BY <1>2, <1>6, <2>2, <2>3, <2>4 DEF Resolve, ResolveAsk
<1>7. CASE ops[i].stage # "ask"
  <2> DEFINE state == IF "accepted" \in got THEN "queued" ELSE "indeterminate"
             ans == IF state = "queued" /\ StateChanges(row, {op.m}, state) # {}
                    THEN "retried" ELSE "unavailable"
  <2>1. /\ row' = SetMessagesDeliveryState(row, {op.m}, state)
        /\ ops' = [ops EXCEPT ![i] = Finish(op, ans)]
        /\ UNCHANGED toCli
    BY <1>2, <1>7, Zenon DEF Resolve, ResolveOffer
  <2>2. Forward(row, row')
    BY <1>1, <1>3, <2>1, StoreForward
  <2>3. ans # "cancelled"
    OBVIOUS
  <2> HIDE DEF ans, state
  <2> QED
    BY <1>5, <2>1, <2>2, <2>3
<1> QED
  BY <1>6, <1>7

\* OpTimeout keeps the parts.
LEMMA OnceOpTimeout ==
  ASSUME OnceInv, TypeOK', NEW i \in DOMAIN ops, OpTimeout(i)
  PROVE  Parts'
<1>1. ops[i].stage = "ask" /\ "removed" \in ops[i].got => IsReleased(i)
  BY DEF OnceInv, Parts, Requests, OpGood
<1>2. UNCHANGED <<taken, held, seen, released, toHub>>
  BY DEF OpTimeout, cliVars, history
<1> QED
  BY <1>1, <1>2, OnceResolve DEF OpTimeout

\* An acknowledgement keeps the parts.
LEMMA OnceHandleAck ==
  ASSUME OnceInv, TypeOK', NEW p \in Procs, NEW pkt \in UpPacket, AckGood(p, pkt),
         pkt.t \in {"cancelAck", "retryAck"}, HandleAck(p, pkt),
         UNCHANGED <<taken, held, seen, released>>,
         \A q \in Procs : Range(toHub'[q]) \subseteq Range(toHub[q])
  PROVE  Parts'
<1> DEFINE i == pkt.id
           op == [ops[i] EXCEPT !.need = @ \ {p}, !.got = @ \cup {pkt.st}]
           live == /\ i \in DOMAIN ops /\ p \in ops[i].need
                   /\ pkt.t = IF ops[i].stage = "ask" THEN "cancelAck" ELSE "retryAck"
<1>1. TypeOK /\ Requests
  BY DEF OnceInv, DeliveryInv, Parts
<1>2. CASE UNCHANGED <<row, ops, toCli>>
  <2>1. PlainLinks
    BY <1>2 DEF PlainLinks, Plain
  <2> QED
    BY <1>2, <2>1, RowStep DEF Forward
<1>3. ASSUME live
      PROVE  /\ op.m = ops[i].m /\ op.kind = ops[i].kind /\ op.stage = ops[i].stage
             /\ op.ans = ops[i].ans /\ ops[i].stage # "done" /\ op.ans = "none"
             /\ op.got = ops[i].got \cup {pkt.st}
             /\ ops[i].stage = "ask" /\ "removed" \in op.got => IsReleased(i)
  <2>1. ops[i] \in Op /\ OpGood(i)
    BY <1>1, <1>3, OpFields DEF Requests
  <2>2. /\ op.m = ops[i].m /\ op.got = ops[i].got \cup {pkt.st} /\ op.kind = ops[i].kind
        /\ op.stage = ops[i].stage /\ op.ans = ops[i].ans
    BY <2>1 DEF Op
  <2>3. ops[i].stage # "done" /\ ops[i].ans = "none"
    BY <1>3, <2>1 DEF OpGood
  <2>4. ASSUME ops[i].stage = "ask", "removed" \in op.got
        PROVE  IsReleased(i)
    <3>1. CASE "removed" \in ops[i].got
      BY <2>1, <2>4, <3>1 DEF OpGood
    <3>2. CASE pkt.st = "removed"
      BY <1>3, <2>4, <3>2 DEF AckGood, IsReleased
    <3> QED
      BY <2>2, <2>4, <3>1, <3>2
  <2> QED
    BY <2>2, <2>3, <2>4
<1> HIDE DEF op
<1>4. CASE live /\ Resolve(i, op.got, TRUE)
  BY <1>3, <1>4, OnceResolve
<1>5. CASE live /\ ops' = [ops EXCEPT ![i] = op] /\ UNCHANGED <<row, toCli>>
  <2>1. OpsForward /\ Requests'
    <3>1. Forward(row, row') /\ UNCHANGED released
      BY <1>5 DEF Forward
    <3>2. /\ op.kind = ops[i].kind /\ op.m = ops[i].m
          /\ ops[i].stage # "ask" => op.stage # "ask"
          /\ op.stage = "ask" /\ "removed" \in op.got => IsReleased(i)
          /\ IF op.stage = "done" THEN op.need = {} ELSE op.ans = "none"
          /\ op.ans = "cancelled" =>
               row'[op.m] = "deleted" \/ (row'[op.m] = "invoked" /\ IsReleased(i))
      BY <1>3, <1>5
    <3> QED
      BY <1>1, <1>5, <3>1, <3>2, RequestReplaced, Zenon
  <2>2. PlainLinks
    BY <1>5 DEF PlainLinks, Plain
  <2> QED
    BY <2>1, <2>2, HubStep
<1> QED
  BY <1>2, <1>4, <1>5 DEF HandleAck, op

\* HubReceive keeps the parts.
LEMMA OnceHubReceive ==
  ASSUME OnceInv, TypeOK', NEW p \in Procs, HubReceive(p)
  PROVE  Parts'
<1>1. PICK pkt : pkt = Head(toHub[p])
  OBVIOUS
<1>2. PICK queued : queued = ImmediateQueued(row, timing)
  OBVIOUS
<1>3. /\ TypeOK /\ row \in [Messages -> RowState] /\ "indeterminate" \in Uninvoked
      /\ toHub[p] \in Seq(UpPacket) /\ toHub[p] # <<>>
  BY DEF OnceInv, DeliveryInv, TypeOK, HubTypeOK, NetTypeOK, HubReceive, Uninvoked
<1>4. /\ pkt \in UpPacket /\ AckGood(p, pkt)
      /\ \A q \in Procs : Range(toHub'[q]) \subseteq Range(toHub[q])
  <2>1. pkt \in UpPacket /\ pkt \in Range(toHub[p])
    BY <1>1, <1>3 DEF Range
  <2>2. Range(Tail(toHub[p])) \subseteq Range(toHub[p])
    BY <1>3 DEF Range
  <2>3. toHub' = [toHub EXCEPT ![p] = Tail(@)]
    BY DEF HubReceive
  <2>4. \A q \in Procs : Range(toHub'[q]) \subseteq Range(toHub[q])
    BY <1>3, <2>2, <2>3 DEF TypeOK, NetTypeOK
  <2> QED
    BY <2>1, <2>4 DEF OnceInv, Parts, Acks
<1>5. UNCHANGED <<taken, held, seen, released>>
  BY DEF HubReceive, cliVars
<1>6. ASSUME Forward(row, row'), UNCHANGED ops, PlainLinks
      PROVE  Parts'
  BY <1>4, <1>5, <1>6, RowStep
<1>7. UNCHANGED toCli => PlainLinks
  BY DEF PlainLinks, Plain
<1>8. CASE toCli' = Broadcast(NewMessages(queued)) /\ UNCHANGED <<row, ops>>
  <2>1. queued \in SUBSET Messages
    BY <1>2 DEF ImmediateQueued
  <2> QED
    BY <1>3, <1>6, <1>8, <2>1, BroadcastNewPlain DEF Forward
<1>9. CASE row' = MarkMessagesInvoked(row, pkt.ms) /\ UNCHANGED <<ops, toCli>>
  BY <1>3, <1>6, <1>7, <1>9, StoreForward
<1>10. CASE row' = SetMessagesDeliveryState(row, pkt.ms, "indeterminate") /\ UNCHANGED <<ops, toCli>>
  BY <1>3, <1>6, <1>7, <1>10, StoreForward
<1>11. CASE pkt.t = "steerState" /\ HandleSteerState(p, pkt)
  <2>1. pkt.st \in SteerState /\ pkt.st \in Uninvoked
    BY <1>4, <1>11 DEF UpPacket, Packet, SteerState, Uninvoked
  <2>2. UNCHANGED ops /\ row' = SetMessagesDeliveryState(row, pkt.ms, pkt.st)
    BY <1>11 DEF HandleSteerState
  <2>3. Forward(row, row')
    BY <1>3, <2>1, <2>2, StoreForward
  <2>4. PICK k : k = Pkt(IF StateChanges(row, pkt.ms, pkt.st) # {} THEN "steerOk" ELSE "steerNo",
                         pkt.ms, pkt.id, pkt.st)
    OBVIOUS
  <2>5. k \in DownPacket /\ k.t # "retry"
    <3>1. pkt.ms \in SUBSET Messages /\ pkt.id \in Nat
      BY <1>4 DEF UpPacket, Packet
    <3> QED
      BY <2>1, <2>4, <3>1 DEF Pkt, DownPacket, Packet
  <2>6. UNCHANGED toCli \/ toCli' = [toCli EXCEPT ![p] = Append(toCli[p], k)]
    BY <1>11, <2>4 DEF HandleSteerState
  <2>7. PlainLinks
    BY <1>3, <2>5, <2>6, LinkPlain
  <2> QED
    BY <1>6, <2>2, <2>3, <2>7
<1>12. CASE pkt.t \in {"cancelAck", "retryAck"} /\ HandleAck(p, pkt)
  BY <1>4, <1>5, <1>12, OnceHandleAck
<1>13. CASE row' = MarkMessagesInvoked(row, queued) /\ UNCHANGED <<ops, toCli>>
  BY <1>3, <1>6, <1>7, <1>13, StoreForward
<1> QED
  BY <1>1, <1>2, <1>8, <1>9, <1>10, <1>11, <1>12, <1>13 DEF HubReceive

\* The broadcasts of stored rows keep the parts.
LEMMA OnceReplay ==
  ASSUME OnceInv, TypeOK', NEW ms \in SUBSET Messages, toCli' = Broadcast(NewMessages(ms)),
         UNCHANGED <<row, ops, toHub, taken, held, seen, released>>
  PROVE  Parts'
<1>1. PlainLinks
  BY BroadcastNewPlain DEF OnceInv, DeliveryInv
<1> QED
  BY <1>1, RowStep DEF Forward

---------------------------------------------------------------------------
(* The CLI process.                                                        *)

\* One message moves in a queue, where it already is or on its way out.
LEMMA HeldCalm ==
  ASSUME TypeOK, NEW p \in Procs, NEW m \in Messages, NEW h,
         held' = [held EXCEPT ![p][m] = h], UNCHANGED <<taken, seen>>,
         h = "none" \/ Active(p, m)
  PROVE  Calm
<1>1. held \in [Procs -> [Messages -> Held]]
  BY DEF TypeOK, CliTypeOK
<1>2. /\ held'[p][m] = h
      /\ \A q \in Procs, x \in Messages : q # p \/ x # m => held'[q][x] = held[q][x]
  BY <1>1
<1>3. ASSUME NEW q \in Procs, NEW x \in Messages
      PROVE  Deliveries(q, x)' <= Deliveries(q, x)
  <2>1. taken[q][x] \in Nat
    BY DeliveriesNat
  <2> QED
    BY <1>2, <2>1 DEF Deliveries, Active
<1> QED
  BY <1>3 DEF Calm

\* The filter only lets new messages in.
LEMMA AcceptCalm ==
  ASSUME TypeOK, Unseen, NEW p \in Procs, NEW ms, Accept(p, ms), UNCHANGED taken
  PROVE  Calm
<1>1. held \in [Procs -> [Messages -> Held]] /\ seen \in [Procs -> SUBSET Messages]
  BY DEF TypeOK, CliTypeOK
<1>2. /\ seen' = [seen EXCEPT ![p] = @ \cup ms]
      /\ held' = [held EXCEPT ![p] =
                    [m \in Messages |-> IF m \in ms \ seen[p] THEN "pending" ELSE @[m]]]
  BY DEF Accept
<1>3. \A q \in Procs : seen[q] \subseteq seen'[q]
  BY <1>1, <1>2
<1>4. ASSUME NEW q \in Procs, NEW x \in Messages, ~(q = p /\ x \in ms \ seen[p])
      PROVE  Deliveries(q, x)' <= Deliveries(q, x)
  <2>1. held'[q][x] = held[q][x]
    BY <1>1, <1>2, <1>4
  <2>2. Deliveries(q, x) \in Nat
    BY DeliveriesNat
  <2> QED
    BY <2>1, <2>2 DEF Deliveries, Active
<1>5. ASSUME NEW x \in Messages, x \in ms \ seen[p]
      PROVE  x \in seen'[p] /\ Deliveries(p, x)' <= 1
  <2>1. x \in seen'[p]
    BY <1>1, <1>2, <1>5
  <2>2. taken[p][x] \in Nat /\ taken[p][x] <= 0
    BY <1>5, DeliveriesNat DEF Unseen
  <2> QED
    BY <2>1, <2>2 DEF Deliveries
<1> QED
  BY <1>3, <1>4, <1>5 DEF Calm

\* A cancel is answered 'removed' only for what was never delivered.
LEMMA OnceHandleCancel ==
  ASSUME OnceInv, TypeOK', NEW p \in Procs, NEW pkt, DownGood(pkt), pkt.t = "cancel",
         NEW m \in Messages, m \in pkt.ms, HandleCancel(p, pkt, m), PlainLinks,
         UNCHANGED <<row, ops, taken>>
  PROVE  Parts'
<1>1. TypeOK /\ Unseen /\ Once /\ Offers /\ Releases /\ Acks /\ Requests
  BY DEF OnceInv, DeliveryInv, Parts
<1>2. pkt.id \in DOMAIN ops /\ ops[pkt.id].m = m
  BY DEF DownGood
<1>3. PICK res : res = CancelByLocalId(held[p][m])
  OBVIOUS
<1>4. /\ held' = IF res = "removed" THEN [held EXCEPT ![p][m] = "none"] ELSE held
      /\ Emit(p, Pkt("cancelAck", {m}, pkt.id, res))
      /\ released' = [released EXCEPT ![p] = IF res = "removed" THEN @ \cup {pkt.id} ELSE @]
      /\ UNCHANGED seen
  BY <1>3, Zenon DEF HandleCancel
<1>5. Calm
  <2>1. CASE res = "removed"
    BY <1>1, <1>4, <2>1, HeldCalm
  <2>2. CASE res # "removed"
    BY <1>1, <1>4, <2>2, StillCalm
  <2> QED
    BY <2>1, <2>2
<1>6. OpsForward /\ released \in [Procs -> SUBSET Nat]
  BY <1>1 DEF OpsForward, TypeOK, HistoryTypeOK
<1>7. /\ ReleasesGrow
      /\ \A q \in Procs : \A i : i \in released'[q] =>
            i \in released[q] \/ (q = p /\ i = pkt.id /\ res = "removed")
      /\ res = "removed" => pkt.id \in released'[p]
  BY <1>4, <1>6 DEF ReleasesGrow
<1>8. Unseen' /\ Once'
  BY <1>1, <1>5, <1>6, OnceKeptPlain
<1>9. Offers'
  BY <1>1, <1>6, OffersKept
<1>10. ASSUME res = "removed"
       PROVE  LetGo(p, m)'
  <2>1. Active(p, m) /\ held'[p][m] = "none"
    <3>1. held[p][m] \in {"pending", "indeterminate"}
      BY <1>3, <1>10 DEF CancelByLocalId
    <3>2. held \in [Procs -> [Messages -> Held]]
      BY <1>1 DEF TypeOK, CliTypeOK
    <3> QED
      BY <1>4, <1>10, <3>1, <3>2 DEF Active
  <2>2. taken[p][m] \in Nat /\ Deliveries(p, m) = taken[p][m] + 1 /\ Deliveries(p, m)' = taken[p][m]
    BY <1>1, <2>1, DeliveriesNat DEF Deliveries, Active
  <2>3. m \in seen[p]
    BY <1>1, <2>2 DEF Unseen
  <2>4. ASSUME Retries(m) = {}
        PROVE  taken[p][m] = 0
    <3>1. Offered(m) \ Waiting(p) = {}
      BY <2>4 DEF Offered
    <3>2. Deliveries(p, m) <= 1 + Cardinality({})
      BY <1>1, <3>1 DEF Once
    <3> QED
      BY <2>2, <3>2, FS_EmptySet
  <2>5. Retries(m)' = Retries(m) /\ m \in seen'[p]
    BY <1>4, <2>3 DEF Retries
  <2> QED
    BY <2>2, <2>4, <2>5 DEF LetGo
<1>11. Releases'
  <2> SUFFICES ASSUME NEW q \in Procs, NEW i \in released'[q]
               PROVE  \E x \in Messages : i \in DOMAIN ops /\ ops[i].m = x /\ LetGo(q, x)'
    BY DEF Releases, LetGo
  <2>1. CASE i \in released[q]
    <3>1. i \in DOMAIN ops /\ LetGo(q, ops[i].m)
      BY <1>1, <2>1 DEF Releases
    <3>2. PICK x \in Messages : x = ops[i].m
      BY <1>1, <3>1, OpFields
    <3>3. LetGo(q, x)'
      BY <1>1, <1>5, <1>6, <3>1, <3>2, LetGoKept
    <3> QED
      BY <3>1, <3>2, <3>3
  <2>2. CASE q = p /\ i = pkt.id /\ res = "removed"
    BY <1>2, <1>10, <2>2
  <2> QED
    BY <1>7, <2>1, <2>2
<1>12. Acks'
  <2>1. PICK k : k = Pkt("cancelAck", {m}, pkt.id, res)
    OBVIOUS
  <2>2. k.id = pkt.id /\ k.st = res
    BY <2>1 DEF Pkt
  <2>3. AckGood(p, k)'
    BY <1>7, <2>2 DEF AckGood
  <2>4. toHub' = [toHub EXCEPT ![p] = Append(toHub[p], k)]
    BY <1>4, <2>1 DEF Emit
  <2>5. \A q \in Procs : \A y \in Range(toHub'[q]) : y \in Range(toHub[q]) \/ (q = p /\ y = k)
    BY <1>1, <2>4 DEF TypeOK, NetTypeOK, Range
  <2> QED
    BY <1>1, <1>7, <2>3, <2>5, AcksKept
<1>13. Requests'
  BY <1>1, <1>7, RequestsKept DEF Forward
<1> QED
  BY <1>8, <1>9, <1>11, <1>12, <1>13 DEF Parts

\* A retry that arrives pays for one more delivery.
LEMMA OfferSpent ==
  ASSUME TypeOK, TypeOK', Offers, UNCHANGED ops, NEW p \in Procs, toCli[p] # <<>>,
         toCli' = [toCli EXCEPT ![p] = Tail(toCli[p])],
         NEW pkt, pkt = Head(toCli[p]), pkt.t = "retry", NEW m \in Messages, m \in pkt.ms
  PROVE  /\ pkt.id \in Retries(m)
         /\ Cardinality((Offered(m) \ Waiting(p))') >= Cardinality(Offered(m) \ Waiting(p)) + 1
<1>1. PICK s : s = toCli[p]
  OBVIOUS
<1>2. PICK t : t = toCli'[p]
  OBVIOUS
<1>3. s \in Seq(DownPacket) /\ s # <<>> /\ t = Tail(s) /\ pkt = s[1]
  BY <1>1, <1>2 DEF TypeOK, NetTypeOK
<1>4. /\ 1 \in DOMAIN s
      /\ \A x \in DOMAIN t : x + 1 \in DOMAIN s /\ t[x] = s[x + 1] /\ x + 1 # 1
  BY <1>3
<1>5. OfferOnce(s) /\ OfferGood(pkt)
  BY <1>1, <1>3, <1>4 DEF Offers
<1>6. pkt.id \in Offered(m)
  BY <1>5 DEF OfferGood
<1>7. pkt.id \in Waiting(p)
  BY <1>1, <1>3, <1>4 DEF Waiting
<1>8. pkt.id \notin Waiting(p)'
  <2>1. ASSUME NEW x \in DOMAIN t, t[x].t = "retry", t[x].id = pkt.id
        PROVE  FALSE
    BY <1>3, <1>4, <1>5, <2>1 DEF OfferOnce
  <2> QED
    BY <1>2, <2>1 DEF Waiting
<1>9. Waiting(p)' \subseteq Waiting(p)
  BY <1>1, <1>2, <1>4 DEF Waiting
<1>10. Offered(m)' = Offered(m)
  BY DEF Offered, Retries
<1>11. Cardinality((Offered(m) \ Waiting(p))') >= Cardinality(Offered(m) \ Waiting(p)) + 1
  <2> DEFINE S == Offered(m) \ Waiting(p)
             T == (Offered(m) \ Waiting(p))'
  <2>1. IsFiniteSet(S) /\ Cardinality(S) \in Nat /\ IsFiniteSet(T) /\ Cardinality(T) \in Nat
    BY SpentFinite
  <2>2. S \cup {pkt.id} \subseteq T /\ pkt.id \notin S
    BY <1>6, <1>7, <1>8, <1>9, <1>10
  <2>3. IsFiniteSet(S \cup {pkt.id}) /\ Cardinality(S \cup {pkt.id}) = Cardinality(S) + 1
    BY <2>1, <2>2, FS_AddElement
  <2>4. Cardinality(S \cup {pkt.id}) <= Cardinality(T)
    BY <2>1, <2>2, FS_Subset
  <2> HIDE DEF S, T
  <2>5. Cardinality(T) >= Cardinality(S) + 1
    BY <2>1, <2>3, <2>4
  <2> QED
    BY <2>5 DEF S, T
<1> QED
  BY <1>6, <1>11 DEF Offered

\* A retry that is turned away changes nothing.
LEMMA OnceRetryRefused ==
  ASSUME OnceInv, TypeOK', NEW p \in Procs, PlainLinks,
         UNCHANGED <<row, ops, taken, seen, held, released>>,
         NEW ms, NEW id, NEW st, Emit(p, Pkt("retryAck", ms, id, st))
  PROVE  Parts'
<1>1. TypeOK
  BY DEF OnceInv, DeliveryInv
<1>2. Calm
  BY <1>1, StillCalm
<1>3. \A q \in Procs : \A k \in Range(toHub'[q]) : k \in Range(toHub[q]) \/ AckGood(q, k)'
  BY <1>1, EmitNoAck
<1> QED
  BY <1>2, <1>3, CliStep

\* An accepted retry.
LEMMA OnceRetryAccepted ==
  ASSUME OnceInv, TypeOK', NEW p \in Procs, toCli[p] # <<>>,
         toCli' = [toCli EXCEPT ![p] = Tail(toCli[p])],
         NEW pkt, pkt = Head(toCli[p]), pkt.t = "retry", NEW m \in Messages, m \in pkt.ms,
         seen' = [seen EXCEPT ![p] = @ \cup {m}], held' = [held EXCEPT ![p][m] = "pending"],
         UNCHANGED <<row, ops, taken, released>>,
         NEW ms, NEW id, NEW st, Emit(p, Pkt("retryAck", ms, id, st))
  PROVE  Parts'
<1>1. TypeOK /\ Unseen /\ Once /\ Offers /\ Releases /\ Acks /\ Requests
  BY DEF OnceInv, DeliveryInv, Parts
<1>2. OpsForward /\ ReleasesGrow
  BY DEF OpsForward, ReleasesGrow
<1>3. PlainLinks
  BY <1>1, LinkPlain
<1>4. /\ pkt.id \in Retries(m)
      /\ Cardinality((Offered(m) \ Waiting(p))') >= Cardinality(Offered(m) \ Waiting(p)) + 1
  BY <1>1, OfferSpent
<1>5. held \in [Procs -> [Messages -> Held]] /\ seen \in [Procs -> SUBSET Messages]
  BY <1>1 DEF TypeOK, CliTypeOK
<1>6. /\ \A q \in Procs : seen[q] \subseteq seen'[q]
      /\ m \in seen'[p]
      /\ \A q \in Procs, x \in Messages : x \in seen'[q] => x \in seen[q] \/ (q = p /\ x = m)
  BY <1>5
<1>7. ASSUME NEW q \in Procs, NEW x \in Messages, q # p \/ x # m
      PROVE  Deliveries(q, x)' = Deliveries(q, x)
  <2>1. held'[q][x] = held[q][x]
    BY <1>5, <1>7
  <2> QED
    BY <2>1 DEF Deliveries, Active
<1>8. Deliveries(p, m)' <= Deliveries(p, m) + 1
  <2>1. taken[p][m] \in Nat
    BY <1>1, DeliveriesNat
  <2> QED
    BY <2>1 DEF Deliveries
<1>9. Unseen'
  BY <1>1, <1>6, <1>7 DEF Unseen
<1>10. ASSUME NEW q \in Procs, NEW x \in Messages
       PROVE  (Deliveries(q, x) <= 1 + Cardinality(Offered(x) \ Waiting(q)))'
  <2> DEFINE S == Offered(x) \ Waiting(q)
             T == (Offered(x) \ Waiting(q))'
  <2>1. IsFiniteSet(S) /\ Cardinality(S) \in Nat /\ IsFiniteSet(T) /\ Cardinality(T) \in Nat
    BY <1>1, SpentFinite
  <2>2. S \subseteq T
    BY <1>1, <1>2, <1>3, PlainWaiting, OffersGrow
  <2>3. Cardinality(S) <= Cardinality(T)
    BY <2>1, <2>2, FS_Subset
  <2>4. Deliveries(q, x) <= 1 + Cardinality(S)
    BY <1>1 DEF Once
  <2>5. Deliveries(q, x) \in Nat /\ Deliveries(q, x)' \in Nat
    BY <1>1, DeliveriesNat
  <2>6. q = p /\ x = m => Cardinality(T) >= Cardinality(S) + 1 /\ Deliveries(q, x)' <= Deliveries(q, x) + 1
    BY <1>4, <1>8
  <2>7. q # p \/ x # m => Deliveries(q, x)' = Deliveries(q, x)
    BY <1>7
  <2> HIDE DEF S, T
  <2>8. Deliveries(q, x)' <= 1 + Cardinality(T)
    BY <2>1, <2>3, <2>4, <2>5, <2>6, <2>7
  <2> QED
    BY <2>8 DEF T
<1>11. Once'
  BY <1>10 DEF Once
<1>12. Offers'
  BY <1>1, <1>2, <1>3, OffersKept
<1>13. Releases'
  <2> SUFFICES ASSUME NEW q \in Procs, NEW i \in released[q]
               PROVE  \E x \in Messages : i \in DOMAIN ops /\ ops[i].m = x /\ LetGo(q, x)'
    BY DEF Releases, LetGo
  <2>1. i \in DOMAIN ops /\ LetGo(q, ops[i].m)
    BY <1>1 DEF Releases
  <2>2. PICK x \in Messages : x = ops[i].m
    BY <1>1, <2>1, OpFields
  <2>3. Retries(x)' = Retries(x)
    BY DEF Retries
  <2>4. LetGo(q, x)'
    BY <1>4, <1>6, <1>7, <2>1, <2>2, <2>3 DEF LetGo
  <2> QED
    BY <2>1, <2>2, <2>4
<1>14. Acks'
  BY <1>1, <1>2, EmitNoAck, AcksKept
<1>15. Requests'
  BY <1>1, <1>2, RequestsKept DEF Forward
<1> QED
  BY <1>9, <1>11, <1>12, <1>13, <1>14, <1>15 DEF Parts

\* The steer handler's answer moves what it already has.
LEMMA OnceSteerAnswer ==
  ASSUME OnceInv, TypeOK', NEW p \in Procs, NEW pkt, NEW m \in Messages,
         HandleSteerAnswer(p, pkt, m), PlainLinks, UNCHANGED <<row, ops, taken>>
  PROVE  Parts'
<1>1. TypeOK
  BY DEF OnceInv, DeliveryInv
<1>2. UNCHANGED toHub \/ Hold(p, m) \/ RestoreQueued(p, m)
  BY DEF HandleSteerAnswer
<1>3. \A q \in Procs : \A k \in Range(toHub'[q]) : k \in Range(toHub[q]) \/ AckGood(q, k)'
  <2>1. Hold(p, m) => \E ms, id, st : Emit(p, Pkt("indeterminate", ms, id, st))
    BY DEF Hold
  <2>2. RestoreQueued(p, m) => UNCHANGED toHub \/ \E ms, id, st : Emit(p, Pkt("steerState", ms, id, st))
    BY DEF RestoreQueued
  <2> QED
    BY <1>1, <1>2, <2>1, <2>2, EmitNoAck
<1>4. \/ held' = held
      \/ /\ held[p][m] \in {"restoring", "persisting"}
         /\ \E h : held' = [held EXCEPT ![p][m] = h]
  BY DEF HandleSteerAnswer, Hold, RestoreQueued
<1>5. UNCHANGED <<seen, released>>
  BY DEF HandleSteerAnswer
<1>6. Calm
  <2>1. held[p][m] \in {"restoring", "persisting"} => Active(p, m)
    BY DEF Active
  <2> QED
    BY <1>1, <1>4, <1>5, <2>1, StillCalm, HeldCalm
<1> QED
  BY <1>3, <1>5, <1>6, CliStep

\* CliReceive keeps the parts.
LEMMA OnceCliReceive ==
  ASSUME OnceInv, TypeOK', NEW p \in Procs, CliReceive(p)
  PROVE  Parts'
<1>1. PICK pkt : pkt = Head(toCli[p])
  OBVIOUS
<1>2. /\ TypeOK /\ Unseen /\ toCli[p] \in Seq(DownPacket) /\ toCli[p] # <<>>
      /\ toCli' = [toCli EXCEPT ![p] = Tail(toCli[p])]
      /\ UNCHANGED <<row, ops, taken>>
  BY DEF OnceInv, DeliveryInv, Parts, TypeOK, NetTypeOK, CliReceive, hubVars
<1>3. pkt.ms \in SUBSET Messages /\ DownGood(pkt)
  <2>1. pkt \in DownPacket /\ pkt \in Range(toCli[p])
    BY <1>1, <1>2 DEF Range
  <2>2. pkt.ms \in SUBSET Messages
    BY <2>1 DEF DownPacket, Packet
  <2> QED
    BY <2>1, <2>2 DEF OnceInv, DeliveryInv, Truthful, DownTruthful
<1>4. PlainLinks
  BY <1>2, LinkPlain
<1>5. CASE Accept(p, pkt.ms) /\ UNCHANGED <<toHub, released>>
  <2>1. Calm
    BY <1>2, <1>5, AcceptCalm
  <2> QED
    BY <1>2, <1>4, <1>5, <2>1, CliStep
<1>6. ASSUME NEW m \in pkt.ms, pkt.t = "cancel", HandleCancel(p, pkt, m)
      PROVE  Parts'
  BY <1>2, <1>3, <1>4, <1>6, OnceHandleCancel
<1>7. ASSUME NEW m \in pkt.ms, pkt.t = "retry", HandleRetry(p, pkt, m)
      PROVE  Parts'
  <2>1. PICK accepted \in BOOLEAN :
          /\ IF accepted
             THEN /\ seen' = [seen EXCEPT ![p] = @ \cup {m}]
                  /\ held' = [held EXCEPT ![p][m] = "pending"]
             ELSE UNCHANGED <<seen, held>>
          /\ Emit(p, Pkt("retryAck", {m}, pkt.id, IF accepted THEN "accepted" ELSE "refused"))
          /\ UNCHANGED released
    BY <1>7, Zenon DEF HandleRetry
  <2>2. m \in Messages
    BY <1>3
  <2>3. CASE accepted
    BY <1>1, <1>2, <1>7, <2>1, <2>2, <2>3, OnceRetryAccepted
  <2>4. CASE ~accepted
    BY <1>2, <1>4, <2>1, <2>4, OnceRetryRefused
  <2> QED
    BY <2>3, <2>4
<1>8. ASSUME NEW m \in pkt.ms, HandleSteerAnswer(p, pkt, m)
      PROVE  Parts'
  BY <1>2, <1>3, <1>4, <1>8, OnceSteerAnswer
<1> QED
  BY <1>1, <1>5, <1>6, <1>7, <1>8 DEF CliReceive

\* Taking a batch turns what may come into what has come.
LEMMA OnceCollect ==
  ASSUME OnceInv, TypeOK', NEW p \in Procs, NEW ms \in SUBSET Messages, Collect(p, ms)
  PROVE  Parts'
<1>1. /\ TypeOK /\ held \in [Procs -> [Messages -> Held]]
      /\ taken \in [Procs -> [Messages -> Nat]]
  BY DEF OnceInv, DeliveryInv, TypeOK, CliTypeOK, HistoryTypeOK
<1>2. /\ UNCHANGED <<row, ops, toCli, seen, released>>
      /\ Emit(p, Pkt("consumed", ms, 0, "nil"))
      /\ \A m \in ms : held[p][m] = "pending"
      /\ held' = [held EXCEPT ![p] = [m \in Messages |-> IF m \in ms THEN "none" ELSE @[m]]]
      /\ taken' = [taken EXCEPT ![p] = [m \in Messages |-> IF m \in ms THEN @[m] + 1 ELSE @[m]]]
  BY DEF Collect, hubVars
<1>3. ASSUME NEW q \in Procs, NEW x \in Messages
      PROVE  Deliveries(q, x)' <= Deliveries(q, x)
  <2>1. taken[q][x] \in Nat
    BY <1>1
  <2>2. CASE q = p /\ x \in ms
    <3>1. held'[q][x] = "none" /\ taken'[q][x] = taken[q][x] + 1 /\ held[q][x] = "pending"
      BY <1>1, <1>2, <2>2
    <3> QED
      BY <2>1, <3>1 DEF Deliveries, Active
  <2>3. CASE ~(q = p /\ x \in ms)
    <3>1. held'[q][x] = held[q][x] /\ taken'[q][x] = taken[q][x]
      BY <1>1, <1>2, <2>3
    <3> QED
      BY <2>1, <3>1 DEF Deliveries, Active
  <2> QED
    BY <2>2, <2>3
<1>4. Calm
  BY <1>2, <1>3 DEF Calm
<1>5. PlainLinks
  BY <1>2 DEF PlainLinks, Plain
<1>6. \A q \in Procs : \A k \in Range(toHub'[q]) : k \in Range(toHub[q]) \/ AckGood(q, k)'
  BY <1>1, <1>2, EmitNoAck
<1> QED
  BY <1>2, <1>4, <1>5, <1>6, CliStep

\* So does a completed steer.
LEMMA OnceSteerCompleted ==
  ASSUME OnceInv, TypeOK', NEW p \in Procs, NEW m \in Messages, SteerCompleted(p, m)
  PROVE  Parts'
<1>1. /\ TypeOK /\ held \in [Procs -> [Messages -> Held]]
      /\ taken \in [Procs -> [Messages -> Nat]]
  BY DEF OnceInv, DeliveryInv, TypeOK, CliTypeOK, HistoryTypeOK
<1>2. /\ UNCHANGED <<row, ops, toCli, seen, released>>
      /\ Emit(p, Pkt("consumed", {m}, 0, "nil"))
      /\ held[p][m] = "native"
      /\ held' = [held EXCEPT ![p][m] = "committed"]
      /\ taken' = [taken EXCEPT ![p][m] = @ + 1]
  BY DEF SteerCompleted, hubVars
<1>3. ASSUME NEW q \in Procs, NEW x \in Messages
      PROVE  Deliveries(q, x)' <= Deliveries(q, x)
  <2>1. taken[q][x] \in Nat
    BY <1>1
  <2>2. CASE q = p /\ x = m
    <3>1. held'[q][x] = "committed" /\ taken'[q][x] = taken[q][x] + 1 /\ held[q][x] = "native"
      BY <1>1, <1>2, <2>2
    <3> QED
      BY <2>1, <3>1 DEF Deliveries, Active
  <2>3. CASE ~(q = p /\ x = m)
    <3>1. held'[q][x] = held[q][x] /\ taken'[q][x] = taken[q][x]
      BY <1>1, <1>2, <2>3
    <3> QED
      BY <2>1, <3>1 DEF Deliveries, Active
  <2> QED
    BY <2>2, <2>3
<1>4. Calm
  BY <1>2, <1>3 DEF Calm
<1>5. PlainLinks
  BY <1>2 DEF PlainLinks, Plain
<1>6. \A q \in Procs : \A k \in Range(toHub'[q]) : k \in Range(toHub[q]) \/ AckGood(q, k)'
  BY <1>1, <1>2, EmitNoAck
<1> QED
  BY <1>2, <1>4, <1>5, <1>6, CliStep

\* The other steps of the steer handler move one message and emit no answer.
LEMMA OnceSteerMove ==
  ASSUME OnceInv, TypeOK', NEW p \in Procs, NEW m \in Messages,
         Active(p, m), NEW h, held' = [held EXCEPT ![p][m] = h],
         UNCHANGED <<row, ops, toCli, taken, seen, released>>,
         \A q \in Procs : \A k \in Range(toHub'[q]) : k \in Range(toHub[q]) \/ AckGood(q, k)'
  PROVE  Parts'
<1>1. Calm
  BY HeldCalm DEF OnceInv, DeliveryInv
<1>2. PlainLinks
  BY DEF PlainLinks, Plain
<1> QED
  BY <1>1, <1>2, CliStep

\* Steer keeps the parts.
LEMMA OnceSteer ==
  ASSUME OnceInv, TypeOK', NEW p \in Procs, NEW m \in Messages, Steer(p, m)
  PROVE  Parts'
<1>1. TypeOK
  BY DEF OnceInv, DeliveryInv
<1>2. /\ Active(p, m) /\ held' = [held EXCEPT ![p][m] = "persisting"]
      /\ UNCHANGED <<row, ops, toCli, taken, seen, released>>
  BY DEF Steer, Active, hubVars
<1>3. \A q \in Procs : \A k \in Range(toHub'[q]) : k \in Range(toHub[q]) \/ AckGood(q, k)'
  BY <1>1, EmitNoAck DEF Steer
<1> QED
  BY <1>2, <1>3, OnceSteerMove

\* SteerTimeout keeps the parts.
LEMMA OnceSteerTimeout ==
  ASSUME OnceInv, TypeOK', NEW p \in Procs, NEW m \in Messages, SteerTimeout(p, m)
  PROVE  Parts'
<1>1. TypeOK /\ toHub \in [Procs -> Seq(UpPacket)]
  BY DEF OnceInv, DeliveryInv, TypeOK, NetTypeOK
<1>2. /\ Active(p, m) /\ held' = [held EXCEPT ![p][m] = "indeterminate"]
      /\ UNCHANGED <<row, ops, toCli, taken, seen, released>>
  BY DEF SteerTimeout, Active, hubVars, history
<1>3. PICK k : k = Pkt("indeterminate", {m}, 0, "nil")
  OBVIOUS
<1>4. AckGood(p, k)'
  BY <1>3 DEF Pkt, AckGood
<1>5. PICK s : s = Withdraw(p, attempt[p][m])
  OBVIOUS
<1>6. s \in Seq(UpPacket) /\ Range(s) \subseteq Range(toHub[p])
  <2>1. Withdraw(p, attempt[p][m]) \in Seq(UpPacket)
    BY <1>1, WithdrawType DEF TypeOK
  <2>2. Range(Withdraw(p, attempt[p][m])) \subseteq Range(toHub[p])
    BY <1>1, WithdrawRange
  <2> QED
    BY <1>5, <2>1, <2>2
<1>7. toHub' = [toHub EXCEPT ![p] = Append(s, k)]
  BY <1>3, <1>5 DEF SteerTimeout
<1>8. Range(Append(s, k)) \subseteq Range(s) \cup {k}
  BY <1>6 DEF Range
<1>9. \A q \in Procs : \A x \in Range(toHub'[q]) : x \in Range(toHub[q]) \/ AckGood(q, x)'
  BY <1>1, <1>4, <1>6, <1>7, <1>8
<1> QED
  BY <1>2, <1>9, OnceSteerMove

\* SteerRejected and SteerUnknown keep the parts.
LEMMA OnceSteerUndone ==
  ASSUME OnceInv, TypeOK', NEW p \in Procs, NEW m \in Messages,
         SteerRejected(p, m) \/ SteerUnknown(p, m)
  PROVE  Parts'
<1>1. TypeOK
  BY DEF OnceInv, DeliveryInv
<1>2. /\ RestoreQueued(p, m) \/ Hold(p, m)
      /\ UNCHANGED <<row, ops, toCli, taken, seen, released>>
  BY DEF SteerRejected, SteerUnknown, Active, hubVars, history
<1>3. \E h : held' = [held EXCEPT ![p][m] = h]
  BY <1>2 DEF RestoreQueued, Hold
<1>4. Active(p, m)
  BY DEF SteerRejected, SteerUnknown, Active
<1>5. \A q \in Procs : \A k \in Range(toHub'[q]) : k \in Range(toHub[q]) \/ AckGood(q, k)'
  <2>1. Hold(p, m) => \E ms, id, st : Emit(p, Pkt("indeterminate", ms, id, st))
    BY DEF Hold
  <2>2. RestoreQueued(p, m) => UNCHANGED toHub \/ \E ms, id, st : Emit(p, Pkt("steerState", ms, id, st))
    BY DEF RestoreQueued
  <2> QED
    BY <1>1, <1>2, <2>1, <2>2, EmitNoAck
<1> QED
  BY <1>2, <1>3, <1>4, <1>5, OnceSteerMove

---------------------------------------------------------------------------
(* Connections and processes.                                              *)

\* What is held is only lost, and so are packets; at most an event is emitted
\* that is no answer.
LEMMA OnceLink ==
  ASSUME OnceInv, TypeOK', NEW p \in Procs, UNCHANGED <<row, ops, taken, seen, released>>,
         \/ UNCHANGED toHub
         \/ toHub' = [toHub EXCEPT ![p] = <<>>]
         \/ \E t \in {"alive", "end"} : Emit(p, Pkt(t, {}, 0, "nil")),
         UNCHANGED toCli \/ toCli' = [toCli EXCEPT ![p] = <<>>],
         \A q \in Procs, m \in Messages : held'[q][m] = held[q][m] \/ held'[q][m] = "none"
  PROVE  Parts'
<1>1. TypeOK /\ toHub \in [Procs -> Seq(UpPacket)]
  BY DEF OnceInv, DeliveryInv, TypeOK, NetTypeOK
<1>2. Calm
  <2>1. \A q \in Procs, m \in Messages : taken[q][m] \in Nat
    BY <1>1, DeliveriesNat
  <2> QED
    BY <2>1 DEF Calm, Deliveries, Active
<1>3. PlainLinks
  BY <1>1, LinkPlain
<1>4. \A q \in Procs : \A k \in Range(toHub'[q]) : k \in Range(toHub[q]) \/ AckGood(q, k)'
  <2>1. Range(<<>>) = {}
    BY DEF Range
  <2>2. CASE UNCHANGED toHub \/ toHub' = [toHub EXCEPT ![p] = <<>>]
    BY <1>1, <2>1, <2>2
  <2>3. CASE \E t \in {"alive", "end"} : Emit(p, Pkt(t, {}, 0, "nil"))
    BY <1>1, <2>3, EmitNoAck
  <2> QED
    BY <2>2, <2>3
<1> QED
  BY <1>2, <1>3, <1>4, CliStep

\* Every step keeps the parts.
LEMMA OnceStep ==
  ASSUME OnceInv, TypeOK', [Next]_vars
  PROVE  Parts'
<1> USE DEF hubVars, netVars, cliVars, bounds, history
<1>1. TypeOK /\ row \in [Messages -> RowState] /\ held \in [Procs -> [Messages -> Held]]
  BY DEF OnceInv, DeliveryInv, TypeOK, HubTypeOK, CliTypeOK
<1>2. UNCHANGED toCli => PlainLinks
  BY DEF PlainLinks, Plain
<1>3. CASE HubNext
  <2>1. ASSUME NEW m \in Messages, ResendMessage(m)
        PROVE  Parts'
    BY <2>1, OnceReplay DEF ResendMessage
  <2>2. ASSUME NEW m \in Messages, Mature(m)
        PROVE  Parts'
    BY <1>2, <2>2, RowStep DEF Mature, Forward
  <2>3. ASSUME ReleaseMature
        PROVE  Parts'
    <3>1. MatureScheduled(row, timing) \in SUBSET Messages
      BY DEF MatureScheduled
    <3> QED
      BY <2>3, <3>1, OnceReplay DEF ReleaseMature
  <2> QED
    BY <1>3, <2>1, <2>2, <2>3, OnceSendMessage, OnceCancel, OnceRetry, OnceOpTimeout,
       OnceHubReceive DEF HubNext
<1>4. ASSUME NEW p \in Procs, CliNext(p)
      PROVE  Parts'
  <2>1. CASE Abort(p)
    <3>1. \A q \in Procs, m \in Messages : held'[q][m] = held[q][m] \/ held'[q][m] = "none"
      BY <1>1, <2>1 DEF Abort
    <3> QED
      BY <2>1, <3>1, OnceLink DEF Abort
  <2>2. CASE KeepAlive(p)
    BY <2>2, OnceLink DEF KeepAlive
  <2>3. CASE FetchBackfill(p)
    BY <2>3, OnceLink DEF FetchBackfill
  <2>4. CASE ApplyBackfill(p)
    <3>1. Calm
      BY <1>1, <2>4, AcceptCalm DEF ApplyBackfill, OnceInv, Parts
    <3> QED
      BY <1>2, <2>4, <3>1, CliStep DEF ApplyBackfill
  <2> QED
    BY <1>4, <2>1, <2>2, <2>3, <2>4, OnceCliReceive, OnceCollect, OnceSteer, OnceSteerTimeout,
       OnceSteerCompleted, OnceSteerUndone DEF CliNext
<1>5. ASSUME NEW p \in Procs, LinkNext(p)
      PROVE  Parts'
  <2>1. CASE Start(p)
    BY <2>1, OnceLink DEF Start
  <2>2. CASE Connect(p)
    BY <2>2, OnceLink DEF Connect
  <2>3. CASE Drop(p)
    BY <2>3, OnceLink DEF Drop
  <2>4. CASE Crash(p) \/ End(p)
    <3>1. \A q \in Procs, m \in Messages : held'[q][m] = held[q][m] \/ held'[q][m] = "none"
      <4>1. held' = [held EXCEPT ![p] = [m \in Messages |-> "none"]]
        BY <2>4 DEF Crash, End, Forget
      <4> QED
        BY <1>1, <4>1
    <3>2. \/ UNCHANGED toHub
          \/ toHub' = [toHub EXCEPT ![p] = <<>>]
          \/ Emit(p, Pkt("end", {}, 0, "nil"))
      BY <2>4 DEF Crash, End
    <3>3. /\ toCli' = [toCli EXCEPT ![p] = <<>>]
          /\ UNCHANGED <<row, ops, taken, seen, released>>
      BY <2>4 DEF Crash, End, Forget
    <3> QED
      BY <3>1, <3>2, <3>3, OnceLink
  <2>5. CASE HubDisconnect(p)
    BY <2>5, OnceLink DEF HubDisconnect
  <2> QED
    BY <1>5, <2>1, <2>2, <2>3, <2>4, <2>5 DEF LinkNext
<1>6. CASE UNCHANGED vars
  BY <1>2, <1>6, RowStep DEF vars, Forward
<1> QED
  BY <1>3, <1>4, <1>5, <1>6 DEF Next

\* The parts hold initially.
LEMMA OnceInit == Init => Parts
<1> SUFFICES ASSUME Init PROVE Parts
  OBVIOUS
<1>1. TypeOK
  BY TypeInit
<1>2. \A p \in Procs, m \in Messages : Deliveries(p, m) = 0
  BY DEF Init, Deliveries, Active
<1>3. Once
  <2>1. \A p \in Procs, m \in Messages : Cardinality(Offered(m) \ Waiting(p)) \in Nat
    BY <1>1, SpentFinite
  <2> QED
    BY <1>2, <2>1 DEF Once
<1>4. \A p \in Procs : DOMAIN toCli[p] = {} /\ Range(toHub[p]) = {} /\ released[p] = {}
  BY DEF Init, Range
<1>5. DOMAIN ops = {}
  BY DEF Init
<1> QED
  BY <1>2, <1>3, <1>4, <1>5 DEF Parts, Unseen, Offers, OfferOnce, Releases, Acks, Requests

\* The invariant holds of every behaviour.
LEMMA OnceInductive ==
  /\ Init => OnceInv
  /\ OnceInv /\ [Next]_vars => OnceInv'
<1>1. Init => OnceInv
  BY TypeInit, InvInit, OnceInit DEF OnceInv, DeliveryInv
<1>2. ASSUME OnceInv, [Next]_vars
      PROVE  OnceInv'
  <2>1. TypeOK'
    BY <1>2, TypeStep DEF OnceInv, DeliveryInv
  <2>2. Truthful'
    BY <1>2, InvStep DEF OnceInv
  <2>3. Parts'
    BY <1>2, <2>1, OnceStep
  <2> QED
    BY <2>1, <2>2, <2>3 DEF OnceInv, DeliveryInv
<1> QED
  BY <1>1, <1>2

\* A process takes a message at most once more than the user asked for retries
\* of it: replays, backfills, repeated sends, reconnects, restored steers and
\* aborts never hand the launcher the same prompt a second time.
THEOREM TakenOnce == Spec => []TakenOncePerProcess
<1>1. ASSUME OnceInv
      PROVE  TakenOncePerProcess
  <2> SUFFICES ASSUME NEW p \in Procs, NEW m \in Messages
               PROVE  taken[p][m] <= 1 + Cardinality(Retries(m))
    BY DEF TakenOncePerProcess, Retries
  <2> DEFINE S == Offered(m) \ Waiting(p)
  <2>1. TypeOK
    BY <1>1 DEF OnceInv, DeliveryInv
  <2>2. IsFiniteSet(Retries(m))
    <3>1. Retries(m) \subseteq 1 .. Len(ops) /\ Len(ops) \in Nat
      BY <2>1, OpFields DEF Retries
    <3>2. IsFiniteSet(1 .. Len(ops))
      BY <3>1, FS_Interval
    <3> QED
      BY <3>1, <3>2, FS_Subset
  <2>3. S \subseteq Retries(m)
    BY DEF Offered
  <2>4. Cardinality(S) <= Cardinality(Retries(m)) /\ Cardinality(Retries(m)) \in Nat
    BY <2>2, <2>3, FS_Subset, FS_CardinalityType
  <2>5. Cardinality(S) \in Nat
    BY <2>1, SpentFinite
  <2>6. Deliveries(p, m) <= 1 + Cardinality(S)
    BY <1>1 DEF OnceInv, Parts, Once
  <2>7. Deliveries(p, m) \in Nat /\ taken[p][m] \in Nat /\ taken[p][m] <= Deliveries(p, m)
    BY <2>1, DeliveriesNat
  <2> HIDE DEF S
  <2> QED
    BY <2>4, <2>5, <2>6, <2>7
<1> QED
  BY <1>1, OnceInductive, PTL DEF Spec

\* When the web client was told that a queued message is cancelled, its row is
\* gone for good; a row that is stamped all the same was swept, retried by the
\* user or taken by a process other than the one that let it go.
THEOREM CancelTruthful == Spec => []CancelledNotDelivered
<1>1. ASSUME OnceInv
      PROVE  CancelledNotDelivered
  <2> SUFFICES ASSUME NEW i \in DOMAIN ops, ops[i].ans = "cancelled",
                      row[ops[i].m] # "deleted", ops[i].m \notin swept, Retries(ops[i].m) = {}
               PROVE  TakenElsewhere(i)
    BY DEF CancelledNotDelivered, Retries
  <2>1. PICK m \in Messages : m = ops[i].m
    BY <1>1, OpFields DEF OnceInv, DeliveryInv
  <2>2. row[m] = "invoked" /\ IsReleased(i)
    BY <1>1, <2>1 DEF OnceInv, Parts, Requests, OpGood
  <2>3. PICK q \in Procs : taken[q][m] > 0
    BY <1>1, <2>1, <2>2 DEF OnceInv, DeliveryInv, Truthful, InvokedWasTaken
  <2>4. i \notin released[q]
    <3>1. i \in released[q] => LetGo(q, m)
      BY <1>1, <2>1 DEF OnceInv, Parts, Releases
    <3>2. taken[q][m] \in Nat /\ taken[q][m] <= Deliveries(q, m) /\ Deliveries(q, m) \in Nat
      BY <1>1, DeliveriesNat DEF OnceInv, DeliveryInv
    <3> QED
      BY <2>1, <2>3, <3>1, <3>2 DEF LetGo
  <2> QED
    BY <2>1, <2>2, <2>3, <2>4 DEF TakenElsewhere, IsReleased
<1> QED
  BY <1>1, OnceInductive, PTL DEF Spec

---------------------------------------------------------------------------
(* Prompts of unknown outcome: the invariant.                              *)

\* Some launcher has delivered m.
Took(m) == \E q \in Procs : taken[q][m] > 0

\* The packets that make the hub queue m again: a restored steer, an accepted retry.
Requeues(k, m) ==
  m \in k.ms /\ ((k.t = "steerState" /\ k.st = "queued") \/ (k.t = "retryAck" /\ k.st = "accepted"))
NoRequeue(q, m) == \A k \in Range(toHub[q]) : ~Requeues(k, m)

\* m is not on its way to q as a new message.
NotNew(q, m) ==
  m \notin backfill[q].ms /\ \A k \in Range(toCli[q]) : k.t = "new" => m \notin k.ms

\* No replay, tick or backfill reads the row.
Safe(m) == row[m] \in {"dispatching", "indeterminate", "deleted"}

\* What q has of m brings it into no queue.
Quiescent(q, m) ==
  /\ held[q][m] \in {"none", "native", "indeterminate"}
  /\ NoRequeue(q, m) /\ (m \in seen[q] \/ NotNew(q, m))
Unproven ==
  resends = 0 => \A m \in unproven : ~Took(m) => Safe(m) /\ \A q \in Procs : Quiescent(q, m)

\* The request to record the dispatch numbered id, what may follow it, and its answer.
Dispatches(k, m, id) == k.t = "steerState" /\ m \in k.ms /\ k.id = id
Clear(s, m, id) == \A x, y \in DOMAIN s : x < y /\ Dispatches(s[x], m, id) => ~Requeues(s[y], m)
Recorded(k, m, id) == k.t = "steerOk" /\ k.st = "dispatching" /\ m \in k.ms /\ k.id = id

\* Once a dispatch is asked for, nothing undoes it before its answer arrives.
Undisturbed(p, m) ==
  /\ Clear(toHub[p], m, attempt[p][m])
  /\ \A k \in Range(toCli[p]) : Recorded(k, m, attempt[p][m]) => Safe(m) /\ NoRequeue(p, m)
Persisting ==
  resends = 0 =>
    \A p \in Procs, m \in Messages : held[p][m] = "persisting" /\ ~Took(m) => Undisturbed(p, m)

\* The numbers of dispatches are not used twice, and each is about one message.
SteerId(k) == k.id <= steers /\ \E m \in Messages : k.ms = {m}
Ids ==
  \A p \in Procs :
    /\ \A m \in Messages : attempt[p][m] <= steers
    /\ \A k \in Range(toHub[p]) : k.t = "steerState" => SteerId(k)
    /\ \A k \in Range(toCli[p]) : k.t \in {"steerOk", "steerNo"} => SteerId(k)

\* The answer to an offer is about the message of its request.
RetryAck(k) == k.t = "retryAck" => k.id \in DOMAIN ops /\ k.ms = {ops[k.id].m}
RetryAcks == \A p \in Procs : \A k \in Range(toHub[p]) : RetryAck(k)

\* A swept row is stamped.
SweptInvoked == \A m \in swept : row[m] = "invoked"

\* Processes follow each other, and what is not running has nothing.
Quiet ==
  \A p \in Procs : proc[p] # "up" =>
    toCli[p] = <<>> /\ backfill[p].ms = {} /\ \A m \in Messages : held[p][m] = "none"
OneUp == \A p, q \in Procs : p # q /\ proc[p] = "up" => proc[q] # "up" /\ toHub[q] = <<>>
ConnOld == \A p \in Procs : proc[p] = "new" => ~conn[p] /\ toHub[p] = <<>>

\* A retry has one process to answer: who was alone in the room when it was asked for is so while it
\* runs or has something on the way.
Alone(p) == proc[p] # "new" /\ (proc[p] = "up" \/ toHub[p] # <<>> => Room \subseteq {p})
RetryGood(i) ==
  /\ ops[i].stage = "offer" => ops[i].kind = "retry"
  /\ ops[i].kind = "retry" =>
       /\ ops[i].got = {}
       /\ \E p \in Procs : ops[i].need \subseteq {p} /\ (ops[i].stage = "ask" => Alone(p))
RetryAlone == \A i \in DOMAIN ops : RetryGood(i)

Processes == Quiet /\ OneUp /\ ConnOld /\ IsFiniteSet(Room) /\ RetryAlone
Prompts == Unproven /\ Persisting /\ Ids /\ RetryAcks /\ SweptInvoked
UnprovenInv == OnceInv /\ Processes /\ Prompts

---------------------------------------------------------------------------
(* Sequences of packets.                                                   *)

\* A link that is read stays clear.
LEMMA ClearTail ==
  ASSUME NEW S, NEW s \in Seq(S), s # <<>>, NEW m, NEW id, Clear(s, m, id)
  PROVE  Clear(Tail(s), m, id)
<1>1. \A x \in DOMAIN Tail(s) : x \in Nat /\ x + 1 \in DOMAIN s /\ Tail(s)[x] = s[x + 1]
  OBVIOUS
<1>2. \A x, y \in DOMAIN Tail(s) : x < y => x + 1 < y + 1
  BY <1>1
<1> QED
  BY <1>1, <1>2 DEF Clear

\* So does one that gains a packet which requeues nothing.
LEMMA ClearAppend ==
  ASSUME NEW S, NEW s \in Seq(S), NEW k, NEW m, NEW id, Clear(s, m, id),
         ~Requeues(k, m) \/ \A j \in Range(s) : ~Dispatches(j, m, id)
  PROVE  Clear(Append(s, k), m, id)
<1>1. PICK n : n = Len(s) + 1
  OBVIOUS
<1>2. /\ DOMAIN Append(s, k) = DOMAIN s \cup {n} /\ n \in Nat /\ Append(s, k)[n] = k
      /\ \A x \in DOMAIN s : Append(s, k)[x] = s[x] /\ x < n /\ x \in Nat /\ s[x] \in Range(s)
  BY <1>1 DEF Range
<1>3. ASSUME NEW x \in DOMAIN s \cup {n}, NEW y \in DOMAIN s \cup {n}, x < y
      PROVE  x \in DOMAIN s
  BY <1>2, <1>3
<1> QED
  BY <1>2, <1>3 DEF Clear

\* So does one that loses any packet.
LEMMA ClearRemove ==
  ASSUME NEW S, NEW s \in Seq(S), NEW i \in DOMAIN s, NEW m, NEW id, Clear(s, m, id)
  PROVE  Clear(RemoveAt(s, i), m, id)
<1> DEFINE front == SubSeq(s, 1, i - 1)
           back == SubSeq(s, i + 1, Len(s))
<1>1. /\ front \in Seq(S) /\ Len(front) = i - 1
      /\ \A j \in 1 .. i - 1 : front[j] = s[j]
  OBVIOUS
<1>2. /\ back \in Seq(S) /\ Len(back) = Len(s) - i
      /\ \A j \in 1 .. Len(s) - i : back[j] = s[i + j]
  OBVIOUS
<1>3. RemoveAt(s, i) = front \o back
  BY DEF RemoveAt
<1> HIDE DEF front, back
<1>4. \A j \in DOMAIN (front \o back) :
        /\ j \in 1 .. Len(s) - 1
        /\ (front \o back)[j] = IF j < i THEN s[j] ELSE s[j + 1]
  <2>1. DOMAIN (front \o back) = 1 .. Len(s) - 1
    <3>1. Len(front \o back) = Len(front) + Len(back) /\ front \o back \in Seq(S)
      <4>1. front \in Seq(S) /\ back \in Seq(S)
        BY <1>1, <1>2
      <4> QED
        BY ONLY <4>1
    <3>2. Len(front) + Len(back) = Len(s) - 1
      BY <1>1, <1>2
    <3> QED
      BY <3>1, <3>2
  <2>2. \A j \in 1 .. i - 1 : (front \o back)[j] = front[j]
    BY <1>1, <1>2
  <2>3. \A j \in 1 .. Len(s) - i : (front \o back)[(i - 1) + j] = back[j]
    BY <1>1, <1>2
  <2> SUFFICES ASSUME NEW j \in DOMAIN (front \o back)
               PROVE  /\ j \in 1 .. Len(s) - 1
                      /\ (front \o back)[j] = IF j < i THEN s[j] ELSE s[j + 1]
    OBVIOUS
  <2>4. j \in 1 .. Len(s) - 1
    BY <2>1
  <2>5. CASE j < i
    BY <1>1, <2>2, <2>4, <2>5
  <2>6. CASE ~(j < i)
    <3>1. j - (i - 1) \in 1 .. Len(s) - i /\ (i - 1) + (j - (i - 1)) = j
          /\ i + (j - (i - 1)) = j + 1
      BY <2>4, <2>6
    <3>2. (front \o back)[(i - 1) + (j - (i - 1))] = back[j - (i - 1)]
      BY <2>3, <3>1
    <3>3. back[j - (i - 1)] = s[i + (j - (i - 1))]
      BY <1>2, <3>1
    <3> HIDE DEF front, back
    <3> QED
      BY <2>4, <2>6, <3>1, <3>2, <3>3
  <2> QED
    BY <2>4, <2>5, <2>6
<1>5. ASSUME NEW x \in DOMAIN (front \o back), NEW y \in DOMAIN (front \o back), x < y
      PROVE  \E a, b \in DOMAIN s : a < b /\ (front \o back)[x] = s[a] /\ (front \o back)[y] = s[b]
  <2> DEFINE z(j) == IF j < i THEN j ELSE j + 1
  <2>1. \A j \in 1 .. Len(s) - 1 : z(j) \in DOMAIN s
    OBVIOUS
  <2>2. z(x) < z(y)
    BY <1>4, <1>5
  <2>3. (front \o back)[x] = s[z(x)] /\ (front \o back)[y] = s[z(y)]
    BY <1>4
  <2>4. z(x) \in DOMAIN s /\ z(y) \in DOMAIN s
    BY <1>4, <2>1
  <2> HIDE DEF z
  <2> QED
    BY <2>2, <2>3, <2>4, Zenon
<1> QED
  BY <1>3, <1>5 DEF Clear

\* So does one whose buffered request is taken back.
LEMMA ClearWithdraw ==
  ASSUME TypeOK, NEW p \in Procs, NEW m, NEW id, NEW n, Clear(toHub[p], m, id)
  PROVE  Clear(Withdraw(p, n), m, id)
<1>1. toHub[p] \in Seq(UpPacket)
  BY DEF TypeOK, NetTypeOK
<1>2. \/ Withdraw(p, n) = toHub[p]
      \/ \E i \in DOMAIN toHub[p] : Withdraw(p, n) = RemoveAt(toHub[p], i)
  BY DEF Withdraw
<1> QED
  BY <1>1, <1>2, ClearRemove

---------------------------------------------------------------------------
(* Rows.                                                                   *)

\* The store's statements queue a row only on demand.
LEMMA StoreQueues ==
  ASSUME NEW r \in [Messages -> RowState], NEW m \in Messages
  PROVE  /\ \A ms : MarkMessagesInvoked(r, ms)[m] = "queued" => r[m] = "queued"
         /\ \A ms, state : SetMessagesDeliveryState(r, ms, state)[m] = "queued" =>
              r[m] = "queued" \/ (state = "queued" /\ m \in ms)
         /\ \A n : DeleteQueuedMessageById(r, n)[m] = "queued" => r[m] = "queued"
         /\ \A n : ClaimIndeterminateMessage(r, n)[m] = "queued" => r[m] = "queued"
<1>1. \A ms : MarkMessagesInvoked(r, ms)[m] = "queued" => r[m] = "queued"
  BY DEF MarkMessagesInvoked
<1>2. \A ms, state : SetMessagesDeliveryState(r, ms, state)[m] = "queued" =>
        r[m] = "queued" \/ (state = "queued" /\ m \in ms)
  BY DEF SetMessagesDeliveryState, StateChanges
<1>3. \A n : DeleteQueuedMessageById(r, n)[m] = "queued" => r[m] = "queued"
  BY DEF DeleteQueuedMessageById
<1>4. \A n : ClaimIndeterminateMessage(r, n)[m] = "queued" => r[m] = "queued"
  BY DEF ClaimIndeterminateMessage
<1> QED
  BY <1>1, <1>2, <1>3, <1>4

---------------------------------------------------------------------------
(* Processes.                                                              *)

\* What does not run stays empty while no process starts, ends or connects.
LEMMA QuietKept ==
  ASSUME Quiet, OneUp, ConnOld, UNCHANGED <<proc, conn>>,
         \A q \in Procs : proc[q] # "up" =>
           /\ toCli'[q] = toCli[q] /\ backfill'[q].ms = backfill[q].ms /\ held'[q] = held[q]
           /\ toHub[q] = <<>> => toHub'[q] = <<>>
  PROVE  Quiet' /\ OneUp' /\ ConnOld'
<1>1. \A q \in Procs : proc'[q] = proc[q] /\ conn'[q] = conn[q]
  OBVIOUS
<1>2. Quiet'
  BY <1>1 DEF Quiet
<1>3. OneUp'
  BY <1>1 DEF OneUp
<1>4. ConnOld'
  BY <1>1 DEF ConnOld
<1> QED
  BY <1>2, <1>3, <1>4

\* Who was alone stays alone while nobody joins the room and what ended says no more.
LEMMA AloneKept ==
  ASSUME UNCHANGED proc, Room' \subseteq Room, NEW p \in Procs,
         toHub[p] = <<>> /\ proc[p] # "up" => toHub'[p] = <<>>, Alone(p)
  PROVE  Alone(p)'
BY DEF Alone

\* Requests a step leaves alone keep the process they ask.
LEMMA RetryKept ==
  ASSUME RetryAlone, UNCHANGED ops, \A p \in Procs : Alone(p) => Alone(p)'
  PROVE  RetryAlone'
BY DEF RetryAlone, RetryGood

\* The process a new request asks is the one in the room.
LEMMA RetryAsked ==
  ASSUME TypeOK, RetryAlone, \A p \in Procs : Alone(p) => Alone(p)', NEW op,
         ops' = Append(ops, op), op.stage # "offer",
         op.kind = "retry" => op.got = {} /\ \E p \in Procs : op.need \subseteq {p} /\ Alone(p)'
  PROVE  RetryAlone'
<1>1. /\ ops \in Seq(Op) /\ \A i \in DOMAIN ops : ops'[i] = ops[i]
      /\ DOMAIN ops' = DOMAIN ops \cup {Len(ops) + 1} /\ ops'[Len(ops) + 1] = op
  BY DEF TypeOK, HubTypeOK
<1> SUFFICES ASSUME NEW i \in DOMAIN ops'
             PROVE  RetryGood(i)'
  BY DEF RetryAlone
<1>2. CASE i \in DOMAIN ops
  BY <1>1, <1>2 DEF RetryAlone, RetryGood
<1>3. CASE i = Len(ops) + 1
  BY <1>1, <1>3 DEF RetryGood
<1> QED
  BY <1>1, <1>2, <1>3

\* A retry that got its answer asks nobody, or the one process that answered.
LEMMA RetryReplaced ==
  ASSUME TypeOK, RetryAlone, \A p \in Procs : Alone(p) => Alone(p)',
         NEW i \in DOMAIN ops, NEW op, ops' = [ops EXCEPT ![i] = op], op.kind = ops[i].kind,
         op.stage = "offer" => op.kind = "retry",
         op.kind = "retry" =>
           /\ op.stage # "ask" /\ op.got = {}
           /\ op.need = {} \/ \E p \in Procs : op.need \subseteq {p}
  PROVE  RetryAlone'
<1>1. /\ ops \in Seq(Op) /\ DOMAIN ops' = DOMAIN ops /\ ops'[i] = op
      /\ \A j \in DOMAIN ops : j # i => ops'[j] = ops[j]
  BY DEF TypeOK, HubTypeOK
<1> SUFFICES ASSUME NEW j \in DOMAIN ops
             PROVE  RetryGood(j)'
  BY <1>1 DEF RetryAlone
<1>2. CASE j # i
  BY <1>1, <1>2 DEF RetryAlone, RetryGood
<1>3. CASE j = i
  BY <1>1, <1>3 DEF RetryAlone, RetryGood
<1> QED
  BY <1>2, <1>3

---------------------------------------------------------------------------
(* Cancel and retry requests.                                              *)

\* Two steps forward are one.
LEMMA ForwardTwice ==
  ASSUME NEW r, NEW s, NEW t, Forward(r, s), Forward(s, t)
  PROVE  Forward(r, t)
BY DEF Forward

\* The rows a cancel leaves are queued only if they were.
LEMMA CancelRowQueues ==
  ASSUME TypeOK, NEW op, NEW res, NEW x \in Messages, CancelRow(op, res)[x] = "queued"
  PROVE  row[x] = "queued"
<1>1. row \in [Messages -> RowState]
  BY DEF TypeOK, HubTypeOK
<1>2. MarkMessagesInvoked(row, {op.m})[x] = "queued" => row[x] = "queued"
  BY <1>1, StoreQueues
<1>3. HoldUnknown(op.m)[x] = "queued" => row[x] = "queued"
  BY <1>1, StoreQueues DEF HoldUnknown
<1>4. DeleteQueuedMessageById(row, op.m)[x] = "queued" => row[x] = "queued"
  BY <1>1, StoreQueues
<1> HIDE DEF MarkMessagesInvoked, HoldUnknown, DeleteQueuedMessageById
<1>5. \/ CancelRow(op, res) = MarkMessagesInvoked(row, {op.m})
      \/ CancelRow(op, res) = HoldUnknown(op.m)
      \/ CancelRow(op, res) = DeleteQueuedMessageById(row, op.m)
      \/ CancelRow(op, res) = row
  BY Zenon DEF CancelRow
<1> QED
  BY <1>2, <1>3, <1>4, <1>5

\* The claimed row goes forward.
LEMMA ClaimForward ==
  ASSUME TypeOK, NEW m \in Messages
  PROVE  /\ Forward(row, ClaimIndeterminateMessage(HoldUnknown(m), m))
         /\ \A x \in Messages :
              ClaimIndeterminateMessage(HoldUnknown(m), m)[x] = "queued" => row[x] = "queued"
<1>1. row \in [Messages -> RowState] /\ "indeterminate" \in Uninvoked
  BY DEF TypeOK, HubTypeOK, Uninvoked
<1>2. PICK r : r = HoldUnknown(m)
  OBVIOUS
<1>3. r \in [Messages -> RowState] /\ Forward(row, r)
  BY <1>1, <1>2, StoreType, StoreForward DEF HoldUnknown
<1>4. \A x \in Messages : r[x] = "queued" => row[x] = "queued"
  BY <1>1, <1>2, StoreQueues DEF HoldUnknown
<1>5. Forward(r, ClaimIndeterminateMessage(r, m))
  BY <1>3 DEF Forward, ClaimIndeterminateMessage
<1>6. \A x \in Messages : ClaimIndeterminateMessage(r, m)[x] = "queued" => r[x] = "queued"
  BY <1>3, StoreQueues
<1> QED
  BY <1>2, <1>3, <1>4, <1>5, <1>6, ForwardTwice

\* A request's answer moves rows forward, and queues one only when its offer was accepted; the
\* request is finished or offered, and nothing but that offer is sent.
LEMMA ResolveKeeps ==
  ASSUME TypeOK, NEW i \in DOMAIN ops, NEW got, NEW complete, Resolve(i, got, complete)
  PROVE  /\ Forward(row, row')
         /\ \A x \in Messages : row'[x] = "queued" =>
              \/ row[x] = "queued"
              \/ ops[i].stage # "ask" /\ x = ops[i].m /\ "accepted" \in got
         /\ \E op : /\ ops' = [ops EXCEPT ![i] = op]
                    /\ op.kind = ops[i].kind /\ op.m = ops[i].m
                    /\ op.stage # "ask" /\ op.got = {}
                    /\ op.stage = "offer" => op.kind = "retry"
                    /\ \/ op.need = {}
                       \/ /\ op.need = Room /\ ops[i].kind = "retry" /\ ops[i].stage = "ask"
                          /\ CancelResult(got, complete) \in {"removed", "not-found"}
         /\ \/ UNCHANGED toCli
            \/ toCli' = Broadcast(<<Pkt("retry", {ops[i].m}, i, "nil")>>)
<1>1. ops[i] \in Op /\ ops[i].m \in Messages
  BY OpFields
<1>2. row \in [Messages -> RowState]
  BY DEF TypeOK, HubTypeOK
<1>3. \A ans : LET op == Finish(ops[i], ans)
               IN  /\ op.kind = ops[i].kind /\ op.m = ops[i].m
                   /\ op.stage = "done" /\ op.got = {} /\ op.need = {}
  BY <1>1 DEF Finish, Op
<1>4. CASE ops[i].stage = "ask"
  <2>1. PICK res : res = CancelResult(got, complete)
    OBVIOUS
  <2>2. ResolveAsk(i, got, complete)
    BY <1>4 DEF Resolve
  <2>3. CASE /\ row' = CancelRow(ops[i], res)
             /\ ops' = [ops EXCEPT ![i] = Finish(ops[i], CancelAnswer(ops[i], res))]
             /\ UNCHANGED toCli
    <3>1. Forward(row, row')
      <4>1. Forward(row, MarkMessagesInvoked(row, {ops[i].m})) /\ Forward(row, row)
        BY <1>2, StoreForward
      <4>2. Forward(row, HoldUnknown(ops[i].m))
        BY <1>2, StoreForward DEF HoldUnknown, Uninvoked
      <4>3. Forward(row, DeleteQueuedMessageById(row, ops[i].m))
        BY <1>2, StoreForward
      <4> HIDE DEF MarkMessagesInvoked, HoldUnknown, DeleteQueuedMessageById, Forward
      <4>4. \/ row' = MarkMessagesInvoked(row, {ops[i].m})
            \/ row' = HoldUnknown(ops[i].m)
            \/ row' = DeleteQueuedMessageById(row, ops[i].m)
            \/ row' = row
        BY <2>3, Zenon DEF CancelRow
      <4> QED
        BY <4>1, <4>2, <4>3, <4>4
    <3>2. \A x \in Messages : row'[x] = "queued" => row[x] = "queued"
      BY <2>3, CancelRowQueues
    <3> QED
      BY <1>3, <2>3, <3>1, <3>2
  <2>4. CASE /\ ops[i].kind = "retry" /\ Claimable(ops[i], res)
             /\ row' = ClaimIndeterminateMessage(HoldUnknown(ops[i].m), ops[i].m)
             /\ toCli' = Broadcast(<<Pkt("retry", {ops[i].m}, i, "nil")>>)
             /\ ops' = [ops EXCEPT ![i] = [ops[i] EXCEPT !.stage = "offer",
                                             !.need = Room, !.got = {}]]
    <3>1. PICK op : op = [ops[i] EXCEPT !.stage = "offer", !.need = Room, !.got = {}]
      OBVIOUS
    <3>2. /\ op.kind = ops[i].kind /\ op.m = ops[i].m /\ op.stage # "ask" /\ op.got = {}
          /\ op.need = Room
      BY <1>1, <3>1 DEF Op
    <3>3. res \in {"removed", "not-found"}
      BY <2>4 DEF Claimable
    <3>4. /\ Forward(row, row')
          /\ \A x \in Messages : row'[x] = "queued" => row[x] = "queued"
      BY <1>1, <2>4, ClaimForward
    <3> QED
      BY <1>4, <2>1, <2>4, <3>1, <3>2, <3>3, <3>4
  <2>5. CASE /\ row' = IF res = "consumed" THEN MarkMessagesInvoked(row, {ops[i].m})
                                            ELSE row
             /\ ops' = [ops EXCEPT ![i] = Finish(ops[i], "unavailable")]
             /\ UNCHANGED toCli
    <3>1. Forward(row, row')
      BY <1>2, <2>5, StoreForward
    <3>2. \A x \in Messages : row'[x] = "queued" => row[x] = "queued"
      BY <1>2, <2>5, StoreQueues
    <3> QED
      BY <1>3, <2>5, <3>1, <3>2
  <2> QED
    BY <2>1, <2>2, <2>3, <2>4, <2>5 DEF ResolveAsk
<1>5. CASE ops[i].stage # "ask"
  <2>1. PICK m \in Messages : m = ops[i].m
    BY <1>1
  <2>2. PICK state \in Uninvoked : state = IF "accepted" \in got THEN "queued" ELSE "indeterminate"
    BY DEF Uninvoked
  <2>3. /\ row' = SetMessagesDeliveryState(row, {m}, state) /\ UNCHANGED toCli
        /\ \E ans : ops' = [ops EXCEPT ![i] = Finish(ops[i], ans)]
    BY <1>5, <2>1, <2>2, Zenon DEF Resolve, ResolveOffer
  <2>4. Forward(row, row')
    BY <1>2, <2>3, StoreForward
  <2>5. \A x \in Messages : row'[x] = "queued" =>
          row[x] = "queued" \/ (x = ops[i].m /\ "accepted" \in got)
    BY <1>2, <2>1, <2>2, <2>3, StoreQueues
  <2> QED
    BY <1>3, <1>5, <2>3, <2>4, <2>5
<1> QED
  BY <1>4, <1>5

---------------------------------------------------------------------------
(* The hub.                                                                *)

\* What the hub may send: a row it has queued, or the answer to the request it has just read.
HubSays(q, k) ==
  /\ k.t = "new" /\ resends' = 0 => \A m \in k.ms : row[m] \in {"none", "queued"}
  /\ k.t \in {"steerOk", "steerNo"} => SteerId(k)
  /\ \A m : Recorded(k, m, k.id) =>
       /\ row'[m] = "dispatching"
       /\ toHub[q] # <<>> /\ Dispatches(Head(toHub[q]), m, k.id) /\ toHub'[q] = Tail(toHub[q])

\* What the hub may do to the rows, the links and the history.
HubMoves ==
  /\ UNCHANGED <<cliVars, conn, steers, taken, unproven>>
  /\ resends' = 0 => resends = 0
  /\ Forward(row, row') /\ OpsForward
  /\ \A m \in Messages : row'[m] = "queued" =>
       row[m] \in {"none", "queued"} \/ \E q \in Procs : ~NoRequeue(q, m)
  /\ \A m \in swept' : m \in swept \/ (row[m] = "queued" /\ row'[m] = "invoked")
  /\ \A q \in Procs : toHub'[q] = toHub[q] \/ (toHub[q] # <<>> /\ toHub'[q] = Tail(toHub[q]))
  /\ \A q \in Procs : \A k \in Range(toCli'[q]) :
       k \in Range(toCli[q]) \/ (Listening(q) /\ HubSays(q, k))

\* Links and rows are what their types say.
LEMMA LinkTypes ==
  ASSUME UnprovenInv
  PROVE  /\ TypeOK /\ row \in [Messages -> RowState]
         /\ \A q \in Procs : toHub[q] \in Seq(UpPacket) /\ toCli[q] \in Seq(DownPacket)
BY DEF UnprovenInv, OnceInv, DeliveryInv, TypeOK, HubTypeOK, NetTypeOK

\* Reading a link shrinks it.
LEMMA TailRange ==
  ASSUME NEW S, NEW s \in Seq(S), s # <<>>
  PROVE  Range(Tail(s)) \subseteq Range(s) /\ Head(s) \in Range(s)
BY DEF Range

\* A row no replay reads stays so, unless a requeue arrives or somebody delivers the message.
LEMMA SafeStays ==
  ASSUME UnprovenInv, HubMoves, InvokedWasTaken', row' \in [Messages -> RowState],
         NEW m \in Messages, Safe(m), row'[m] # "queued", ~Took(m)
  PROVE  Safe(m)'
<1>1. row'[m] # "none"
  BY DEF Safe, HubMoves, Forward
<1>2. row'[m] # "invoked"
  <2> SUFFICES ASSUME row'[m] = "invoked" PROVE FALSE
    OBVIOUS
  <2>1. m \in swept' \/ Took(m)'
    BY DEF InvokedWasTaken, Took
  <2>2. ~Took(m)'
    BY DEF Took, HubMoves
  <2>3. m \in swept => row[m] = "invoked"
    BY DEF UnprovenInv, Prompts, SweptInvoked
  <2> QED
    BY <2>1, <2>2, <2>3 DEF HubMoves, Safe
<1> QED
  BY <1>1, <1>2 DEF Safe, RowState, Uninvoked

\* The hub's steps keep prompts where they are.
LEMMA HubKeeps ==
  ASSUME UnprovenInv, HubMoves, InvokedWasTaken', row' \in [Messages -> RowState]
  PROVE  Prompts'
<1>1. /\ TypeOK /\ row \in [Messages -> RowState]
      /\ \A q \in Procs : toHub[q] \in Seq(UpPacket) /\ toCli[q] \in Seq(DownPacket)
  BY LinkTypes
<1>2. /\ UNCHANGED <<proc, seen, held, attempt, backfill, conn, steers, taken, unproven>>
      /\ resends' = 0 => resends = 0
  BY DEF HubMoves, cliVars
<1>3. \A q \in Procs : Range(toHub'[q]) \subseteq Range(toHub[q])
  BY <1>1, TailRange DEF HubMoves
<1>4. \A q \in Procs : \A m : NoRequeue(q, m) => NoRequeue(q, m)'
  BY <1>3 DEF NoRequeue
<1>5. \A m : Took(m)' = Took(m)
  BY <1>2 DEF Took
<1>6. \A q \in Procs : \A k \in Range(toCli'[q]) : k \in Range(toCli[q]) \/ HubSays(q, k)
  BY DEF HubMoves
<1>7. Unproven'
  <2> SUFFICES ASSUME resends' = 0, NEW m \in unproven', ~Took(m)'
               PROVE  Safe(m)' /\ \A q \in Procs : Quiescent(q, m)'
    BY DEF Unproven
  <2>1. m \in Messages /\ m \in unproven /\ ~Took(m) /\ resends = 0
    BY <1>1, <1>2, <1>5 DEF TypeOK, HistoryTypeOK
  <2>2. Safe(m) /\ \A q \in Procs : Quiescent(q, m)
    BY <2>1 DEF UnprovenInv, Prompts, Unproven
  <2>3. row'[m] # "queued"
    BY <2>1, <2>2 DEF HubMoves, Safe, Quiescent
  <2>4. Safe(m)'
    BY <2>1, <2>2, <2>3, SafeStays
  <2>5. ASSUME NEW q \in Procs, NotNew(q, m)
        PROVE  NotNew(q, m)'
    <3>1. \A k \in Range(toCli'[q]) : k.t = "new" => m \notin k.ms
      BY <1>6, <2>2, <2>5 DEF NotNew, HubSays, Safe
    <3> QED
      BY <1>2, <2>5, <3>1 DEF NotNew
  <2>6. \A q \in Procs : Quiescent(q, m)'
    BY <1>2, <1>4, <2>2, <2>5 DEF Quiescent
  <2> QED
    BY <2>4, <2>6
<1>8. Persisting'
  <2> SUFFICES ASSUME resends' = 0, NEW p \in Procs, NEW m \in Messages,
                      held'[p][m] = "persisting", ~Took(m)'
               PROVE  Undisturbed(p, m)'
    BY DEF Persisting
  <2>1. PICK id : id = attempt[p][m] /\ id = attempt'[p][m]
    BY <1>2
  <2>2. Undisturbed(p, m) /\ held[p][m] = "persisting" /\ ~Took(m)
    BY <1>2, <1>5 DEF UnprovenInv, Prompts, Persisting
  <2>3. Clear(toHub'[p], m, id)
    <3>1. Clear(toHub[p], m, id)
      BY <2>1, <2>2 DEF Undisturbed
    <3> QED
      BY <1>1, <3>1, ClearTail DEF HubMoves
  <2>4. ASSUME NEW k \in Range(toCli[p]), Recorded(k, m, id)
        PROVE  Safe(m)' /\ NoRequeue(p, m)'
    <3>1. Safe(m) /\ NoRequeue(p, m)
      BY <2>1, <2>2, <2>4 DEF Undisturbed
    <3>2. \A q \in Procs : q # p => toHub[q] = <<>>
      BY <2>2 DEF UnprovenInv, Processes, Quiet, OneUp
    <3>3. \A q \in Procs : NoRequeue(q, m)
      BY <3>1, <3>2 DEF NoRequeue, Range
    <3>4. row'[m] # "queued"
      BY <3>1, <3>3 DEF HubMoves, Safe
    <3> QED
      BY <1>4, <2>2, <3>1, <3>4, SafeStays
  <2>5. ASSUME NEW k, HubSays(p, k), Recorded(k, m, id)
        PROVE  Safe(m)' /\ NoRequeue(p, m)'
    <3>1. /\ row'[m] = "dispatching" /\ toHub[p] # <<>> /\ toHub'[p] = Tail(toHub[p])
          /\ Dispatches(Head(toHub[p]), m, id)
      BY <2>5 DEF HubSays, Recorded
    <3>2. Clear(toHub[p], m, id)
      BY <2>1, <2>2 DEF Undisturbed
    <3>3. PICK s \in Seq(UpPacket) : s = toHub[p]
      BY <1>1
    <3>4. \A y \in DOMAIN Tail(s) :
            y + 1 \in DOMAIN s /\ 1 \in DOMAIN s /\ 1 < y + 1 /\ Tail(s)[y] = s[y + 1]
      BY <3>1, <3>3
    <3>5. s[1] = Head(s)
      OBVIOUS
    <3>6. \A y \in DOMAIN Tail(s) : ~Requeues(Tail(s)[y], m)
      BY <3>1, <3>2, <3>3, <3>4, <3>5 DEF Clear
    <3>7. NoRequeue(p, m)'
      BY <3>1, <3>3, <3>6 DEF NoRequeue, Range
    <3> QED
      BY <3>1, <3>7 DEF Safe
  <2> QED
    BY <1>6, <2>1, <2>3, <2>4, <2>5 DEF Undisturbed
<1>9. Ids'
  <2>1. ASSUME NEW q \in Procs, NEW k \in Range(toCli'[q]), k.t \in {"steerOk", "steerNo"}
        PROVE  SteerId(k)
    BY <1>6, <2>1 DEF HubSays, UnprovenInv, Prompts, Ids
  <2>2. \A q \in Procs : \A k \in Range(toHub'[q]) : k.t = "steerState" => SteerId(k)
    BY <1>3 DEF UnprovenInv, Prompts, Ids
  <2>3. \A q \in Procs : \A m \in Messages : attempt'[q][m] <= steers'
    BY <1>2 DEF UnprovenInv, Prompts, Ids
  <2>4. \A k : SteerId(k)' = SteerId(k)
    BY <1>2 DEF SteerId
  <2> QED
    BY <2>1, <2>2, <2>3, <2>4 DEF Ids
<1>10. RetryAcks'
  BY <1>3 DEF UnprovenInv, Prompts, RetryAcks, RetryAck, HubMoves, OpsForward
<1>11. SweptInvoked'
  <2>1. swept \in SUBSET Messages
    BY <1>1 DEF TypeOK, HistoryTypeOK
  <2> QED
    BY <2>1 DEF UnprovenInv, Prompts, SweptInvoked, HubMoves, Forward
<1> QED
  BY <1>7, <1>8, <1>9, <1>10, <1>11 DEF Prompts

\* Steps of the hub leave the processes as they are.
LEMMA UnprovenHubStep ==
  ASSUME UnprovenInv, OnceInv', HubMoves, RetryAlone'
  PROVE  UnprovenInv'
<1>1. /\ InvokedWasTaken' /\ row' \in [Messages -> RowState]
      /\ \A q \in Procs : toCli'[q] \in Seq(DownPacket)
  BY DEF OnceInv, DeliveryInv, Truthful, TypeOK, HubTypeOK, NetTypeOK
<1>2. Prompts'
  BY <1>1, HubKeeps
<1>3. UNCHANGED <<proc, conn, held, backfill>>
  BY DEF HubMoves, cliVars
<1>4. ASSUME NEW q \in Procs, proc[q] # "up"
      PROVE  toCli'[q] = toCli[q] /\ (toHub[q] = <<>> => toHub'[q] = <<>>)
  <2>1. toCli[q] = <<>> /\ ~Listening(q)
    BY <1>4 DEF UnprovenInv, Processes, Quiet, Listening
  <2>2. Range(toCli'[q]) = {}
    BY <2>1 DEF HubMoves, Range
  <2>3. \A x \in DOMAIN toCli'[q] : toCli'[q][x] \in Range(toCli'[q])
    BY DEF Range
  <2>4. PICK s \in Seq(DownPacket) : s = toCli'[q]
    BY <1>1
  <2>5. 1 \notin DOMAIN s /\ DOMAIN s = 1 .. Len(s) /\ Len(s) \in Nat
    BY <2>2, <2>3, <2>4
  <2>6. s = <<>>
    BY <2>5
  <2> QED
    BY <2>1, <2>4, <2>6 DEF HubMoves
<1>5. Quiet' /\ OneUp' /\ ConnOld'
  BY <1>3, <1>4, QuietKept DEF UnprovenInv, Processes
<1>6. IsFiniteSet(Room)'
  BY <1>3 DEF UnprovenInv, Processes, Room
<1> QED
  BY <1>2, <1>5, <1>6 DEF UnprovenInv, Processes

\* Nobody joins the room through them.
LEMMA HubAlone ==
  ASSUME HubMoves
  PROVE  \A p \in Procs : Alone(p) => Alone(p)'
<1>1. UNCHANGED proc /\ Room' \subseteq Room
  BY DEF HubMoves, cliVars, Room
<1> QED
  BY <1>1, AloneKept DEF HubMoves

\* A broadcast reaches those who listen.
LEMMA BroadcastReaches ==
  ASSUME TypeOK, NEW k, toCli' = Broadcast(<<k>>)
  PROVE  \A q \in Procs : \A x \in Range(toCli'[q]) :
           x \in Range(toCli[q]) \/ (Listening(q) /\ x = k)
<1> SUFFICES ASSUME NEW q \in Procs, NEW x \in Range(toCli'[q])
             PROVE  x \in Range(toCli[q]) \/ (Listening(q) /\ x = k)
  OBVIOUS
<1>1. toCli[q] \in Seq(DownPacket)
  BY DEF TypeOK, NetTypeOK
<1>2. CASE Listening(q)
  <2>1. toCli'[q] = toCli[q] \o <<k>>
    BY <1>2 DEF Broadcast
  <2>2. PICK s \in Seq(DownPacket) : s = toCli[q]
    BY <1>1
  <2>3. \A i \in DOMAIN (s \o <<k>>) : (i \in DOMAIN s /\ (s \o <<k>>)[i] = s[i]) \/ (s \o <<k>>)[i] = k
    OBVIOUS
  <2>4. Range(s \o <<k>>) \subseteq Range(s) \cup {k}
    BY <2>3 DEF Range
  <2> QED
    BY <1>2, <2>1, <2>2, <2>4
<1>3. CASE ~Listening(q)
  BY <1>3 DEF Broadcast
<1> QED
  BY <1>2, <1>3

\* So does a replay, which is empty when nothing is due.
LEMMA ReplayReaches ==
  ASSUME TypeOK, NEW ms, toCli' = Broadcast(NewMessages(ms))
  PROVE  \A q \in Procs : \A x \in Range(toCli'[q]) :
           x \in Range(toCli[q]) \/ (Listening(q) /\ x.t = "new" /\ x.ms = ms)
<1>1. CASE ms = {}
  <2>1. NewMessages(ms) = <<>>
    BY <1>1, Zenon DEF NewMessages
  <2>2. \A p \in Procs : toCli[p] \in Seq(DownPacket)
    BY DEF TypeOK, NetTypeOK
  <2>3. \A p \in Procs : toCli'[p] = toCli[p]
    BY <2>1, <2>2 DEF Broadcast
  <2> QED
    BY <2>3
<1>2. CASE ms # {}
  <2>1. PICK k : k = Pkt("new", ms, 0, "nil")
    OBVIOUS
  <2>2. NewMessages(ms) = <<k>>
    BY <1>2, <2>1, Zenon DEF NewMessages
  <2>3. k.t = "new" /\ k.ms = ms
    BY <2>1 DEF Pkt
  <2> QED
    BY <2>2, <2>3, BroadcastReaches
<1> QED
  BY <1>1, <1>2

\* A replay of queued rows, or of any row when a sender repeats its POST.
LEMMA ReplaySays ==
  ASSUME TypeOK, NEW ms, toCli' = Broadcast(NewMessages(ms)),
         resends' = 0 => \A m \in ms : row[m] \in {"none", "queued"}
  PROVE  \A q \in Procs : \A k \in Range(toCli'[q]) :
           k \in Range(toCli[q]) \/ (Listening(q) /\ HubSays(q, k))
BY ReplayReaches DEF HubSays, Recorded

\* SendMessage preserves the invariant.
LEMMA UnprovenSendMessage ==
  ASSUME UnprovenInv, OnceInv', NEW m \in Messages, NEW when \in {"immediate", "future"},
         SendMessage(m, when)
  PROVE  UnprovenInv'
<1>1. TypeOK /\ row \in [Messages -> RowState]
  BY LinkTypes
<1>2. /\ UNCHANGED <<ops, cliVars, conn, steers, taken, unproven, toHub, resends, swept>>
      /\ row[m] = "none" /\ row' = [row EXCEPT ![m] = "queued"]
  BY DEF SendMessage, bounds, history
<1>3. OpsForward
  BY <1>2 DEF OpsForward
<1>4. \A x \in Messages : row'[x] = "queued" => row[x] \in {"none", "queued"}
  BY <1>1, <1>2
<1>5. Forward(row, row')
  BY <1>1, <1>2 DEF Forward
<1>6. \A q \in Procs : \A k \in Range(toCli'[q]) :
        k \in Range(toCli[q]) \/ (Listening(q) /\ HubSays(q, k))
  <2>1. UNCHANGED toCli \/ toCli' = Broadcast(NewMessages({m}))
    BY DEF SendMessage
  <2> QED
    BY <1>1, <1>2, <2>1, ReplaySays
<1>7. HubMoves
  BY <1>2, <1>3, <1>4, <1>5, <1>6 DEF HubMoves
<1> QED
  BY <1>2, <1>7, UnprovenHubStep, HubAlone, RetryKept DEF UnprovenInv, Processes

\* So do the hub's steps that change no row and no request.
LEMMA UnprovenReplay ==
  ASSUME UnprovenInv, OnceInv', NEW ms,
         UNCHANGED toCli \/ toCli' = Broadcast(NewMessages(ms)),
         resends' = 0 => resends = 0 /\ \A m \in ms : row[m] = "queued",
         UNCHANGED <<row, ops, conn, toHub, cliVars, steers, history>>
  PROVE  UnprovenInv'
<1>1. TypeOK /\ row \in [Messages -> RowState]
  BY LinkTypes
<1>2. OpsForward
  BY DEF OpsForward
<1>3. Forward(row, row')
  BY <1>1 DEF Forward
<1>4. \A q \in Procs : \A k \in Range(toCli'[q]) :
        k \in Range(toCli[q]) \/ (Listening(q) /\ HubSays(q, k))
  BY <1>1, ReplaySays
<1>5. UNCHANGED <<taken, unproven, swept>>
  BY DEF history
<1>6. HubMoves
  BY <1>2, <1>3, <1>4, <1>5 DEF HubMoves
<1> QED
  BY <1>6, UnprovenHubStep, HubAlone, RetryKept DEF UnprovenInv, Processes

\* So does a new request, which at most asks the CLIs to cancel.
LEMMA UnprovenAsk ==
  ASSUME UnprovenInv, OnceInv', NEW m \in Messages, NEW op, ops' = Append(ops, op),
         op.stage # "offer",
         op.kind = "retry" => op.got = {} /\ \E p \in Procs : op.need \subseteq {p} /\ Alone(p),
         \/ UNCHANGED toCli
         \/ \E id : toCli' = Broadcast(<<Pkt("cancel", {m}, id, "nil")>>),
         Forward(row, row'), \A x \in Messages : row'[x] = "queued" => row[x] = "queued",
         UNCHANGED <<conn, toHub, cliVars, bounds, history>>
  PROVE  UnprovenInv'
<1>1. TypeOK
  BY LinkTypes
<1>2. UNCHANGED <<steers, resends, taken, unproven, swept>>
  BY DEF bounds, history
<1>3. OpsForward
  <2>1. /\ ops \in Seq(Op) /\ \A i \in DOMAIN ops : ops'[i] = ops[i]
        /\ DOMAIN ops' = DOMAIN ops \cup {Len(ops) + 1}
    BY <1>1 DEF TypeOK, HubTypeOK
  <2> QED
    BY <2>1 DEF OpsForward
<1>4. \A q \in Procs : \A k \in Range(toCli'[q]) :
        k \in Range(toCli[q]) \/ (Listening(q) /\ HubSays(q, k))
  <2>1. CASE UNCHANGED toCli
    BY <2>1
  <2>2. ASSUME NEW id, toCli' = Broadcast(<<Pkt("cancel", {m}, id, "nil")>>)
        PROVE  \A q \in Procs : \A k \in Range(toCli'[q]) :
                 k \in Range(toCli[q]) \/ (Listening(q) /\ HubSays(q, k))
    <3>1. PICK k : k = Pkt("cancel", {m}, id, "nil")
      OBVIOUS
    <3>2. \A q \in Procs : \A x : x = k => HubSays(q, x)
      BY <3>1 DEF HubSays, Recorded, Pkt
    <3>3. \A q \in Procs : \A x \in Range(toCli'[q]) :
            x \in Range(toCli[q]) \/ (Listening(q) /\ x = k)
      BY <1>1, <2>2, <3>1, BroadcastReaches
    <3> QED
      BY <3>2, <3>3, Zenon
  <2> QED
    BY <2>1, <2>2
<1>5. HubMoves
  BY <1>2, <1>3, <1>4 DEF HubMoves
<1>6. \A p \in Procs : Alone(p) => Alone(p)'
  BY <1>5, HubAlone
<1>7. RetryAlone'
  BY <1>1, <1>6, RetryAsked DEF UnprovenInv, Processes
<1> QED
  BY <1>5, <1>7, UnprovenHubStep

\* Cancel preserves the invariant.
LEMMA UnprovenCancel ==
  ASSUME UnprovenInv, OnceInv', NEW m \in Messages, Cancel(m)
  PROVE  UnprovenInv'
<1>1. TypeOK /\ row \in [Messages -> RowState]
  BY LinkTypes
<1>2. PICK op : /\ ops' = Append(ops, op) /\ op.kind = "cancel" /\ op.stage # "offer"
  <2>1. PICK op \in Op : op = [kind |-> "cancel", m |-> m, stage |-> "ask", at |-> row[m],
                     need |-> Room, got |-> {}, ans |-> "none"]
    BY <1>1 DEF Op, OpStage, Room
  <2>2. \/ ops' = Append(ops, Finish(op, "cancelled"))
        \/ ops' = Append(ops, Finish(op, "busy"))
        \/ ops' = Append(ops, op)
    BY <2>1, Zenon DEF Cancel
  <2>3. \A ans : Finish(op, ans).kind = "cancel" /\ Finish(op, ans).stage = "done"
    BY <2>1 DEF Finish
  <2>4. op.kind = "cancel" /\ op.stage = "ask"
    BY <2>1
  <2> QED
    BY <2>2, <2>3, <2>4
<1>3. \/ row' = DeleteQueuedMessageById(row, m)
      \/ row' = HoldUnknown(m)
      \/ row' = row
  BY DEF Cancel
<1>4. Forward(row, row')
  <2>1. Forward(row, HoldUnknown(m))
    BY <1>1, StoreForward DEF HoldUnknown, Uninvoked
  <2> QED
    BY <1>1, <1>3, <2>1, StoreForward
<1>5. \A x \in Messages : row'[x] = "queued" => row[x] = "queued"
  BY <1>1, <1>3, StoreQueues DEF HoldUnknown
<1>6. UNCHANGED toCli \/ \E id : toCli' = Broadcast(<<Pkt("cancel", {m}, id, "nil")>>)
  BY DEF Cancel
<1>7. UNCHANGED <<conn, toHub, cliVars, bounds, history>>
  BY DEF Cancel
<1> QED
  BY <1>2, <1>4, <1>5, <1>6, <1>7, UnprovenAsk

\* Retry preserves the invariant: it asks the only socket of the room.
LEMMA UnprovenRetry ==
  ASSUME UnprovenInv, OnceInv', NEW m \in Messages, Retry(m)
  PROVE  UnprovenInv'
<1>1. TypeOK /\ row \in [Messages -> RowState]
  BY LinkTypes
<1>2. PICK op : op = [kind |-> "retry", m |-> m, stage |-> "ask", at |-> row[m],
                     need |-> Room, got |-> {}, ans |-> "none"]
  OBVIOUS
<1>3. ops' = Append(ops, op)
  BY <1>2 DEF Retry
<1>4. PICK p : Room = {p}
  BY FS_Singleton DEF Retry, UnprovenInv, Processes
<1>5. p \in Procs /\ Alone(p)
  BY <1>4 DEF Room, Alone, UnprovenInv, Processes, ConnOld
<1>6. op.stage # "offer" /\ op.got = {} /\ op.need \subseteq {p}
  BY <1>2, <1>4
<1>7. Forward(row, row') /\ \A x \in Messages : row'[x] = "queued" => row[x] = "queued"
  BY <1>1, StoreForward DEF Retry
<1>8. \E id : toCli' = Broadcast(<<Pkt("cancel", {m}, id, "nil")>>)
  BY DEF Retry
<1>9. UNCHANGED <<conn, toHub, cliVars, bounds, history>>
  BY DEF Retry
<1> QED
  BY <1>3, <1>5, <1>6, <1>7, <1>8, <1>9, UnprovenAsk

\* An answer to a request preserves it: what requeues a row is on the link it came from, and a retry
\* is only resolved by the timer without an answer or by the one process in the room.
LEMMA UnprovenResolve ==
  ASSUME UnprovenInv, OnceInv', NEW i \in DOMAIN ops, NEW got, NEW complete,
         Resolve(i, got, complete), ops[i].stage # "done",
         ops[i].kind = "retry" /\ ops[i].stage = "ask" =>
           (got = {} /\ ~complete) \/ \E p \in Procs : Room \subseteq {p},
         ops[i].stage = "offer" /\ "accepted" \in got => \E q \in Procs : ~NoRequeue(q, ops[i].m),
         \A q \in Procs : toHub'[q] = toHub[q] \/ (toHub[q] # <<>> /\ toHub'[q] = Tail(toHub[q])),
         UNCHANGED <<conn, cliVars, steers, resends, taken, unproven, swept>>
  PROVE  UnprovenInv'
<1>1. TypeOK
  BY LinkTypes
<1>2. /\ Forward(row, row')
      /\ \A x \in Messages : row'[x] = "queued" =>
           \/ row[x] = "queued"
           \/ ops[i].stage # "ask" /\ x = ops[i].m /\ "accepted" \in got
      /\ \/ UNCHANGED toCli
         \/ toCli' = Broadcast(<<Pkt("retry", {ops[i].m}, i, "nil")>>)
  BY <1>1, ResolveKeeps
<1>3. PICK op : /\ ops' = [ops EXCEPT ![i] = op]
                /\ op.kind = ops[i].kind /\ op.m = ops[i].m
                /\ op.stage # "ask" /\ op.got = {}
                /\ op.stage = "offer" => op.kind = "retry"
                /\ \/ op.need = {}
                   \/ /\ op.need = Room /\ ops[i].kind = "retry" /\ ops[i].stage = "ask"
                      /\ CancelResult(got, complete) \in {"removed", "not-found"}
  BY <1>1, ResolveKeeps
<1>4. OpsForward
  <2>1. /\ DOMAIN ops' = DOMAIN ops /\ ops'[i] = op
        /\ \A j \in DOMAIN ops : j # i => ops'[j] = ops[j]
    BY <1>1, <1>3 DEF TypeOK, HubTypeOK
  <2> QED
    BY <1>3, <2>1 DEF OpsForward
<1>5. \A q \in Procs : \A k \in Range(toCli'[q]) :
        k \in Range(toCli[q]) \/ (Listening(q) /\ HubSays(q, k))
  <2>1. CASE UNCHANGED toCli
    BY <2>1
  <2>2. CASE toCli' = Broadcast(<<Pkt("retry", {ops[i].m}, i, "nil")>>)
    <3>1. PICK k : k = Pkt("retry", {ops[i].m}, i, "nil")
      OBVIOUS
    <3>2. \A q \in Procs : \A x : x = k => HubSays(q, x)
      BY <3>1 DEF HubSays, Recorded, Pkt
    <3>3. \A q \in Procs : \A x \in Range(toCli'[q]) :
            x \in Range(toCli[q]) \/ (Listening(q) /\ x = k)
      BY <1>1, <2>2, <3>1, BroadcastReaches
    <3> QED
      BY <3>2, <3>3, Zenon
  <2> QED
    BY <1>2, <2>1, <2>2
<1>6. \A x \in Messages : row'[x] = "queued" =>
        row[x] \in {"none", "queued"} \/ \E q \in Procs : ~NoRequeue(q, x)
  <2>1. ops[i].stage \in {"ask", "offer"}
    <3>1. ops[i] \in Op
      BY <1>1, OpFields
    <3> QED
      BY <3>1 DEF Op, OpStage
  <2> QED
    BY <1>2, <2>1
<1>7. HubMoves
  BY <1>2, <1>4, <1>5, <1>6 DEF HubMoves
<1>8. \A p \in Procs : Alone(p) => Alone(p)'
  BY <1>7, HubAlone
<1>9. op.kind = "retry" => op.need = {} \/ \E p \in Procs : op.need \subseteq {p}
  <2>1. got = {} /\ ~complete => CancelResult(got, complete) = "timeout"
    BY DEF CancelResult
  <2>2. CASE got = {} /\ ~complete
    BY <1>3, <2>1, <2>2
  <2>3. CASE \E p \in Procs : Room \subseteq {p}
    BY <1>3, <2>3
  <2> QED
    BY <1>3, <2>2, <2>3
<1>10. RetryAlone'
  BY <1>1, <1>3, <1>8, <1>9, RetryReplaced DEF UnprovenInv, Processes
<1> QED
  BY <1>7, <1>10, UnprovenHubStep

\* OpTimeout preserves the invariant.
LEMMA UnprovenOpTimeout ==
  ASSUME UnprovenInv, OnceInv', NEW i \in DOMAIN ops, OpTimeout(i)
  PROVE  UnprovenInv'
<1>1. Resolve(i, ops[i].got, FALSE) /\ ops[i].stage # "done"
  BY DEF OpTimeout
<1>2. /\ ops[i].kind = "retry" => ops[i].got = {}
      /\ ops[i].stage = "offer" => ops[i].kind = "retry"
  BY DEF UnprovenInv, Processes, RetryAlone, RetryGood
<1>3. UNCHANGED <<conn, cliVars, steers, resends, taken, unproven, swept, toHub>>
  BY DEF OpTimeout, bounds, history
<1> QED
  BY <1>1, <1>2, <1>3, UnprovenResolve

\* An acknowledgement preserves the invariant.
LEMMA UnprovenHandleAck ==
  ASSUME UnprovenInv, OnceInv', NEW p \in Procs, NEW pkt, pkt \in Range(toHub[p]), RetryAck(pkt),
         pkt.t \in {"cancelAck", "retryAck"}, HandleAck(p, pkt),
         toHub[p] # <<>>, toHub' = [toHub EXCEPT ![p] = Tail(toHub[p])],
         UNCHANGED <<conn, cliVars, steers, resends, taken, unproven, swept>>
  PROVE  UnprovenInv'
<1>1. /\ TypeOK /\ row \in [Messages -> RowState] /\ toHub \in [Procs -> Seq(UpPacket)]
  BY LinkTypes DEF TypeOK, NetTypeOK
<1>2. \A q \in Procs : toHub'[q] = toHub[q] \/ (toHub[q] # <<>> /\ toHub'[q] = Tail(toHub[q]))
  BY <1>1
<1>3. PICK i : i = pkt.id
  OBVIOUS
<1>4. CASE UNCHANGED <<row, ops, toCli>>
  <2>1. Forward(row, row') /\ OpsForward
    BY <1>4 DEF Forward, OpsForward
  <2>2. HubMoves
    BY <1>2, <1>4, <2>1 DEF HubMoves
  <2> QED
    BY <1>4, <2>2, UnprovenHubStep, HubAlone, RetryKept DEF UnprovenInv, Processes
<1>5. ASSUME i \in DOMAIN ops, p \in ops[i].need,
             pkt.t = IF ops[i].stage = "ask" THEN "cancelAck" ELSE "retryAck",
             NEW op, op = [ops[i] EXCEPT !.need = @ \ {p}, !.got = @ \cup {pkt.st}]
      PROVE  /\ ops[i].stage # "done" /\ ops[i].need \in SUBSET Procs
             /\ op.kind = ops[i].kind /\ op.m = ops[i].m /\ op.stage = ops[i].stage
             /\ op.need = ops[i].need \ {p} /\ op.got = ops[i].got \cup {pkt.st}
             /\ ops[i].kind = "retry" =>
                  /\ op.need = {} /\ op.got = {pkt.st}
                  /\ ops[i].stage = "ask" => Room \subseteq {p}
  <2>1. ops[i] \in Op
    BY <1>1, <1>5, OpFields
  <2>2. ops[i].stage # "done"
    BY <1>5 DEF UnprovenInv, OnceInv, Parts, Requests, OpGood
  <2>3. /\ op.kind = ops[i].kind /\ op.m = ops[i].m /\ op.stage = ops[i].stage
        /\ op.need = ops[i].need \ {p} /\ op.got = ops[i].got \cup {pkt.st}
        /\ ops[i].need \in SUBSET Procs
    BY <1>5, <2>1 DEF Op
  <2>4. ASSUME ops[i].kind = "retry"
        PROVE  /\ op.need = {} /\ op.got = {pkt.st}
               /\ ops[i].stage = "ask" => Room \subseteq {p}
    <3>1. PICK q \in Procs : ops[i].need \subseteq {q} /\ (ops[i].stage = "ask" => Alone(q))
      BY <1>5, <2>4 DEF UnprovenInv, Processes, RetryAlone, RetryGood
    <3>2. q = p /\ ops[i].got = {}
      BY <1>5, <2>4, <3>1 DEF UnprovenInv, Processes, RetryAlone, RetryGood
    <3>3. op.need = {} /\ op.got = {pkt.st}
      BY <2>3, <3>1, <3>2
    <3> QED
      BY <3>1, <3>2, <3>3 DEF Alone
  <2> QED
    BY <2>2, <2>3, <2>4
<1>6. ASSUME i \in DOMAIN ops, p \in ops[i].need,
             pkt.t = IF ops[i].stage = "ask" THEN "cancelAck" ELSE "retryAck",
             NEW op, op = [ops[i] EXCEPT !.need = @ \ {p}, !.got = @ \cup {pkt.st}],
             Resolve(i, op.got, TRUE)
      PROVE  UnprovenInv'
  <2>1. ops[i].stage = "offer" => ops[i].kind = "retry" /\ op.got = {pkt.st}
    BY <1>5, <1>6 DEF UnprovenInv, Processes, RetryAlone, RetryGood
  <2>2. ops[i].stage = "offer" /\ "accepted" \in op.got => ~NoRequeue(p, ops[i].m)
    <3> SUFFICES ASSUME ops[i].stage = "offer", "accepted" \in op.got
                 PROVE  Requeues(pkt, ops[i].m)
      BY DEF NoRequeue
    <3>1. pkt.st = "accepted" /\ pkt.t = "retryAck"
      BY <1>6, <2>1
    <3> QED
      BY <1>3, <3>1 DEF RetryAck, Requeues
  <2>3. ops[i].kind = "retry" /\ ops[i].stage = "ask" => \E q \in Procs : Room \subseteq {q}
    BY <1>5, <1>6
  <2> QED
    BY <1>2, <1>5, <1>6, <2>2, <2>3, UnprovenResolve
<1>7. ASSUME i \in DOMAIN ops, p \in ops[i].need,
             pkt.t = IF ops[i].stage = "ask" THEN "cancelAck" ELSE "retryAck",
             NEW op, op = [ops[i] EXCEPT !.need = @ \ {p}, !.got = @ \cup {pkt.st}],
             op.need # {}, ops' = [ops EXCEPT ![i] = op], UNCHANGED <<row, toCli>>
      PROVE  UnprovenInv'
  <2>1. /\ op.kind = ops[i].kind /\ op.m = ops[i].m /\ op.stage = ops[i].stage
        /\ ops[i].kind # "retry"
    BY <1>5, <1>7
  <2>2. OpsForward
    <3>1. /\ DOMAIN ops' = DOMAIN ops /\ ops'[i] = op
          /\ \A j \in DOMAIN ops : j # i => ops'[j] = ops[j]
      BY <1>1, <1>7 DEF TypeOK, HubTypeOK
    <3> QED
      BY <2>1, <3>1 DEF OpsForward
  <2>3. Forward(row, row')
    BY <1>7 DEF Forward
  <2>4. HubMoves
    BY <1>2, <1>7, <2>2, <2>3 DEF HubMoves
  <2>5. op.stage = "offer" => op.kind = "retry"
    BY <1>7, <2>1 DEF UnprovenInv, Processes, RetryAlone, RetryGood
  <2>6. RetryAlone'
    BY <1>1, <1>7, <2>1, <2>4, <2>5, HubAlone, RetryReplaced DEF UnprovenInv, Processes
  <2> QED
    BY <2>4, <2>6, UnprovenHubStep
<1> QED
  BY <1>3, <1>4, <1>6, <1>7 DEF HandleAck

\* The steer-state request is answered on the link it came from.
LEMMA UnprovenSteerState ==
  ASSUME UnprovenInv, OnceInv', NEW p \in Procs, NEW pkt, pkt \in UpPacket, pkt.t = "steerState",
         toHub[p] # <<>>, pkt = Head(toHub[p]), toHub' = [toHub EXCEPT ![p] = Tail(toHub[p])],
         HandleSteerState(p, pkt),
         UNCHANGED <<conn, cliVars, steers, resends, taken, unproven, swept>>
  PROVE  UnprovenInv'
<1>1. /\ TypeOK /\ row \in [Messages -> RowState] /\ toHub \in [Procs -> Seq(UpPacket)]
      /\ toCli \in [Procs -> Seq(DownPacket)]
  BY LinkTypes DEF TypeOK, NetTypeOK
<1>2. \A q \in Procs : toHub'[q] = toHub[q] \/ (toHub[q] # <<>> /\ toHub'[q] = Tail(toHub[q]))
  BY <1>1
<1>3. pkt \in Range(toHub[p]) /\ toHub'[p] = Tail(toHub[p])
  BY <1>1, TailRange
<1>4. SteerId(pkt)
  BY <1>3 DEF UnprovenInv, Prompts, Ids
<1>5. pkt.st \in SteerState
  BY DEF UpPacket, Packet
<1>6. PICK x \in Messages : pkt.ms = {x}
  BY <1>4 DEF SteerId
<1>7. /\ row' = SetMessagesDeliveryState(row, pkt.ms, pkt.st) /\ UNCHANGED ops
  BY DEF HandleSteerState
<1>8. Forward(row, row')
  BY <1>1, <1>5, <1>7, StoreForward DEF SteerState, Uninvoked
<1>9. \A m \in Messages : row'[m] = "queued" =>
        row[m] \in {"none", "queued"} \/ \E q \in Procs : ~NoRequeue(q, m)
  <2> SUFFICES ASSUME NEW m \in Messages, row'[m] = "queued", row[m] # "queued"
               PROVE  ~NoRequeue(p, m)
    OBVIOUS
  <2>1. pkt.st = "queued" /\ m \in pkt.ms
    BY <1>1, <1>7, StoreQueues
  <2> QED
    BY <1>3, <2>1 DEF NoRequeue, Requeues
<1>10. PICK reply : reply = Pkt(IF StateChanges(row, pkt.ms, pkt.st) # {} THEN "steerOk" ELSE "steerNo",
                                pkt.ms, pkt.id, pkt.st)
  OBVIOUS
<1>11. /\ reply.ms = pkt.ms /\ reply.id = pkt.id /\ reply.st = pkt.st
       /\ reply.t \in {"steerOk", "steerNo"}
       /\ reply.t = "steerOk" => StateChanges(row, pkt.ms, pkt.st) # {}
  BY <1>10 DEF Pkt
<1>12. HubSays(p, reply)
  <2>1. SteerId(reply)
    BY <1>4, <1>11 DEF SteerId
  <2>2. ASSUME NEW m, Recorded(reply, m, reply.id)
        PROVE  row'[m] = "dispatching" /\ Dispatches(Head(toHub[p]), m, reply.id)
    <3>1. m = x /\ pkt.st = "dispatching" /\ StateChanges(row, {x}, pkt.st) # {}
      BY <1>6, <1>11, <2>2 DEF Recorded
    <3>2. x \in StateChanges(row, {x}, pkt.st)
      BY <3>1 DEF StateChanges
    <3>3. row'[m] = "dispatching"
      BY <1>6, <1>7, <3>1, <3>2 DEF SetMessagesDeliveryState
    <3> QED
      BY <1>11, <2>2, <3>3 DEF Recorded, Dispatches
  <2>3. reply.t # "new"
    BY <1>11
  <2> QED
    BY <1>3, <2>1, <2>2, <2>3 DEF HubSays
<1>13. \A q \in Procs : \A k \in Range(toCli'[q]) :
         k \in Range(toCli[q]) \/ (Listening(q) /\ HubSays(q, k))
  <2>1. CASE UNCHANGED toCli
    BY <2>1
  <2>2. CASE Listening(p) /\ toCli' = [toCli EXCEPT ![p] = Append(toCli[p], reply)]
    <3>1. \A k \in Range(toCli'[p]) : k \in Range(toCli[p]) \/ k = reply
      BY <1>1, <2>2 DEF Range
    <3>2. \A q \in Procs : q # p => toCli'[q] = toCli[q]
      BY <1>1, <2>2
    <3>3. \A k : k = reply => HubSays(p, k)
      BY <1>12
    <3> QED
      BY <2>2, <3>1, <3>2, <3>3
  <2>3. toCli' = IF Listening(p) THEN [toCli EXCEPT ![p] = Append(toCli[p], reply)] ELSE toCli
    BY <1>10 DEF HandleSteerState
  <2> QED
    BY <2>1, <2>2, <2>3
<1>14. OpsForward
  BY <1>7 DEF OpsForward
<1>15. HubMoves
  BY <1>2, <1>8, <1>9, <1>13, <1>14 DEF HubMoves
<1> QED
  BY <1>7, <1>15, UnprovenHubStep, HubAlone, RetryKept DEF UnprovenInv, Processes

\* HubReceive preserves the invariant.
LEMMA UnprovenHubReceive ==
  ASSUME UnprovenInv, OnceInv', NEW p \in Procs, HubReceive(p)
  PROVE  UnprovenInv'
<1>1. /\ TypeOK /\ row \in [Messages -> RowState] /\ toHub \in [Procs -> Seq(UpPacket)]
  BY LinkTypes DEF TypeOK, NetTypeOK
<1>2. PICK pkt : pkt = Head(toHub[p])
  OBVIOUS
<1>3. PICK queued : queued = ImmediateQueued(row, timing)
  OBVIOUS
<1>4. /\ toHub[p] # <<>> /\ toHub' = [toHub EXCEPT ![p] = Tail(toHub[p])]
      /\ UNCHANGED <<conn, cliVars, steers, resends, taken, unproven>>
      /\ swept' = IF pkt.t = "end" THEN swept \cup queued ELSE swept
  BY <1>2, <1>3 DEF HubReceive, bounds
<1>5. /\ pkt \in UpPacket /\ pkt \in Range(toHub[p])
      /\ \A q \in Procs : toHub'[q] = toHub[q] \/ (toHub[q] # <<>> /\ toHub'[q] = Tail(toHub[q]))
  BY <1>1, <1>2, <1>4, TailRange
<1>6. \A m \in queued : m \in Messages /\ row[m] = "queued"
  BY <1>3 DEF ImmediateQueued
<1>7. ASSUME UNCHANGED ops, UNCHANGED toCli \/ (toCli' = Broadcast(NewMessages(queued))),
             Forward(row, row'), \A m \in Messages : row'[m] = "queued" => row[m] = "queued",
             \A m \in swept' : m \in swept \/ (row[m] = "queued" /\ row'[m] = "invoked")
      PROVE  UnprovenInv'
  <2>1. \A q \in Procs : \A k \in Range(toCli'[q]) :
          k \in Range(toCli[q]) \/ (Listening(q) /\ HubSays(q, k))
    BY <1>1, <1>6, <1>7, ReplaySays
  <2>2. OpsForward
    BY <1>7 DEF OpsForward
  <2>3. HubMoves
    BY <1>4, <1>5, <1>7, <2>1, <2>2 DEF HubMoves
  <2> QED
    BY <1>7, <2>3, UnprovenHubStep, HubAlone, RetryKept DEF UnprovenInv, Processes
<1>8. CASE /\ pkt.t = "alive" /\ toCli' = Broadcast(NewMessages(queued))
           /\ UNCHANGED <<row, ops>>
  <2>1. Forward(row, row')
    BY <1>8 DEF Forward
  <2> QED
    BY <1>4, <1>7, <1>8, <2>1
<1>9. CASE /\ pkt.t = "consumed" /\ row' = MarkMessagesInvoked(row, pkt.ms)
           /\ UNCHANGED <<ops, toCli>>
  <2>1. Forward(row, row') /\ \A m \in Messages : row'[m] = "queued" => row[m] = "queued"
    BY <1>1, <1>9, StoreForward, StoreQueues
  <2> QED
    BY <1>4, <1>7, <1>9, <2>1
<1>10. CASE /\ pkt.t = "indeterminate"
            /\ row' = SetMessagesDeliveryState(row, pkt.ms, "indeterminate")
            /\ UNCHANGED <<ops, toCli>>
  <2>1. Forward(row, row')
    BY <1>1, <1>10, StoreForward DEF Uninvoked
  <2>2. \A m \in Messages : row'[m] = "queued" => row[m] = "queued"
    BY <1>1, <1>10, StoreQueues
  <2> QED
    BY <1>4, <1>7, <1>10, <2>1, <2>2
<1>11. CASE pkt.t = "steerState" /\ HandleSteerState(p, pkt)
  BY <1>2, <1>4, <1>5, <1>11, UnprovenSteerState
<1>12. CASE pkt.t \in {"cancelAck", "retryAck"} /\ HandleAck(p, pkt)
  <2>1. RetryAck(pkt)
    BY <1>5 DEF UnprovenInv, Prompts, RetryAcks
  <2>2. UNCHANGED swept
    BY <1>4, <1>12
  <2> QED
    BY <1>4, <1>5, <1>12, <2>1, <2>2, UnprovenHandleAck
<1>13. CASE /\ pkt.t = "end" /\ row' = MarkMessagesInvoked(row, queued)
            /\ UNCHANGED <<ops, toCli>>
  <2>1. Forward(row, row') /\ \A m \in Messages : row'[m] = "queued" => row[m] = "queued"
    BY <1>1, <1>13, StoreForward, StoreQueues
  <2>2. \A m \in queued : row'[m] = "invoked"
    BY <1>6, <1>13 DEF MarkMessagesInvoked, Uninvoked
  <2> QED
    BY <1>4, <1>6, <1>7, <1>13, <2>1, <2>2
<1> QED
  BY <1>2, <1>3, <1>8, <1>9, <1>10, <1>11, <1>12, <1>13 DEF HubReceive

---------------------------------------------------------------------------
(* The CLI.                                                                *)

\* What a process of the session may do.
CliMoves(p) ==
  /\ proc[p] = "up" /\ UNCHANGED <<row, ops, conn, proc, swept, resends>>
  /\ \A q \in Procs, m \in Messages : taken[q][m] > 0 => taken'[q][m] > 0
  /\ steers <= steers' /\ \A m \in Messages : attempt'[p][m] <= steers'
  /\ \A q \in Procs : q # p =>
       /\ toCli'[q] = toCli[q] /\ toHub'[q] = toHub[q] /\ held'[q] = held[q]
       /\ backfill'[q] = backfill[q] /\ seen'[q] = seen[q] /\ attempt'[q] = attempt[q]
  /\ Range(toCli'[p]) \subseteq Range(toCli[p])
  /\ \A k \in Range(toHub'[p]) : k \in Range(toHub[p]) \/
       (RetryAck(k) /\ (k.t = "steerState" => k.id <= steers' /\ \E m \in Messages : k.ms = {m}))

\* Its steps keep prompts where they are, when they do so for its own.
LEMMA CliKeeps ==
  ASSUME UnprovenInv, OnceInv', NEW p \in Procs, CliMoves(p),
         \A m \in unproven' : resends = 0 /\ ~Took(m)' => Safe(m) /\ Quiescent(p, m)',
         \A m \in Messages :
           resends = 0 /\ held'[p][m] = "persisting" /\ ~Took(m) => Undisturbed(p, m)'
  PROVE  UnprovenInv'
<1>1. /\ TypeOK /\ steers \in Nat /\ steers' \in Nat
      /\ \A q \in Procs, m \in Messages : attempt[q][m] \in Nat
  BY DEF UnprovenInv, OnceInv, DeliveryInv, TypeOK, BoundsTypeOK, CliTypeOK
<1>2. \A q \in Procs : q # p => proc[q] # "up" /\ toHub[q] = <<>>
  BY DEF CliMoves, UnprovenInv, Processes, OneUp
<1>3. \A q \in Procs : q # p =>
        toCli[q] = <<>> /\ backfill[q].ms = {} /\ \A m \in Messages : held[q][m] = "none"
  BY <1>2 DEF UnprovenInv, Processes, Quiet
<1>4. \A m \in Messages : Took(m) => Took(m)'
  BY DEF Took, CliMoves
<1>5. \A m : Safe(m)' = Safe(m)
  BY DEF Safe, CliMoves
<1>6. Quiet' /\ OneUp' /\ ConnOld'
  BY <1>2, QuietKept DEF CliMoves, UnprovenInv, Processes
<1>7. RetryAlone'
  <2>1. UNCHANGED proc /\ Room' \subseteq Room
    BY DEF CliMoves, Room
  <2>2. \A q \in Procs : toHub[q] = <<>> /\ proc[q] # "up" => toHub'[q] = <<>>
    BY DEF CliMoves
  <2>3. \A q \in Procs : Alone(q) => Alone(q)'
    BY <2>1, <2>2, AloneKept
  <2> QED
    BY <2>3, RetryKept DEF CliMoves, UnprovenInv, Processes
<1>8. IsFiniteSet(Room)'
  BY DEF CliMoves, UnprovenInv, Processes, Room
<1>9. Unproven'
  <2> SUFFICES ASSUME resends' = 0, NEW m \in unproven', ~Took(m)'
               PROVE  Safe(m)' /\ \A q \in Procs : Quiescent(q, m)'
    BY DEF Unproven
  <2>1. Safe(m) /\ Quiescent(p, m)' /\ m \in Messages
    BY DEF CliMoves, OnceInv, DeliveryInv, TypeOK, HistoryTypeOK
  <2>2. ASSUME NEW q \in Procs, q # p
        PROVE  Quiescent(q, m)'
    <3>1. /\ toCli'[q] = <<>> /\ toHub'[q] = <<>> /\ backfill'[q].ms = {} /\ held'[q][m] = "none"
      BY <1>2, <1>3, <2>1, <2>2 DEF CliMoves
    <3> QED
      BY <3>1 DEF Quiescent, NoRequeue, NotNew, Range
  <2> QED
    BY <1>5, <2>1, <2>2
<1>10. Persisting'
  <2> SUFFICES ASSUME resends' = 0, NEW q \in Procs, NEW m \in Messages,
                      held'[q][m] = "persisting", ~Took(m)'
               PROVE  Undisturbed(q, m)'
    BY DEF Persisting
  <2>1. q = p
    BY <1>3 DEF CliMoves
  <2>2. resends = 0 /\ ~Took(m)
    BY <1>4 DEF CliMoves
  <2> QED
    BY <2>1, <2>2
<1>11. Ids'
  <2>1. ASSUME NEW q \in Procs
        PROVE  /\ \A m \in Messages : attempt'[q][m] <= steers'
               /\ \A k \in Range(toHub'[q]) : k.t = "steerState" => SteerId(k)'
               /\ \A k \in Range(toCli'[q]) : k.t \in {"steerOk", "steerNo"} => SteerId(k)'
    <3>1. \A m \in Messages : attempt'[q][m] <= steers'
      <4>1. \A m \in Messages : attempt[q][m] <= steers
        BY DEF UnprovenInv, Prompts, Ids
      <4> QED
        BY <1>1, <4>1 DEF CliMoves
    <3>2. ASSUME NEW k, SteerId(k), k.id \in Nat
          PROVE  SteerId(k)'
      BY <1>1, <3>2 DEF SteerId, CliMoves
    <3>3. \A k \in Range(toHub[q]) \cup Range(toCli[q]) : k.id \in Nat
      <4>1. /\ toHub[q] \in Seq(UpPacket) /\ toCli[q] \in Seq(DownPacket)
        BY LinkTypes
      <4>2. \A k \in UpPacket \cup DownPacket : k.id \in Nat
        BY DEF UpPacket, DownPacket, Packet
      <4> QED
        BY <4>1, <4>2 DEF Range
    <3>4. ASSUME NEW k \in Range(toHub'[q]), k.t = "steerState"
          PROVE  SteerId(k)'
      <4>1. CASE k \in Range(toHub[q])
        BY <3>2, <3>3, <3>4, <4>1 DEF UnprovenInv, Prompts, Ids
      <4>2. CASE k \notin Range(toHub[q])
        BY <3>4, <4>2 DEF CliMoves, SteerId
      <4> QED
        BY <4>1, <4>2
    <3>5. ASSUME NEW k \in Range(toCli'[q]), k.t \in {"steerOk", "steerNo"}
          PROVE  SteerId(k)'
      <4>1. k \in Range(toCli[q])
        BY <3>5 DEF CliMoves
      <4> QED
        BY <3>2, <3>3, <3>5, <4>1 DEF UnprovenInv, Prompts, Ids
    <3> QED
      BY <3>1, <3>4, <3>5
  <2> QED
    BY <2>1 DEF Ids
<1>12. RetryAcks'
  <2>1. \A k : RetryAck(k)' = RetryAck(k)
    BY DEF RetryAck, CliMoves
  <2> QED
    BY <2>1 DEF RetryAcks, CliMoves, UnprovenInv, Prompts
<1>13. SweptInvoked'
  BY DEF SweptInvoked, CliMoves, UnprovenInv, Prompts
<1> QED
  BY <1>6, <1>7, <1>8, <1>9, <1>10, <1>11, <1>12, <1>13 DEF UnprovenInv, Processes, Prompts

\* What may change at the process without touching the others.
OnlyAt(p) ==
  \A q \in Procs : q # p =>
    /\ toCli'[q] = toCli[q] /\ toHub'[q] = toHub[q] /\ held'[q] = held[q]
    /\ backfill'[q] = backfill[q] /\ seen'[q] = seen[q]

\* A message that is out of p's queue stays out of it.
LEMMA QuiescentKept ==
  ASSUME NEW p \in Procs, NEW m \in Messages, Safe(m), Quiescent(p, m),
         held'[p][m] \in {"none", "native", "indeterminate"},
         \A k \in Range(toHub'[p]) : k \in Range(toHub[p]) \/ ~Requeues(k, m),
         seen[p] \subseteq seen'[p], Range(toCli'[p]) \subseteq Range(toCli[p]),
         \A x \in backfill'[p].ms : x \in backfill[p].ms \/ row[x] \in {"queued", "invoked"}
  PROVE  Quiescent(p, m)'
<1>1. NoRequeue(p, m)'
  BY DEF Quiescent, NoRequeue
<1>2. NotNew(p, m) => NotNew(p, m)'
  BY DEF NotNew, Safe
<1> QED
  BY <1>1, <1>2 DEF Quiescent

\* A recorded dispatch stays so while p emits nothing that undoes it.
LEMMA UndisturbedKept ==
  ASSUME UnprovenInv, NEW p \in Procs, NEW m \in Messages, Undisturbed(p, m),
         attempt'[p][m] = attempt[p][m], UNCHANGED row,
         Range(toCli'[p]) \subseteq Range(toCli[p]), NEW k,
         toHub'[p] = toHub[p] \/ (toHub'[p] = Append(toHub[p], k) /\ ~Requeues(k, m))
  PROVE  Undisturbed(p, m)'
<1>1. PICK s \in Seq(UpPacket) : s = toHub[p]
  BY LinkTypes
<1>2. PICK id : id = attempt[p][m] /\ id = attempt'[p][m]
  OBVIOUS
<1>3. Clear(s, m, id)
  BY <1>1, <1>2 DEF Undisturbed
<1>4. Clear(toHub'[p], m, id)
  BY <1>1, <1>3, ClearAppend
<1>5. \A x \in Range(toHub'[p]) : x \in Range(toHub[p]) \/ ~Requeues(x, m)
  <2>1. Range(Append(s, k)) \subseteq Range(s) \cup {k}
    BY DEF Range
  <2> QED
    BY <1>1, <2>1
<1>6. NoRequeue(p, m) => NoRequeue(p, m)'
  BY <1>5 DEF NoRequeue
<1>7. Safe(m) => Safe(m)'
  BY DEF Safe
<1> QED
  BY <1>2, <1>4, <1>6, <1>7 DEF Undisturbed

\* A step that emits at most one packet and brings no prompt of unknown outcome into the queue.
LEMMA CliEmits ==
  ASSUME UnprovenInv, OnceInv', NEW p \in Procs, NEW k, proc[p] = "up",
         UNCHANGED <<row, ops, conn, proc, swept, resends, steers, attempt>>,
         \A q \in Procs, m \in Messages : taken[q][m] > 0 => taken'[q][m] > 0,
         OnlyAt(p), Range(toCli'[p]) \subseteq Range(toCli[p]), seen[p] \subseteq seen'[p],
         \A x \in backfill'[p].ms : x \in backfill[p].ms \/ row[x] \in {"queued", "invoked"},
         UNCHANGED toHub \/ Emit(p, k), RetryAck(k),
         k.t = "steerState" => \E m \in Messages : k.ms = {m} /\ k.id = attempt[p][m],
         \A m \in unproven' :
           m \in unproven /\
           (Safe(m) /\ Quiescent(p, m) =>
              held'[p][m] \in {"none", "native", "indeterminate"} /\ ~Requeues(k, m)),
         \A m \in Messages :
           held'[p][m] = "persisting" => held[p][m] = "persisting" /\ ~Requeues(k, m)
  PROVE  UnprovenInv'
<1>1. toHub \in [Procs -> Seq(UpPacket)] /\ unproven \in SUBSET Messages
  BY LinkTypes DEF TypeOK, NetTypeOK, HistoryTypeOK
<1>2. toHub'[p] = toHub[p] \/ toHub'[p] = Append(toHub[p], k)
  BY <1>1 DEF Emit
<1>3. \A x \in Range(toHub'[p]) : x \in Range(toHub[p]) \/ x = k
  <2>1. Range(Append(toHub[p], k)) \subseteq Range(toHub[p]) \cup {k}
    BY <1>1 DEF Range
  <2> QED
    BY <1>2, <2>1
<1>4. \A m \in Messages : attempt[p][m] <= steers
  BY DEF UnprovenInv, Prompts, Ids
<1>5. CliMoves(p)
  <2>1. steers <= steers' /\ \A m \in Messages : attempt'[p][m] <= steers'
    BY <1>4 DEF UnprovenInv, OnceInv, DeliveryInv, TypeOK, BoundsTypeOK
  <2>2. \A x \in Range(toHub'[p]) : x \in Range(toHub[p]) \/
          (RetryAck(x) /\ (x.t = "steerState" => x.id <= steers' /\ \E m \in Messages : x.ms = {m}))
    BY <1>3, <1>4
  <2> QED
    BY <2>1, <2>2 DEF CliMoves, OnlyAt
<1>6. ASSUME NEW m \in unproven', resends = 0, ~Took(m)'
      PROVE  Safe(m) /\ Quiescent(p, m)'
  <2>1. m \in Messages /\ m \in unproven /\ ~Took(m)
    BY <1>1, <1>6 DEF Took
  <2>2. Safe(m) /\ Quiescent(p, m)
    BY <1>6, <2>1 DEF UnprovenInv, Prompts, Unproven
  <2>3. held'[p][m] \in {"none", "native", "indeterminate"} /\ ~Requeues(k, m)
    BY <2>2
  <2> QED
    BY <1>3, <2>1, <2>2, <2>3, QuiescentKept
<1>7. ASSUME NEW m \in Messages, resends = 0, held'[p][m] = "persisting", ~Took(m)
      PROVE  Undisturbed(p, m)'
  <2>1. Undisturbed(p, m)
    BY <1>7 DEF UnprovenInv, Prompts, Persisting
  <2>2. ~Requeues(k, m)
    BY <1>7
  <2> QED
    BY <1>2, <2>1, <2>2, UndisturbedKept
<1> QED
  BY <1>5, <1>6, <1>7, CliKeeps

\* Most packets of a process requeue nothing.
LEMMA PlainPkt ==
  ASSUME NEW t \in {"alive", "consumed", "indeterminate", "end", "cancelAck"},
         NEW ms, NEW id, NEW st, NEW k, k = Pkt(t, ms, id, st)
  PROVE  RetryAck(k) /\ k.t # "steerState" /\ \A m : ~Requeues(k, m)
BY DEF RetryAck, Requeues, Pkt

\* The variables of the CLIs and their links are functions of the process.
LEMMA CliTypes ==
  ASSUME UnprovenInv
  PROVE  /\ held \in [Procs -> [Messages -> Held]] /\ seen \in [Procs -> SUBSET Messages]
         /\ taken \in [Procs -> [Messages -> Nat]] /\ attempt \in [Procs -> [Messages -> Nat]]
         /\ toHub \in [Procs -> Seq(UpPacket)] /\ toCli \in [Procs -> Seq(DownPacket)]
         /\ backfill \in [Procs -> [st : {"fresh", "idle", "due", "got"}, ms : SUBSET Messages]]
         /\ unproven \in SUBSET Messages /\ steers \in Nat
BY DEF UnprovenInv, OnceInv, DeliveryInv, TypeOK, NetTypeOK, CliTypeOK, HistoryTypeOK, BoundsTypeOK

\* Collect preserves the invariant.
LEMMA UnprovenCollect ==
  ASSUME UnprovenInv, OnceInv', NEW p \in Procs, NEW ms \in SUBSET Messages, Collect(p, ms)
  PROVE  UnprovenInv'
<1>1. PICK k : k = Pkt("consumed", ms, 0, "nil")
  OBVIOUS
<1>2. RetryAck(k) /\ k.t # "steerState" /\ \A m : ~Requeues(k, m)
  BY <1>1, PlainPkt
<1>3. /\ proc[p] = "up" /\ Emit(p, k)
      /\ UNCHANGED <<row, ops, conn, proc, swept, resends, steers, attempt, toCli, seen,
                     backfill, unproven>>
  BY <1>1 DEF Collect, hubVars, bounds
<1>4. \A q \in Procs, m \in Messages : taken[q][m] > 0 => taken'[q][m] > 0
  BY CliTypes DEF Collect
<1>5. OnlyAt(p)
  BY <1>3, CliTypes DEF OnlyAt, Emit, Collect
<1>6. \A m \in Messages : held'[p][m] = IF m \in ms THEN "none" ELSE held[p][m]
  BY CliTypes DEF Collect
<1>7. \A m \in Messages : m \in ms => held[p][m] = "pending"
  BY DEF Collect
<1>8. \A m \in unproven' :
        m \in unproven /\
        (Safe(m) /\ Quiescent(p, m) =>
           held'[p][m] \in {"none", "native", "indeterminate"} /\ ~Requeues(k, m))
  BY <1>2, <1>3, <1>6, CliTypes DEF Quiescent
<1> QED
  BY <1>2, <1>3, <1>4, <1>5, <1>6, <1>8, CliEmits

\* Steps of p that move one message among places where no prompt of unknown outcome is.
LEMMA UnprovenMove ==
  ASSUME UnprovenInv, OnceInv', NEW p \in Procs, NEW m \in Messages, NEW h \in Held, NEW k,
         proc[p] = "up", held' = [held EXCEPT ![p][m] = h],
         UNCHANGED <<row, ops, conn, proc, swept, resends, steers, attempt, backfill>>,
         \A q \in Procs, x \in Messages : taken[q][x] > 0 => taken'[q][x] > 0,
         UNCHANGED toCli \/ (toCli[p] # <<>> /\ toCli' = [toCli EXCEPT ![p] = Tail(toCli[p])]),
         UNCHANGED seen \/ seen' = [seen EXCEPT ![p] = @ \cup {m}],
         UNCHANGED toHub \/ Emit(p, k), RetryAck(k),
         k.t = "steerState" => k.ms = {m} /\ k.id = attempt[p][m],
         unproven' \subseteq unproven, \A x : Requeues(k, x) => x = m,
         m \in unproven' /\ Quiescent(p, m) =>
           h \in {"none", "native", "indeterminate"} /\ ~Requeues(k, m),
         h # "persisting"
  PROVE  UnprovenInv'
<1>1. \A x \in Messages : held'[p][x] = IF x = m THEN h ELSE held[p][x]
  BY CliTypes
<1>2. Range(toCli'[p]) \subseteq Range(toCli[p])
  <2>1. toCli[p] # <<>> => Range(Tail(toCli[p])) \subseteq Range(toCli[p])
    BY CliTypes, TailRange
  <2> QED
    BY <2>1, CliTypes
<1>3. OnlyAt(p)
  BY CliTypes DEF OnlyAt, Emit
<1>4. \A x \in unproven' :
        x \in unproven /\
        (Safe(x) /\ Quiescent(p, x) =>
           held'[p][x] \in {"none", "native", "indeterminate"} /\ ~Requeues(k, x))
  <2>1. \A x \in unproven : Quiescent(p, x) => held[p][x] \in {"none", "native", "indeterminate"}
    BY DEF Quiescent
  <2> QED
    BY <1>1, <2>1, CliTypes
<1>5. \A x \in Messages :
        held'[p][x] = "persisting" => held[p][x] = "persisting" /\ ~Requeues(k, x)
  BY <1>1
<1>6. seen[p] \subseteq seen'[p]
  BY CliTypes
<1> QED
  BY <1>2, <1>3, <1>4, <1>5, <1>6, CliEmits

\* SteerCompleted preserves the invariant.
LEMMA UnprovenSteerCompleted ==
  ASSUME UnprovenInv, OnceInv', NEW p \in Procs, NEW m \in Messages, SteerCompleted(p, m)
  PROVE  UnprovenInv'
<1>1. PICK k : k = Pkt("consumed", {m}, 0, "nil")
  OBVIOUS
<1>2. RetryAck(k) /\ k.t # "steerState" /\ \A x : ~Requeues(k, x)
  BY <1>1, PlainPkt
<1>3. /\ proc[p] = "up" /\ Emit(p, k) /\ held' = [held EXCEPT ![p][m] = "committed"]
      /\ UNCHANGED <<row, ops, conn, proc, swept, resends, steers, attempt, backfill, toCli, seen>>
      /\ unproven' = unproven \ {m} /\ "committed" \in Held
  BY <1>1 DEF SteerCompleted, hubVars, bounds, Held
<1>4. \A q \in Procs, x \in Messages : taken[q][x] > 0 => taken'[q][x] > 0
  BY CliTypes DEF SteerCompleted
<1> QED
  BY <1>2, <1>3, <1>4, UnprovenMove

\* RestoreQueued and Hold preserve it, where m is not of unknown outcome.
LEMMA UnprovenUndo ==
  ASSUME UnprovenInv, OnceInv', NEW p \in Procs, NEW m \in Messages, proc[p] = "up",
         \/ Hold(p, m)
         \/ RestoreQueued(p, m) /\ (m \notin unproven' \/ ~Quiescent(p, m)),
         UNCHANGED <<row, ops, conn, proc, swept, resends, steers, attempt, backfill, taken, seen>>,
         UNCHANGED toCli \/ (toCli[p] # <<>> /\ toCli' = [toCli EXCEPT ![p] = Tail(toCli[p])]),
         unproven' \subseteq unproven
  PROVE  UnprovenInv'
<1>1. {"indeterminate", "restoring"} \subseteq Held
  BY DEF Held, Dispatching
<1>2. CASE Hold(p, m)
  <2>1. PICK k : k = Pkt("indeterminate", {m}, 0, "nil")
    OBVIOUS
  <2>2. RetryAck(k) /\ k.t # "steerState" /\ \A x : ~Requeues(k, x)
    BY <2>1, PlainPkt
  <2> QED
    BY <1>1, <1>2, <2>1, <2>2, UnprovenMove DEF Hold
<1>3. CASE RestoreQueued(p, m) /\ (m \notin unproven' \/ ~Quiescent(p, m))
  <2>1. PICK id : id = attempt[p][m]
    OBVIOUS
  <2>2. PICK k : k = Pkt("steerState", {m}, id, "queued")
    OBVIOUS
  <2>3. /\ RetryAck(k) /\ k.t = "steerState" /\ k.ms = {m} /\ k.id = id
        /\ \A x : Requeues(k, x) => x = m
    BY <2>2 DEF RetryAck, Requeues, Pkt
  <2>4. PICK h \in {"indeterminate", "restoring"} :
          held' = [held EXCEPT ![p][m] = h] /\ (UNCHANGED toHub \/ Emit(p, k))
    BY <1>3, <2>1, <2>2 DEF RestoreQueued
  <2> QED
    BY <1>1, <1>3, <2>1, <2>3, <2>4, UnprovenMove
<1> QED
  BY <1>2, <1>3

\* SteerRejected preserves the invariant.
LEMMA UnprovenSteerRejected ==
  ASSUME UnprovenInv, OnceInv', NEW p \in Procs, NEW m \in Messages, SteerRejected(p, m)
  PROVE  UnprovenInv'
BY UnprovenUndo DEF SteerRejected, hubVars, bounds

\* SteerUnknown preserves the invariant.
LEMMA UnprovenSteerUnknown ==
  ASSUME UnprovenInv, OnceInv', NEW p \in Procs, NEW m \in Messages, SteerUnknown(p, m)
  PROVE  UnprovenInv'
<1>1. /\ Hold(p, m) /\ proc[p] = "up"
      /\ UNCHANGED <<row, ops, conn, proc, swept, resends, steers, attempt, backfill, taken, seen,
                     toCli, unproven>>
  BY DEF SteerUnknown, hubVars, bounds, history
<1> QED
  BY <1>1, UnprovenUndo

\* Steps of p that emit at most an event, and queue messages that are new to it.
LEMMA UnprovenQuiet ==
  ASSUME UnprovenInv, OnceInv', NEW p \in Procs, proc[p] = "up",
         UNCHANGED <<row, ops, conn, proc, swept, resends, steers, attempt, taken, unproven>>,
         OnlyAt(p), UNCHANGED toHub \/ Emit(p, Pkt("alive", {}, 0, "nil")),
         Range(toCli'[p]) \subseteq Range(toCli[p]), seen[p] \subseteq seen'[p],
         \A x \in backfill'[p].ms : x \in backfill[p].ms \/ row[x] \in {"queued", "invoked"},
         \A m \in Messages :
           \/ held'[p][m] \in {held[p][m], "none"}
           \/ held'[p][m] = "pending" /\ m \notin seen[p] /\ ~NotNew(p, m)
  PROVE  UnprovenInv'
<1>1. PICK k : k = Pkt("alive", {}, 0, "nil")
  OBVIOUS
<1>2. RetryAck(k) /\ k.t # "steerState" /\ \A m : ~Requeues(k, m)
  BY <1>1, PlainPkt
<1>3. \A m \in unproven' :
        m \in unproven /\
        (Safe(m) /\ Quiescent(p, m) =>
           held'[p][m] \in {"none", "native", "indeterminate"} /\ ~Requeues(k, m))
  <2>1. \A m \in unproven' : m \in Messages /\ m \in unproven
    BY CliTypes
  <2> QED
    BY <1>2, <2>1 DEF Quiescent
<1>4. \A m \in Messages :
        held'[p][m] = "persisting" => held[p][m] = "persisting" /\ ~Requeues(k, m)
  BY <1>2
<1>5. \A q \in Procs, m \in Messages : taken[q][m] > 0 => taken'[q][m] > 0
  OBVIOUS
<1>6. UNCHANGED toHub \/ Emit(p, k)
  BY <1>1
<1> QED
  BY <1>2, <1>3, <1>4, <1>5, <1>6, CliEmits

\* Abort preserves the invariant.
LEMMA UnprovenAbort ==
  ASSUME UnprovenInv, OnceInv', NEW p \in Procs, Abort(p)
  PROVE  UnprovenInv'
<1>1. /\ proc[p] = "up"
      /\ UNCHANGED <<row, ops, conn, proc, swept, resends, steers, attempt, taken, unproven,
                     toHub, toCli, seen, backfill>>
  BY DEF Abort, hubVars, netVars, history
<1>2. \A m \in Messages : held'[p][m] \in {held[p][m], "none"}
  BY CliTypes DEF Abort
<1>3. OnlyAt(p)
  BY <1>1, CliTypes DEF OnlyAt, Abort
<1> QED
  BY <1>1, <1>2, <1>3, UnprovenQuiet

\* KeepAlive preserves the invariant.
LEMMA UnprovenKeepAlive ==
  ASSUME UnprovenInv, OnceInv', NEW p \in Procs, KeepAlive(p)
  PROVE  UnprovenInv'
<1>1. /\ proc[p] = "up" /\ Emit(p, Pkt("alive", {}, 0, "nil"))
      /\ UNCHANGED <<row, ops, conn, proc, swept, resends, steers, attempt, taken, unproven,
                     toCli, seen, backfill, held>>
  BY DEF KeepAlive, Listening, hubVars, cliVars, bounds, history
<1>2. OnlyAt(p)
  BY <1>1, CliTypes DEF OnlyAt, Emit
<1> QED
  BY <1>1, <1>2, UnprovenQuiet

\* FetchBackfill preserves the invariant: it reads queued and stamped rows only.
LEMMA UnprovenFetchBackfill ==
  ASSUME UnprovenInv, OnceInv', NEW p \in Procs, FetchBackfill(p)
  PROVE  UnprovenInv'
<1>1. /\ proc[p] = "up"
      /\ UNCHANGED <<row, ops, conn, proc, swept, resends, steers, attempt, taken, unproven,
                     toHub, toCli, seen, held>>
  BY DEF FetchBackfill, hubVars, netVars, bounds, history
<1>2. \A q \in Procs : q # p => backfill'[q] = backfill[q]
  BY CliTypes DEF FetchBackfill
<1>3. \A x \in backfill'[p].ms : x \in backfill[p].ms \/ row[x] \in {"queued", "invoked"}
  <2>1. CASE backfill' = [backfill EXCEPT ![p] =
               [st |-> "got", ms |-> DeliverableAfter(row, timing, seq, cursor[p])]]
    <3>1. backfill'[p].ms = DeliverableAfter(row, timing, seq, cursor[p])
      BY <2>1, CliTypes
    <3> QED
      BY <3>1 DEF DeliverableAfter
  <2>2. CASE backfill' = [backfill EXCEPT ![p].st = "idle"]
    BY <2>2, CliTypes
  <2> QED
    BY <2>1, <2>2 DEF FetchBackfill
<1>4. OnlyAt(p)
  BY <1>1, <1>2 DEF OnlyAt
<1> QED
  BY <1>1, <1>3, <1>4, UnprovenQuiet

\* What the filter lets through is new.
LEMMA AcceptHeld ==
  ASSUME UnprovenInv, NEW p \in Procs, NEW ms, Accept(p, ms)
  PROVE  /\ \A q \in Procs : q # p => held'[q] = held[q] /\ seen'[q] = seen[q]
         /\ seen[p] \subseteq seen'[p]
         /\ \A m \in Messages :
              held'[p][m] = held[p][m] \/ (held'[p][m] = "pending" /\ m \in ms /\ m \notin seen[p])
<1>1. /\ held' = [held EXCEPT ![p] = [m \in Messages |-> IF m \in ms \ seen[p] THEN "pending" ELSE @[m]]]
      /\ seen' = [seen EXCEPT ![p] = @ \cup ms]
  BY DEF Accept
<1> QED
  BY <1>1, CliTypes

\* ApplyBackfill preserves the invariant.
LEMMA UnprovenApplyBackfill ==
  ASSUME UnprovenInv, OnceInv', NEW p \in Procs, ApplyBackfill(p)
  PROVE  UnprovenInv'
<1>1. /\ proc[p] = "up" /\ Accept(p, backfill[p].ms)
      /\ backfill' = [backfill EXCEPT ![p] = [st |-> "idle", ms |-> {}]]
      /\ UNCHANGED <<row, ops, conn, proc, swept, resends, steers, attempt, taken, unproven,
                     toHub, toCli>>
  BY DEF ApplyBackfill, hubVars, netVars, bounds, history
<1>2. backfill'[p].ms = {} /\ \A q \in Procs : q # p => backfill'[q] = backfill[q]
  BY <1>1, CliTypes
<1>3. /\ \A q \in Procs : q # p => held'[q] = held[q] /\ seen'[q] = seen[q]
      /\ seen[p] \subseteq seen'[p]
      /\ \A m \in Messages : held'[p][m] = held[p][m] \/
           (held'[p][m] = "pending" /\ m \in backfill[p].ms /\ m \notin seen[p])
  BY <1>1, AcceptHeld
<1>4. OnlyAt(p)
  BY <1>1, <1>2, <1>3 DEF OnlyAt
<1> QED
  BY <1>1, <1>2, <1>3, <1>4, UnprovenQuiet DEF NotNew

\* Steer preserves the invariant: the number of the new dispatch is on no link.
LEMMA UnprovenSteer ==
  ASSUME UnprovenInv, OnceInv', NEW p \in Procs, NEW m \in Messages, Steer(p, m)
  PROVE  UnprovenInv'
<1>1. PICK k : k = Pkt("steerState", {m}, steers + 1, "dispatching")
  OBVIOUS
<1>2. /\ RetryAck(k) /\ k.ms = {m} /\ k.id = steers + 1 /\ \A x : ~Requeues(k, x)
  BY <1>1 DEF RetryAck, Requeues, Pkt
<1>3. /\ proc[p] = "up" /\ held[p][m] \in {"pending", "indeterminate"}
      /\ held' = [held EXCEPT ![p][m] = "persisting"]
      /\ attempt' = [attempt EXCEPT ![p][m] = steers + 1] /\ steers' = steers + 1
      /\ unproven' = IF held[p][m] = "indeterminate" THEN unproven \ {m} ELSE unproven
      /\ Emit(p, k)
      /\ UNCHANGED <<row, ops, conn, proc, swept, resends, taken, toCli, seen, backfill>>
  BY <1>1 DEF Steer, Listening, hubVars
<1>4. \A x \in Messages :
        /\ held'[p][x] = IF x = m THEN "persisting" ELSE held[p][x]
        /\ attempt'[p][x] = IF x = m THEN steers + 1 ELSE attempt[p][x]
  BY <1>3, CliTypes
<1>5. /\ toHub'[p] = Append(toHub[p], k)
      /\ \A x \in Range(toHub'[p]) : x \in Range(toHub[p]) \/ x = k
  <2>1. toHub'[p] = Append(toHub[p], k)
    BY <1>3, CliTypes DEF Emit
  <2>2. Range(Append(toHub[p], k)) \subseteq Range(toHub[p]) \cup {k}
    BY CliTypes DEF Range
  <2> QED
    BY <2>1, <2>2
<1>6. CliMoves(p)
  <2>1. \A x \in Messages : attempt[p][x] <= steers
    BY DEF UnprovenInv, Prompts, Ids
  <2>2. steers <= steers' /\ \A x \in Messages : attempt'[p][x] <= steers'
    BY <1>3, <1>4, <2>1, CliTypes
  <2>3. \A q \in Procs : q # p =>
          /\ toCli'[q] = toCli[q] /\ toHub'[q] = toHub[q] /\ held'[q] = held[q]
          /\ backfill'[q] = backfill[q] /\ seen'[q] = seen[q] /\ attempt'[q] = attempt[q]
    BY <1>3, CliTypes DEF Emit
  <2>4. \A x \in Range(toHub'[p]) : x \in Range(toHub[p]) \/
          (RetryAck(x) /\ (x.t = "steerState" => x.id <= steers' /\ \E y \in Messages : x.ms = {y}))
    <3>1. k.id <= steers' /\ \E y \in Messages : k.ms = {y}
      BY <1>2, <1>3, CliTypes
    <3> QED
      BY <1>2, <1>5, <3>1
  <2> QED
    BY <1>3, <2>2, <2>3, <2>4 DEF CliMoves
<1>7. ASSUME NEW x \in unproven', resends = 0, ~Took(x)'
      PROVE  Safe(x) /\ Quiescent(p, x)'
  <2>1. x \in Messages /\ x \in unproven /\ ~Took(x)
    BY <1>3, <1>7, CliTypes DEF Took
  <2>2. Safe(x) /\ Quiescent(p, x)
    BY <1>7, <2>1 DEF UnprovenInv, Prompts, Unproven
  <2>3. x # m
    BY <1>3, <1>7, <2>2 DEF Quiescent
  <2>4. held'[p][x] \in {"none", "native", "indeterminate"}
    BY <1>4, <2>1, <2>2, <2>3 DEF Quiescent
  <2>5. \A y \in Range(toHub'[p]) : y \in Range(toHub[p]) \/ ~Requeues(y, x)
    BY <1>2, <1>5
  <2> QED
    BY <1>3, <2>1, <2>2, <2>4, <2>5, QuiescentKept
<1>8. ASSUME NEW x \in Messages, resends = 0, held'[p][x] = "persisting", ~Took(x)
      PROVE  Undisturbed(p, x)'
  <2>1. CASE x # m
    <3>1. Undisturbed(p, x) /\ attempt'[p][x] = attempt[p][x]
      BY <1>4, <1>8, <2>1 DEF UnprovenInv, Prompts, Persisting
    <3>2. ~Requeues(k, x)
      BY <1>2
    <3> QED
      BY <1>3, <1>5, <3>1, <3>2, UndisturbedKept
  <2>2. CASE x = m
    <3>1. PICK s \in Seq(UpPacket) : s = toHub[p]
      BY CliTypes
    <3>2. PICK id : id = steers + 1 /\ id = attempt'[p][m]
      BY <1>4
    <3>3. ~(id <= steers)
      BY <3>2, CliTypes
    <3>4. \A j \in Range(s) : ~Dispatches(j, m, id)
      BY <3>1, <3>3 DEF Dispatches, SteerId, UnprovenInv, Prompts, Ids
    <3>5. Clear(s, m, id)
      BY <3>4 DEF Clear, Range
    <3>6. Clear(Append(s, k), m, id)
      BY <3>4, <3>5, ClearAppend
    <3>7. \A j \in Range(toCli'[p]) : ~Recorded(j, m, id)
      BY <1>3, <3>3 DEF Recorded, SteerId, UnprovenInv, Prompts, Ids
    <3> QED
      BY <1>5, <2>2, <3>1, <3>2, <3>6, <3>7 DEF Undisturbed
  <2> QED
    BY <2>1, <2>2
<1> QED
  BY <1>6, <1>7, <1>8, CliKeeps

\* SteerTimeout preserves the invariant.
LEMMA UnprovenSteerTimeout ==
  ASSUME UnprovenInv, OnceInv', NEW p \in Procs, NEW m \in Messages, SteerTimeout(p, m)
  PROVE  UnprovenInv'
<1>1. PICK k : k = Pkt("indeterminate", {m}, 0, "nil")
  OBVIOUS
<1>2. RetryAck(k) /\ k.t # "steerState" /\ \A x : ~Requeues(k, x)
  BY <1>1, PlainPkt
<1>3. PICK s : s = Withdraw(p, attempt[p][m])
  OBVIOUS
<1>4. s \in Seq(UpPacket) /\ Range(s) \subseteq Range(toHub[p])
  <2>1. Withdraw(p, attempt[p][m]) \in Seq(UpPacket)
    BY LinkTypes, WithdrawType DEF TypeOK
  <2>2. Range(Withdraw(p, attempt[p][m])) \subseteq Range(toHub[p])
    BY LinkTypes, WithdrawRange
  <2> QED
    BY <1>3, <2>1, <2>2
<1>5. /\ proc[p] = "up" /\ held[p][m] \in {"persisting", "restoring"}
      /\ held' = [held EXCEPT ![p][m] = "indeterminate"]
      /\ toHub' = [toHub EXCEPT ![p] = Append(s, k)]
      /\ UNCHANGED <<row, ops, conn, proc, swept, resends, taken, toCli, seen, backfill, attempt,
                     steers, unproven>>
  BY <1>1, <1>3 DEF SteerTimeout, hubVars, bounds, history
<1>6. \A x \in Messages : held'[p][x] = IF x = m THEN "indeterminate" ELSE held[p][x]
  BY <1>5, CliTypes
<1>7. \A x \in Range(toHub'[p]) : x \in Range(toHub[p]) \/ x = k
  <2>1. toHub'[p] = Append(s, k)
    BY <1>5, CliTypes
  <2>2. Range(Append(s, k)) \subseteq Range(s) \cup {k}
    BY <1>4 DEF Range
  <2> QED
    BY <1>4, <2>1, <2>2
<1>8. CliMoves(p)
  <2>1. \A x \in Messages : attempt[p][x] <= steers
    BY DEF UnprovenInv, Prompts, Ids
  <2>2. steers <= steers' /\ \A x \in Messages : attempt'[p][x] <= steers'
    BY <1>5, <2>1, CliTypes
  <2>3. \A q \in Procs : q # p => toHub'[q] = toHub[q] /\ held'[q] = held[q]
    BY <1>5, CliTypes
  <2> QED
    BY <1>2, <1>5, <1>7, <2>2, <2>3 DEF CliMoves
<1>9. ASSUME NEW x \in unproven', resends = 0, ~Took(x)'
      PROVE  Safe(x) /\ Quiescent(p, x)'
  <2>1. x \in Messages /\ x \in unproven /\ ~Took(x)
    BY <1>5, <1>9, CliTypes DEF Took
  <2>2. Safe(x) /\ Quiescent(p, x)
    BY <1>9, <2>1 DEF UnprovenInv, Prompts, Unproven
  <2>3. held'[p][x] \in {"none", "native", "indeterminate"}
    BY <1>6, <2>1, <2>2 DEF Quiescent
  <2>4. \A y \in Range(toHub'[p]) : y \in Range(toHub[p]) \/ ~Requeues(y, x)
    BY <1>2, <1>7
  <2> QED
    BY <1>5, <2>1, <2>2, <2>3, <2>4, QuiescentKept
<1>10. ASSUME NEW x \in Messages, resends = 0, held'[p][x] = "persisting", ~Took(x)
       PROVE  Undisturbed(p, x)'
  <2>1. Undisturbed(p, x)
    BY <1>6, <1>10 DEF UnprovenInv, Prompts, Persisting
  <2>2. PICK id : id = attempt[p][x] /\ id = attempt'[p][x]
    BY <1>5
  <2>3. PICK n : n = attempt[p][m]
    OBVIOUS
  <2>4. Clear(s, x, id)
    <3>1. Clear(toHub[p], x, id) /\ s = Withdraw(p, n)
      BY <1>3, <2>1, <2>2, <2>3 DEF Undisturbed
    <3> QED
      BY <3>1, LinkTypes, ClearWithdraw
  <2>5. Clear(Append(s, k), x, id)
    BY <1>2, <1>4, <2>4, ClearAppend
  <2>6. toHub'[p] = Append(s, k)
    BY <1>5, CliTypes
  <2>7. NoRequeue(p, x) => NoRequeue(p, x)'
    BY <1>2, <1>7 DEF NoRequeue
  <2>8. Safe(x) => Safe(x)'
    BY <1>5 DEF Safe
  <2> QED
    BY <1>5, <2>1, <2>2, <2>5, <2>6, <2>7, <2>8 DEF Undisturbed
<1> QED
  BY <1>8, <1>9, <1>10, CliKeeps

\* A packet that is read and moves nothing preserves the invariant.
LEMMA UnprovenReply ==
  ASSUME UnprovenInv, OnceInv', NEW p \in Procs, proc[p] = "up", NEW k,
         toCli[p] # <<>>, toCli' = [toCli EXCEPT ![p] = Tail(toCli[p])],
         UNCHANGED toHub \/ Emit(p, k), RetryAck(k), k.t # "steerState", \A x : ~Requeues(k, x),
         UNCHANGED <<row, ops, conn, proc, swept, resends, steers, attempt, backfill, taken, seen,
                     held, unproven>>
  PROVE  UnprovenInv'
<1>1. /\ toCli[p] # <<>> => Range(Tail(toCli[p])) \subseteq Range(toCli[p])
      /\ OnlyAt(p)
  BY CliTypes, TailRange DEF OnlyAt, Emit
<1>2. Range(toCli'[p]) \subseteq Range(toCli[p])
  BY <1>1, CliTypes
<1>3. \A x \in unproven' :
        x \in unproven /\
        (Safe(x) /\ Quiescent(p, x) =>
           held'[p][x] \in {"none", "native", "indeterminate"} /\ ~Requeues(k, x))
  BY DEF Quiescent
<1>4. \A x \in Messages :
        held'[p][x] = "persisting" => held[p][x] = "persisting" /\ ~Requeues(k, x)
  OBVIOUS
<1> QED
  BY <1>1, <1>2, <1>3, <1>4, CliEmits

\* A request to cancel preserves the invariant.
LEMMA UnprovenHandleCancel ==
  ASSUME UnprovenInv, OnceInv', NEW p \in Procs, NEW m \in Messages, NEW pkt, HandleCancel(p, pkt, m),
         proc[p] = "up", toCli[p] # <<>>, toCli' = [toCli EXCEPT ![p] = Tail(toCli[p])],
         UNCHANGED <<row, ops, conn, proc, swept, resends, steers, attempt, backfill, taken>>
  PROVE  UnprovenInv'
<1>1. PICK k : k = Pkt("cancelAck", {m}, pkt.id, CancelByLocalId(held[p][m]))
  OBVIOUS
<1>2. RetryAck(k) /\ k.t # "steerState" /\ \A x : ~Requeues(k, x)
  BY <1>1 DEF RetryAck, Requeues, Pkt
<1>3. /\ Emit(p, k) /\ UNCHANGED <<seen, unproven>>
      /\ held' = held \/ held' = [held EXCEPT ![p][m] = "none"]
  BY <1>1, Zenon DEF HandleCancel
<1>4. CASE held' = [held EXCEPT ![p][m] = "none"]
  <2>1. "none" \in Held
    BY DEF Held
  <2> QED
    BY <1>2, <1>3, <1>4, <2>1, UnprovenMove
<1>5. CASE held' = held
  BY <1>2, <1>3, <1>5, UnprovenReply
<1> QED
  BY <1>3, <1>4, <1>5

\* An offer preserves it: a process that accepts gives up what it held as unknown.
LEMMA UnprovenHandleRetry ==
  ASSUME UnprovenInv, OnceInv', NEW p \in Procs, NEW m \in Messages, NEW pkt, HandleRetry(p, pkt, m),
         pkt.id \in DOMAIN ops, m = ops[pkt.id].m,
         proc[p] = "up", toCli[p] # <<>>, toCli' = [toCli EXCEPT ![p] = Tail(toCli[p])],
         UNCHANGED <<row, ops, conn, proc, swept, resends, steers, attempt, backfill, taken>>
  PROVE  UnprovenInv'
<1>1. PICK accepted \in BOOLEAN :
        /\ IF accepted
           THEN /\ seen' = [seen EXCEPT ![p] = @ \cup {m}]
                /\ held' = [held EXCEPT ![p][m] = "pending"]
                /\ unproven' = unproven \ {m}
           ELSE UNCHANGED <<seen, held, unproven>>
        /\ Emit(p, Pkt("retryAck", {m}, pkt.id, IF accepted THEN "accepted" ELSE "refused"))
  BY Zenon DEF HandleRetry
<1>2. PICK k : k = Pkt("retryAck", {m}, pkt.id, IF accepted THEN "accepted" ELSE "refused")
  OBVIOUS
<1>3. /\ RetryAck(k) /\ k.t # "steerState" /\ \A x : Requeues(k, x) => accepted /\ x = m
  BY <1>2 DEF RetryAck, Requeues, Pkt
<1>4. Emit(p, k)
  BY <1>1, <1>2
<1>5. CASE accepted
  <2>1. "pending" \in Held
    BY DEF Held
  <2>2. /\ seen' = [seen EXCEPT ![p] = @ \cup {m}] /\ held' = [held EXCEPT ![p][m] = "pending"]
        /\ unproven' = unproven \ {m}
    BY <1>1, <1>5
  <2>3. "pending" # "persisting" /\ m \notin unproven' /\ unproven' \subseteq unproven
    BY <2>2
  <2>4. \A x : Requeues(k, x) => x = m
    BY <1>3
  <2>5. k.t = "steerState" => k.ms = {m} /\ k.id = attempt[p][m]
    BY <1>3
  <2>6. \A q \in Procs, x \in Messages : taken[q][x] > 0 => taken'[q][x] > 0
    OBVIOUS
  <2> QED
    BY <1>3, <1>4, <2>1, <2>2, <2>3, <2>4, <2>5, <2>6, UnprovenMove, Zenon
<1>6. CASE ~accepted
  BY <1>1, <1>3, <1>4, <1>6, UnprovenReply
<1> QED
  BY <1>5, <1>6

\* The prompt goes to the agent only after the hub has recorded it: no replay reads its row, and
\* nothing on the way brings it back.
LEMMA UnprovenNative ==
  ASSUME UnprovenInv, OnceInv', NEW p \in Procs, NEW m \in Messages, NEW pkt,
         pkt \in Range(toCli[p]), Recorded(pkt, m, attempt[p][m]), held[p][m] = "persisting",
         held' = [held EXCEPT ![p][m] = "native"], unproven' = unproven \cup {m},
         proc[p] = "up", toCli[p] # <<>>, toCli' = [toCli EXCEPT ![p] = Tail(toCli[p])],
         UNCHANGED <<row, ops, conn, proc, swept, resends, steers, attempt, backfill, taken, toHub,
                     seen>>
  PROVE  UnprovenInv'
<1>1. \A x \in Messages : held'[p][x] = IF x = m THEN "native" ELSE held[p][x]
  BY CliTypes
<1>2. Range(toCli'[p]) \subseteq Range(toCli[p])
  <2>1. Range(Tail(toCli[p])) \subseteq Range(toCli[p])
    BY CliTypes, TailRange
  <2> QED
    BY <2>1, CliTypes
<1>3. CliMoves(p)
  <2>1. \A x \in Messages : attempt[p][x] <= steers
    BY DEF UnprovenInv, Prompts, Ids
  <2>2. steers <= steers' /\ \A x \in Messages : attempt'[p][x] <= steers'
    BY <2>1, CliTypes
  <2>3. \A q \in Procs : q # p => toCli'[q] = toCli[q] /\ held'[q] = held[q]
    BY CliTypes
  <2> QED
    BY <1>2, <2>2, <2>3 DEF CliMoves
<1>4. ASSUME NEW x \in unproven', resends = 0, ~Took(x)'
      PROVE  Safe(x) /\ Quiescent(p, x)'
  <2>1. x \in Messages /\ ~Took(x)
    BY <1>4, CliTypes DEF Took
  <2>2. CASE x = m
    <3>1. Safe(m) /\ NoRequeue(p, m)
      BY <1>4, <2>1, <2>2 DEF UnprovenInv, Prompts, Persisting, Undisturbed
    <3>2. m \in seen[p]
      <4>1. m \notin seen[p] => Deliveries(p, m) = 0
        BY DEF UnprovenInv, OnceInv, Parts, Unseen
      <4>2. Deliveries(p, m) = taken[p][m] + 1 /\ taken[p][m] \in Nat
        BY CliTypes DEF Deliveries, Active
      <4> QED
        BY <4>1, <4>2
    <3> QED
      BY <1>1, <2>2, <3>1, <3>2 DEF Quiescent, NoRequeue
  <2>3. CASE x # m
    <3>1. Safe(x) /\ Quiescent(p, x)
      BY <1>4, <2>1, <2>3 DEF UnprovenInv, Prompts, Unproven
    <3>2. held'[p][x] \in {"none", "native", "indeterminate"}
      BY <1>1, <2>1, <2>3, <3>1 DEF Quiescent
    <3> QED
      BY <1>2, <2>1, <3>1, <3>2, QuiescentKept
  <2> QED
    BY <2>2, <2>3
<1>5. ASSUME NEW x \in Messages, resends = 0, held'[p][x] = "persisting", ~Took(x)
      PROVE  Undisturbed(p, x)'
  <2>1. Undisturbed(p, x)
    BY <1>1, <1>5 DEF UnprovenInv, Prompts, Persisting
  <2> QED
    BY <1>2, <2>1, UndisturbedKept
<1> QED
  BY <1>3, <1>4, <1>5, CliKeeps

\* The answer to a steer request preserves the invariant.
LEMMA UnprovenSteerAnswer ==
  ASSUME UnprovenInv, OnceInv', NEW p \in Procs, NEW m \in Messages, NEW pkt, m \in pkt.ms,
         pkt \in Range(toCli[p]), pkt.t \in {"steerOk", "steerNo"}, HandleSteerAnswer(p, pkt, m),
         proc[p] = "up", toCli[p] # <<>>, toCli' = [toCli EXCEPT ![p] = Tail(toCli[p])],
         UNCHANGED <<row, ops, conn, proc, swept, resends, steers, attempt, backfill, taken>>
  PROVE  UnprovenInv'
<1>1. PICK k : k = Pkt("alive", {}, 0, "nil")
  OBVIOUS
<1>2. RetryAck(k) /\ k.t # "steerState" /\ \A x : ~Requeues(k, x)
  BY <1>1, PlainPkt
<1>3. UNCHANGED seen
  BY DEF HandleSteerAnswer
<1>4. CASE UNCHANGED <<held, retrying, toHub, unproven>>
  BY <1>2, <1>3, <1>4, UnprovenReply
<1>5. CASE Hold(p, m) /\ UNCHANGED unproven
  BY <1>3, <1>5, UnprovenUndo
<1>6. CASE /\ held[p][m] = "restoring" /\ held' = [held EXCEPT ![p][m] = "pending"]
           /\ UNCHANGED <<toHub, unproven>>
  <2>1. "pending" \in Held /\ ~Quiescent(p, m)
    BY <1>6 DEF Held, Quiescent
  <2> QED
    BY <1>2, <1>3, <1>6, <2>1, UnprovenMove
<1>7. CASE held[p][m] = "persisting" /\ RestoreQueued(p, m) /\ UNCHANGED unproven
  <2>1. ~Quiescent(p, m)
    BY <1>7 DEF Quiescent
  <2> QED
    BY <1>3, <1>7, <2>1, UnprovenUndo
<1>8. CASE /\ held[p][m] = "persisting" /\ attempt[p][m] = pkt.id
           /\ pkt.t = "steerOk" /\ pkt.st = "dispatching"
           /\ held' = [held EXCEPT ![p][m] = "native"] /\ unproven' = unproven \cup {m}
           /\ UNCHANGED toHub
  <2>1. Recorded(pkt, m, attempt[p][m])
    BY <1>8 DEF Recorded
  <2> QED
    BY <1>3, <1>8, <2>1, UnprovenNative
<1> QED
  BY <1>4, <1>5, <1>6, <1>7, <1>8 DEF HandleSteerAnswer

\* CliReceive preserves the invariant.
LEMMA UnprovenCliReceive ==
  ASSUME UnprovenInv, OnceInv', NEW p \in Procs, CliReceive(p)
  PROVE  UnprovenInv'
<1>1. PICK pkt : pkt = Head(toCli[p])
  OBVIOUS
<1>2. /\ proc[p] = "up" /\ toCli[p] # <<>> /\ toCli' = [toCli EXCEPT ![p] = Tail(toCli[p])]
      /\ UNCHANGED <<row, ops, conn, proc, swept, resends, steers, attempt, backfill, taken>>
  BY DEF CliReceive, Listening, hubVars, bounds
<1>3. /\ pkt \in Range(toCli[p]) /\ pkt.ms \in SUBSET Messages
      /\ Range(toCli'[p]) \subseteq Range(toCli[p])
  <2>1. pkt \in Range(toCli[p]) /\ Range(Tail(toCli[p])) \subseteq Range(toCli[p])
    BY <1>1, <1>2, CliTypes, TailRange
  <2>2. pkt \in DownPacket
    BY <2>1, CliTypes DEF Range
  <2> QED
    BY <1>2, <2>1, <2>2, CliTypes DEF DownPacket, Packet
<1>4. CASE pkt.t = "new" /\ Accept(p, pkt.ms) /\ UNCHANGED <<toHub, unproven>>
  <2>1. /\ \A q \in Procs : q # p => held'[q] = held[q] /\ seen'[q] = seen[q]
        /\ seen[p] \subseteq seen'[p]
        /\ \A m \in Messages : held'[p][m] = held[p][m] \/
             (held'[p][m] = "pending" /\ m \in pkt.ms /\ m \notin seen[p])
    BY <1>4, AcceptHeld
  <2>2. \A m \in pkt.ms : ~NotNew(p, m)
    BY <1>3, <1>4 DEF NotNew
  <2>3. OnlyAt(p)
    BY <1>2, <1>4, <2>1, CliTypes DEF OnlyAt
  <2> QED
    BY <1>2, <1>3, <1>4, <2>1, <2>2, <2>3, UnprovenQuiet
<1>5. ASSUME NEW m \in pkt.ms, pkt.t = "retry", HandleRetry(p, pkt, m)
      PROVE  UnprovenInv'
  <2>1. OfferGood(pkt)
    BY <1>3 DEF UnprovenInv, OnceInv, Parts, Offers, Range
  <2>2. pkt.id \in DOMAIN ops /\ m = ops[pkt.id].m /\ m \in Messages
    BY <1>3, <1>5, <2>1 DEF OfferGood
  <2> QED
    BY <1>2, <1>5, <2>2, UnprovenHandleRetry
<1>6. ASSUME NEW m \in pkt.ms, HandleCancel(p, pkt, m)
      PROVE  UnprovenInv'
  BY <1>2, <1>3, <1>6, UnprovenHandleCancel
<1>7. ASSUME NEW m \in pkt.ms, pkt.t \in {"steerOk", "steerNo"}, HandleSteerAnswer(p, pkt, m)
      PROVE  UnprovenInv'
  BY <1>2, <1>3, <1>7, UnprovenSteerAnswer
<1> QED
  BY <1>1, <1>4, <1>5, <1>6, <1>7 DEF CliReceive

---------------------------------------------------------------------------
(* Processes and connections.                                              *)

\* A step of p's link: packets are lost, what p holds is forgotten, an alive or an end is sent.
LinkMoves(p) ==
  /\ UNCHANGED <<row, ops, swept, taken, unproven, attempt, steers, resends, seen>> /\ OnlyAt(p)
  /\ \A m \in Messages : held'[p][m] = held[p][m] \/ held'[p][m] = "none"
  /\ toCli'[p] = toCli[p] \/ toCli'[p] = <<>>
  /\ \/ toHub'[p] = toHub[p] \/ toHub'[p] = <<>>
     \/ \E t \in {"alive", "end"} : toHub'[p] = Append(toHub[p], Pkt(t, {}, 0, "nil"))
  /\ backfill'[p].ms \subseteq backfill[p].ms

\* What a link carries after such a step.
LEMMA LinkCarries ==
  ASSUME UnprovenInv, NEW p \in Procs, LinkMoves(p)
  PROVE  /\ Range(toCli'[p]) \subseteq Range(toCli[p])
         /\ \A k \in Range(toHub'[p]) :
              \/ k \in Range(toHub[p])
              \/ RetryAck(k) /\ k.t # "steerState" /\ \A x : ~Requeues(k, x)
<1>1. Range(toCli'[p]) \subseteq Range(toCli[p])
  BY DEF LinkMoves, Range
<1>2. CASE toHub'[p] = toHub[p] \/ toHub'[p] = <<>>
  BY <1>1, <1>2 DEF Range
<1>3. ASSUME NEW t \in {"alive", "end"}, toHub'[p] = Append(toHub[p], Pkt(t, {}, 0, "nil"))
      PROVE  \A k \in Range(toHub'[p]) :
               \/ k \in Range(toHub[p])
               \/ RetryAck(k) /\ k.t # "steerState" /\ \A x : ~Requeues(k, x)
  <2>1. PICK s \in Seq(UpPacket) : s = toHub[p]
    BY LinkTypes
  <2>2. PICK k : k = Pkt(t, {}, 0, "nil")
    OBVIOUS
  <2>3. RetryAck(k) /\ k.t # "steerState" /\ \A x : ~Requeues(k, x)
    BY <2>2 DEF RetryAck, Requeues, Pkt
  <2>4. Range(Append(s, k)) \subseteq Range(s) \cup {k}
    BY DEF Range
  <2> QED
    BY <1>3, <2>1, <2>2, <2>3, <2>4
<1> QED
  BY <1>1, <1>2, <1>3 DEF LinkMoves

\* It leaves a dispatch undisturbed.
LEMMA LinkUndisturbed ==
  ASSUME UnprovenInv, NEW p \in Procs, LinkMoves(p), NEW m \in Messages, Undisturbed(p, m)
  PROVE  Undisturbed(p, m)'
<1>1. /\ attempt'[p][m] = attempt[p][m] /\ UNCHANGED row
      /\ Range(toCli'[p]) \subseteq Range(toCli[p])
  BY LinkCarries DEF LinkMoves
<1>2. CASE toHub'[p] = toHub[p]
  BY <1>1, <1>2, UndisturbedKept
<1>3. CASE toHub'[p] = <<>>
  <2>1. NoRequeue(p, m)' /\ Clear(toHub'[p], m, attempt'[p][m])
    BY <1>3 DEF NoRequeue, Range, Clear
  <2> QED
    BY <1>1, <2>1 DEF Undisturbed, Safe
<1>4. ASSUME NEW t \in {"alive", "end"}, toHub'[p] = Append(toHub[p], Pkt(t, {}, 0, "nil"))
      PROVE  Undisturbed(p, m)'
  <2>1. PICK k : k = Pkt(t, {}, 0, "nil")
    OBVIOUS
  <2>2. ~Requeues(k, m)
    BY <2>1 DEF Requeues, Pkt
  <2> QED
    BY <1>1, <1>4, <2>1, <2>2, UndisturbedKept
<1> QED
  BY <1>2, <1>3, <1>4 DEF LinkMoves

\* It keeps prompts where they are.
LEMMA LinkPrompts ==
  ASSUME UnprovenInv, NEW p \in Procs, LinkMoves(p)
  PROVE  Prompts'
<1>1. UnprovenInv => Unproven /\ Persisting /\ Ids /\ RetryAcks /\ SweptInvoked
  BY DEF UnprovenInv, Prompts
<1>2. /\ Range(toCli'[p]) \subseteq Range(toCli[p])
      /\ \A k \in Range(toHub'[p]) :
           \/ k \in Range(toHub[p])
           \/ RetryAck(k) /\ k.t # "steerState" /\ \A x : ~Requeues(k, x)
  BY LinkCarries
<1>3. \A x \in Messages : (Took(x)' <=> Took(x)) /\ (Safe(x)' <=> Safe(x))
  BY DEF LinkMoves, Took, Safe
<1>4. unproven \in SUBSET Messages
  BY CliTypes
<1>5. Unproven'
  <2> SUFFICES ASSUME resends = 0, NEW m \in unproven, ~Took(m), NEW q \in Procs
               PROVE  Safe(m) /\ Quiescent(q, m)'
    BY <1>3, <1>4 DEF Unproven, LinkMoves
  <2>1. Safe(m) /\ Quiescent(q, m)
    BY <1>1 DEF Unproven
  <2>2. CASE q = p
    <3>1. held'[p][m] \in {"none", "native", "indeterminate"} /\ seen[p] \subseteq seen'[p]
      BY <1>4, <2>1, <2>2 DEF LinkMoves, Quiescent
    <3>2. \A x \in backfill'[p].ms : x \in backfill[p].ms
      BY DEF LinkMoves
    <3> QED
      BY <1>2, <1>4, <2>1, <2>2, <3>1, <3>2, QuiescentKept
  <2>3. CASE q # p
    BY <2>1, <2>3 DEF LinkMoves, OnlyAt, Quiescent, NoRequeue, NotNew
  <2> QED
    BY <2>1, <2>2, <2>3
<1>6. Persisting'
  <2> SUFFICES ASSUME resends = 0, NEW q \in Procs, NEW m \in Messages,
                      held'[q][m] = "persisting", ~Took(m)
               PROVE  Undisturbed(q, m)'
    BY <1>3 DEF Persisting, LinkMoves
  <2>1. held[q][m] = "persisting"
    BY DEF LinkMoves, OnlyAt
  <2>2. Undisturbed(q, m)
    BY <1>1, <2>1 DEF Persisting
  <2>3. CASE q = p
    BY <2>2, <2>3, LinkUndisturbed
  <2>4. CASE q # p
    BY <1>3, <2>2, <2>4 DEF LinkMoves, OnlyAt, Undisturbed, NoRequeue
  <2> QED
    BY <2>3, <2>4
<1>7. Ids'
  <2> SUFFICES ASSUME NEW q \in Procs
               PROVE  /\ \A k \in Range(toHub'[q]) : k.t = "steerState" => SteerId(k)
                      /\ \A k \in Range(toCli'[q]) : k.t \in {"steerOk", "steerNo"} => SteerId(k)
    BY <1>1 DEF Ids, LinkMoves, SteerId
  <2>1. CASE q = p
    BY <1>1, <1>2, <2>1 DEF Ids
  <2>2. CASE q # p
    BY <1>1, <2>2 DEF Ids, LinkMoves, OnlyAt
  <2> QED
    BY <2>1, <2>2
<1>8. RetryAcks'
  <2> SUFFICES ASSUME NEW q \in Procs, NEW k \in Range(toHub'[q])
               PROVE  RetryAck(k)
    BY DEF RetryAcks, RetryAck, LinkMoves
  <2>1. CASE q = p
    BY <1>1, <1>2, <2>1 DEF RetryAcks
  <2>2. CASE q # p
    BY <1>1, <2>2 DEF RetryAcks, LinkMoves, OnlyAt
  <2> QED
    BY <2>1, <2>2
<1>9. SweptInvoked'
  BY <1>1 DEF SweptInvoked, LinkMoves
<1> QED
  BY <1>5, <1>6, <1>7, <1>8, <1>9 DEF Prompts

\* Losing the connection, and the hub's notice of an end, preserve the invariant: the room shrinks.
LEMMA UnprovenLeave ==
  ASSUME UnprovenInv, OnceInv', NEW p \in Procs, Drop(p) \/ HubDisconnect(p)
  PROVE  UnprovenInv'
<1>1. /\ conn' = [conn EXCEPT ![p] = FALSE] /\ toHub' = [toHub EXCEPT ![p] = <<>>]
      /\ UNCHANGED toCli \/ toCli' = [toCli EXCEPT ![p] = <<>>]
      /\ UNCHANGED <<row, ops, swept, taken, unproven, attempt, steers, resends, seen, proc, held,
                     backfill>>
  BY DEF Drop, HubDisconnect, hubVars, cliVars, bounds, history
<1>2. \A q \in Procs :
        /\ conn'[q] = IF q = p THEN FALSE ELSE conn[q]
        /\ toHub'[q] = IF q = p THEN <<>> ELSE toHub[q]
        /\ toCli'[q] = toCli[q] \/ (q = p /\ toCli'[q] = <<>>)
  <2>1. conn \in [Procs -> BOOLEAN]
    BY DEF UnprovenInv, OnceInv, DeliveryInv, TypeOK, NetTypeOK
  <2> QED
    BY <1>1, <2>1, CliTypes
<1>3. LinkMoves(p)
  BY <1>1, <1>2 DEF LinkMoves, OnlyAt
<1>4. UnprovenInv => Quiet /\ OneUp /\ ConnOld /\ IsFiniteSet(Room) /\ RetryAlone
  BY DEF UnprovenInv, Processes
<1>5. Quiet' /\ OneUp' /\ ConnOld'
  <2>1. Quiet'
    BY <1>1, <1>2, <1>4 DEF Quiet
  <2>2. OneUp'
    BY <1>1, <1>2, <1>4 DEF OneUp
  <2>3. ConnOld'
    BY <1>1, <1>2, <1>4 DEF ConnOld
  <2> QED
    BY <2>1, <2>2, <2>3
<1>6. Room' \subseteq Room
  BY <1>2 DEF Room
<1>7. \A q \in Procs : Alone(q) => Alone(q)'
  BY <1>1, <1>2, <1>6, AloneKept
<1>8. RetryAlone'
  BY <1>1, <1>4, <1>7, RetryKept
<1>9. IsFiniteSet(Room')
  BY <1>4, <1>6, FS_Subset
<1> QED
  BY <1>3, <1>5, <1>8, <1>9, LinkPrompts DEF UnprovenInv, Processes

\* The start of a process preserves it: what ran before has nothing left to say.
LEMMA UnprovenStart ==
  ASSUME UnprovenInv, OnceInv', NEW p \in Procs, Start(p)
  PROVE  UnprovenInv'
<1>1. /\ proc[p] = "new" /\ \A q \in Procs : q # p => proc[q] # "up" /\ toHub[q] = <<>>
      /\ proc' = [proc EXCEPT ![p] = "up"]
      /\ UNCHANGED <<row, ops, swept, taken, unproven, attempt, steers, resends, seen, held,
                     backfill, conn, toHub, toCli>>
  BY DEF Start, hubVars, netVars, bounds, history
<1>2. \A q \in Procs : proc'[q] = IF q = p THEN "up" ELSE proc[q]
  <2>1. DOMAIN proc = Procs
    BY DEF UnprovenInv, OnceInv, DeliveryInv, TypeOK, CliTypeOK
  <2> QED
    BY <1>1, <2>1
<1>3. LinkMoves(p)
  BY <1>1 DEF LinkMoves, OnlyAt
<1>4. UnprovenInv => Quiet /\ OneUp /\ ConnOld /\ IsFiniteSet(Room) /\ RetryAlone
  BY DEF UnprovenInv, Processes
<1>5. Quiet' /\ OneUp' /\ ConnOld'
  <2>1. Quiet'
    BY <1>1, <1>2, <1>4 DEF Quiet
  <2>2. OneUp'
    BY <1>1, <1>2, <1>4 DEF OneUp
  <2>3. ConnOld'
    BY <1>1, <1>2, <1>4 DEF ConnOld
  <2> QED
    BY <2>1, <2>2, <2>3
<1>6. Room' = Room
  BY <1>1 DEF Room
<1>7. \A q \in Procs : Alone(q) => Alone(q)'
  BY <1>1, <1>2, <1>6 DEF Alone
<1>8. RetryAlone'
  BY <1>1, <1>4, <1>7, RetryKept
<1> QED
  BY <1>3, <1>4, <1>5, <1>6, <1>8, LinkPrompts DEF UnprovenInv, Processes

\* A connection preserves it: nobody else runs or has anything on the way.
LEMMA UnprovenConnect ==
  ASSUME UnprovenInv, OnceInv', NEW p \in Procs, Connect(p)
  PROVE  UnprovenInv'
<1>1. /\ proc[p] = "up" /\ conn' = [conn EXCEPT ![p] = TRUE]
      /\ Emit(p, Pkt("alive", {}, 0, "nil"))
      /\ UNCHANGED <<row, ops, swept, taken, unproven, attempt, steers, resends, seen, held, proc,
                     toCli>>
  BY DEF Connect, hubVars, bounds, history
<1>2. \A q \in Procs :
        /\ conn'[q] = IF q = p THEN TRUE ELSE conn[q]
        /\ toHub'[q] = IF q = p THEN Append(toHub[q], Pkt("alive", {}, 0, "nil")) ELSE toHub[q]
        /\ backfill'[q].ms = backfill[q].ms /\ (q # p => backfill'[q] = backfill[q])
  <2>1. conn \in [Procs -> BOOLEAN] /\ DOMAIN toHub = Procs
    BY DEF UnprovenInv, OnceInv, DeliveryInv, TypeOK, NetTypeOK
  <2>2. \E st : backfill' = [backfill EXCEPT ![p].st = st]
    BY DEF Connect
  <2>3. \A q \in Procs : backfill'[q].ms = backfill[q].ms /\ (q # p => backfill'[q] = backfill[q])
    <3>1. backfill \in [Procs -> [st : {"fresh", "idle", "due", "got"}, ms : SUBSET Messages]]
      BY DEF UnprovenInv, OnceInv, DeliveryInv, TypeOK, CliTypeOK
    <3> QED
      BY <2>2, <3>1
  <2> QED
    BY <1>1, <2>1, <2>3 DEF Emit
<1>3. LinkMoves(p)
  BY <1>1, <1>2 DEF LinkMoves, OnlyAt
<1>4. UnprovenInv => Quiet /\ OneUp /\ ConnOld /\ IsFiniteSet(Room) /\ RetryAlone
  BY DEF UnprovenInv, Processes
<1>5. Quiet' /\ OneUp' /\ ConnOld'
  <2>1. Quiet'
    BY <1>1, <1>2, <1>4 DEF Quiet
  <2>2. OneUp'
    BY <1>1, <1>2, <1>4 DEF OneUp
  <2>3. ConnOld'
    BY <1>1, <1>2, <1>4 DEF ConnOld
  <2> QED
    BY <2>1, <2>2, <2>3
<1>6. Room' = Room \cup {p}
  BY <1>2 DEF Room
<1>7. \A q \in Procs : Alone(q) => Alone(q)'
  BY <1>1, <1>2, <1>4, <1>6 DEF Alone, OneUp
<1>8. RetryAlone'
  <2>1. UNCHANGED ops
    BY <1>1
  <2> QED
    BY <1>4, <1>7, <2>1, RetryKept
<1>9. IsFiniteSet(Room')
  BY <1>4, <1>6, FS_AddElement
<1> QED
  BY <1>3, <1>5, <1>8, <1>9, LinkPrompts DEF UnprovenInv, Processes

\* So does the end of a process, orderly or not: everything it held is gone.
LEMMA UnprovenGone ==
  ASSUME UnprovenInv, OnceInv', NEW p \in Procs, Crash(p) \/ End(p)
  PROVE  UnprovenInv'
<1>1. /\ proc[p] = "up" /\ proc' = [proc EXCEPT ![p] = "gone"]
      /\ held' = [held EXCEPT ![p] = [m \in Messages |-> "none"]]
      /\ backfill' = [backfill EXCEPT ![p] = [st |-> "idle", ms |-> {}]]
      /\ toCli' = [toCli EXCEPT ![p] = <<>>]
      /\ UNCHANGED <<row, ops, swept, taken, unproven, attempt, steers, resends, seen, conn>>
  BY DEF Crash, End, Forget, Listening, hubVars, bounds, history
<1>2. \/ UNCHANGED toHub \/ toHub' = [toHub EXCEPT ![p] = <<>>]
      \/ Emit(p, Pkt("end", {}, 0, "nil"))
  BY DEF Crash, End
<1>3. \A q \in Procs :
        /\ q # p => /\ proc'[q] = proc[q] /\ held'[q] = held[q] /\ backfill'[q] = backfill[q]
                    /\ toCli'[q] = toCli[q] /\ toHub'[q] = toHub[q]
        /\ q = p => /\ proc'[q] = "gone" /\ \A m \in Messages : held'[q][m] = "none"
                    /\ backfill'[q].ms = {} /\ toCli'[q] = <<>>
                    /\ \/ toHub'[q] = toHub[q] \/ toHub'[q] = <<>>
                       \/ toHub'[q] = Append(toHub[q], Pkt("end", {}, 0, "nil"))
  <2>1. DOMAIN proc = Procs /\ DOMAIN held = Procs /\ DOMAIN backfill = Procs
        /\ DOMAIN toCli = Procs /\ DOMAIN toHub = Procs
    BY DEF UnprovenInv, OnceInv, DeliveryInv, TypeOK, CliTypeOK, NetTypeOK
  <2> QED
    BY <1>1, <1>2, <2>1 DEF Emit
<1>4. LinkMoves(p)
  BY <1>1, <1>3 DEF LinkMoves, OnlyAt
<1>5. UnprovenInv => Quiet /\ OneUp /\ ConnOld /\ IsFiniteSet(Room) /\ RetryAlone
  BY DEF UnprovenInv, Processes
<1>6. Quiet' /\ OneUp' /\ ConnOld'
  <2>1. Quiet'
    BY <1>3, <1>5 DEF Quiet
  <2>2. OneUp'
    BY <1>1, <1>3, <1>5 DEF OneUp
  <2>3. ConnOld'
    BY <1>1, <1>3, <1>5 DEF ConnOld
  <2> QED
    BY <2>1, <2>2, <2>3
<1>7. Room' = Room
  BY <1>1 DEF Room
<1>8. \A q \in Procs : Alone(q) => Alone(q)'
  BY <1>1, <1>3, <1>7 DEF Alone
<1>9. RetryAlone'
  BY <1>1, <1>5, <1>8, RetryKept
<1> QED
  BY <1>4, <1>5, <1>6, <1>7, <1>9, LinkPrompts DEF UnprovenInv, Processes

---------------------------------------------------------------------------
(* The theorem.                                                            *)

\* Every step preserves the invariant.
LEMMA UnprovenStep ==
  ASSUME UnprovenInv, OnceInv', [Next]_vars
  PROVE  UnprovenInv'
<1>1. CASE HubNext
  <2>1. ASSUME NEW m \in Messages, ResendMessage(m)
        PROVE  UnprovenInv'
    <3>1. /\ toCli' = Broadcast(NewMessages({m})) /\ resends' = resends + 1 /\ resends \in Nat
          /\ UNCHANGED <<row, ops, conn, toHub, cliVars, steers, history>>
      BY <2>1 DEF ResendMessage, hubVars, UnprovenInv, OnceInv, DeliveryInv, TypeOK, BoundsTypeOK
    <3> QED
      BY <3>1, UnprovenReplay
  <2>2. ASSUME NEW m \in Messages, Mature(m)
        PROVE  UnprovenInv'
    <3>1. PICK ms : ms = {}
      OBVIOUS
    <3>2. /\ UNCHANGED <<toCli, resends>>
          /\ UNCHANGED <<row, ops, conn, toHub, cliVars, steers, history>>
      BY <2>2 DEF Mature, netVars, bounds
    <3> QED
      BY <3>1, <3>2, UnprovenReplay
  <2>3. ASSUME ReleaseMature
        PROVE  UnprovenInv'
    <3>1. PICK due : due = MatureScheduled(row, timing)
      OBVIOUS
    <3>2. \A m \in due : row[m] = "queued"
      BY <3>1 DEF MatureScheduled
    <3>3. /\ toCli' = Broadcast(NewMessages(due)) /\ UNCHANGED resends
          /\ UNCHANGED <<row, ops, conn, toHub, cliVars, steers, history>>
      BY <2>3, <3>1 DEF ReleaseMature, hubVars, bounds
    <3> QED
      BY <3>2, <3>3, UnprovenReplay
  <2> QED
    BY <1>1, <2>1, <2>2, <2>3, UnprovenSendMessage, UnprovenCancel, UnprovenRetry,
       UnprovenOpTimeout, UnprovenHubReceive DEF HubNext
<1>2. ASSUME NEW p \in Procs, CliNext(p)
      PROVE  UnprovenInv'
  BY <1>2, UnprovenCliReceive, UnprovenAbort, UnprovenKeepAlive, UnprovenFetchBackfill,
     UnprovenApplyBackfill, UnprovenCollect, UnprovenSteer, UnprovenSteerTimeout,
     UnprovenSteerCompleted, UnprovenSteerRejected, UnprovenSteerUnknown DEF CliNext
<1>3. ASSUME NEW p \in Procs, LinkNext(p)
      PROVE  UnprovenInv'
  BY <1>3, UnprovenStart, UnprovenConnect, UnprovenLeave, UnprovenGone DEF LinkNext
<1>4. CASE UNCHANGED vars
  <2>1. PICK ms : ms = {}
    OBVIOUS
  <2>2. /\ UNCHANGED <<toCli, resends>>
        /\ UNCHANGED <<row, ops, conn, toHub, cliVars, steers, history>>
    BY <1>4 DEF vars, hubVars, netVars, bounds
  <2> QED
    BY <2>1, <2>2, UnprovenReplay
<1> QED
  BY <1>1, <1>2, <1>3, <1>4 DEF Next

\* Its parts hold initially.
LEMMA UnprovenInit == Init => Processes /\ Prompts
<1> SUFFICES ASSUME Init PROVE Processes /\ Prompts
  OBVIOUS
<1>1. \A p \in Procs :
        /\ Range(toHub[p]) = {} /\ Range(toCli[p]) = {} /\ toHub[p] = <<>> /\ toCli[p] = <<>>
        /\ proc[p] = "new" /\ ~conn[p] /\ backfill[p].ms = {}
        /\ \A m \in Messages : held[p][m] = "none" /\ attempt[p][m] = 0
  BY DEF Init, Range
<1>2. unproven = {} /\ swept = {} /\ steers = 0 /\ DOMAIN ops = {}
  BY DEF Init
<1>3. Room = {}
  BY <1>1 DEF Room
<1>4. Processes
  BY <1>1, <1>2, <1>3, FS_EmptySet DEF Processes, Quiet, OneUp, ConnOld, RetryAlone
<1>5. Unproven /\ Persisting /\ SweptInvoked
  BY <1>1, <1>2 DEF Unproven, Persisting, SweptInvoked
<1>6. Ids
  <2>1. \A p \in Procs, m \in Messages : attempt[p][m] <= steers
    BY <1>1, <1>2
  <2>2. \A p \in Procs : \A k : k \notin Range(toHub[p]) /\ k \notin Range(toCli[p])
    BY <1>1
  <2> QED
    BY <2>1, <2>2 DEF Ids
<1>7. RetryAcks
  BY <1>1 DEF RetryAcks
<1> QED
  BY <1>4, <1>5, <1>6, <1>7 DEF Prompts

\* A prompt whose steer reached the agent with unknown outcome, and which no launcher has delivered,
\* waits in no process' queue unless the user posted it again: replays, backfills, restored steers and
\* late answers to offers never deliver it a second time behind the user's back.
THEOREM UnprovenWaits == Spec => []UnprovenNotQueued
<1>1. Init => UnprovenInv
  BY OnceInductive, UnprovenInit DEF UnprovenInv
<1>2. UnprovenInv /\ [Next]_vars => UnprovenInv'
  BY OnceInductive, UnprovenStep DEF UnprovenInv
<1>3. ASSUME UnprovenInv
      PROVE  UnprovenNotQueued
  BY <1>3 DEF UnprovenInv, Prompts, Unproven, Quiescent, Took, UnprovenNotQueued
<1> QED
  BY <1>1, <1>2, <1>3, PTL DEF Spec
===========================================================================
