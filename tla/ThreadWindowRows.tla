-------------------------- MODULE ThreadWindowRows --------------------------
(***************************************************************************)
(* Proofs about the rows of ThreadWindow: what a window holds is of the    *)
(* thread there is, and no message of that thread is lost between the rows *)
(* and the two cursors.                                                    *)
(***************************************************************************)
EXTENDS ThreadWindowProofs

---------------------------------------------------------------------------
(* The rows are of the thread there is.                                    *)

\* Rows that are in the thread, or that a rewind on the stream will take away.
Covered == thread \cup {y \in Positions : \E x \in OnStream("rewind") : x <= y}

\* What the invariants below read of the hub and the stream: told and lost say which live messages will
\* still come, and whether some were missed that no synchronization has looked for.
View ==
  [thread |-> thread, epoch |-> epoch, last |-> last, covered |-> Covered,
   told |-> OnStream("message"), lost |-> (~live \/ OnStream("connected") # {})]

AnsweredTail(c) == Running(c) /\ c.tail.at = "answered"
AnsweredOlder(c) == Loading(c) /\ c.older.at = "answered"

\* What a request was sent with still describes the window it will be applied to.
Steady(c) ==
  /\ Running(c) =>
       /\ c.tail.replace => Due(c.win)
       /\ c.win.prefer /\ ~c.tail.stale => c.tail.prefers
       /\ c.tail.prefers => c.tail.replace
       /\ c.tail.cold => ~c.tail.replace /\ (c.gap \/ ~c.win.reset)
       /\ c.tail.after # 0 =>
            /\ ~c.tail.replace /\ ~c.tail.cold
            /\ c.win.reset \/ (c.win.newest >= c.tail.after /\ c.win.epoch = c.tail.epoch)
       /\ c.tail.at = "answered" =>
            IF c.tail.page.direction = "after"
            THEN c.tail.after # 0 /\ c.tail.page.epoch = c.tail.epoch /\ ~c.tail.page.reset
            ELSE c.tail.page.reset = (c.tail.after # 0)
  /\ Loading(c) => c.win.msgs # {} /\ (c.win.reset \/ c.older.epoch = c.win.epoch)
  /\ c.win.oldest # 0 => c.win.msgs # {}

\* The rows of a window whose cursors are of this epoch are covered.
Sure(c, h) == ~c.gap /\ ~Due(c.win) /\ c.win.epoch = h.epoch => c.win.msgs \subseteq h.covered

\* So are the rows that the next latest page will join, whatever its epoch.
Joined(c, h) == ~c.gap => Unreplaced(c) \subseteq h.covered

\* An answer of this epoch brings rows of the thread; an older page of another one is merged only into
\* a window without cursors, and then its rows are covered too.
Brought(c, h) ==
  /\ AnsweredTail(c) =>
       /\ c.tail.page.epoch = h.epoch => c.tail.page.rows \subseteq h.thread
       /\ c.tail.page.direction = "latest" /\ c.tail.page.next # 0 => c.tail.page.rows # {}
  /\ AnsweredOlder(c) =>
       /\ c.older.page.epoch = h.epoch => c.older.page.rows \subseteq h.thread
       /\ c.gap \/ Due(c.win) \/ c.win.newest # 0 \/ c.older.page.rows \subseteq h.covered

Genuine(c, h) == Steady(c) /\ Sure(c, h) /\ Joined(c, h) /\ Brought(c, h)

\* What is calm keeps them so.
LEMMA CalmIsGenuine ==
  ASSUME NEW c \in ClientType, NEW d \in ClientType, Calm(c, d), NEW h, Genuine(c, h)
  PROVE  Genuine(d, h)
<1>1. /\ d.gap = c.gap /\ d.older \in {c.older, NoRequest} /\ (c.win.prefer => d.win.prefer)
      /\ (c.win.reset => d.win.reset) /\ Running(d) = Running(c)
      /\ d.win.msgs \subseteq c.win.msgs /\ (c.win.msgs # {} => d.win.msgs # {})
      /\ (d.win.oldest # 0 => c.win.oldest # 0 \/ d.win.msgs # {})
      /\ (~d.win.reset => d.win.epoch = c.win.epoch /\ d.win.newest = c.win.newest)
  BY DEF Calm, Thinned
<1>2. c.win \in WindowType /\ d.win \in WindowType
  BY Requests
<1>3. Due(c.win) => Due(d.win)
  BY <1>1 DEF Due
<1>4. Running(c) =>
        /\ c.tail \in TailType /\ d.tail \in TailType
        /\ d.win.reset = c.win.reset /\ (d.win.prefer = c.win.prefer \/ d.tail.stale)
        /\ d.tail.at = c.tail.at /\ d.tail.page = c.tail.page /\ d.tail.replace = c.tail.replace
        /\ d.tail.prefers = c.tail.prefers /\ d.tail.cold = c.tail.cold /\ d.tail.after = c.tail.after
        /\ d.tail.epoch = c.tail.epoch /\ d.tail.baseline = c.tail.baseline
        /\ (c.tail.stale => d.tail.stale)
  <2> SUFFICES ASSUME Running(c)
               PROVE  /\ c.tail \in TailType /\ d.tail \in TailType
                      /\ d.win.reset = c.win.reset /\ (d.win.prefer = c.win.prefer \/ d.tail.stale)
                      /\ d.tail.at = c.tail.at /\ d.tail.page = c.tail.page /\ d.tail.replace = c.tail.replace
                      /\ d.tail.prefers = c.tail.prefers /\ d.tail.cold = c.tail.cold
                      /\ d.tail.after = c.tail.after
                      /\ d.tail.epoch = c.tail.epoch /\ d.tail.baseline = c.tail.baseline
                      /\ (c.tail.stale => d.tail.stale)
    OBVIOUS
  <2>1. c.tail \in TailType /\ d.tail \in TailType
    BY <1>1, Requests
  <2>2. d.tail \in {c.tail, [c.tail EXCEPT !.stale = TRUE]} /\ d.win.reset = c.win.reset
        /\ (d.win.prefer = c.win.prefer \/ d.tail.stale)
    BY DEF Calm, Topped
  <2> QED
    BY <2>1, <2>2 DEF TailType
<1>5. Loading(d) => Loading(c) /\ d.older = c.older
  BY <1>1 DEF Loading, NoRequest
<1>6. Steady(d)
  <2>1. Running(d) =>
         /\ d.tail.replace => Due(d.win)
         /\ d.win.prefer /\ ~d.tail.stale => d.tail.prefers
         /\ d.tail.prefers => d.tail.replace
         /\ d.tail.cold => ~d.tail.replace /\ (d.gap \/ ~d.win.reset)
    BY <1>1, <1>3, <1>4 DEF Genuine, Steady
  <2>2. Running(d) => (d.tail.after # 0 =>
            /\ ~d.tail.replace /\ ~d.tail.cold
            /\ d.win.reset \/ (d.win.newest >= d.tail.after /\ d.win.epoch = d.tail.epoch))
    BY <1>1, <1>4 DEF Genuine, Steady
  <2>3. Running(d) /\ d.tail.at = "answered" =>
            IF d.tail.page.direction = "after"
            THEN d.tail.after # 0 /\ d.tail.page.epoch = d.tail.epoch /\ ~d.tail.page.reset
            ELSE d.tail.page.reset = (d.tail.after # 0)
    BY <1>1, <1>4 DEF Genuine, Steady
  <2>4. Loading(d) => d.win.msgs # {} /\ (d.win.reset \/ d.older.epoch = d.win.epoch)
    BY <1>1, <1>5 DEF Genuine, Steady
  <2>5. d.win.oldest # 0 => d.win.msgs # {}
    BY <1>1 DEF Genuine, Steady
  <2> QED
    BY <2>1, <2>2, <2>3, <2>4, <2>5 DEF Steady
<1>7. Unreplaced(d) \subseteq Unreplaced(c)
  <2>1. CASE Running(c)
    BY <1>1, <1>4, <2>1 DEF Unreplaced
  <2>2. CASE ~Running(c)
    BY <1>1, <2>2 DEF Unreplaced
  <2> QED
    BY <2>1, <2>2
<1>8. Sure(d, h)
  BY <1>1, <1>3 DEF Genuine, Sure, Due
<1>9. Joined(d, h)
  BY <1>1, <1>7 DEF Genuine, Joined
<1>10. Brought(d, h)
  <2>1. AnsweredTail(d) => AnsweredTail(c) /\ d.tail.page = c.tail.page
    BY <1>1, <1>4 DEF AnsweredTail
  <2>2. AnsweredOlder(d) => AnsweredOlder(c) /\ d.older = c.older
    BY <1>5 DEF AnsweredOlder
  <2> QED
    BY <1>1, <1>3, <2>1, <2>2 DEF Genuine, Brought, Due
<1> QED
  BY <1>6, <1>8, <1>9, <1>10 DEF Genuine

\* So does the start of a synchronization.
LEMMA StartIsGenuine ==
  ASSUME NEW b \in ClientType, NEW d \in ClientType, Started(b, d), NEW h, Genuine(b, h)
  PROVE  Genuine(d, h)
<1>1. b.win \in WindowType /\ d.tail \in TailType /\ Running(d) /\ ~Loading(d)
  BY Requests DEF Started, Running, Loading, NoRequest
<1>2. /\ d.win.msgs = b.win.msgs /\ d.win.reset = b.win.reset /\ d.win.prefer = b.win.prefer
      /\ d.win.epoch = b.win.epoch /\ d.win.newest = b.win.newest /\ d.win.oldest = b.win.oldest
      /\ Due(d.win) = Due(b.win)
  BY <1>1 DEF Started, WindowType, Due
<1>3. Steady(d)
  <2>1. /\ d.tail.at = "asked" /\ ~d.tail.stale /\ d.tail.prefers = b.win.prefer
        /\ d.tail.cold = (~Due(b.win) /\ b.win.newest = 0) /\ d.tail.replace = Due(b.win)
        /\ d.tail.epoch = b.win.epoch /\ d.tail.after = IF Due(b.win) THEN 0 ELSE b.win.newest
    BY DEF Started
  <2>2. /\ d.tail.replace => Due(d.win)
        /\ d.win.prefer /\ ~d.tail.stale => d.tail.prefers
        /\ d.tail.prefers => d.tail.replace
        /\ d.tail.cold => ~d.tail.replace /\ (d.gap \/ ~d.win.reset)
    BY <1>2, <2>1 DEF Due
  <2>3. d.tail.after # 0 => /\ ~d.tail.replace /\ ~d.tail.cold
                            /\ d.win.newest >= d.tail.after /\ d.win.epoch = d.tail.epoch
    <3> SUFFICES ASSUME d.tail.after # 0
                 PROVE  /\ ~d.tail.replace /\ ~d.tail.cold
                        /\ d.win.newest >= d.tail.after /\ d.win.epoch = d.tail.epoch
      OBVIOUS
    <3>1. ~Due(b.win) /\ d.tail.after = b.win.newest
      BY <2>1
    <3>2. b.win.newest \in Nat
      BY <1>1, BoundsAssumption DEF WindowType, Cursor
    <3>3. ~d.tail.replace /\ ~d.tail.cold
      BY <1>1, <2>1, <3>1, d.tail.after # 0 DEF Due, TailType
    <3> QED
      BY <1>2, <2>1, <3>1, <3>2, <3>3
  <2>4. d.win.oldest # 0 => d.win.msgs # {}
    BY <1>2 DEF Genuine, Steady
  <2> QED
    BY <1>1, <2>1, <2>2, <2>3, <2>4 DEF Steady
<1>4. Unreplaced(d) \subseteq Unreplaced(b) /\ (Unreplaced(d) # {} => ~Due(b.win))
  BY <1>1, <1>2 DEF Unreplaced, Started, Due
<1>5. Sure(d, h)
  BY <1>2 DEF Started, Genuine, Sure
<1>6. Joined(d, h)
  BY <1>4 DEF Started, Genuine, Joined
<1>7. Brought(d, h)
  BY <1>1 DEF Started, Brought, AnsweredTail, AnsweredOlder
<1> QED
  BY <1>3, <1>5, <1>6, <1>7 DEF Genuine

LEMMA MoveIsGenuine ==
  ASSUME NEW c \in ClientType, NEW d \in ClientType, Moves(c, d), NEW h, Genuine(c, h)
  PROVE  Genuine(d, h)
BY CalmIsGenuine, StartIsGenuine DEF Moves

\* So does a thread that grows.
LEMMA GrowsGenuine ==
  ASSUME NEW c, NEW h, NEW g, g.epoch = h.epoch, h.thread \subseteq g.thread, h.covered \subseteq g.covered,
         Genuine(c, h)
  PROVE  Genuine(c, g)
BY DEF Genuine, Sure, Joined, Brought

\* Nor does a gap that is charged, or an older page that is given up, change that.
LEMMA ChargeIsGenuine ==
  ASSUME NEW c \in ClientType, NEW d \in ClientType, d.win = c.win, d.tail = c.tail,
         d.older \in {c.older, NoRequest}, c.gap => d.gap, NEW h, Genuine(c, h)
  PROVE  Genuine(d, h)
<1>1. Running(d) = Running(c) /\ (Loading(d) => Loading(c) /\ d.older = c.older)
  BY DEF Running, Loading, NoRequest
<1>2. Steady(d)
  BY <1>1 DEF Genuine, Steady
<1>3. Sure(d, h) /\ Joined(d, h)
  BY <1>1 DEF Genuine, Sure, Joined, Unreplaced
<1>4. Brought(d, h)
  BY <1>1 DEF Genuine, Brought, AnsweredTail, AnsweredOlder
<1> QED
  BY <1>2, <1>3, <1>4 DEF Genuine

\* A window that was cleared, or cut by a rewind, holds nothing that is not.
LEMMA EmptyIsGenuine ==
  ASSUME NEW h
  PROVE  Genuine(EmptyClient, h)
BY DEF Genuine, Steady, Sure, Joined, Brought, AnsweredTail, AnsweredOlder, Unreplaced, EmptyClient, EmptyWindow,
       Running, Loading, NoRequest, Due

LEMMA RewoundIsGenuine ==
  ASSUME NEW c \in ClientType, NEW x, NEW h
  PROVE  Genuine(Rewound(c, x), h)
<1>1. PICK w : w = [c.win EXCEPT !.msgs = {y \in @ : y < x}, !.epoch = 0, !.oldest = 0, !.newest = 0,
                                 !.reset = TRUE, !.prefer = FALSE, !.syncing = TRUE]
  OBVIOUS
<1>2. w.reset /\ ~w.prefer /\ w.oldest = 0
  BY <1>1, Requests DEF WindowType
<1>3. PICK d : d = [EmptyClient EXCEPT !.win = w]
  OBVIOUS
<1>4. d = Rewound(c, x)
  BY <1>1, <1>3 DEF Rewound
<1>5. d.win = w /\ d.tail = NoRequest /\ d.older = NoRequest
  BY <1>3 DEF EmptyClient
<1>6. ~Running(d) /\ ~Loading(d)
  BY <1>5 DEF Running, Loading, NoRequest
<1> QED
  BY <1>2, <1>4, <1>5, <1>6 DEF Genuine, Steady, Sure, Joined, Brought, AnsweredTail, AnsweredOlder, Unreplaced, Due

\* A merge adds the rows and thins the window.
LEMMA MergeThins ==
  ASSUME NEW w \in WindowType, NEW incoming \in SUBSET Positions, NEW limit \in Nat \ {0},
         NEW mode \in {"append", "prepend"}, NEW boundary \in Nat,
         mode = "append" /\ boundary = 0 => limit = Visible,
         NEW merged, merged = [w EXCEPT !.msgs = @ \cup incoming]
  PROVE  /\ merged \in WindowType /\ merged.msgs = w.msgs \cup incoming /\ merged.reset = w.reset
         /\ merged.prefer = w.prefer
         /\ merged.oldest = w.oldest /\ merged.newest = w.newest /\ merged.epoch = w.epoch
         /\ merged.hasMore = w.hasMore
         /\ Thinned(merged, Merge(w, incoming, mode, limit, boundary))
<1>1. /\ merged \in WindowType /\ merged.msgs = w.msgs \cup incoming /\ merged.reset = w.reset
      /\ merged.prefer = w.prefer
      /\ merged.oldest = w.oldest /\ merged.newest = w.newest /\ merged.epoch = w.epoch
      /\ merged.hasMore = w.hasMore
  BY DEF WindowType
<1>2. PICK n : n = Higher(Higher(limit, Older), Cardinality(w.msgs))
  OBVIOUS
<1>3. n \in Nat \ {0}
  <2>1. Cardinality(w.msgs) \in Nat /\ Older \in Nat
    BY Finite, SizesAssumption DEF WindowType
  <2> QED
    BY <1>2, <2>1 DEF Higher
<1>4. /\ Thinned(merged, merged) /\ Thinned(merged, DropOldest(merged, TopOf(merged.msgs, Visible)))
      /\ Thinned(merged, DropNewest(merged, BottomOf(merged.msgs, limit)))
      /\ Thinned(merged, DropNewest(merged, BottomOf(merged.msgs, n)))
  BY <1>1, <1>3, Thins
<1>5. Merge(w, incoming, mode, limit, boundary) \in
        {merged, DropOldest(merged, TopOf(merged.msgs, Visible)), DropNewest(merged, BottomOf(merged.msgs, limit)),
         DropNewest(merged, BottomOf(merged.msgs, n))}
  BY <1>2, Zenon DEF Merge
<1> HIDE DEF Merge
<1> QED
  BY <1>1, <1>4, <1>5

LEMMA ViewThins ==
  ASSUME NEW w \in WindowType, NEW incoming \in SUBSET Positions,
         NEW merged, merged = [w EXCEPT !.msgs = @ \cup incoming]
  PROVE  /\ merged \in WindowType /\ merged.msgs = w.msgs \cup incoming /\ merged.reset = w.reset
         /\ merged.prefer = w.prefer
         /\ merged.oldest = w.oldest /\ merged.newest = w.newest /\ merged.epoch = w.epoch
         /\ merged.hasMore = w.hasMore
         /\ Thinned(merged, MergeInView(w, incoming))
<1>1. History \in Nat \ {0} /\ Visible \in Nat \ {0} /\ w.boundary \in Nat
  BY SizesAssumption, BoundsAssumption DEF WindowType, Cursor
<1>2. PICK b \in Nat : b = w.boundary
  BY <1>1
<1>3. /\ merged \in WindowType /\ merged.msgs = w.msgs \cup incoming /\ merged.reset = w.reset
      /\ merged.prefer = w.prefer
      /\ merged.oldest = w.oldest /\ merged.newest = w.newest /\ merged.epoch = w.epoch
      /\ merged.hasMore = w.hasMore
  BY DEF WindowType
<1>4. Thinned(merged, Merge(w, incoming, "prepend", History, b))
  BY <1>1, MergeThins
<1>5. Thinned(merged, Merge(w, incoming, "append", Visible, b))
  BY <1>1, MergeThins
<1>6. MergeInView(w, incoming) \in {Merge(w, incoming, "prepend", History, b), Merge(w, incoming, "append", Visible, b)}
  BY <1>2, Zenon DEF MergeInView
<1> QED
  BY <1>3, <1>4, <1>5, <1>6

\* A live message of the thread keeps the rows so.
LEMMA IngestIsGenuine ==
  ASSUME NEW c \in ClientType, Sound(c), NEW h, Genuine(c, h), NEW x \in Positions, x \in h.covered,
         NEW d \in ClientType, d = Ingest(c, x)
  PROVE  Genuine(d, h)
<1>1. PICK m : m = MergeInView(c.win, {x})
  OBVIOUS
<1>2. PICK merged : merged = [c.win EXCEPT !.msgs = @ \cup {x}]
  OBVIOUS
<1>3. c.win \in WindowType /\ {x} \in SUBSET Positions
  BY Requests
<1>4. m \in WindowType /\ Keeps(m, c.win)
  BY <1>1, <1>3, Views
<1>5. /\ merged.msgs = c.win.msgs \cup {x} /\ merged.reset = c.win.reset /\ Thinned(merged, m)
  BY <1>1, <1>2, <1>3, ViewThins
<1>6. PICK w : w = IF m.epoch = 0 \/ m.reset THEN m ELSE [m EXCEPT !.newest = Higher(@, x)]
  OBVIOUS
<1>7. PICK gap \in BOOLEAN :
        gap = (c.gap \/ c.owed \/ (x < c.win.oldest /\ x \in TopOf(c.win.msgs \cup {x}, Visible))
               \/ (Running(c) /\ w.reset /\ ~({x} \cup Unreplaced(c) \subseteq w.msgs)))
  OBVIOUS
<1>8. d = [c EXCEPT !.win = w, !.gap = gap]
  BY <1>1, <1>6, <1>7 DEF Ingest, ClientType, WindowType
<1>9. d.win = w /\ d.gap = gap /\ d.tail = c.tail /\ d.older = c.older /\ Running(d) = Running(c) /\ Loading(d) = Loading(c)
  BY <1>8 DEF ClientType, Running, Loading
<1>10. w.msgs = m.msgs /\ w.reset = m.reset /\ w.prefer = m.prefer /\ w.epoch = m.epoch /\ w.oldest = m.oldest
       /\ (w.newest = m.newest \/ w.newest = Higher(m.newest, x))
  BY <1>4, <1>6 DEF WindowType
<1>11. /\ w.msgs \subseteq c.win.msgs \cup {x} /\ w.msgs # {} /\ (c.win.reset => w.reset)
       /\ (w.reset => c.win.reset \/ w.msgs # c.win.msgs \cup {x})
       /\ w.prefer = c.win.prefer /\ w.epoch = c.win.epoch
  BY <1>4, <1>5, <1>10 DEF Thinned, Keeps
<1>12. ~w.reset => w.newest \in Nat /\ c.win.newest \in Nat /\ w.newest >= c.win.newest
  <2>1. c.win.newest \in Nat /\ x \in Nat
    BY <1>3, BoundsAssumption DEF WindowType, Cursor, Positions
  <2>2. ~w.reset => m.newest = c.win.newest
    BY <1>4, <1>10 DEF Keeps
  <2> QED
    BY <1>10, <2>1, <2>2 DEF Higher
<1>13. Steady(d)
  <2>1. Running(c) =>
       /\ c.tail.replace => Due(w)
       /\ w.prefer /\ ~c.tail.stale => c.tail.prefers
       /\ c.tail.prefers => c.tail.replace
       /\ c.tail.cold => ~c.tail.replace
    BY <1>11 DEF Genuine, Steady, Due
  <2>2. Running(c) /\ c.tail.cold => gap \/ ~w.reset
    <3> SUFFICES ASSUME Running(c), c.tail.cold, w.reset, ~gap
                 PROVE  FALSE
      OBVIOUS
    <3>1. ~c.win.reset
      BY <1>7 DEF Genuine, Steady
    <3>2. Unreplaced(c) = c.win.msgs
      BY DEF Unreplaced
    <3>3. {x} \cup c.win.msgs \subseteq w.msgs
      BY <1>7, <3>2
    <3> QED
      BY <1>11, <3>1, <3>3
  <2>3. Running(c) /\ c.tail.after # 0 =>
            /\ ~c.tail.replace /\ ~c.tail.cold
            /\ w.reset \/ (w.newest >= c.tail.after /\ w.epoch = c.tail.epoch)
    <3> SUFFICES ASSUME Running(c), c.tail.after # 0
                 PROVE  /\ ~c.tail.replace /\ ~c.tail.cold
                        /\ w.reset \/ (w.newest >= c.tail.after /\ w.epoch = c.tail.epoch)
      OBVIOUS
    <3>1. c.tail.after \in Nat
      BY Requests, BoundsAssumption DEF TailType, Cursor
    <3> QED
      BY <1>11, <1>12, <3>1 DEF Genuine, Steady
  <2>4. Running(c) /\ c.tail.at = "answered" =>
            IF c.tail.page.direction = "after"
            THEN c.tail.after # 0 /\ c.tail.page.epoch = c.tail.epoch /\ ~c.tail.page.reset
            ELSE c.tail.page.reset = (c.tail.after # 0)
    BY DEF Genuine, Steady
  <2>5. Loading(c) => w.msgs # {} /\ (w.reset \/ c.older.epoch = w.epoch)
    BY <1>11 DEF Genuine, Steady
  <2> QED
    BY <1>9, <1>11, <2>1, <2>2, <2>3, <2>4, <2>5 DEF Steady
<1>14. Unreplaced(d) \subseteq Unreplaced(c) \cup {x}
  <2>1. CASE Running(c)
    BY <1>9, <1>11, <2>1 DEF Unreplaced
  <2>2. CASE ~Running(c)
    <3>1. w.newest = 0 /\ ~w.reset /\ ~w.prefer => c.win.newest = 0 /\ ~c.win.reset /\ ~c.win.prefer
      BY <1>11, <1>12
    <3> QED
      BY <1>9, <1>11, <2>2, <3>1 DEF Unreplaced
  <2> QED
    BY <2>1, <2>2
<1>15. (c.gap => d.gap) /\ (Due(c.win) => Due(w))
  BY <1>7, <1>9, <1>11 DEF Due
<1>16. Sure(d, h)
  BY <1>9, <1>11, <1>15 DEF Genuine, Sure
<1>17. Joined(d, h)
  BY <1>14, <1>15 DEF Genuine, Joined
<1>18. Brought(d, h)
  <2>1. c.win.newest # 0 => w.newest # 0 \/ Due(w)
    BY <1>12 DEF Due
  <2> QED
    BY <1>9, <1>15, <2>1 DEF Genuine, Brought, AnsweredTail, AnsweredOlder
<1> QED
  BY <1>13, <1>16, <1>17, <1>18 DEF Genuine

---------------------------------------------------------------------------
(* The outcomes of an answer.                                              *)

\* d has the window w and no request.
Ended(d, w, gap, owed) ==
  d.win = w /\ d.tail = NoRequest /\ d.older = NoRequest /\ d.gap = gap /\ d.owed = owed

\* What the answer page of the request t leaves, l being the client with the latest page applied and v
\* the window with a catch-up page merged: the latest page alone or with its context, the latest page in
\* place of a catch-up page, the last catch-up page, or one of them and the request for the next.
Alone(t, l, d) ==
  t.after = 0 /\ Ended(d, [l.win EXCEPT !.prefer = FALSE, !.syncing = FALSE], l.gap, l.owed)
WithContext(t, page, l, d) ==
  /\ t.after = 0 /\ t.cold /\ page.hasMore /\ page.epoch = epoch
  /\ Ended(d, [AddContext(l.win, LatestPage(page.next, Page, FALSE)) EXCEPT !.prefer = FALSE, !.syncing = FALSE],
           (l.gap \/ l.win.oldest # page.next), l.owed)
Anew(t, page, l, d) ==
  /\ t.after # 0 /\ page.direction = "latest"
  /\ Ended(d, [l.win EXCEPT !.syncing = FALSE], l.gap, l.owed)
CaughtUp(t, page, v, d) ==
  /\ t.after # 0 /\ page.direction = "after"
  /\ v.reset \/ v.prefer \/ ~page.hasMore \/ page.next = 0
  /\ Ended(d, [v EXCEPT !.syncing = FALSE], client.gap, client.owed)
Continues(t, page, v, d) ==
  /\ t.after # 0 /\ page.direction = "after"
  /\ ~v.reset /\ ~v.prefer /\ page.hasMore /\ page.next # 0
  /\ d.win = v /\ d.older = NoRequest /\ d.gap = client.gap /\ d.owed = client.owed
  /\ d.tail = [t EXCEPT !.at = "asked", !.page = NoPage, !.after = page.next, !.baseline = v.msgs,
                        !.until = IF @ = 0 THEN page.head ELSE @]

\* These are all: the first four end the synchronization.
LEMMA Outcomes ==
  ASSUME IInv, Running(client), client.tail.at = "answered", ~client.tail.stale, ApplyTail,
         NEW t, t = client.tail, NEW page, page = t.page,
         NEW replace, replace = (t.after # 0 \/ t.replace \/ page.reset),
         NEW l, l = ApplyLatest(client, page, replace), NEW v, v = ApplyAfter(client.win, page)
  PROVE  /\ page \in PageType /\ page.epoch # 0 /\ replace \in BOOLEAN
         /\ l \in ClientType /\ l.older = NoRequest /\ v \in WindowType
         /\ (~replace => t.cold /\ ~t.replace)
         /\ client' \in ClientType
         /\ \E d \in ClientType :
              \/ /\ Moves(d, client')
                 /\ Alone(t, l, d) \/ WithContext(t, page, l, d) \/ Anew(t, page, l, d) \/ CaughtUp(t, page, v, d)
              \/ client' = d /\ Continues(t, page, v, d)
<1>1. epoch \in Nat /\ client \in ClientType /\ Sound(client) /\ ~Loading(client) /\ client.older = NoRequest
  BY Requests DEF IInv, TypeOK, Sound, Locks
<1>2. t \in TailType /\ t.at = "answered" /\ ~t.stale /\ page \in PageType /\ page.epoch # 0 /\ replace \in BOOLEAN
  BY <1>1, Requests DEF TailType, Sound, Locks, PageType
<1>3. ~replace => t.cold /\ ~t.replace
  BY <1>1, <1>2 DEF Sound, Locks
<1>4. /\ l \in ClientType /\ ~Loading(l) /\ l.older = NoRequest /\ l.win.epoch # 0 /\ ~l.win.provisional
  <2>1. l \in ClientType /\ ~Loading(l) /\ l.win.epoch # 0 /\ ~l.win.provisional
    BY <1>1, <1>2, <1>3, Latests
  <2> QED
    BY <2>1, Requests
<1>5. /\ v \in WindowType /\ v.epoch # 0
      /\ v.provisional = client.win.provisional /\ v.boundary = client.win.boundary
      /\ (client.win.reset => v.reset)
  BY <1>1, <1>2, Afters, Requests
<1>6. client' \in ClientType
  BY <1>2, Applies
<1>7. PICK applied : applied = [client EXCEPT !.win = v]
  OBVIOUS
<1>8. /\ applied \in ClientType /\ applied.win = v /\ applied.older = NoRequest /\ applied.tail = t
      /\ applied.gap = client.gap /\ applied.owed = client.owed
  BY <1>1, <1>5, <1>7 DEF ClientType
<1>9. Bound(applied) /\ Anchored(applied) /\ ~Loading(applied)
  BY <1>1, <1>5, <1>8 DEF Sound, Bound, Anchored, Loading, NoRequest
<1>10. PICK context \in PageType : context = LatestPage(page.next, Page, FALSE)
  <2>1. page.next \in Cursor /\ TypeOK
    BY <1>2 DEF PageType, IInv
  <2> QED
    BY <2>1, Pages
<1>11. PICK u : u = AddContext(l.win, context)
  OBVIOUS
<1>12. u \in WindowType /\ u.epoch # 0 /\ ~u.provisional
  BY <1>4, <1>11, Contexts, Requests
<1>13. PICK gap \in BOOLEAN : gap = (l.gap \/ l.win.oldest # page.next)
  OBVIOUS
<1>14. PICK lw : lw = [l.win EXCEPT !.prefer = FALSE]
  OBVIOUS
<1>15. PICK uw : uw = [u EXCEPT !.prefer = FALSE]
  OBVIOUS
<1>16. lw \in WindowType /\ lw.epoch # 0 /\ ~lw.provisional /\ uw \in WindowType /\ uw.epoch # 0 /\ ~uw.provisional
  <2>1. l.win \in WindowType
    BY <1>4, Requests
  <2>2. lw \in WindowType /\ lw.epoch # 0 /\ ~lw.provisional
    BY <1>4, <1>14, <2>1 DEF WindowType
  <2>3. uw \in WindowType /\ uw.epoch # 0 /\ ~uw.provisional
    BY <1>12, <1>15 DEF WindowType
  <2> QED
    BY <2>2, <2>3
<1>17. PICK le : le = [l EXCEPT !.win = lw]
  OBVIOUS
<1>18. PICK ue : ue = [l EXCEPT !.gap = gap, !.win = uw]
  OBVIOUS
<1>19. /\ le \in ClientType /\ le.win = lw /\ le.older = NoRequest /\ le.gap = l.gap /\ le.owed = l.owed
       /\ Bound(le) /\ Anchored(le) /\ ~Loading(le)
  BY <1>4, <1>16, <1>17 DEF ClientType, Bound, Anchored, Loading, NoRequest
<1>20. /\ ue \in ClientType /\ ue.win = uw /\ ue.older = NoRequest /\ ue.gap = gap /\ ue.owed = l.owed
       /\ Bound(ue) /\ Anchored(ue) /\ ~Loading(ue)
  BY <1>4, <1>16, <1>18 DEF ClientType, Bound, Anchored, Loading, NoRequest
<1>21. Bound(l) /\ Anchored(l)
  BY <1>4 DEF Bound, Anchored
<1>22. \A e \in ClientType : Bound(e) /\ Anchored(e) /\ ~Loading(e) /\ client' = FinishTail(e) =>
         \E d \in ClientType :
            Moves(d, client') /\ Ended(d, [e.win EXCEPT !.syncing = FALSE], e.gap, e.owed)
  BY <1>1, EndMoves DEF Ended
<1>23. PICK loop : loop = [t EXCEPT !.at = "asked", !.page = NoPage, !.after = page.next, !.baseline = v.msgs,
                                    !.until = IF @ = 0 THEN page.head ELSE @]
  OBVIOUS
<1>24. \/ t.after = 0 /\ client' = FinishTail(le)
       \/ t.after = 0 /\ t.cold /\ page.hasMore /\ page.epoch = epoch /\ client' = FinishTail(ue)
       \/ t.after # 0 /\ page.direction = "latest" /\ client' = FinishTail(l)
       \/ /\ t.after # 0 /\ page.direction = "after" /\ client' = FinishTail(applied)
          /\ v.reset \/ v.prefer \/ ~page.hasMore \/ page.next = 0
       \/ /\ t.after # 0 /\ page.direction = "after" /\ client' = [applied EXCEPT !.tail = loop]
          /\ ~v.reset /\ ~v.prefer /\ page.hasMore /\ page.next # 0
  <2>1. applied = [client EXCEPT !.win = ApplyAfter(@, page)]
    BY <1>1, <1>7 DEF ClientType
  <2>2. loop = [t EXCEPT !.at = "asked", !.page = NoPage, !.after = page.next, !.baseline = applied.win.msgs,
                         !.until = IF @ = 0 THEN page.head ELSE @]
    BY <1>8, <1>23
  <2>3. le = [l EXCEPT !.win.prefer = FALSE]
    BY <1>4, <1>14, <1>17 DEF ClientType
  <2>4. ue = [l EXCEPT !.gap = @ \/ l.win.oldest # page.next, !.win = [AddContext(@, context) EXCEPT !.prefer = FALSE]]
    BY <1>4, <1>11, <1>13, <1>15, <1>18 DEF ClientType
  <2>5. \/ t.after = 0 /\ client' = FinishTail([l EXCEPT !.win.prefer = FALSE])
        \/ /\ t.after = 0 /\ t.cold /\ page.hasMore /\ page.epoch = epoch
           /\ client' = FinishTail([l EXCEPT !.gap = @ \/ l.win.oldest # page.next,
                                             !.win = [AddContext(@, context) EXCEPT !.prefer = FALSE]])
        \/ t.after # 0 /\ page.direction = "latest" /\ client' = FinishTail(l)
        \/ /\ t.after # 0 /\ page.direction = "after"
           /\ client' =
                IF applied.win.reset \/ applied.win.prefer \/ ~page.hasMore \/ page.next = 0
                THEN FinishTail(applied) ELSE [applied EXCEPT !.tail = loop]
    BY <1>2, <1>10, <2>1, <2>2, Zenon DEF ApplyTail, ClientStep
  <2> QED
    BY <1>8, <2>3, <2>4, <2>5
<1>25. CASE t.after = 0 /\ client' = FinishTail(le)
  <2>1. PICK d \in ClientType : Moves(d, client') /\ Ended(d, [lw EXCEPT !.syncing = FALSE], l.gap, l.owed)
    BY <1>19, <1>22, <1>25
  <2>2. [lw EXCEPT !.syncing = FALSE] = [l.win EXCEPT !.prefer = FALSE, !.syncing = FALSE]
    BY <1>14
  <2> QED
    BY <1>2, <1>3, <1>4, <1>5, <1>6, <1>25, <2>1, <2>2 DEF Alone
<1>26. CASE t.after = 0 /\ t.cold /\ page.hasMore /\ page.epoch = epoch /\ client' = FinishTail(ue)
  <2>1. PICK d \in ClientType : Moves(d, client') /\ Ended(d, [uw EXCEPT !.syncing = FALSE], gap, l.owed)
    BY <1>20, <1>22, <1>26
  <2>2. [uw EXCEPT !.syncing = FALSE] = [AddContext(l.win, LatestPage(page.next, Page, FALSE)) EXCEPT
                                           !.prefer = FALSE, !.syncing = FALSE]
    BY <1>10, <1>11, <1>15
  <2>3. Ended(d, [AddContext(l.win, LatestPage(page.next, Page, FALSE)) EXCEPT !.prefer = FALSE, !.syncing = FALSE],
              (l.gap \/ l.win.oldest # page.next), l.owed)
    BY <1>13, <2>1, <2>2
  <2> QED
    BY <1>2, <1>3, <1>4, <1>5, <1>6, <1>26, <2>1, <2>3 DEF WithContext
<1>27. CASE t.after # 0 /\ page.direction = "latest" /\ client' = FinishTail(l)
  <2>1. PICK d \in ClientType : Moves(d, client') /\ Ended(d, [l.win EXCEPT !.syncing = FALSE], l.gap, l.owed)
    BY <1>4, <1>21, <1>22, <1>27
  <2> QED
    BY <1>2, <1>3, <1>4, <1>5, <1>6, <1>27, <2>1 DEF Anew
<1>28. CASE /\ t.after # 0 /\ page.direction = "after" /\ client' = FinishTail(applied)
            /\ v.reset \/ v.prefer \/ ~page.hasMore \/ page.next = 0
  <2>1. PICK d \in ClientType : Moves(d, client') /\ Ended(d, [v EXCEPT !.syncing = FALSE], client.gap, client.owed)
    BY <1>8, <1>9, <1>22, <1>28
  <2> QED
    BY <1>2, <1>3, <1>4, <1>5, <1>6, <1>28, <2>1 DEF CaughtUp
<1>29. CASE /\ t.after # 0 /\ page.direction = "after" /\ client' = [applied EXCEPT !.tail = loop]
            /\ ~v.reset /\ ~v.prefer /\ page.hasMore /\ page.next # 0
  <2>1. PICK d \in ClientType : d = client'
    BY <1>6
  <2>2. /\ d.win = v /\ d.older = NoRequest /\ d.gap = client.gap /\ d.owed = client.owed /\ d.tail = loop
    BY <1>8, <1>29, <2>1 DEF ClientType
  <2> QED
    BY <1>2, <1>3, <1>4, <1>5, <1>6, <1>23, <1>29, <2>1, <2>2 DEF Continues
<1> QED
  BY <1>24, <1>25, <1>26, <1>27, <1>28, <1>29

\* The window that a latest page leaves: what it joins was not replaced.
LEMMA LatestRows ==
  ASSUME NEW c \in ClientType, Running(c), NEW page \in PageType, NEW replace \in BOOLEAN,
         ~replace => c.tail.cold /\ ~c.tail.replace,
         NEW l, l = ApplyLatest(c, page, replace)
  PROVE  /\ l.win.msgs \subseteq Unreplaced(c) \cup page.rows
         /\ l.win.epoch = page.epoch /\ ~l.win.reset /\ l.win.prefer = c.win.prefer
         /\ (c.gap => l.gap) /\ l.owed = c.owed
         /\ (l.win.newest = 0 => l.win.msgs = {})
         /\ (l.win.oldest # 0 => l.win.msgs # {} \/ (page.next # 0 /\ page.rows = {})
                                 \/ (~replace /\ c.win.oldest # 0 /\ c.win.msgs = {}))
<1>1. PICK incoming : incoming = (IF replace THEN c.win.msgs \ c.tail.baseline ELSE c.win.msgs) \cup page.rows
  OBVIOUS
<1>2. PICK kept : kept = TopOf(incoming, Visible)
  OBVIOUS
<1>3. PICK head : head = IF page.head # 0 THEN page.head ELSE Largest(page.rows)
  OBVIOUS
<1>4. PICK hasMore : hasMore = (page.hasMore \/ (~replace /\ c.win.hasMore) \/ kept # incoming)
  OBVIOUS
<1>5. PICK oldest : oldest = IF kept # incoming THEN Min(kept)
                             ELSE IF replace \/ page.next # 0 THEN page.next ELSE c.win.oldest
  OBVIOUS
<1>6. PICK newest : newest = Higher(head, Largest(kept))
  OBVIOUS
<1>7. PICK next : next = [c.win EXCEPT !.msgs = kept, !.epoch = page.epoch, !.reset = FALSE,
                                       !.hasMore = hasMore, !.oldest = oldest, !.newest = newest]
  OBVIOUS
<1>8. PICK w : w = IF replace THEN Unbound(next) ELSE next
  OBVIOUS
<1>9. /\ w.msgs = kept /\ w.epoch = page.epoch /\ ~w.reset /\ w.prefer = c.win.prefer /\ w.newest = newest
      /\ w.oldest = oldest /\ w.hasMore = hasMore
  BY <1>7, <1>8, Requests DEF Unbound, WindowType
<1>10. PICK gap : gap = (c.gap \/ (\E x \in kept : x < page.next) \/ (replace /\ page.rows = {} /\ c.win.hasMore))
  OBVIOUS
<1>11. l.win = w /\ l.gap = gap /\ l.owed = c.owed
  <2>1. next = [c.win EXCEPT
            !.msgs = kept, !.epoch = page.epoch, !.reset = FALSE,
            !.hasMore = page.hasMore \/ (~replace /\ @) \/ kept # incoming,
            !.oldest = IF kept # incoming THEN Min(kept) ELSE IF replace \/ page.next # 0 THEN page.next ELSE @,
            !.newest = Higher(head, Largest(kept))]
    BY <1>4, <1>5, <1>6, <1>7 DEF ClientType, WindowType
  <2>2. l = [c EXCEPT !.win = w, !.older = IF replace THEN NoRequest ELSE @,
                      !.gap = @ \/ (\E x \in kept : x < page.next) \/ (replace /\ page.rows = {} /\ c.win.hasMore)]
    BY <1>1, <1>2, <1>3, <1>8, <2>1 DEF ApplyLatest
  <2> QED
    BY <1>10, <2>2 DEF ClientType
<1>12. incoming \in SUBSET Positions /\ kept \subseteq incoming /\ (incoming # {} => kept # {})
  <2>1. incoming \in SUBSET Positions
    BY <1>1, Requests DEF WindowType, PageType
  <2>2. Visible \in Nat \ {0}
    BY SizesAssumption
  <2> QED
    BY <1>2, <2>1, <2>2, TopIsThere DEF TopOf
<1>13. kept \subseteq Unreplaced(c) \cup page.rows
  BY <1>1, <1>12 DEF Unreplaced
<1>14. newest = 0 => kept = {}
  <2> SUFFICES ASSUME kept # {}
               PROVE  newest # 0
    OBVIOUS
  <2>1. kept \in SUBSET Positions /\ page.rows \in SUBSET Positions
    BY <1>12 DEF PageType
  <2>2. Max(kept) \in Positions
    BY <2>1, Ends
  <2>3. Largest(kept) \in Nat /\ Largest(kept) # 0
    BY <2>2 DEF Largest, Positions
  <2>4. head \in Nat
    BY <1>3, <2>1, CursorTypes, BoundsAssumption DEF PageType, Cursor
  <2>5. newest >= Largest(kept) /\ newest \in Nat
    BY <1>6, <2>3, <2>4, HigherTypes
  <2> QED
    BY <2>3, <2>5
<1>15. oldest # 0 => kept # {} \/ (page.next # 0 /\ page.rows = {}) \/ (~replace /\ c.win.oldest # 0 /\ c.win.msgs = {})
  <2>1. kept # incoming => kept # {}
    BY <1>12
  <2>2. page.rows # {} => kept # {}
    BY <1>1, <1>12
  <2>3. ~replace /\ c.win.msgs # {} => kept # {}
    BY <1>1, <1>12
  <2> QED
    BY <1>5, <2>1, <2>2, <2>3
<1> QED
  BY <1>9, <1>10, <1>11, <1>13, <1>14, <1>15

\* A window without a request is genuine when its rows are.
LEMMA EndIsGenuine ==
  ASSUME NEW d, d.tail = NoRequest, d.older = NoRequest, NEW h, d.win.oldest # 0 => d.win.msgs # {},
         ~d.gap /\ ~Due(d.win) /\ (d.win.epoch = h.epoch \/ d.win.newest = 0) => d.win.msgs \subseteq h.covered
  PROVE  Genuine(d, h)
<1>1. ~Running(d) /\ ~Loading(d)
  BY DEF Running, Loading, NoRequest
<1>2. Sure(d, h) /\ Joined(d, h)
  BY <1>1 DEF Sure, Joined, Unreplaced, Due
<1> QED
  BY <1>1, <1>2 DEF Genuine, Steady, Brought, AnsweredTail, AnsweredOlder

\* A page is of rows that are in the thread.
LEMMA PageRows ==
  ASSUME NEW before, NEW limit, NEW reset \in BOOLEAN, NEW page, page = LatestPage(before, limit, reset)
  PROVE  /\ page.rows \subseteq thread /\ (page.next # 0 => page.rows # {})
         /\ page.epoch = epoch /\ page.direction = "latest" /\ page.reset = reset
<1>1. PICK rows : rows = TopOf({x \in thread : before = 0 \/ x < before}, limit)
  OBVIOUS
<1>2. PICK oldest : oldest = Smallest(rows)
  OBVIOUS
<1>3. page = [direction |-> "latest", reset |-> reset, epoch |-> epoch, rows |-> rows, next |-> oldest,
              head |-> Largest(thread), hasMore |-> \E x \in thread : oldest # 0 /\ x < oldest]
  BY <1>1, <1>2 DEF LatestPage
<1>4. rows \subseteq thread
  BY <1>1 DEF TopOf
<1>5. rows = {} => oldest = 0
  BY <1>2 DEF Smallest
<1> QED
  BY <1>3, <1>4, <1>5

LEMMA LaterRows ==
  ASSUME NEW after, NEW until, NEW page, page = AfterPage(after, until)
  PROVE  page.rows \subseteq thread /\ page.epoch = epoch /\ page.direction = "after" /\ ~page.reset
<1>1. page.rows \subseteq thread
  BY DEF AfterPage, BottomOf
<1> QED
  BY <1>1 DEF AfterPage

\* The page before it adds its rows, and its cursor.
LEMMA ContextRows ==
  ASSUME NEW w \in WindowType, NEW page \in PageType, page.next # 0 => page.rows # {}, NEW u, u = AddContext(w, page)
  PROVE  /\ u.msgs \subseteq w.msgs \cup page.rows /\ u.epoch = w.epoch
         /\ u.oldest = page.next /\ u.hasMore = page.hasMore /\ (u.oldest # 0 => u.msgs # {})
         /\ (w.reset => u.reset) /\ u.prefer = w.prefer
         /\ u.reset \/ (u.newest = w.newest /\ (u.msgs = w.msgs \cup page.rows))
<1>1. page.rows \in SUBSET Positions /\ Visible \in Nat \ {0} /\ w.boundary \in Nat
  BY SizesAssumption, BoundsAssumption DEF PageType, WindowType, Cursor
<1>2. PICK b \in Nat : b = w.boundary
  BY <1>1
<1>3. PICK merged : merged = [w EXCEPT !.msgs = @ \cup page.rows]
  OBVIOUS
<1>4. PICK m : m = Merge(w, page.rows, "prepend", Visible, b)
  OBVIOUS
<1>5. /\ merged.msgs = w.msgs \cup page.rows /\ merged.reset = w.reset /\ merged.newest = w.newest
      /\ Thinned(merged, m)
  <2>1. PICK rows \in SUBSET Positions : rows = page.rows
    BY <1>1
  <2>2. merged = [w EXCEPT !.msgs = @ \cup rows] /\ m = Merge(w, rows, "prepend", Visible, b)
    BY <1>3, <1>4, <2>1
  <2>3. merged.msgs = w.msgs \cup rows /\ merged.reset = w.reset /\ merged.newest = w.newest
    BY <2>2 DEF WindowType
  <2>4. Thinned(merged, Merge(w, rows, "prepend", Visible, b))
    BY <1>1, <2>2, MergeThins
  <2> QED
    BY <2>1, <2>2, <2>3, <2>4
<1>6. m \in WindowType /\ Keeps(m, w)
  BY <1>1, <1>4, Merges
<1>7. m.reset \/ m.msgs = merged.msgs
  <2>1. CASE m = merged
    BY <2>1
  <2>2. ASSUME NEW n, m = DropNewest(merged, BottomOf(merged.msgs, n))
        PROVE  m.reset \/ m.msgs = merged.msgs
    <3>1. merged \in WindowType
      BY <1>1, <1>3, MergeThins
    <3> QED
      BY <2>2, <3>1 DEF DropNewest, WindowType
  <2>3. m = merged \/ \E n : m = DropNewest(merged, BottomOf(merged.msgs, n))
    BY <1>3, <1>4, Zenon DEF Merge
  <2> QED
    BY <2>1, <2>2, <2>3
<1>8. u = [m EXCEPT !.hasMore = page.hasMore, !.oldest = page.next]
  BY <1>2, <1>4 DEF AddContext
<1>9. u.msgs = m.msgs /\ u.epoch = m.epoch /\ u.oldest = page.next /\ u.hasMore = page.hasMore /\ u.reset = m.reset
      /\ u.prefer = m.prefer /\ u.newest = m.newest
  BY <1>6, <1>8 DEF WindowType
<1>10. m.msgs \subseteq w.msgs \cup page.rows /\ (page.rows # {} => m.msgs # {})
       /\ (w.reset => m.reset) /\ (~m.reset => m.newest = w.newest)
  BY <1>5 DEF Thinned
<1> QED
  BY <1>5, <1>6, <1>7, <1>9, <1>10 DEF Keeps

\* The page after its cursor adds its rows, and moves the newest cursor on.
LEMMA AfterRows ==
  ASSUME NEW w \in WindowType, NEW page \in PageType, NEW v, v = ApplyAfter(w, page),
         NEW merged, merged = [w EXCEPT !.msgs = @ \cup page.rows]
  PROVE  /\ merged \in WindowType /\ merged.msgs = w.msgs \cup page.rows /\ merged.reset = w.reset
         /\ merged.oldest = w.oldest /\ merged.newest = w.newest /\ merged.hasMore = w.hasMore
         /\ \E m \in WindowType :
              /\ Thinned(merged, m) /\ m = MergeInView(w, page.rows)
              /\ v.msgs = m.msgs /\ v.reset = m.reset /\ v.oldest = m.oldest /\ v.hasMore = m.hasMore
              /\ v.prefer = w.prefer /\ v.epoch = page.epoch
              /\ (~m.reset => v.newest = Higher(page.next, w.newest))
<1>1. page.rows \in SUBSET Positions
  BY DEF PageType
<1>2. PICK m : m = MergeInView(w, page.rows)
  OBVIOUS
<1>3. m \in WindowType /\ Keeps(m, w)
  BY <1>1, <1>2, Views
<1>4. /\ merged \in WindowType /\ merged.msgs = w.msgs \cup page.rows /\ merged.reset = w.reset
      /\ merged.oldest = w.oldest /\ merged.newest = w.newest /\ merged.hasMore = w.hasMore
      /\ Thinned(merged, m)
  BY <1>1, <1>2, ViewThins
<1>5. v = IF m.reset THEN [m EXCEPT !.epoch = page.epoch]
          ELSE [m EXCEPT !.epoch = page.epoch, !.newest = Higher(page.next, m.newest)]
  BY <1>2, <1>3 DEF ApplyAfter, WindowType
<1>6. /\ v.msgs = m.msgs /\ v.reset = m.reset /\ v.oldest = m.oldest /\ v.hasMore = m.hasMore
      /\ v.prefer = m.prefer /\ v.epoch = page.epoch
      /\ (~m.reset => v.newest = Higher(page.next, m.newest))
  BY <1>3, <1>5 DEF WindowType
<1>7. m.prefer = w.prefer /\ (~m.reset => m.newest = w.newest)
  BY <1>3 DEF Keeps
<1> QED
  BY <1>2, <1>3, <1>4, <1>6, <1>7

\* What the invariants read of the hub grows with the thread, and stays as it is in a step of the client.
LEMMA ViewStays ==
  ASSUME UNCHANGED <<thread, epoch, last, live, events>>
  PROVE  View' = View
BY DEF View, Covered, OnStream, Positions

LEMMA Covers ==
  /\ View.thread = thread /\ View.epoch = epoch /\ View.last = last /\ View.covered = Covered
  /\ View.told = OnStream("message") /\ View.lost = (~live \/ OnStream("connected") # {})
  /\ View.thread \subseteq View.covered
BY DEF View, Covered

\* A synchronization that was answered, or that failed, leaves a genuine window.
LEMMA AppliesGenuine ==
  ASSUME IInv, Running(client), client.tail.at = "answered", ~client.tail.stale, ApplyTail, Genuine(client, View)
  PROVE  Genuine(client', View)
<1>1. epoch \in Nat /\ client \in ClientType /\ Sound(client) /\ ~Loading(client) /\ client.tail \in TailType
      /\ client.win \in WindowType
  BY Requests DEF IInv, TypeOK, Sound, Locks
<1>2. PICK h : h = View
  OBVIOUS
<1>3. h.epoch = epoch /\ thread \subseteq h.covered /\ Genuine(client, h)
  BY <1>2, Covers
<1>4. PICK t : t = client.tail
  OBVIOUS
<1>5. PICK page : page = t.page
  OBVIOUS
<1>6. PICK replace : replace = (t.after # 0 \/ t.replace \/ page.reset)
  OBVIOUS
<1>7. PICK l : l = ApplyLatest(client, page, replace)
  OBVIOUS
<1>8. PICK v : v = ApplyAfter(client.win, page)
  OBVIOUS
<1>9. /\ page \in PageType /\ page.epoch # 0 /\ replace \in BOOLEAN /\ l \in ClientType /\ v \in WindowType
      /\ (~replace => t.cold /\ ~t.replace) /\ client' \in ClientType
  BY <1>4, <1>5, <1>6, <1>7, <1>8, Outcomes
<1>10. /\ l.win.msgs \subseteq Unreplaced(client) \cup page.rows
       /\ l.win.epoch = page.epoch /\ ~l.win.reset /\ l.win.prefer = client.win.prefer
       /\ (client.gap => l.gap)
       /\ (l.win.newest = 0 => l.win.msgs = {})
       /\ (l.win.oldest # 0 => l.win.msgs # {} \/ (page.next # 0 /\ page.rows = {})
                               \/ (~replace /\ client.win.oldest # 0 /\ client.win.msgs = {}))
  BY <1>1, <1>4, <1>7, <1>9, LatestRows
<1>11. /\ (page.epoch = epoch => page.rows \subseteq thread)
       /\ (page.direction = "latest" /\ page.next # 0 => page.rows # {})
       /\ (~client.gap => Unreplaced(client) \subseteq h.covered)
       /\ (client.win.oldest # 0 => client.win.msgs # {})
       /\ (page.direction = "after" => t.after # 0 /\ page.epoch = t.epoch)
  <2>1. AnsweredTail(client)
    BY DEF AnsweredTail
  <2>2. /\ (page.epoch = epoch => page.rows \subseteq thread)
        /\ (page.direction = "latest" /\ page.next # 0 => page.rows # {})
    BY <1>2, <1>3, <1>4, <1>5, <2>1, Covers DEF Genuine, Brought
  <2>3. ~client.gap => Unreplaced(client) \subseteq h.covered
    BY <1>3 DEF Genuine, Joined
  <2>4. client.win.oldest # 0 => client.win.msgs # {}
    BY <1>3 DEF Genuine, Steady
  <2>5. page.direction = "after" => t.after # 0 /\ page.epoch = t.epoch
    BY <1>3, <1>4, <1>5 DEF Genuine, Steady
  <2> QED
    BY <2>2, <2>3, <2>4, <2>5
<1>12. /\ page.direction = "latest" /\ l.win.oldest # 0 => l.win.msgs # {}
       /\ ~l.gap /\ page.epoch = epoch => l.win.msgs \subseteq h.covered
  BY <1>3, <1>10, <1>11
<1>13. t.after = 0 => page.direction = "latest"
  BY <1>9, <1>11 DEF PageType
<1>14. \A d \in ClientType : Moves(d, client') /\ Genuine(d, h) => Genuine(client', h)
  BY <1>9, MoveIsGenuine
<1>15. PICK d \in ClientType :
         \/ /\ Moves(d, client')
            /\ Alone(t, l, d) \/ WithContext(t, page, l, d) \/ Anew(t, page, l, d) \/ CaughtUp(t, page, v, d)
         \/ client' = d /\ Continues(t, page, v, d)
  BY <1>4, <1>5, <1>6, <1>7, <1>8, Outcomes
<1>16. CASE Moves(d, client') /\ Alone(t, l, d)
  <2>1. d.tail = NoRequest /\ d.older = NoRequest /\ d.gap = l.gap /\ d.win.msgs = l.win.msgs
        /\ d.win.oldest = l.win.oldest /\ d.win.epoch = page.epoch /\ d.win.newest = l.win.newest
    BY <1>9, <1>10, <1>16, Requests DEF Alone, Ended, WindowType
  <2>2. Genuine(d, h)
    BY <1>3, <1>10, <1>12, <1>13, <1>16, <2>1, EndIsGenuine DEF Alone
  <2> QED
    BY <1>2, <1>14, <1>16, <2>2
<1>17. CASE Moves(d, client') /\ WithContext(t, page, l, d)
  <2>1. PICK context \in PageType : context = LatestPage(page.next, Page, FALSE)
    <3>1. page.next \in Cursor /\ TypeOK
      BY <1>9 DEF PageType, IInv
    <3> QED
      BY <3>1, Pages
  <2>2. context.rows \subseteq thread /\ (context.next # 0 => context.rows # {})
    BY <2>1, PageRows
  <2>3. PICK u : u = AddContext(l.win, context)
    OBVIOUS
  <2>4. u.msgs \subseteq l.win.msgs \cup context.rows /\ u.epoch = l.win.epoch /\ (u.oldest # 0 => u.msgs # {})
    BY <1>9, <2>2, <2>3, ContextRows, Requests
  <2>5. u \in WindowType
    BY <1>9, <2>3, Contexts, Requests
  <2>6. d.tail = NoRequest /\ d.older = NoRequest /\ (l.gap => d.gap) /\ d.win.msgs = u.msgs
        /\ d.win.oldest = u.oldest
    BY <1>17, <2>1, <2>3, <2>5 DEF WithContext, Ended, WindowType
  <2>7. ~d.gap => d.win.msgs \subseteq h.covered
    BY <1>3, <1>12, <1>13, <1>17, <2>2, <2>4, <2>6 DEF WithContext
  <2>8. Genuine(d, h)
    BY <2>4, <2>6, <2>7, EndIsGenuine
  <2> QED
    BY <1>2, <1>14, <1>17, <2>8
<1>18. CASE Moves(d, client') /\ Anew(t, page, l, d)
  <2>1. d.tail = NoRequest /\ d.older = NoRequest /\ d.gap = l.gap /\ d.win.msgs = l.win.msgs
        /\ d.win.oldest = l.win.oldest /\ d.win.epoch = page.epoch /\ d.win.newest = l.win.newest
    BY <1>9, <1>10, <1>18, Requests DEF Anew, Ended, WindowType
  <2>2. Genuine(d, h)
    BY <1>3, <1>10, <1>12, <1>18, <2>1, EndIsGenuine DEF Anew
  <2> QED
    BY <1>2, <1>14, <1>18, <2>2
<1>19. t.after # 0 /\ page.direction = "after" =>
         /\ v.epoch = page.epoch /\ (client.win.reset => v.reset) /\ v.prefer = client.win.prefer
         /\ v.msgs \subseteq client.win.msgs \cup page.rows
         /\ (v.oldest # 0 => v.msgs # {})
         /\ (~v.reset => v.newest = Higher(page.next, client.win.newest) /\ ~client.win.prefer)
         /\ (~v.reset /\ ~client.gap /\ page.epoch = epoch => v.msgs \subseteq h.covered)
         /\ (~v.reset => v.newest # 0 /\ v.newest >= page.next)
  <2> SUFFICES ASSUME t.after # 0, page.direction = "after"
               PROVE  /\ v.epoch = page.epoch /\ (client.win.reset => v.reset) /\ v.prefer = client.win.prefer
                      /\ v.msgs \subseteq client.win.msgs \cup page.rows
                      /\ (v.oldest # 0 => v.msgs # {})
                      /\ (~v.reset => v.newest = Higher(page.next, client.win.newest) /\ ~client.win.prefer)
                      /\ (~v.reset /\ ~client.gap /\ page.epoch = epoch => v.msgs \subseteq h.covered)
                      /\ (~v.reset => v.newest # 0 /\ v.newest >= page.next)
    OBVIOUS
  <2>1. PICK merged : merged = [client.win EXCEPT !.msgs = @ \cup page.rows]
    OBVIOUS
  <2>2. merged.msgs = client.win.msgs \cup page.rows /\ merged.reset = client.win.reset /\ merged.oldest = client.win.oldest
    BY <1>1, <1>8, <1>9, <2>1, AfterRows
  <2>3. PICK m \in WindowType :
              /\ Thinned(merged, m)
              /\ v.msgs = m.msgs /\ v.reset = m.reset /\ v.oldest = m.oldest
              /\ v.prefer = client.win.prefer /\ v.epoch = page.epoch
              /\ (~m.reset => v.newest = Higher(page.next, client.win.newest))
    BY <1>1, <1>8, <1>9, <2>1, AfterRows
  <2>4. (client.win.reset => v.reset) /\ v.msgs \subseteq client.win.msgs \cup page.rows
    BY <2>2, <2>3 DEF Thinned
  <2>5. v.oldest # 0 => v.msgs # {}
    BY <1>11, <2>2, <2>3 DEF Thinned
  <2>6. ~client.win.reset => ~client.win.prefer /\ client.win.newest >= t.after /\ client.win.epoch = t.epoch
    BY <1>3, <1>4 DEF Genuine, Steady
  <2>7. ~client.win.reset /\ ~client.gap /\ page.epoch = epoch => client.win.msgs \subseteq h.covered
    BY <1>3, <1>11, <2>6 DEF Genuine, Sure, Due
  <2>8. ~v.reset => v.newest # 0 /\ v.newest >= page.next
    <3>1. page.next \in Nat /\ client.win.newest \in Nat /\ t.after \in Nat \ {0}
      BY <1>1, <1>4, <1>9, BoundsAssumption DEF PageType, WindowType, TailType, Cursor
    <3>2. PICK n : n = Higher(page.next, client.win.newest)
      OBVIOUS
    <3>3. n >= page.next /\ n >= client.win.newest /\ n \in Nat
      BY <3>1, <3>2, HigherTypes
    <3> QED
      BY <2>3, <2>4, <2>6, <3>1, <3>2, <3>3
  <2>9. ~v.reset => v.newest = Higher(page.next, client.win.newest) /\ ~client.win.prefer
    BY <2>3, <2>4, <2>6
  <2>10. ~v.reset /\ ~client.gap /\ page.epoch = epoch => v.msgs \subseteq h.covered
    BY <1>3, <1>11, <2>4, <2>7
  <2> QED
    BY <2>3, <2>4, <2>5, <2>8, <2>9, <2>10
<1>20. CASE Moves(d, client') /\ CaughtUp(t, page, v, d)
  <2>1. d.tail = NoRequest /\ d.older = NoRequest /\ d.gap = client.gap /\ d.win.msgs = v.msgs
        /\ d.win.oldest = v.oldest /\ d.win.epoch = v.epoch /\ d.win.newest = v.newest /\ d.win.reset = v.reset
    BY <1>9, <1>20 DEF CaughtUp, Ended, WindowType
  <2>2. Genuine(d, h)
    BY <1>3, <1>19, <1>20, <2>1, EndIsGenuine DEF CaughtUp, Due
  <2> QED
    BY <1>2, <1>14, <1>20, <2>2
<1>21. CASE client' = d /\ Continues(t, page, v, d)
  <2>1. /\ d.tail.at = "asked" /\ d.tail.after = page.next /\ d.tail.baseline = v.msgs /\ d.tail.replace = t.replace
        /\ d.tail.cold = t.cold /\ d.tail.prefers = t.prefers /\ d.tail.epoch = t.epoch
    BY <1>1, <1>4, <1>21 DEF Continues, TailType
  <2>2. Running(d) /\ ~Loading(d)
    BY <1>21, <2>1 DEF Continues, Running, Loading, NoRequest
  <2>3. ~t.replace /\ ~t.cold /\ ~t.prefers
    BY <1>3, <1>4, <1>21 DEF Continues, Genuine, Steady
  <2>4. Steady(d)
    BY <1>11, <1>19, <1>21, <2>1, <2>2, <2>3 DEF Continues, Steady, Due
  <2>5. Sure(d, h) /\ Joined(d, h)
    BY <1>3, <1>19, <1>21, <2>1, <2>2, <2>3 DEF Continues, Sure, Joined, Unreplaced, Due
  <2>6. Brought(d, h)
    BY <2>1, <2>2 DEF Brought, AnsweredTail, AnsweredOlder
  <2> QED
    BY <1>2, <1>21, <2>4, <2>5, <2>6 DEF Genuine
<1> QED
  BY <1>15, <1>16, <1>17, <1>18, <1>20, <1>21

---------------------------------------------------------------------------
(* Every action keeps the rows genuine.                                    *)

\* What is broadcast joins the stream.
LEMMA Appends ==
  ASSUME IInv, NEW e \in EventType, Emit(e), NEW kind
  PROVE  /\ ~live => events' = <<>> /\ events = <<>>
         /\ live => OnStream(kind)' = OnStream(kind) \cup (IF e.kind = kind THEN {e.at} ELSE {})
<1>1. PICK s \in Seq(EventType) : s = events
  BY DEF IInv, TypeOK
<1>2. ~live => events = <<>> /\ events' = events
  BY DEF IInv, TypeOK, Emit
<1>3. ASSUME live
      PROVE  OnStream(kind)' = OnStream(kind) \cup (IF e.kind = kind THEN {e.at} ELSE {})
  <2>1. PICK t : t = Append(s, e)
    OBVIOUS
  <2>2. events' = t
    BY <1>1, <1>3, <2>1 DEF Emit
  <2>3. PICK n \in Nat : n = Len(s)
    BY <1>1
  <2>4. DOMAIN s = 1..n /\ DOMAIN t = 1..(n + 1) /\ t[n + 1] = e /\ \A i \in 1..n : t[i] = s[i]
    BY <1>1, <2>1, <2>3
  <2> DEFINE On(q) == {q[i].at : i \in {j \in DOMAIN q : q[j].kind = kind}}
  <2>5. On(s) \subseteq On(t)
    BY <2>4
  <2>6. e.kind = kind => e.at \in On(t)
    BY <2>4
  <2>7. On(t) \subseteq On(s) \cup (IF e.kind = kind THEN {e.at} ELSE {})
    <3> SUFFICES ASSUME NEW i \in 1..(n + 1), t[i].kind = kind
                 PROVE  t[i].at \in On(s) \cup (IF e.kind = kind THEN {e.at} ELSE {})
      BY <2>4
    <3>1. CASE i = n + 1
      BY <2>4, <3>1
    <3>2. CASE i # n + 1
      <4>1. i \in 1..n
        BY <3>2
      <4> QED
        BY <2>4, <4>1
    <3> QED
      BY <3>1, <3>2
  <2>8. On(s) = OnStream(kind) /\ On(t) = OnStream(kind)'
    BY <1>1, <2>2 DEF OnStream
  <2> HIDE DEF On
  <2> QED
    BY <2>5, <2>6, <2>7, <2>8
<1> QED
  BY <1>2, <1>3

\* No rewind is on a stream that is empty.
LEMMA NoneOnStream ==
  ASSUME events = <<>>, NEW kind
  PROVE  OnStream(kind) = {}
BY DEF OnStream

\* A charged gap excuses the rows.
LEMMA GapIsGenuine ==
  ASSUME NEW c, c.gap, NEW h, Genuine(c, h), NEW g, g.epoch = h.epoch, h.thread \subseteq g.thread
  PROVE  Genuine(c, g)
BY DEF Genuine, Sure, Joined, Brought

LEMMA StoreKeeps ==
  ASSUME IInv, Genuine(client, View), Store
  PROVE  Genuine(client, View)'
<1>1. PICK e \in EventType : e = [kind |-> "message", at |-> last + 1]
  <2>1. last + 1 \in Positions
    BY BoundsAssumption DEF IInv, TypeOK, Store, Positions
  <2> QED
    BY <2>1 DEF EventType
<1>2. Emit(e) /\ thread \subseteq thread' /\ UNCHANGED <<client, live, epoch>>
  BY <1>1 DEF Store
<1>3. OnStream("rewind")' = OnStream("rewind")
  <2>1. CASE live
    <3>1. e.kind # "rewind"
      BY <1>1
    <3> QED
      BY <1>2, <2>1, <3>1, Appends
  <2>2. CASE ~live
    <3>1. events' = events
      BY <1>2, <2>2, Appends
    <3> QED
      BY <3>1 DEF OnStream
  <2> QED
    BY <2>1, <2>2
<1>4. Covered \subseteq Covered'
  BY <1>2, <1>3 DEF Covered, Positions
<1>5. View'.epoch = View.epoch /\ View.thread \subseteq View'.thread /\ View.covered \subseteq View'.covered
  BY <1>2, <1>4 DEF View
<1> QED
  BY <1>2, <1>5, GrowsGenuine

LEMMA ConnectKeeps ==
  ASSUME IInv, Genuine(client, View), Connect
  PROVE  Genuine(client, View)'
<1>1. events = <<>> /\ UNCHANGED <<client, epoch, thread>>
  BY DEF IInv, TypeOK, Connect, serverVars
<1>2. OnStream("rewind") = {}
  BY <1>1, NoneOnStream
<1>3. Covered \subseteq Covered'
  BY <1>1, <1>2 DEF Covered, Positions
<1>4. View'.epoch = View.epoch /\ View.thread \subseteq View'.thread /\ View.covered \subseteq View'.covered
  BY <1>1, <1>3 DEF View
<1> QED
  BY <1>1, <1>4, GrowsGenuine

\* A stream that is lost takes the rewinds on it along.
LEMMA LosingKeeps ==
  ASSUME IInv, Genuine(client, View), UNCHANGED <<thread, epoch>>, events' = <<>>, NEW d, d = EventsLost(client)
  PROVE  d \in ClientType /\ Genuine(d, View')
<1>1. /\ d \in ClientType /\ d.win = client.win /\ d.tail = client.tail /\ d.older = client.older
      /\ d.gap = (client.gap \/ OnStream("rewind") # {})
  <2>1. client \in ClientType
    BY DEF IInv, TypeOK
  <2>2. d \in ClientType /\ d.win = client.win /\ d.tail = client.tail /\ d.older = client.older
    BY <2>1, Charges
  <2>3. PICK gap \in BOOLEAN : gap = (client.gap \/ OnStream("rewind") # {})
    OBVIOUS
  <2>4. d = [client EXCEPT !.gap = gap]
    BY <2>1, <2>3 DEF EventsLost, ClientType
  <2> QED
    BY <2>1, <2>2, <2>3, <2>4 DEF ClientType
<1>2. Genuine(d, View)
  BY <1>1, ChargeIsGenuine DEF IInv, TypeOK
<1>3. View'.epoch = View.epoch /\ View.thread \subseteq View'.thread
  BY DEF View
<1>4. CASE OnStream("rewind") = {}
  <2>1. Covered \subseteq Covered'
    BY <1>4 DEF Covered, Positions
  <2>2. View.covered \subseteq View'.covered
    BY <2>1 DEF View
  <2> QED
    BY <1>1, <1>2, <1>3, <2>2, GrowsGenuine
<1>5. CASE OnStream("rewind") # {}
  BY <1>1, <1>2, <1>3, <1>5, GapIsGenuine
<1> QED
  BY <1>4, <1>5

LEMMA CutKeeps ==
  ASSUME IInv, Genuine(client, View), Cut
  PROVE  Genuine(client, View)'
<1>1. UNCHANGED <<thread, epoch>> /\ events' = <<>> /\ client' = EventsLost(client)
  BY DEF Cut, serverVars
<1> QED
  BY <1>1, LosingKeeps

LEMMA RewindKeeps ==
  ASSUME IInv, Genuine(client, View), NEW x \in thread, Rewind(x)
  PROVE  Genuine(client, View)'
<1>1. PICK e \in EventType : e = [kind |-> "rewind", at |-> x]
  <2>1. x \in Positions
    BY BoundsAssumption DEF IInv, TypeOK, Positions
  <2> QED
    BY <2>1 DEF EventType
<1>2. /\ Emit(e) /\ thread' = {y \in thread : y < x} /\ epoch' = epoch + 1 /\ live' = live
      /\ client' = IF live THEN client ELSE RewindLost(client)
  BY <1>1 DEF Rewind
<1>3. epoch \in Nat /\ client \in ClientType /\ Sound(client) /\ thread \subseteq Nat /\ x \in Nat
  BY DEF IInv, TypeOK
<1>4. View'.epoch = epoch + 1 /\ View.epoch = epoch /\ View.thread = thread /\ View.covered = Covered
      /\ View'.covered = Covered'
  BY <1>2 DEF View
<1>5. live => Covered \subseteq Covered'
  <2> SUFFICES ASSUME live, NEW y \in Covered
               PROVE  y \in Covered'
    OBVIOUS
  <2>1. OnStream("rewind")' = OnStream("rewind") \cup {x}
    BY <1>1, <1>2, Appends
  <2>2. thread \subseteq Positions
    BY BoundsAssumption DEF IInv, TypeOK, Positions
  <2> QED
    BY <1>2, <1>3, <2>1, <2>2 DEF Covered, Positions
<1>6. /\ client' \in ClientType /\ client'.win = client.win /\ client'.tail = client.tail /\ client'.older = client.older
      /\ (client.gap => client'.gap) /\ (~live /\ Unreplaced(client) # {} => client'.gap)
  <2>1. CASE live
    BY <1>2, <1>3, <2>1
  <2>2. CASE ~live
    <3>1. client' \in ClientType /\ client'.win = client.win /\ client'.tail = client.tail /\ client'.older = client.older
      BY <1>2, <1>3, <2>2, Charges
    <3>2. PICK gap \in BOOLEAN : gap = (client.gap \/ Unreplaced(client) # {})
      OBVIOUS
    <3>3. client' = [client EXCEPT !.gap = gap]
      BY <1>2, <1>3, <2>2, <3>2 DEF RewindLost, ClientType
    <3> QED
      BY <1>3, <3>1, <3>2, <3>3 DEF ClientType
  <2> QED
    BY <2>1, <2>2
<1>7. Genuine(client', View)
  BY <1>3, <1>6, ChargeIsGenuine
<1>8. client.win \in WindowType /\ (Running(client) => client.tail \in TailType)
      /\ (Loading(client) => client.older \in OlderType)
  BY <1>3, Requests
<1>9. client'.win.epoch # View'.epoch
  BY <1>3, <1>4, <1>6, <1>8 DEF WindowType, Epoch
<1>10. Steady(client') /\ Sure(client', View')
  BY <1>7, <1>9 DEF Genuine, Sure
<1>11. Unreplaced(client') = Unreplaced(client) /\ Running(client') = Running(client) /\ Loading(client') = Loading(client)
  BY <1>6 DEF Unreplaced, Running, Loading
<1>12. Joined(client', View')
  BY <1>4, <1>5, <1>6, <1>7, <1>11 DEF Genuine, Joined
<1>13. AnsweredTail(client') => client'.tail.page.epoch # View'.epoch
  BY <1>3, <1>4, <1>6, <1>8, <1>11 DEF AnsweredTail, TailType, PageType, Epoch
<1>14. AnsweredOlder(client') =>
         /\ client'.older.page.epoch # View'.epoch
         /\ client'.gap \/ Due(client'.win) \/ client'.win.newest # 0 \/ client'.older.page.rows \subseteq View'.covered
  <2> SUFFICES ASSUME AnsweredOlder(client')
               PROVE  /\ client'.older.page.epoch # View'.epoch
                      /\ client'.gap \/ Due(client'.win) \/ client'.win.newest # 0
                           \/ client'.older.page.rows \subseteq View'.covered
    OBVIOUS
  <2>1. Loading(client) /\ ~Running(client)
    BY <1>3, <1>11 DEF AnsweredOlder, Sound, Locks
  <2>2. client'.older.page.epoch # View'.epoch
    BY <1>3, <1>4, <1>6, <1>8, <2>1 DEF OlderType, PageType, Epoch
  <2>3. CASE live
    BY <1>4, <1>5, <1>7, <2>2, <2>3 DEF Genuine, Brought
  <2>4. CASE ~live
    <3>1. client.win.msgs # {}
      BY <1>6, <1>7, <1>11, <2>1 DEF Genuine, Steady
    <3>2. client.win.newest = 0 /\ ~Due(client.win) => Unreplaced(client) # {}
      BY <2>1, <3>1 DEF Unreplaced, Due
    <3> QED
      BY <1>6, <2>2, <2>4, <3>2
  <2> QED
    BY <2>3, <2>4
<1>15. Brought(client', View')
  BY <1>7, <1>13, <1>14 DEF Genuine, Brought
<1> QED
  BY <1>10, <1>12, <1>15 DEF Genuine

\* In a step that keeps the epoch the types stay.
LEMMA SameType ==
  ASSUME epoch' = epoch
  PROVE  ClientType' = ClientType
BY DEF ClientType, WindowType, TailType, OlderType, PageType, Epoch, Positions, Cursor

\* A client step that moves keeps the rows genuine.
LEMMA ClientMoves ==
  ASSUME IInv, IInv', Genuine(client, View), UNCHANGED <<thread, epoch, last, live, events>>,
         \E d \in ClientType : Genuine(d, View) /\ Moves(d, client')
  PROVE  Genuine(client, View)'
<1>1. client' \in ClientType
  BY SameType DEF IInv, TypeOK
<1>2. Genuine(client', View)
  BY <1>1, MoveIsGenuine
<1> QED
  BY <1>2, ViewStays

LEMMA HandleKeeps ==
  ASSUME IInv, IInv', Ordered, Genuine(client, View), HandleEvent
  PROVE  Genuine(client, View)'
<1>1. PICK e : e = Head(events)
  OBVIOUS
<1>2. UNCHANGED <<thread, epoch, live, last>> /\ epoch \in Nat /\ client \in ClientType /\ Sound(client)
  BY DEF HandleEvent, serverVars, IInv, TypeOK
<1>3. client' \in ClientType
  BY <1>2, SameType DEF IInv, TypeOK
<1>4. View'.epoch = View.epoch /\ View.thread = View'.thread /\ View'.covered = Covered' /\ View.covered = Covered
      /\ View'.thread = thread
  BY <1>2 DEF View
<1>5. e.kind # "rewind" => View'.covered = View.covered
  <2> SUFFICES ASSUME e.kind # "rewind"
               PROVE  Covered' = Covered
    BY <1>4
  <2>1. OnStream("rewind")' = OnStream("rewind")
    BY <1>1, Pops
  <2> QED
    BY <1>2, <2>1 DEF Covered, Positions
<1>6. e.kind # "rewind" => Genuine(client, View')
  BY <1>4, <1>5, GrowsGenuine
<1>7. CASE e.kind = "connected" /\ client' = Connected(client)
  <2>1. PICK d : d = [client EXCEPT !.owed = TRUE]
    OBVIOUS
  <2>2. d \in ClientType /\ d.win = client.win /\ d.tail = client.tail /\ d.older = client.older /\ d.gap = client.gap
    BY <1>2, <2>1 DEF ClientType
  <2>3. Genuine(d, View')
    BY <1>2, <1>6, <1>7, <2>2, ChargeIsGenuine
  <2>4. Sound(d) /\ Running(d) = Running(client) /\ Loading(d) = Loading(client)
    BY <1>2, <2>1, <2>2 DEF Sound, Bound, Anchored, Locks, Followed, Running, Loading, ClientType
  <2>5. client' = Sync(d, TRUE)
    BY <1>7, <2>1 DEF Connected
  <2>6. Moves(d, client')
    BY <1>2, <2>2, <2>4, <2>5, SyncMoves DEF Sound, Locks
  <2> QED
    BY <1>3, <2>2, <2>3, <2>6, MoveIsGenuine
<1>8. CASE e.kind = "message" /\ client' = Ingest(client, e.at)
  <2>1. e.at \in Positions /\ (e.at \in thread \/ \E x \in OnStream("rewind")' : x <= e.at)
    BY <1>1, <1>8, Pops
  <2>2. e.at \in View'.covered
    BY <1>2, <1>4, <2>1 DEF Covered, Positions
  <2> QED
    BY <1>2, <1>3, <1>6, <1>8, <2>1, <2>2, IngestIsGenuine
<1>9. CASE e.kind = "rewind" /\ client' = Invalidated(client, e.at)
  <2>1. PICK d : d = IF e.at \in client.win.msgs THEN Rewound(client, e.at) ELSE Cleared(client)
    OBVIOUS
  <2>2. d \in ClientType /\ ~Running(d) /\ Bound(d) /\ Anchored(d)
    <3>1. CASE e.at \in client.win.msgs
      <4>1. d \in ClientType /\ ~Running(d) /\ d.win.reset /\ d.win.provisional = client.win.provisional
            /\ d.win.boundary = client.win.boundary
        BY <1>2, <2>1, <3>1, Restarts
      <4> QED
        BY <1>2, <4>1 DEF Sound, Bound, Anchored
    <3>2. CASE e.at \notin client.win.msgs
      BY <1>2, <2>1, <3>2, Empties DEF Cleared, Sound
    <3> QED
      BY <3>1, <3>2
  <2>3. Genuine(d, View')
    BY <1>2, <2>1, EmptyIsGenuine, RewoundIsGenuine DEF Cleared
  <2>4. client' = Sync(d, FALSE)
    BY <1>9, <2>1 DEF Invalidated
  <2>5. Moves(d, client')
    BY <1>2, <2>2, <2>4, SyncMoves
  <2> QED
    BY <1>3, <2>2, <2>3, <2>5, MoveIsGenuine
<1>10. \/ e.kind = "connected" /\ client' = Connected(client)
       \/ e.kind = "message" /\ client' = Ingest(client, e.at)
       \/ e.kind = "rewind" /\ client' = Invalidated(client, e.at)
  BY <1>1 DEF HandleEvent
<1> QED
  BY <1>7, <1>8, <1>9, <1>10

\* An answer is about the thread there is.
LEMMA TailAnswers ==
  ASSUME NEW t, NEW page, page = PageFor(t), t.epoch \in Nat
  PROVE  /\ page.rows \subseteq thread /\ page.epoch = epoch
         /\ page.direction = "latest" /\ page.next # 0 => page.rows # {}
         /\ IF page.direction = "after"
            THEN t.after # 0 /\ page.epoch = t.epoch /\ ~page.reset
            ELSE page.reset = (t.after # 0)
<1>1. CASE t.after = 0
  <2>1. page = LatestPage(0, t.limit, FALSE)
    BY <1>1 DEF PageFor
  <2>2. /\ page.rows \subseteq thread /\ (page.next # 0 => page.rows # {})
        /\ page.epoch = epoch /\ page.direction = "latest" /\ ~page.reset
    BY <2>1, PageRows
  <2>3. page.reset = FALSE
    BY <2>1, PageRows
  <2> QED
    BY <1>1, <2>2, <2>3
<1>2. CASE t.after # 0 /\ t.epoch # epoch
  <2>1. page = LatestPage(0, t.limit, TRUE)
    BY <1>2 DEF PageFor
  <2> QED
    BY <1>2, <2>1, PageRows
<1>3. CASE t.after # 0 /\ t.epoch = epoch
  <2>1. page = AfterPage(t.after, t.until)
    BY <1>3 DEF PageFor
  <2> QED
    BY <1>3, <2>1, LaterRows
<1> QED
  BY <1>1, <1>2, <1>3

LEMMA ServeTailKeeps ==
  ASSUME IInv, Genuine(client, View), ServeTail
  PROVE  Genuine(client, View)'
<1>1. client \in ClientType /\ Running(client) /\ client.tail \in TailType /\ Sound(client) /\ ~Loading(client)
  BY Requests DEF IInv, TypeOK, ServeTail, Running, Sound, Locks
<1>2. PICK page : page = PageFor(client.tail)
  OBVIOUS
<1>3. PICK t : t = [client.tail EXCEPT !.at = "answered", !.page = page]
  OBVIOUS
<1>4. client' = [client EXCEPT !.tail = t]
  BY <1>1, <1>2, <1>3 DEF ServeTail, ClientStep, ClientType
<1>5. /\ client'.win = client.win /\ client'.tail = t /\ client'.older = client.older /\ client'.gap = client.gap
      /\ client'.owed = client.owed
  BY <1>1, <1>4 DEF ClientType
<1>6. /\ t.at = "answered" /\ t.page = page /\ t.stale = client.tail.stale /\ t.prefers = client.tail.prefers
      /\ t.cold = client.tail.cold /\ t.replace = client.tail.replace /\ t.baseline = client.tail.baseline
      /\ t.after = client.tail.after /\ t.epoch = client.tail.epoch /\ client.tail.epoch \in Nat
  BY <1>1, <1>3 DEF TailType, Epoch
<1>7. /\ page.rows \subseteq thread /\ page.epoch = epoch
      /\ page.direction = "latest" /\ page.next # 0 => page.rows # {}
      /\ IF page.direction = "after"
         THEN client.tail.after # 0 /\ page.epoch = client.tail.epoch /\ ~page.reset
         ELSE page.reset = (client.tail.after # 0)
  BY <1>2, <1>6, TailAnswers
<1>8. Running(client') /\ ~Loading(client')
  BY <1>1, <1>5, <1>6 DEF Running, Loading
<1>9. Steady(client')
  BY <1>1, <1>5, <1>6, <1>7, <1>8 DEF Genuine, Steady
<1>10. Sure(client', View) /\ Joined(client', View)
  BY <1>1, <1>5, <1>6, <1>8 DEF Genuine, Sure, Joined, Unreplaced
<1>11. Brought(client', View)
  BY <1>5, <1>6, <1>7, <1>8, Covers DEF Brought, AnsweredOlder
<1>12. UNCHANGED <<thread, epoch, last, live, events>>
  BY Zenon DEF ServeTail, ClientStep, serverVars
<1> QED
  BY <1>9, <1>10, <1>11, <1>12, ViewStays DEF Genuine

LEMMA ServeOlderKeeps ==
  ASSUME IInv, Genuine(client, View), ServeOlder
  PROVE  Genuine(client, View)'
<1>1. client \in ClientType /\ Loading(client) /\ client.older \in OlderType /\ Sound(client) /\ ~Running(client)
  BY Requests DEF IInv, TypeOK, ServeOlder, Loading, Sound, Locks
<1>2. PICK page : page = LatestPage(client.older.before, Page, FALSE)
  OBVIOUS
<1>3. PICK o : o = [client.older EXCEPT !.at = "answered", !.page = page]
  OBVIOUS
<1>4. client' = [client EXCEPT !.older = o]
  BY <1>1, <1>2, <1>3 DEF ServeOlder, ClientStep, ClientType
<1>5. /\ client'.win = client.win /\ client'.tail = client.tail /\ client'.older = o /\ client'.gap = client.gap
      /\ client'.owed = client.owed
  BY <1>1, <1>4 DEF ClientType
<1>6. o.at = "answered" /\ o.page = page /\ o.epoch = client.older.epoch
  BY <1>1, <1>3 DEF OlderType
<1>7. page.rows \subseteq thread
  BY <1>2, PageRows
<1>8. ~Running(client') /\ Loading(client')
  BY <1>1, <1>5, <1>6 DEF Running, Loading
<1>9. Steady(client')
  BY <1>1, <1>5, <1>6, <1>8 DEF Genuine, Steady
<1>10. Sure(client', View) /\ Joined(client', View)
  BY <1>1, <1>5, <1>8 DEF Genuine, Sure, Joined, Unreplaced
<1>11. Brought(client', View)
  <2>1. page.rows \subseteq View.thread /\ page.rows \subseteq View.covered
    BY <1>7, Covers
  <2> QED
    BY <1>5, <1>6, <1>8, <2>1 DEF Brought, AnsweredTail
<1>12. UNCHANGED <<thread, epoch, last, live, events>>
  BY Zenon DEF ServeOlder, ClientStep, serverVars
<1> QED
  BY <1>9, <1>10, <1>11, <1>12, ViewStays DEF Genuine

\* A synchronization that was superseded, or that fails, leaves the window as it is.
LEMMA AbandonKeeps ==
  ASSUME epoch \in Nat, NEW c \in ClientType, Sound(c), Running(c), NEW h, Genuine(c, h),
         NEW d \in ClientType, d.win.msgs = c.win.msgs, d.win.oldest = c.win.oldest, d.win.newest = c.win.newest,
         d.win.epoch = c.win.epoch, d.win.reset = c.win.reset, d.win.prefer = c.win.prefer,
         d.tail = NoRequest, d.older = NoRequest, c.gap => d.gap
  PROVE  Genuine(d, h)
<1>1. d.win.oldest # 0 => d.win.msgs # {}
  BY DEF Genuine, Steady
<1>2. Due(d.win) = Due(c.win)
  BY DEF Due
<1>3. ~d.gap /\ ~Due(d.win) /\ d.win.epoch = h.epoch => d.win.msgs \subseteq h.covered
  BY <1>2 DEF Genuine, Sure
<1>4. ~d.gap /\ ~Due(d.win) /\ d.win.newest = 0 => d.win.msgs \subseteq h.covered
  <2> SUFFICES ASSUME ~d.gap, ~Due(d.win), d.win.newest = 0
               PROVE  c.win.msgs \subseteq h.covered
    OBVIOUS
  <2>1. c.tail \in TailType /\ c.win \in WindowType
    BY Requests
  <2>2. ~c.tail.replace /\ c.tail.after = 0
    <3>1. ~c.tail.replace
      BY <1>2 DEF Genuine, Steady
    <3>2. c.tail.after # 0 => c.win.newest >= c.tail.after
      BY <1>2 DEF Genuine, Steady, Due
    <3>3. c.tail.after \in Nat
      BY <2>1, BoundsAssumption DEF TailType, Cursor
    <3> QED
      BY <3>1, <3>2, <3>3
  <2>3. c.tail.cold
    BY <2>2 DEF Sound, Locks
  <2>4. Unreplaced(c) = c.win.msgs
    BY <2>3 DEF Unreplaced
  <2> QED
    BY <2>4 DEF Genuine, Joined
<1> QED
  BY <1>1, <1>3, <1>4, EndIsGenuine

LEMMA SupersedeKeeps ==
  ASSUME IInv, IInv', Genuine(client, View), Running(client), UNCHANGED <<thread, epoch, last, live, events>>,
         client' = StartQueued([client EXCEPT !.tail = NoRequest])
  PROVE  Genuine(client, View)'
<1>1. epoch \in Nat /\ client \in ClientType /\ Sound(client) /\ client.older = NoRequest
  BY Requests DEF IInv, TypeOK, Sound, Locks
<1>2. PICK d : d = [client EXCEPT !.tail = NoRequest]
  OBVIOUS
<1>3. d \in ClientType /\ d.win = client.win /\ d.tail = NoRequest /\ d.older = NoRequest /\ d.gap = client.gap
  BY <1>1, <1>2 DEF ClientType
<1>4. Bound(d) /\ Anchored(d)
  BY <1>1, <1>3 DEF Sound, Bound, Anchored, Loading, NoRequest
<1>5. Genuine(d, View)
  BY <1>1, <1>3, AbandonKeeps
<1>6. Moves(d, client')
  BY <1>1, <1>2, <1>3, <1>4, QueueMoves
<1> QED
  BY <1>3, <1>5, <1>6, ClientMoves

LEMMA ApplyTailKeeps ==
  ASSUME IInv, IInv', Genuine(client, View), ApplyTail
  PROVE  Genuine(client, View)'
<1>1. UNCHANGED <<thread, epoch, last, live, events>> /\ Running(client) /\ client.tail.at = "answered"
  <2>1. UNCHANGED <<thread, epoch, last, live, events>>
    BY Zenon DEF ApplyTail, ClientStep, serverVars
  <2> QED
    BY <2>1 DEF ApplyTail, Running
<1>2. CASE client.tail.stale
  <2>1. client' = StartQueued([client EXCEPT !.tail = NoRequest])
    BY <1>2, Zenon DEF ApplyTail, ClientStep
  <2> QED
    BY <1>1, <2>1, SupersedeKeeps
<1>3. CASE ~client.tail.stale
  BY <1>1, <1>3, AppliesGenuine, ViewStays
<1> QED
  BY <1>2, <1>3

LEMMA FailTailKeeps ==
  ASSUME IInv, IInv', Genuine(client, View), FailTail
  PROVE  Genuine(client, View)'
<1>1. UNCHANGED <<thread, epoch, last, live, events>> /\ Running(client)
  <2>1. UNCHANGED <<thread, epoch, last, live, events>>
    BY Zenon DEF FailTail, ClientStep, serverVars
  <2> QED
    BY <2>1 DEF FailTail
<1>2. CASE client.tail.stale
  <2>1. client' = StartQueued([client EXCEPT !.tail = NoRequest])
    BY <1>2, Zenon DEF FailTail, ClientStep
  <2> QED
    BY <1>1, <2>1, SupersedeKeeps
<1>3. CASE ~client.tail.stale
  <2>1. epoch \in Nat /\ client \in ClientType /\ Sound(client) /\ client.older = NoRequest /\ ~Loading(client)
    BY <1>1, Requests DEF IInv, TypeOK, Sound, Locks
  <2>2. PICK gap \in BOOLEAN : gap = (client.gap \/ (~client.tail.replace /\ client.win.newest > client.tail.after))
    OBVIOUS
  <2>3. PICK f : f = [client EXCEPT !.owed = TRUE, !.gap = gap]
    OBVIOUS
  <2>4. client' = FinishTail(f)
    <3>1. client' = FinishTail([client EXCEPT !.owed = TRUE,
                     !.gap = @ \/ (~client.tail.replace /\ client.win.newest > client.tail.after)])
      BY <1>3, Zenon DEF FailTail, ClientStep
    <3> QED
      BY <2>1, <2>2, <2>3, <3>1 DEF ClientType
  <2>5. /\ f \in ClientType /\ f.win = client.win /\ f.older = NoRequest /\ f.gap = gap
        /\ Bound(f) /\ Anchored(f) /\ ~Loading(f)
    BY <2>1, <2>3 DEF ClientType, Sound, Bound, Anchored, Loading, NoRequest
  <2>6. PICK d \in ClientType :
           /\ d.win = [f.win EXCEPT !.syncing = FALSE] /\ d.tail = NoRequest /\ d.older = NoRequest
           /\ d.gap = f.gap /\ Moves(d, client')
    BY <2>1, <2>4, <2>5, EndMoves
  <2>7. Genuine(d, View)
    <3>1. /\ d.win.msgs = client.win.msgs /\ d.win.oldest = client.win.oldest /\ d.win.newest = client.win.newest
          /\ d.win.epoch = client.win.epoch /\ d.win.reset = client.win.reset /\ d.win.prefer = client.win.prefer
          /\ (client.gap => d.gap)
      BY <2>1, <2>2, <2>5, <2>6, Requests DEF WindowType
    <3> QED
      BY <1>1, <2>1, <2>6, <3>1, AbandonKeeps
  <2> QED
    BY <1>1, <2>6, <2>7, ClientMoves
<1> QED
  BY <1>2, <1>3

LEMMA EnterKeeps ==
  ASSUME IInv, IInv', Genuine(client, View), Enter
  PROVE  Genuine(client, View)'
<1>1. epoch \in Nat /\ client \in ClientType /\ Sound(client) /\ (Running(client) => ~client.tail.stale)
  BY DEF IInv, TypeOK, Mounting, Enter
<1>2. UNCHANGED <<thread, epoch, last, live, events>> /\ client' = Activate(client)
  BY DEF Enter, serverVars
<1>3. client' \in ClientType
  BY <1>2, SameType DEF IInv, TypeOK
<1>4. Calm(client, client')
  BY <1>1, <1>2, CalmActivates
<1>5. Genuine(client', View)
  BY <1>1, <1>3, <1>4, CalmIsGenuine
<1> QED
  BY <1>2, <1>5, ViewStays

LEMMA MountedKeeps ==
  ASSUME IInv, IInv', Genuine(client, View), Mounted
  PROVE  Genuine(client, View)'
<1>1. epoch \in Nat /\ client \in ClientType /\ Bound(client) /\ Anchored(client)
      /\ (Running(client) => ~Loading(client))
  BY DEF IInv, TypeOK, Sound, Locks
<1>2. UNCHANGED <<thread, epoch, last, live, events>> /\ client' = Sync(client, FALSE)
  BY DEF Mounted, serverVars
<1>3. Moves(client, client')
  BY <1>1, <1>2, SyncMoves
<1> QED
  BY <1>1, <1>2, <1>3, ClientMoves

LEMMA LeaveKeeps ==
  ASSUME IInv, IInv', Genuine(client, View), Leave
  PROVE  Genuine(client, View)'
<1>1. /\ epoch \in Nat /\ client \in ClientType /\ Sound(client) /\ (Running(client) => ~client.tail.stale)
      /\ (Running(client) => ~Loading(client))
  BY DEF IInv, TypeOK, Mounting, Leave, Sound, Locks
<1>2. UNCHANGED <<thread, epoch, last>> /\ events' = <<>>
      /\ client' = SetMode(GiveUpOlder(EventsLost(client)), "tail")
  BY DEF Leave, serverVars
<1>3. client' \in ClientType
  BY <1>2, SameType DEF IInv, TypeOK
<1>4. PICK c : c = EventsLost(client)
  OBVIOUS
<1>5. /\ c \in ClientType /\ Genuine(c, View') /\ Sound(c) /\ c.tail = client.tail
      /\ Running(c) = Running(client) /\ Loading(c) = Loading(client)
  <2>1. c \in ClientType /\ Genuine(c, View')
    BY <1>2, <1>4, LosingKeeps
  <2> QED
    BY <1>1, <1>4, <2>1, Charges
<1>6. PICK g : g = GiveUpOlder(c)
  OBVIOUS
<1>7. g \in ClientType /\ g.tail = c.tail /\ Sound(g) /\ Calm(c, g)
  <2>1. Running(c) => ~Loading(c)
    BY <1>1, <1>5
  <2> QED
    BY <1>5, <1>6, <2>1, GivesUp, StaysSound, CalmGivesUp DEF Sound
<1>8. Genuine(g, View')
  BY <1>5, <1>7, CalmIsGenuine
<1>9. client' = SetMode(g, "tail") /\ (Running(g) => ~g.tail.stale)
  BY <1>1, <1>2, <1>4, <1>5, <1>6, <1>7 DEF Running
<1>10. PICK e \in ClientType : Calm(g, e) /\ Sound(e) /\ Moves(e, client')
  BY <1>1, <1>7, <1>9, ModeMoves
<1>11. Genuine(e, View')
  BY <1>7, <1>8, <1>10, CalmIsGenuine
<1> QED
  BY <1>3, <1>10, <1>11, MoveIsGenuine

LEMMA SetViewKeeps ==
  ASSUME IInv, IInv', Genuine(client, View), NEW mode \in {"tail", "history"}, SetView(mode)
  PROVE  Genuine(client, View)'
<1>1. /\ epoch \in Nat /\ client \in ClientType /\ Sound(client) /\ (Running(client) => ~client.tail.stale)
  BY DEF IInv, TypeOK, Mounting, SetView
<1>2. UNCHANGED <<thread, epoch, last, live, events>>
  BY Zenon DEF SetView, ClientStep, serverVars
<1>3. PICK c : c = SetMode(client, mode)
  OBVIOUS
<1>4. client' \in {c, Sync(c, TRUE)}
  BY <1>3, Zenon DEF SetView, ClientStep
<1>5. PICK e \in ClientType : Calm(client, e) /\ Sound(e) /\ Moves(e, c)
  BY <1>1, <1>3, ModeMoves
<1>6. Genuine(e, View)
  BY <1>1, <1>5, CalmIsGenuine
<1>7. c \in ClientType /\ Sound(c)
  BY <1>1, <1>3, Modes
<1>8. Genuine(c, View)
  BY <1>5, <1>6, <1>7, MoveIsGenuine
<1>9. CASE client' = c
  BY <1>2, <1>8, <1>9, ViewStays
<1>10. CASE client' = Sync(c, TRUE)
  <2>1. Moves(c, client')
    BY <1>1, <1>7, <1>10, SyncMoves DEF Sound, Locks
  <2> QED
    BY <1>2, <1>7, <1>8, <2>1, ClientMoves
<1> QED
  BY <1>4, <1>9, <1>10

LEMMA LoadOlderKeeps ==
  ASSUME IInv, Genuine(client, View), NEW install \in BOOLEAN, LoadOlder(install)
  PROVE  Genuine(client, View)'
<1>1. client \in ClientType /\ Sound(client) /\ client.win \in WindowType
  BY Requests DEF IInv, TypeOK
<1>2. UNCHANGED <<thread, epoch, last, live, events>>
  BY Zenon DEF LoadOlder, ClientStep, serverVars
<1>3. ~client.win.syncing /\ ~Loading(client) /\ client.win.oldest # 0
  BY Zenon DEF LoadOlder
<1>4. PICK provisional \in BOOLEAN : provisional = (install /\ client.win.boundary = 0)
  OBVIOUS
<1>5. PICK o : o = [at |-> "asked", before |-> client.win.oldest, epoch |-> client.win.epoch, install |-> install,
                    provisional |-> provisional, page |-> NoPage]
  OBVIOUS
<1>6. PICK w : w = IF provisional THEN [client.win EXCEPT !.boundary = client.win.oldest, !.provisional = TRUE]
                   ELSE client.win
  OBVIOUS
<1>7. client' = [client EXCEPT !.older = o, !.win = w]
  BY <1>1, <1>4, <1>5, <1>6 DEF LoadOlder, ClientStep, ClientType
<1>8. /\ w.msgs = client.win.msgs /\ w.oldest = client.win.oldest /\ w.newest = client.win.newest
      /\ w.epoch = client.win.epoch /\ w.reset = client.win.reset /\ w.prefer = client.win.prefer
  BY <1>1, <1>6 DEF WindowType
<1>9. client'.win = w /\ client'.older = o /\ client'.tail = client.tail /\ client'.gap = client.gap
  BY <1>1, <1>7 DEF ClientType
<1>10. ~Running(client) /\ ~Running(client') /\ ~AnsweredOlder(client')
  BY <1>1, <1>3, <1>5, <1>9 DEF Sound, Locks, Running, AnsweredOlder
<1>11. w.msgs # {}
  BY <1>3, <1>8 DEF Genuine, Steady
<1>12. Steady(client')
  BY <1>5, <1>8, <1>9, <1>10, <1>11 DEF Steady
<1>13. Sure(client', View) /\ Joined(client', View)
  BY <1>8, <1>9, <1>10 DEF Genuine, Sure, Joined, Unreplaced, Due
<1>14. Brought(client', View)
  BY <1>10 DEF Brought, AnsweredTail
<1> QED
  BY <1>2, <1>12, <1>13, <1>14, ViewStays DEF Genuine

LEMMA OlderResetKeeps ==
  ASSUME IInv, IInv', Genuine(client, View), OlderReset
  PROVE  Genuine(client, View)'
<1>1. epoch \in Nat /\ client \in ClientType /\ Sound(client) /\ client.win \in WindowType
  BY Requests DEF IInv, TypeOK
<1>2. UNCHANGED <<thread, epoch, last, live, events>>
  BY Zenon DEF OlderReset, ClientStep, serverVars
<1>3. PICK w : w = [client.win EXCEPT !.epoch = 0, !.newest = 0, !.reset = TRUE]
  OBVIOUS
<1>4. PICK d : d = [client EXCEPT !.older = NoRequest, !.win = w]
  OBVIOUS
<1>5. d = [client EXCEPT !.older = NoRequest, !.win.epoch = 0, !.win.newest = 0, !.win.reset = TRUE]
  BY <1>1, <1>3, <1>4 DEF ClientType
<1>6. client' = Sync(d, TRUE)
  BY <1>5, Zenon DEF OlderReset, ClientStep
<1>7. w \in WindowType /\ w.msgs = client.win.msgs /\ w.oldest = client.win.oldest /\ w.reset
  <2>1. 0 \in Epoch /\ 0 \in Cursor
    BY <1>1, BoundsAssumption DEF Epoch, Cursor
  <2> QED
    BY <1>1, <1>3, <2>1 DEF WindowType
<1>8. d \in ClientType /\ d.win = w /\ d.older = NoRequest /\ d.tail = client.tail /\ d.gap = client.gap
  BY <1>1, <1>4, <1>7 DEF ClientType
<1>9. Loading(client) /\ ~Running(client) /\ d.tail = NoRequest
  BY <1>1, <1>8, Requests DEF OlderReset, Loading, Sound, Locks
<1>10. ~Running(d) /\ Bound(d) /\ Anchored(d) /\ w.provisional = client.win.provisional
       /\ w.boundary = client.win.boundary
  BY <1>1, <1>3, <1>7, <1>8, <1>9 DEF Sound, Bound, Anchored, Running, NoRequest, WindowType
<1>11. w.oldest # 0 => w.msgs # {}
  BY <1>7 DEF Genuine, Steady
<1>12. Genuine(d, View)
  BY <1>7, <1>8, <1>9, <1>11, EndIsGenuine DEF Due
<1>13. Moves(d, client')
  BY <1>1, <1>6, <1>8, <1>10, SyncMoves
<1> QED
  BY <1>2, <1>8, <1>12, <1>13, ClientMoves

LEMMA DropOlderKeeps ==
  ASSUME IInv, IInv', Genuine(client, View), DropOlder
  PROVE  Genuine(client, View)'
<1>1. client \in ClientType /\ Sound(client) /\ client.win \in WindowType /\ Loading(client) /\ ~Running(client)
  BY Requests DEF IInv, TypeOK, DropOlder, Sound, Locks
<1>2. UNCHANGED <<thread, epoch, last, live, events>>
  BY Zenon DEF DropOlder, ClientStep, serverVars
<1>3. client' \in ClientType
  BY <1>2, SameType DEF IInv, TypeOK
<1>4. PICK r : r = TrimReleased(Unbound(client.win))
  OBVIOUS
<1>5. PICK u : u = Unbound(client.win)
  OBVIOUS
<1>6. u \in WindowType /\ u.msgs = client.win.msgs /\ u.reset = client.win.reset /\ u.oldest = client.win.oldest
      /\ u.hasMore = client.win.hasMore /\ u.epoch = client.win.epoch /\ u.newest = client.win.newest
      /\ u.prefer = client.win.prefer
  <2>1. u \in WindowType
    BY <1>1, <1>5, Unbinds
  <2> QED
    BY <1>1, <1>5, <2>1 DEF Unbound, WindowType
<1>7. Thinned(u, r) /\ r.prefer = u.prefer
  BY <1>4, <1>5, <1>6, Views, Thins DEF Keeps
<1>8. Thinned(client.win, r)
  BY <1>6, <1>7 DEF Thinned, Topped
<1>9. client' = [client EXCEPT !.older = NoRequest, !.win = IF client.older.provisional THEN r ELSE client.win]
  BY <1>1, <1>4 DEF DropOlder, ClientStep, ClientType
<1>10. /\ client'.older = NoRequest /\ client'.win \in {r, client.win} /\ client'.tail = client.tail
       /\ client'.gap = client.gap /\ client'.owed = client.owed
  BY <1>1, <1>9 DEF ClientType
<1>11. Thinned(client.win, client'.win)
  BY <1>1, <1>8, <1>10, Thins
<1>12. Calm(client, client')
  BY <1>1, <1>6, <1>7, <1>10, <1>11 DEF Calm, Running
<1> QED
  BY <1>1, <1>2, <1>3, <1>12, CalmIsGenuine, ViewStays

LEMMA CancelOlderKeeps ==
  ASSUME IInv, IInv', Genuine(client, View), CancelOlder
  PROVE  Genuine(client, View)'
<1>1. client \in ClientType /\ (Running(client) => ~Loading(client))
  BY DEF IInv, TypeOK, Sound, Locks
<1>2. UNCHANGED <<thread, epoch, last, live, events>> /\ client' = GiveUpOlder(client)
  BY Zenon DEF CancelOlder, ClientStep, serverVars
<1>3. client' \in ClientType
  BY <1>2, SameType DEF IInv, TypeOK
<1>4. Calm(client, client')
  BY <1>1, <1>2, CalmGivesUp
<1> QED
  BY <1>1, <1>2, <1>3, <1>4, CalmIsGenuine, ViewStays

\* What an older page leaves: its rows added, the newest dropped only with a reset to follow, and the
\* window trimmed if the outline closed meanwhile.
LEMMA OlderOutcome ==
  ASSUME IInv, NEW open \in BOOLEAN, ApplyOlder(open), NEW o, o = client.older,
         NEW plain, plain = [client.win EXCEPT !.msgs = @ \cup o.page.rows]
  PROVE  /\ AnsweredOlder(client) /\ ~Running(client) /\ o \in OlderType
         /\ o.epoch = 0 \/ o.page.epoch = o.epoch
         /\ plain \in WindowType /\ plain.msgs = client.win.msgs \cup o.page.rows /\ plain.reset = client.win.reset
         /\ plain.newest = client.win.newest /\ plain.prefer = client.win.prefer
         /\ plain.oldest = client.win.oldest /\ plain.hasMore = client.win.hasMore
         /\ client'.older = NoRequest /\ client'.tail = NoRequest /\ client'.owed = client.owed
         /\ \E merged, trimmed \in WindowType :
              /\ Thinned(plain, merged) /\ (merged = plain \/ merged.reset) /\ Thinned(merged, trimmed)
              /\ trimmed = merged \/ trimmed.msgs # merged.msgs
              /\ merged.prefer = client.win.prefer /\ trimmed.prefer = client.win.prefer
              /\ client'.gap = (client.gap \/ (trimmed # merged /\ ~o.page.hasMore) \/ client.win.oldest # o.before)
              /\ client'.win.msgs = trimmed.msgs /\ client'.win.reset = trimmed.reset
              /\ client'.win.newest = trimmed.newest /\ client'.win.prefer = trimmed.prefer
              /\ client'.win.epoch = o.page.epoch /\ client'.win.hasMore = o.page.hasMore
              /\ client'.win.oldest = IF trimmed # merged THEN trimmed.oldest ELSE o.page.next
<1>1. /\ client \in ClientType /\ Sound(client) /\ AnsweredOlder(client) /\ ~Running(client)
      /\ client.win \in WindowType /\ o \in OlderType /\ client.tail = NoRequest
      /\ o.epoch = 0 \/ o.page.epoch = o.epoch
  <2>1. client \in ClientType /\ Sound(client) /\ o.at = "answered" /\ (o.epoch = 0 \/ o.page.epoch = o.epoch)
    BY DEF IInv, TypeOK, ApplyOlder
  <2>2. Loading(client) /\ AnsweredOlder(client) /\ ~Running(client)
    BY <2>1 DEF Loading, AnsweredOlder, Sound, Locks
  <2> QED
    BY <2>1, <2>2, Requests
<1>2. PICK w \in WindowType : w = client.win
  BY <1>1
<1>3. PICK rows \in SUBSET Positions : rows = o.page.rows
  BY <1>1 DEF OlderType, PageType
<1>4. PICK boundary \in Nat : boundary = IF w.boundary # 0 THEN w.boundary ELSE IF open THEN o.before ELSE 0
  BY <1>1, BoundsAssumption DEF WindowType, OlderType, Cursor
<1>5. PICK mode \in {"append", "prepend"} : mode = IF w.view = "tail" /\ boundary # 0 THEN "append" ELSE "prepend"
  OBVIOUS
<1>6. PICK merged : merged = Merge(w, rows, mode, Older, boundary)
  OBVIOUS
<1>7. PICK trimmed : trimmed = IF ~open /\ o.provisional /\ w.view = "tail" THEN TrimReleased(merged) ELSE merged
  OBVIOUS
<1>8. plain = [w EXCEPT !.msgs = @ \cup rows]
  BY <1>2, <1>3
<1>9. /\ plain \in WindowType /\ plain.msgs = w.msgs \cup rows /\ plain.reset = w.reset
      /\ plain.newest = w.newest /\ plain.prefer = w.prefer /\ plain.oldest = w.oldest /\ plain.hasMore = w.hasMore
      /\ Thinned(plain, merged)
  <2>1. PICK limit \in Nat \ {0} : limit = Older
    BY SizesAssumption
  <2>2. ~(mode = "append" /\ boundary = 0)
    BY <1>5
  <2>3. PICK m : m = Merge(w, rows, mode, limit, boundary)
    OBVIOUS
  <2>4. /\ plain \in WindowType /\ plain.msgs = w.msgs \cup rows /\ plain.reset = w.reset
        /\ plain.newest = w.newest /\ plain.prefer = w.prefer /\ plain.oldest = w.oldest /\ plain.hasMore = w.hasMore
        /\ Thinned(plain, m)
    <3>1. PICK u : u = [w EXCEPT !.msgs = @ \cup rows]
      OBVIOUS
    <3>2. /\ u \in WindowType /\ u.msgs = w.msgs \cup rows /\ u.reset = w.reset
          /\ u.newest = w.newest /\ u.prefer = w.prefer /\ u.oldest = w.oldest /\ u.hasMore = w.hasMore
      BY <3>1 DEF WindowType
    <3>3. Thinned(u, Merge(w, rows, mode, limit, boundary))
      BY <2>2, <3>1, MergeThins
    <3> QED
      BY <1>8, <2>3, <3>1, <3>2, <3>3
  <2> QED
    BY <1>6, <2>1, <2>3, <2>4
<1>10. merged \in WindowType /\ Keeps(merged, w)
  BY <1>6, Merges
<1>11. /\ trimmed \in WindowType /\ Keeps(trimmed, merged) /\ Thinned(merged, trimmed)
       /\ trimmed = merged \/ trimmed.msgs # merged.msgs
  <2>1. TrimReleased(merged) \in WindowType /\ Keeps(TrimReleased(merged), merged) /\ Thinned(merged, TrimReleased(merged))
    BY <1>10, Views, Thins
  <2>2. Thinned(merged, merged) /\ Keeps(merged, merged)
    BY <1>10, Thins DEF Keeps
  <2>3. TrimReleased(merged) = merged \/ TrimReleased(merged).msgs # merged.msgs
    BY <1>10 DEF TrimReleased, DropNewest, DropOldest, WindowType
  <2> QED
    BY <1>7, <1>10, <2>1, <2>2, <2>3
<1>12. merged = plain \/ merged.reset
  <2>1. ASSUME NEW n, merged = DropNewest(plain, BottomOf(plain.msgs, n))
        PROVE  merged = plain \/ merged.reset
    BY <1>9, <2>1 DEF DropNewest, WindowType
  <2>2. mode = "append" => boundary # 0
    BY <1>5
  <2>3. merged = plain \/ \E n : merged = DropNewest(plain, BottomOf(plain.msgs, n))
    BY <1>5, <1>6, <1>8, <2>2, Zenon DEF Merge
  <2> QED
    BY <2>1, <2>3
<1>13. PICK oldest : oldest = IF trimmed # merged THEN trimmed.oldest ELSE o.page.next
  OBVIOUS
<1>14. PICK kept : kept = IF open THEN o.before ELSE IF o.install THEN 0 ELSE w.boundary
  OBVIOUS
<1>15. PICK v : v = [trimmed EXCEPT !.hasMore = o.page.hasMore, !.epoch = o.page.epoch, !.oldest = oldest,
                                    !.boundary = kept, !.provisional = FALSE]
  OBVIOUS
<1>16. PICK gap \in BOOLEAN : gap = (client.gap \/ (trimmed # merged /\ ~o.page.hasMore) \/ w.oldest # o.before)
  OBVIOUS
<1>17. client' = [client EXCEPT !.older = NoRequest, !.gap = gap, !.win = v]
  <2> DEFINE b == IF client.win.boundary # 0 THEN client.win.boundary ELSE IF open THEN client.older.before ELSE 0
             m == Merge(client.win, client.older.page.rows,
                        IF client.win.view = "tail" /\ b # 0 THEN "append" ELSE "prepend", Older, b)
             u == IF ~open /\ client.older.provisional /\ client.win.view = "tail" THEN TrimReleased(m) ELSE m
             f == [client EXCEPT
                     !.older = NoRequest,
                     !.gap = @ \/ (u # m /\ ~client.older.page.hasMore) \/ client.win.oldest # client.older.before,
                     !.win = [u EXCEPT
                        !.hasMore = client.older.page.hasMore, !.epoch = client.older.page.epoch,
                        !.oldest = IF u # m THEN @ ELSE client.older.page.next,
                        !.boundary = IF open THEN client.older.before
                                     ELSE IF client.older.install THEN 0 ELSE client.win.boundary,
                        !.provisional = FALSE]]
  <2>1. b = boundary
    BY <1>2, <1>4
  <2>2. client' = f
    BY DEF ApplyOlder, ClientStep
  <2>3. m = merged
    BY <1>2, <1>3, <1>5, <1>6, <2>1
  <2> HIDE DEF m, b
  <2>4. u = trimmed
    BY <1>2, <1>7, <2>3
  <2> HIDE DEF u
  <2> QED
    BY <1>1, <1>2, <1>11, <1>13, <1>14, <1>15, <1>16, <2>2, <2>3, <2>4 DEF ClientType, WindowType
<1>18. /\ client'.older = NoRequest /\ client'.tail = NoRequest /\ client'.owed = client.owed /\ client'.gap = gap
       /\ client'.win = v
  BY <1>1, <1>17 DEF ClientType
<1>19. /\ v.msgs = trimmed.msgs /\ v.reset = trimmed.reset /\ v.newest = trimmed.newest /\ v.prefer = trimmed.prefer
       /\ v.epoch = o.page.epoch /\ v.hasMore = o.page.hasMore /\ v.oldest = oldest
  BY <1>11, <1>15 DEF WindowType
<1>20. merged.prefer = w.prefer /\ trimmed.prefer = w.prefer
  BY <1>10, <1>11 DEF Keeps
<1>21. client'.gap = (client.gap \/ (trimmed # merged /\ ~o.page.hasMore) \/ client.win.oldest # o.before)
  BY <1>2, <1>16, <1>18
<1>22. \E m, u \in WindowType :
         /\ Thinned(plain, m) /\ (m = plain \/ m.reset) /\ Thinned(m, u)
         /\ u = m \/ u.msgs # m.msgs
         /\ m.prefer = client.win.prefer /\ u.prefer = client.win.prefer
         /\ client'.gap = (client.gap \/ (u # m /\ ~o.page.hasMore) \/ client.win.oldest # o.before)
         /\ client'.win.msgs = u.msgs /\ client'.win.reset = u.reset
         /\ client'.win.newest = u.newest /\ client'.win.prefer = u.prefer
         /\ client'.win.epoch = o.page.epoch /\ client'.win.hasMore = o.page.hasMore
         /\ client'.win.oldest = IF u # m THEN u.oldest ELSE o.page.next
  BY <1>2, <1>9, <1>10, <1>11, <1>12, <1>13, <1>18, <1>19, <1>20, <1>21
<1> QED
  BY <1>1, <1>2, <1>3, <1>9, <1>18, <1>22

LEMMA ApplyOlderKeeps ==
  ASSUME IInv, Genuine(client, View), NEW open \in BOOLEAN, ApplyOlder(open)
  PROVE  Genuine(client, View)'
<1>1. client \in ClientType /\ Sound(client) /\ client.win \in WindowType
  BY Requests DEF IInv, TypeOK
<1>2. UNCHANGED <<thread, epoch, last, live, events>>
  BY Zenon DEF ApplyOlder, ClientStep, serverVars
<1>3. PICK o : o = client.older
  OBVIOUS
<1>4. PICK plain : plain = [client.win EXCEPT !.msgs = @ \cup o.page.rows]
  OBVIOUS
<1>5. /\ AnsweredOlder(client) /\ ~Running(client) /\ (o.epoch = 0 \/ o.page.epoch = o.epoch)
      /\ plain.msgs = client.win.msgs \cup o.page.rows /\ plain.reset = client.win.reset
      /\ plain.newest = client.win.newest
      /\ client'.older = NoRequest /\ client'.tail = NoRequest
  BY <1>3, <1>4, OlderOutcome
<1>6. PICK merged \in WindowType, trimmed \in WindowType :
              /\ Thinned(plain, merged) /\ Thinned(merged, trimmed) /\ trimmed.prefer = client.win.prefer
              /\ client'.gap = (client.gap \/ (trimmed # merged /\ ~o.page.hasMore) \/ client.win.oldest # o.before)
              /\ client'.win.msgs = trimmed.msgs /\ client'.win.reset = trimmed.reset
              /\ client'.win.newest = trimmed.newest /\ client'.win.prefer = trimmed.prefer
              /\ client'.win.epoch = o.page.epoch
  BY <1>3, <1>4, OlderOutcome
<1>7. PICK v : v = client'.win
  OBVIOUS
<1>8. Loading(client) /\ client.win.msgs # {} /\ (client.win.reset \/ o.epoch = client.win.epoch)
  BY <1>3, <1>5 DEF AnsweredOlder, Genuine, Steady
<1>9. /\ v.msgs # {} /\ v.msgs \subseteq client.win.msgs \cup o.page.rows
      /\ (client.win.reset => v.reset) /\ v.prefer = client.win.prefer
      /\ (~v.reset => v.newest = client.win.newest) /\ v.epoch = o.page.epoch
  BY <1>5, <1>6, <1>7, <1>8 DEF Thinned
<1>10. ASSUME ~client'.gap, ~Due(v), v.epoch = epoch \/ v.newest = 0
       PROVE  v.msgs \subseteq Covered
  <2>1. ~client.gap /\ ~Due(client.win) /\ client.win.newest = v.newest /\ o.epoch = client.win.epoch
    BY <1>6, <1>8, <1>9, <1>10 DEF Due
  <2>2. (o.page.epoch = epoch => o.page.rows \subseteq Covered)
        /\ (client.win.newest # 0 \/ o.page.rows \subseteq Covered)
    BY <1>3, <1>5, <2>1, Covers DEF Genuine, Brought
  <2>3. CASE v.newest = 0
    <3>1. Unreplaced(client) = client.win.msgs
      BY <1>5, <2>1, <2>3 DEF Unreplaced, Due
    <3>2. client.win.msgs \subseteq Covered
      BY <2>1, <3>1, Covers DEF Genuine, Joined
    <3> QED
      BY <1>9, <2>1, <2>2, <2>3, <3>2
  <2>4. CASE v.newest # 0
    <3>1. client.win.epoch # 0
      BY <1>1, <2>1, <2>4 DEF Sound, Anchored, Due
    <3>2. client.win.epoch = epoch /\ o.page.epoch = epoch
      BY <1>5, <1>9, <1>10, <2>1, <2>4, <3>1
    <3>3. client.win.msgs \subseteq Covered
      BY <2>1, <3>2, Covers DEF Genuine, Sure
    <3> QED
      BY <1>9, <2>2, <3>2, <3>3
  <2> QED
    BY <2>3, <2>4
<1>11. Genuine(client', View)
  BY <1>5, <1>7, <1>9, <1>10, EndIsGenuine, Covers
<1> QED
  BY <1>2, <1>11, ViewStays

LEMMA GenuineSteps ==
  ASSUME IInv, IInv', Ordered, Genuine(client, View), [Next]_vars
  PROVE  Genuine(client, View)'
<1>1. CASE UNCHANGED vars
  <2>1. UNCHANGED <<thread, epoch, last, live, events, client>>
    BY <1>1 DEF vars, serverVars
  <2> QED
    BY <2>1, ViewStays
<1> QED
  BY <1>1, StoreKeeps, RewindKeeps, ConnectKeeps, CutKeeps, HandleKeeps, ServeTailKeeps, ApplyTailKeeps,
     FailTailKeeps, EnterKeeps, MountedKeeps, LeaveKeeps, SetViewKeeps, LoadOlderKeeps, ServeOlderKeeps,
     OlderResetKeeps, ApplyOlderKeeps, DropOlderKeeps, CancelOlderKeeps DEF Next

LEMMA GenuineStarts ==
  ASSUME Init
  PROVE  Genuine(client, View)
BY EmptyIsGenuine DEF Init

\* Rows that a rewind removed do not come back.
THEOREM NoGhostRows == Spec => []NoGhost
<1>1. Init => IInv /\ Ordered /\ Genuine(client, View)
  BY Starting, StreamStarts, GenuineStarts
<1>2. IInv /\ Ordered /\ Genuine(client, View) /\ [Next]_vars => (IInv /\ Ordered /\ Genuine(client, View))'
  BY Stepping, StreamSteps, GenuineSteps
<1>3. IInv /\ Ordered /\ Genuine(client, View) => NoGhost
  <2> SUFFICES ASSUME Genuine(client, View), Trusted, ~client.gap, OnStream("rewind") = {}
               PROVE  client.win.msgs \subseteq thread
    BY DEF NoGhost
  <2>1. client.win.msgs \subseteq Covered
    BY Covers DEF Genuine, Sure, Trusted, Due
  <2>2. Covered = thread
    BY DEF Covered
  <2> QED
    BY <2>1, <2>2
<1> QED
  BY <1>1, <1>2, <1>3, PTL DEF Spec

---------------------------------------------------------------------------
(* The newest rows of a set.                                               *)

\* What a top part of a set leaves out lies below it, and then the part is full.
LEMMA Tops ==
  ASSUME NEW S \in SUBSET Positions, NEW n \in Nat, NEW x \in S, x \notin TopOf(S, n)
  PROVE  /\ Cardinality(TopOf(S, n)) >= n
         /\ \A y \in TopOf(S, n) : x < y
<1> DEFINE B == TopOf(S, n)
           above(z) == {y \in S : y > z}
<1>1. S \subseteq Nat /\ IsFiniteSet(S)
  BY Finite DEF Positions
<1>2. \A z : IsFiniteSet(above(z)) /\ Cardinality(above(z)) \in Nat
  <2> TAKE z
  <2>1. above(z) \subseteq S
    OBVIOUS
  <2> QED
    BY <1>1, <2>1, FS_Subset, FS_CardinalityType
<1>3. \A z \in S : z \in B <=> Cardinality(above(z)) < n
  BY DEF TopOf
<1>4. B \subseteq S
  BY DEF TopOf
<1> HIDE DEF B
<1>5. \A y \in B : x < y
  <2> SUFFICES ASSUME NEW y \in B, ~(x < y)
               PROVE  FALSE
    OBVIOUS
  <2>1. x \in Nat /\ y \in Nat /\ y <= x /\ y \in S
    BY <1>1, <1>4
  <2>2. above(x) \subseteq above(y)
    <3>1. \A v \in S : v > x => v > y
      BY <1>1, <2>1
    <3> QED
      BY <3>1
  <2>3. Cardinality(above(x)) <= Cardinality(above(y))
    BY <1>2, <2>2, FS_Subset
  <2>4. Cardinality(above(y)) < n /\ ~(Cardinality(above(x)) < n)
    BY <1>3, <2>1 DEF B
  <2> HIDE DEF above
  <2> QED
    BY <1>2, <2>3, <2>4
<1>6. Cardinality(B) >= n
  <2>1. S \ B \in SUBSET Positions /\ x \in S \ B
    BY DEF B
  <2>2. PICK z \in S \ B : \A y \in S \ B : y <= z
    BY <2>1, Ends
  <2>3. above(z) \subseteq B
    <3>1. \A v \in S : v > z => v \in B
      BY <1>1, <2>2
    <3> QED
      BY <3>1
  <2>4. Cardinality(above(z)) <= Cardinality(B)
    BY <1>1, <1>4, <2>3, FS_Subset
  <2>5. ~(Cardinality(above(z)) < n)
    BY <1>3, <2>2
  <2>6. Cardinality(B) \in Nat
    BY <1>1, <1>4, FS_Subset, FS_CardinalityType
  <2> HIDE DEF above
  <2> QED
    BY <1>2, <2>4, <2>5, <2>6
<1> QED
  BY <1>5, <1>6 DEF B

\* More rows make room for fewer of those there are.
LEMMA TopsShrink ==
  ASSUME NEW S \in SUBSET Positions, NEW R \in SUBSET Positions, S \subseteq R, NEW n \in Nat,
         NEW y \in S, y \in TopOf(R, n)
  PROVE  y \in TopOf(S, n)
<1>1. IsFiniteSet(R) /\ IsFiniteSet(S)
  BY Finite
<1>2. PICK A : A = {z \in S : z > y}
  OBVIOUS
<1>3. PICK B : B = {z \in R : z > y}
  OBVIOUS
<1>4. A \subseteq B /\ IsFiniteSet(B) /\ Cardinality(A) <= Cardinality(B)
      /\ Cardinality(A) \in Nat /\ Cardinality(B) \in Nat
  <2>1. A \subseteq B /\ B \subseteq R /\ A \subseteq S
    BY <1>2, <1>3
  <2> QED
    BY <1>1, <2>1, FS_Subset, FS_CardinalityType
<1>5. Cardinality(B) < n
  BY <1>3 DEF TopOf
<1>6. Cardinality(A) < n
  BY <1>4, <1>5
<1> QED
  BY <1>2, <1>6 DEF TopOf

\* The highest row is one of the newest.
LEMMA Highest ==
  ASSUME NEW S \in SUBSET Positions, NEW n \in Nat \ {0}, NEW x \in S, \A y \in S : y <= x
  PROVE  x \in TopOf(S, n)
<1>1. S \subseteq Nat
  BY DEF Positions
<1>2. {y \in S : y > x} = {}
  <2>1. \A y \in S : ~(y > x)
    BY <1>1
  <2> QED
    BY <2>1
<1> QED
  BY <1>2, FS_EmptySet DEF TopOf

\* Where n rows lie above x, so do the newest n, and there are as many.
LEMMA Crowd ==
  ASSUME NEW S \in SUBSET Positions, NEW n \in Nat, NEW x \in Nat, Cardinality({z \in S : x < z}) >= n
  PROVE  /\ \A y \in TopOf(S, n) : x < y
         /\ Cardinality(TopOf(S, n)) >= n
<1>1. S \subseteq Nat /\ IsFiniteSet(S) /\ Cardinality(S) \in Nat
  BY Finite DEF Positions
<1>2. PICK A : A = {z \in S : x < z}
  OBVIOUS
<1>3. A \subseteq S /\ IsFiniteSet(A) /\ Cardinality(A) \in Nat /\ Cardinality(A) <= Cardinality(S)
  BY <1>1, <1>2, FS_Subset, FS_CardinalityType
<1>4. ASSUME NEW y \in TopOf(S, n), ~(x < y)
      PROVE  FALSE
  <2>1. PICK B : B = {z \in S : z > y}
    OBVIOUS
  <2>2. y \in S /\ Cardinality(B) < n
    BY <2>1 DEF TopOf
  <2>3. A \subseteq B
    <3>1. y \in Nat /\ y <= x
      BY <1>1, <1>4, <2>2
    <3>2. \A z \in S : x < z => z > y
      BY <1>1, <3>1
    <3> QED
      BY <1>2, <2>1, <3>2
  <2>4. IsFiniteSet(B) /\ Cardinality(B) \in Nat /\ Cardinality(A) <= Cardinality(B)
    <3>1. B \subseteq S
      BY <2>1
    <3> QED
      BY <1>1, <2>3, <3>1, FS_Subset, FS_CardinalityType
  <2>5. Cardinality(A) >= n
    BY <1>2
  <2> QED
    BY <1>3, <2>2, <2>4, <2>5
<1>5. Cardinality(TopOf(S, n)) >= n
  <2>1. CASE TopOf(S, n) = S
    <3>1. Cardinality(A) >= n
      BY <1>2
    <3> QED
      BY <1>1, <1>3, <2>1, <3>1
  <2>2. CASE TopOf(S, n) # S
    <3>1. TopOf(S, n) \subseteq S
      BY DEF TopOf
    <3>2. PICK z \in S : z \notin TopOf(S, n)
      BY <2>2, <3>1
    <3> QED
      BY <3>2, Tops
  <2> QED
    BY <2>1, <2>2
<1> QED
  BY <1>4, <1>5

---------------------------------------------------------------------------
(* No message is lost between the rows and the cursors.                    *)

\* No new row is below the oldest cursor.
Joins(w) == \A y \in TopOf(w.msgs, Visible) : w.oldest <= y

\* The oldest cursor is not above n, or the rows above it fill the window.
Reaches(w, n) == w.oldest <= n \/ Cardinality({y \in w.msgs : w.oldest <= y}) >= Visible

\* Nothing is beyond the last position.
Bounded(c, h) ==
  /\ \A y \in c.win.msgs : y <= h.last
  /\ c.win.oldest <= h.last /\ (~c.win.reset => c.win.newest <= h.last)
  /\ Running(c) =>
       (\A y \in c.tail.baseline : y <= h.last) /\ c.tail.after <= h.last /\ c.tail.until <= h.last
  /\ AnsweredTail(c) =>
       /\ \A y \in c.tail.page.rows : y <= h.last
       /\ c.tail.page.head <= h.last /\ c.tail.page.next <= h.last
  /\ Loading(c) => c.older.before # 0 /\ c.older.before <= h.last
  /\ AnsweredOlder(c) => (\A y \in c.older.page.rows : y <= h.last) /\ c.older.page.next <= h.last

\* A page of the newest rows up to a position names the least of them, and leaves none of T out but the
\* ones before it.
Lists(page, upto) ==
  /\ page.next # 0 <=> page.rows # {}
  /\ page.hasMore => page.rows # {}
  /\ \A y \in page.rows : page.next <= y /\ y <= upto
Brings(page, upto, T) == \A x \in T : x <= upto => x \in page.rows \/ (page.hasMore /\ x < page.next)
Paged(c, h) ==
  /\ AnsweredTail(c) =>
       IF c.tail.page.direction = "latest"
       THEN /\ Lists(c.tail.page, c.tail.page.head)
            /\ c.tail.page.epoch = h.epoch => Brings(c.tail.page, c.tail.page.head, h.thread)
       ELSE /\ c.tail.page.next >= c.tail.after
            /\ \A y \in c.tail.page.rows : c.tail.after < y
            /\ c.tail.page.epoch = h.epoch =>
                 \A x \in h.thread : c.tail.after < x /\ x <= c.tail.page.next => x \in c.tail.page.rows
  /\ AnsweredOlder(c) =>
       /\ Lists(c.older.page, c.older.before - 1)
       /\ c.older.page.epoch = h.epoch => Brings(c.older.page, c.older.before - 1, h.thread)

\* The rows join the oldest cursor, and nothing is between it and where the newer ones are fetched from.
Based(c) ==
  ~c.gap /\ ~Due(c.win) =>
    /\ Joins(c.win)
    /\ c.win.newest # 0 => Reaches(c.win, c.win.newest)
    /\ Running(c) /\ c.tail.after # 0 => Reaches(c.win, c.tail.after)

\* x will be heard of, or a synchronization will look for what was not.
Announced(c, h, x) == x \in h.told \/ h.lost \/ c.owed

\* The running synchronization will bring x.
Fetched(c, h, x) ==
  /\ Running(c) /\ ~c.tail.stale
  /\ IF c.tail.after = 0
     THEN c.tail.at = "answered" => x <= c.tail.page.head
     ELSE /\ c.tail.epoch = h.epoch /\ c.tail.after < x /\ (c.tail.until = 0 \/ x <= c.tail.until)
          /\ c.tail.at = "answered" =>
               /\ c.tail.page.direction = "after"
               /\ x \in c.tail.page.rows
                    \/ (c.tail.page.hasMore /\ c.tail.page.next < x /\ x <= c.tail.page.head)

\* While the cursors count, every message is held, before the oldest cursor, or on its way.
Kept(c, h, x) ==
  \/ x \in c.win.msgs
  \/ c.win.hasMore /\ x < c.win.oldest
  \/ Fetched(c, h, x)
  \/ c.win.newest < x /\ Announced(c, h, x)
Gapless(c, h) ==
  ~c.gap /\ ~Due(c.win) /\ c.win.epoch \in {0, h.epoch} => \A x \in h.thread : Kept(c, h, x)

\* What was stored after a latest page was read is among the rows that the page will join, or was dropped
\* from them in favour of as many newer ones, or is on its way.
Survives(c, h, x) ==
  /\ \A y \in c.tail.baseline : y < x
  /\ \/ x \in Unreplaced(c)
     \/ /\ c.win.hasMore /\ x < c.win.oldest
        /\ Cardinality({y \in Unreplaced(c) : x < y}) >= Visible
     \/ Announced(c, h, x) /\ \A y \in c.win.msgs : y < x
Current(c, h) ==
  /\ ~c.gap /\ AnsweredTail(c) /\ ~c.tail.stale
  /\ c.tail.page.direction = "latest" /\ c.tail.page.epoch = h.epoch
Followable(c, h) == Current(c, h) => \A x \in h.thread : c.tail.page.head < x => Survives(c, h, x)

Whole(c, h) == Bounded(c, h) /\ Paged(c, h) /\ Based(c) /\ Gapless(c, h) /\ Followable(c, h)

\* A trim at the top keeps the rows joined, and accounts for what it drops.
LEMMA ToppedKeeps ==
  ASSUME NEW w \in WindowType, NEW v \in WindowType, Topped(w, v), Joins(w)
  PROVE  /\ Joins(v)
         /\ \A x \in Nat : w.hasMore /\ x < w.oldest => v.hasMore /\ x < v.oldest
         /\ \A x \in w.msgs : x \in v.msgs \/ (v.hasMore /\ x < v.oldest)
         /\ \A n \in Nat : Reaches(w, n) => Reaches(v, n)
<1>1. w.msgs \in SUBSET Positions /\ v.msgs \in SUBSET Positions /\ w.oldest \in Nat /\ v.oldest \in Nat
      /\ Visible \in Nat \ {0}
  BY BoundsAssumption, SizesAssumption DEF WindowType, Cursor
<1>2. CASE v.msgs = w.msgs /\ v.hasMore = w.hasMore /\ v.oldest = w.oldest
  BY <1>2 DEF Joins, Reaches
<1>3. CASE v.msgs = TopOf(w.msgs, Visible) /\ v.msgs # w.msgs /\ v.hasMore /\ v.oldest = Min(v.msgs)
  <2>1. v.msgs \subseteq w.msgs
    BY <1>3 DEF TopOf
  <2>2. PICK z \in w.msgs : z \notin TopOf(w.msgs, Visible)
    BY <1>3, <2>1
  <2>3. Cardinality(v.msgs) >= Visible
    BY <1>1, <1>3, <2>2, Tops
  <2>4. v.msgs # {}
    BY <1>1, <1>3, <2>2, TopIsThere
  <2>5. v.oldest \in v.msgs /\ \A y \in v.msgs : v.oldest <= y
    BY <1>1, <1>3, <2>4, Ends
  <2>6. Joins(v)
    BY <2>5 DEF Joins, TopOf
  <2>7. w.oldest <= v.oldest
    BY <1>3, <2>5 DEF Joins
  <2>8. \A x \in w.msgs : x \in v.msgs \/ x < v.oldest
    BY <1>1, <1>3, <2>5, Tops
  <2>9. {y \in v.msgs : v.oldest <= y} = v.msgs
    BY <2>5
  <2>10. \A n \in Nat : Reaches(v, n)
    BY <2>3, <2>9 DEF Reaches
  <2>11. \A x \in Nat : x < w.oldest => x < v.oldest
    BY <1>1, <2>7
  <2> QED
    BY <1>3, <2>6, <2>8, <2>10, <2>11
<1> QED
  BY <1>2, <1>3 DEF Topped

\* So do rows that are added above it.
LEMMA AddedKeeps ==
  ASSUME NEW w \in WindowType, NEW v \in WindowType, v.oldest = w.oldest, w.msgs \subseteq v.msgs, Joins(w),
         \A y \in v.msgs \ w.msgs : y \in TopOf(v.msgs, Visible) => w.oldest <= y
  PROVE  Joins(v) /\ \A n \in Nat : Reaches(w, n) => Reaches(v, n)
<1>1. w.msgs \in SUBSET Positions /\ v.msgs \in SUBSET Positions
  BY DEF WindowType
<1>2. Joins(v)
  <2> SUFFICES ASSUME NEW y \in TopOf(v.msgs, Visible)
               PROVE  w.oldest <= y
    BY DEF Joins
  <2>1. y \in v.msgs
    BY DEF TopOf
  <2>2. CASE y \in w.msgs
    <3>1. y \in TopOf(w.msgs, Visible)
      BY <1>1, <2>2, y \in TopOf(v.msgs, Visible), w.msgs \subseteq v.msgs, SizesAssumption, TopsShrink
    <3> QED
      BY <3>1 DEF Joins
  <2> QED
    BY <2>1, <2>2
<1>3. PICK A : A = {y \in w.msgs : w.oldest <= y}
  OBVIOUS
<1>4. PICK B : B = {y \in v.msgs : v.oldest <= y}
  OBVIOUS
<1>5. Cardinality(A) <= Cardinality(B) /\ Cardinality(A) \in Nat /\ Cardinality(B) \in Nat
  <2>1. A \subseteq B /\ A \subseteq w.msgs /\ B \subseteq v.msgs
    BY <1>3, <1>4
  <2> QED
    BY <1>1, <2>1, Finite, FS_Subset, FS_CardinalityType
<1>6. \A n \in Nat : Reaches(w, n) => Reaches(v, n)
  <2>1. Visible \in Nat
    BY SizesAssumption
  <2> QED
    BY <1>3, <1>4, <1>5, <2>1 DEF Reaches
<1> QED
  BY <1>2, <1>6

\* Rows above a position that the window reaches are such.
LEMMA RowsAbove ==
  ASSUME NEW w \in WindowType, NEW v \in WindowType, NEW n \in Nat, Reaches(w, n), w.msgs \subseteq v.msgs,
         NEW y \in v.msgs, n <= y, y \in TopOf(v.msgs, Visible)
  PROVE  w.oldest <= y
<1>1. w.msgs \in SUBSET Positions /\ v.msgs \in SUBSET Positions /\ w.oldest \in Nat /\ y \in Nat
      /\ Visible \in Nat \ {0}
  BY BoundsAssumption, SizesAssumption DEF WindowType, Cursor, Positions
<1>2. CASE w.oldest <= n
  BY <1>1, <1>2
<1>3. CASE Cardinality({z \in w.msgs : w.oldest <= z}) >= Visible
  <2> SUFFICES ASSUME y < w.oldest
               PROVE  FALSE
    BY <1>1
  <2>1. PICK A : A = {z \in w.msgs : w.oldest <= z}
    OBVIOUS
  <2>2. PICK B : B = {z \in v.msgs : y < z}
    OBVIOUS
  <2>3. A \subseteq B
    <3>1. \A z \in w.msgs : w.oldest <= z => y < z
      BY <1>1 DEF Positions
    <3> QED
      BY <2>1, <2>2, <3>1
  <2>4. Cardinality(A) <= Cardinality(B) /\ Cardinality(A) \in Nat /\ Cardinality(B) \in Nat
    <3>1. A \subseteq w.msgs /\ B \subseteq v.msgs
      BY <2>1, <2>2
    <3> QED
      BY <1>1, <2>3, <3>1, Finite, FS_Subset, FS_CardinalityType
  <2>5. Cardinality({z \in v.msgs : y < z}) >= Visible
    BY <1>1, <1>3, <2>1, <2>2, <2>4
  <2>6. \A z \in TopOf(v.msgs, Visible) : y < z
    BY <1>1, <2>5, Crowd
  <2> QED
    BY <1>1, <2>6
<1> QED
  BY <1>2, <1>3 DEF Reaches

---------------------------------------------------------------------------
(* The functions of the store keep the window whole.                       *)

\* What a client without requests has to show.
Settled(d, h) ==
  /\ \A y \in d.win.msgs : y <= h.last
  /\ d.win.oldest <= h.last /\ (~d.win.reset => d.win.newest <= h.last)
  /\ ~d.gap /\ ~Due(d.win) =>
       /\ Joins(d.win)
       /\ d.win.newest # 0 => Reaches(d.win, d.win.newest)
       /\ d.win.epoch \in {0, h.epoch} =>
            \A x \in h.thread :
              x \in d.win.msgs \/ (d.win.hasMore /\ x < d.win.oldest) \/ (d.win.newest < x /\ Announced(d, h, x))

\* Without requests nothing else is to be shown.
LEMMA SettledIsWhole ==
  ASSUME NEW d, d.tail = NoRequest, d.older = NoRequest, NEW h, Settled(d, h)
  PROVE  Whole(d, h)
<1>1. ~Running(d) /\ ~Loading(d) /\ ~AnsweredTail(d) /\ ~AnsweredOlder(d)
  BY DEF Running, Loading, NoRequest, AnsweredTail, AnsweredOlder
<1>2. Bounded(d, h) /\ Paged(d, h)
  BY <1>1 DEF Settled, Bounded, Paged
<1>3. Based(d)
  BY <1>1 DEF Settled, Based
<1>4. Gapless(d, h) /\ Followable(d, h)
  BY <1>1 DEF Settled, Gapless, Kept, Followable, Current
<1> QED
  BY <1>2, <1>3, <1>4 DEF Whole

\* Calm steps do.
LEMMA CalmIsWhole ==
  ASSUME NEW c \in ClientType, NEW d \in ClientType, Calm(c, d),
         NEW h, h.last \in Nat, h.thread \subseteq Positions, Whole(c, h)
  PROVE  Whole(d, h)
<1>1. /\ d.gap = c.gap /\ d.owed = c.owed /\ d.older \in {c.older, NoRequest} /\ (c.win.prefer => d.win.prefer)
      /\ (c.win.reset => d.win.reset) /\ Running(d) = Running(c)
      /\ d.win.msgs \subseteq c.win.msgs
      /\ (~d.win.reset => d.win.epoch = c.win.epoch /\ d.win.newest = c.win.newest)
      /\ Topped(c.win, d.win) \/ (d.win.reset /\ d.win.hasMore = c.win.hasMore /\ d.win.oldest = c.win.oldest)
  BY DEF Calm, Thinned
<1>2. /\ c.win \in WindowType /\ d.win \in WindowType
      /\ c.win.msgs \in SUBSET Positions /\ d.win.msgs \in SUBSET Positions
      /\ c.win.newest \in Nat /\ d.win.newest \in Nat /\ c.win.oldest \in Nat /\ d.win.oldest \in Nat
      /\ Visible \in Nat \ {0} /\ Positions \subseteq Nat
  BY Requests, BoundsAssumption, SizesAssumption DEF WindowType, Cursor, Positions
<1>3. Due(c.win) => Due(d.win)
  BY <1>1 DEF Due
<1>4. Running(c) =>
        /\ c.tail \in TailType /\ d.tail \in TailType /\ Topped(c.win, d.win)
        /\ d.tail.at = c.tail.at /\ d.tail.page = c.tail.page /\ d.tail.cold = c.tail.cold
        /\ d.tail.after = c.tail.after /\ d.tail.until = c.tail.until
        /\ d.tail.epoch = c.tail.epoch /\ d.tail.baseline = c.tail.baseline
        /\ (c.tail.stale => d.tail.stale) /\ (d.tail # c.tail => d.win.prefer)
  <2> SUFFICES ASSUME Running(c)
               PROVE  /\ c.tail \in TailType /\ d.tail \in TailType /\ Topped(c.win, d.win)
                      /\ d.tail.at = c.tail.at /\ d.tail.page = c.tail.page /\ d.tail.cold = c.tail.cold
                      /\ d.tail.after = c.tail.after /\ d.tail.until = c.tail.until
                      /\ d.tail.epoch = c.tail.epoch /\ d.tail.baseline = c.tail.baseline
                      /\ (c.tail.stale => d.tail.stale) /\ (d.tail # c.tail => d.win.prefer)
    OBVIOUS
  <2>1. c.tail \in TailType /\ d.tail \in TailType
    BY <1>1, Requests
  <2>2. d.tail \in {c.tail, [c.tail EXCEPT !.stale = TRUE]} /\ Topped(c.win, d.win)
        /\ (d.tail # c.tail => d.win.prefer)
    BY DEF Calm
  <2> QED
    BY <2>1, <2>2 DEF TailType
<1>5. Loading(d) => Loading(c) /\ d.older = c.older
  BY <1>1 DEF Loading, NoRequest
<1>6. (AnsweredTail(d) = AnsweredTail(c)) /\ (AnsweredOlder(d) => AnsweredOlder(c) /\ d.older = c.older)
  BY <1>1, <1>4, <1>5 DEF AnsweredTail, AnsweredOlder
<1>7. Bounded(d, h)
  <2>1. d.win.oldest <= h.last
    <3>1. d.win.oldest = c.win.oldest \/ d.win.oldest \in d.win.msgs
      <4>1. CASE d.win.msgs = TopOf(c.win.msgs, Visible) /\ d.win.msgs # c.win.msgs /\ d.win.oldest = Min(d.win.msgs)
        <5>1. d.win.msgs # {}
          BY <1>1, <1>2, <4>1, TopIsThere
        <5> QED
          BY <1>2, <4>1, <5>1, Ends
      <4> QED
        BY <1>1, <4>1 DEF Topped
    <3> QED
      BY <1>1, <3>1 DEF Whole, Bounded
  <2>2. Running(d) =>
          (\A y \in d.tail.baseline : y <= h.last) /\ d.tail.after <= h.last /\ d.tail.until <= h.last
    BY <1>1, <1>4 DEF Whole, Bounded
  <2>3. AnsweredTail(d) =>
          /\ \A y \in d.tail.page.rows : y <= h.last
          /\ d.tail.page.head <= h.last /\ d.tail.page.next <= h.last
    <3>1. AnsweredTail(d) => AnsweredTail(c) /\ d.tail.page = c.tail.page
      BY <1>4, <1>6 DEF AnsweredTail
    <3> QED
      BY <3>1 DEF Whole, Bounded
  <2>4. /\ (\A y \in d.win.msgs : y <= h.last) /\ (~d.win.reset => d.win.newest <= h.last)
        /\ Loading(d) => d.older.before # 0 /\ d.older.before <= h.last
        /\ AnsweredOlder(d) => (\A y \in d.older.page.rows : y <= h.last) /\ d.older.page.next <= h.last
    BY <1>1, <1>5, <1>6 DEF Whole, Bounded
  <2> QED
    BY <2>1, <2>2, <2>3, <2>4 DEF Bounded
<1>8. Paged(d, h)
  <2>1. AnsweredTail(d) => AnsweredTail(c) /\ d.tail.page = c.tail.page /\ d.tail.after = c.tail.after
    BY <1>4, <1>6 DEF AnsweredTail
  <2> QED
    BY <1>6, <2>1 DEF Whole, Paged
<1>9. ASSUME ~d.gap, ~Due(d.win)
      PROVE  /\ ~c.gap /\ ~Due(c.win) /\ Joins(c.win) /\ Joins(d.win)
             /\ d.win.newest = c.win.newest /\ d.win.epoch = c.win.epoch
             /\ \A x \in Nat : c.win.hasMore /\ x < c.win.oldest => d.win.hasMore /\ x < d.win.oldest
             /\ \A x \in c.win.msgs : x \in d.win.msgs \/ (d.win.hasMore /\ x < d.win.oldest)
             /\ \A n \in Nat : Reaches(c.win, n) => Reaches(d.win, n)
  <2>1. ~c.gap /\ ~Due(c.win) /\ Joins(c.win)
    BY <1>1, <1>3, <1>9 DEF Whole, Based
  <2>2. Topped(c.win, d.win) /\ d.win.newest = c.win.newest /\ d.win.epoch = c.win.epoch
    BY <1>1, <1>9 DEF Due
  <2> QED
    BY <1>2, <2>1, <2>2, ToppedKeeps
<1>10. Based(d)
  <2> SUFFICES ASSUME ~d.gap, ~Due(d.win)
               PROVE  /\ Joins(d.win)
                      /\ d.win.newest # 0 => Reaches(d.win, d.win.newest)
                      /\ Running(d) /\ d.tail.after # 0 => Reaches(d.win, d.tail.after)
    BY DEF Based
  <2>1. d.win.newest # 0 => Reaches(d.win, d.win.newest)
    BY <1>2, <1>9 DEF Whole, Based
  <2>2. Running(d) /\ d.tail.after # 0 => Reaches(d.win, d.tail.after)
    <3> SUFFICES ASSUME Running(d), d.tail.after # 0
                 PROVE  Reaches(d.win, d.tail.after)
      OBVIOUS
    <3>1. d.tail.after \in Nat /\ d.tail.after = c.tail.after
      BY <1>1, <1>4, BoundsAssumption DEF TailType, Cursor
    <3>2. Reaches(c.win, c.tail.after)
      BY <1>1, <1>9, <3>1 DEF Whole, Based
    <3> QED
      BY <1>9, <3>1, <3>2
  <2> QED
    BY <1>9, <2>1, <2>2
<1>11. Gapless(d, h)
  <2> SUFFICES ASSUME ~d.gap, ~Due(d.win), d.win.epoch \in {0, h.epoch}, NEW x \in h.thread
               PROVE  Kept(d, h, x)
    BY DEF Gapless
  <2>1. Kept(c, h, x) /\ x \in Nat
    BY <1>2, <1>9 DEF Whole, Gapless
  <2>2. Fetched(c, h, x) => Fetched(d, h, x)
    <3> SUFFICES ASSUME Fetched(c, h, x)
                 PROVE  Fetched(d, h, x)
      OBVIOUS
    <3>1. Running(c) /\ d.tail = c.tail
      BY <1>4 DEF Fetched, Due
    <3> QED
      BY <1>1, <3>1 DEF Fetched
  <2>3. Announced(c, h, x) => Announced(d, h, x)
    BY <1>1 DEF Announced
  <2> QED
    BY <1>9, <2>1, <2>2, <2>3 DEF Kept
<1>12. Followable(d, h)
  <2> SUFFICES ASSUME Current(d, h), NEW x \in h.thread, d.tail.page.head < x
               PROVE  Survives(d, h, x)
    BY DEF Followable
  <2>1. Running(c) /\ Running(d) /\ AnsweredTail(c) /\ d.tail.page = c.tail.page /\ d.tail.cold = c.tail.cold
        /\ d.tail.baseline = c.tail.baseline /\ Topped(c.win, d.win)
    BY <1>1, <1>4, <1>6 DEF Current, AnsweredTail
  <2>2. Current(c, h)
    BY <1>1, <1>4, <2>1 DEF Current
  <2>3. Survives(c, h, x) /\ x \in Nat
    BY <1>2, <2>1, <2>2 DEF Whole, Followable
  <2>4. \A y \in d.tail.baseline : y < x
    BY <2>1, <2>3 DEF Survives
  <2>5. Announced(c, h, x) /\ (\A y \in c.win.msgs : y < x) =>
          Announced(d, h, x) /\ \A y \in d.win.msgs : y < x
    BY <1>1 DEF Announced
  <2>6. CASE d.win.msgs = c.win.msgs /\ d.win.hasMore = c.win.hasMore /\ d.win.oldest = c.win.oldest
    <3>1. Unreplaced(d) = Unreplaced(c)
      BY <2>1, <2>6 DEF Unreplaced
    <3> QED
      BY <2>3, <2>4, <2>5, <2>6, <3>1 DEF Survives
  <2>7. CASE /\ d.win.msgs = TopOf(c.win.msgs, Visible) /\ d.win.msgs # c.win.msgs
             /\ d.win.hasMore /\ d.win.oldest = Min(d.win.msgs)
    <3>1. \A y \in d.win.msgs : x < y => y \in Unreplaced(d)
      <4>1. \A y \in d.win.msgs : x < y => y \notin d.tail.baseline
        <5> SUFFICES ASSUME NEW y \in d.win.msgs, x < y, y \in d.tail.baseline
                     PROVE  FALSE
          OBVIOUS
        <5>1. y < x /\ y \in Nat
          BY <1>2, <2>4
        <5> QED
          BY <2>3, <5>1
      <4> QED
        BY <2>1, <4>1 DEF Unreplaced
    <3>2. Unreplaced(c) \subseteq c.win.msgs
      BY <2>1 DEF Unreplaced
    <3>3. d.win.msgs # {} /\ d.win.oldest \in d.win.msgs
      <4>1. d.win.msgs # {}
        BY <1>1, <1>2, <2>7, TopIsThere
      <4> QED
        BY <1>2, <2>7, <4>1, Ends
    <3>4. ASSUME \A y \in d.win.msgs : x < y, Cardinality(d.win.msgs) >= Visible
          PROVE  Survives(d, h, x)
      <4>1. x < d.win.oldest
        BY <3>3, <3>4
      <4>2. {y \in Unreplaced(d) : x < y} = d.win.msgs
        <5>1. Unreplaced(d) \subseteq d.win.msgs
          BY <2>1 DEF Unreplaced
        <5> QED
          BY <3>1, <3>4, <5>1
      <4> QED
        BY <2>4, <2>7, <3>4, <4>1, <4>2 DEF Survives
    <3>5. CASE x \in Unreplaced(c)
      <4>1. x \in c.win.msgs
        BY <3>2, <3>5
      <4>2. CASE x \in d.win.msgs
        <5>1. x \in Unreplaced(d)
          BY <2>1, <2>3, <3>5, <4>2 DEF Unreplaced
        <5> QED
          BY <2>4, <5>1 DEF Survives
      <4>3. CASE x \notin d.win.msgs
        BY <1>2, <2>7, <3>4, <4>1, <4>3, Tops
      <4> QED
        BY <4>2, <4>3
    <3>6. CASE Cardinality({y \in Unreplaced(c) : x < y}) >= Visible
      <4>1. PICK A : A = {y \in Unreplaced(c) : x < y}
        OBVIOUS
      <4>2. PICK B : B = {y \in c.win.msgs : x < y}
        OBVIOUS
      <4>3. A \subseteq B /\ B \subseteq c.win.msgs
        BY <3>2, <4>1, <4>2
      <4>4. Cardinality(A) <= Cardinality(B) /\ Cardinality(A) \in Nat /\ Cardinality(B) \in Nat
        BY <1>2, <4>3, Finite, FS_Subset, FS_CardinalityType
      <4>5. Cardinality({y \in c.win.msgs : x < y}) >= Visible
        BY <1>2, <3>6, <4>1, <4>2, <4>4
      <4>6. (\A y \in TopOf(c.win.msgs, Visible) : x < y) /\ Cardinality(TopOf(c.win.msgs, Visible)) >= Visible
        BY <1>2, <2>3, <4>5, Crowd
      <4> QED
        BY <2>7, <3>4, <4>6
    <3> QED
      BY <2>3, <2>4, <2>5, <3>5, <3>6 DEF Survives
  <2> QED
    BY <2>1, <2>6, <2>7 DEF Topped
<1> QED
  BY <1>7, <1>8, <1>10, <1>11, <1>12 DEF Whole

\* So does the start of a synchronization: it takes care of what was announced or lost.
LEMMA StartIsWhole ==
  ASSUME NEW b \in ClientType, NEW d \in ClientType, Started(b, d), Anchored(b), NEW g, NEW h, h.last \in Nat,
         g.thread = h.thread, g.epoch = h.epoch, g.last = h.last, Whole(b, g)
  PROVE  Whole(d, h)
<1>1. b.win \in WindowType /\ d.tail \in TailType /\ Running(d) /\ ~Loading(d) /\ d.tail.at = "asked"
  BY Requests DEF Started, Running, Loading, NoRequest
<1>2. /\ d.win.msgs = b.win.msgs /\ d.win.reset = b.win.reset /\ d.win.prefer = b.win.prefer
      /\ d.win.epoch = b.win.epoch /\ d.win.newest = b.win.newest /\ d.win.oldest = b.win.oldest
      /\ d.win.hasMore = b.win.hasMore /\ Due(d.win) = Due(b.win)
  BY <1>1 DEF Started, WindowType, Due
<1>3. /\ d.gap = (b.gap /\ ~Due(b.win)) /\ ~d.tail.stale
      /\ d.tail.baseline = b.win.msgs /\ d.tail.epoch = b.win.epoch /\ d.tail.until = 0
      /\ d.tail.after = IF Due(b.win) THEN 0 ELSE b.win.newest
  BY DEF Started
<1>4. ~AnsweredTail(d) /\ ~AnsweredOlder(d)
  BY <1>1 DEF AnsweredTail, AnsweredOlder
<1>5. Bounded(d, h)
  <2>1. ~Due(b.win) => b.win.newest <= h.last
    BY DEF Whole, Bounded, Due
  <2>2. d.tail.after <= h.last /\ d.tail.until <= h.last
    BY <1>3, <2>1
  <2> QED
    BY <1>1, <1>2, <1>3, <1>4, <2>2 DEF Whole, Bounded
<1>6. Paged(d, h) /\ Followable(d, h)
  BY <1>4 DEF Paged, Followable, Current
<1>7. \A n : Reaches(d.win, n) = Reaches(b.win, n)
  BY <1>2 DEF Reaches
<1>8. Based(d)
  <2> SUFFICES ASSUME ~d.gap, ~Due(d.win)
               PROVE  /\ Joins(d.win)
                      /\ d.win.newest # 0 => Reaches(d.win, d.win.newest)
                      /\ Running(d) /\ d.tail.after # 0 => Reaches(d.win, d.tail.after)
    BY DEF Based
  <2>1. Joins(b.win) /\ (b.win.newest # 0 => Reaches(b.win, b.win.newest))
    BY <1>2, <1>3 DEF Whole, Based
  <2>2. Joins(d.win)
    BY <1>2, <2>1 DEF Joins
  <2>3. d.tail.after = b.win.newest
    BY <1>2, <1>3
  <2> QED
    BY <1>2, <1>7, <2>1, <2>2, <2>3
<1>9. Gapless(d, h)
  <2> SUFFICES ASSUME ~d.gap, ~Due(d.win), d.win.epoch \in {0, h.epoch}, NEW x \in h.thread
               PROVE  Kept(d, h, x)
    BY DEF Gapless
  <2>1. ~b.gap /\ ~Due(b.win) /\ Kept(b, g, x)
    BY <1>2, <1>3 DEF Whole, Gapless
  <2>2. ~Fetched(b, g, x)
    BY <2>1 DEF Started, Due, Fetched
  <2>3. b.win.newest < x => Fetched(d, h, x)
    <3>1. b.win.newest # 0 => b.win.epoch = h.epoch
      BY <1>2, <2>1 DEF Anchored, Due
    <3> QED
      BY <1>1, <1>3, <2>1, <3>1 DEF Fetched
  <2> QED
    BY <1>2, <2>1, <2>2, <2>3 DEF Kept
<1> QED
  BY <1>5, <1>6, <1>8, <1>9 DEF Whole

\* And so does every step of the store that may start one.
LEMMA MoveIsWhole ==
  ASSUME NEW c \in ClientType, NEW d \in ClientType, Moves(c, d), Anchored(c),
         NEW h, h.last \in Nat, h.thread \subseteq Positions, Whole(c, h)
  PROVE  Whole(d, h)
<1>1. PICK b \in ClientType : Calm(c, b) /\ (d = b \/ Started(b, d))
  BY DEF Moves
<1>2. Whole(b, h)
  BY <1>1, CalmIsWhole
<1>3. Anchored(b)
  BY <1>1 DEF Anchored, Calm, Thinned
<1> QED
  BY <1>1, <1>2, <1>3, StartIsWhole

\* A thread that is read again leaves nothing behind.
LEMMA RestartIsWhole ==
  ASSUME NEW c \in ClientType, NEW d \in ClientType, Anchored(c), ~Running(c),
         \E b \in ClientType : Calm(c, b) /\ Started(b, d),
         NEW h, h.last \in Nat, h.thread \subseteq Positions,
         NEW g, g.thread = h.thread, g.epoch = h.epoch, g.last = h.last, Whole(c, g)
  PROVE  Whole(d, h)
<1>1. PICK b \in ClientType : Calm(c, b) /\ Started(b, d)
  OBVIOUS
<1>2. Whole(b, g)
  BY <1>1, CalmIsWhole
<1>3. Anchored(b)
  BY <1>1 DEF Anchored, Calm, Thinned
<1> QED
  BY <1>1, <1>2, <1>3, StartIsWhole

\* The window reaches the rows it holds, and what is above a position it reaches.
LEMMA HeldIsReached ==
  ASSUME NEW w \in WindowType, Joins(w)
  PROVE  /\ \A x \in w.msgs : Reaches(w, x)
         /\ \A m, n \in Nat : m <= n /\ Reaches(w, m) => Reaches(w, n)
<1>1. w.msgs \in SUBSET Positions /\ w.oldest \in Nat /\ Visible \in Nat /\ \A x \in w.msgs : x \in Nat
  BY BoundsAssumption, SizesAssumption DEF WindowType, Cursor, Positions
<1>2. ASSUME NEW x \in w.msgs, ~(w.oldest <= x)
      PROVE  Cardinality({y \in w.msgs : w.oldest <= y}) >= Visible
  <2>1. x \notin TopOf(w.msgs, Visible)
    BY <1>2 DEF Joins
  <2>2. Cardinality(TopOf(w.msgs, Visible)) >= Visible
    BY <1>1, <2>1, Tops
  <2>3. PICK A : A = {y \in w.msgs : w.oldest <= y}
    OBVIOUS
  <2>4. TopOf(w.msgs, Visible) \subseteq A /\ A \subseteq w.msgs
    BY <2>3 DEF Joins, TopOf
  <2>5. /\ Cardinality(TopOf(w.msgs, Visible)) <= Cardinality(A)
        /\ Cardinality(A) \in Nat /\ Cardinality(TopOf(w.msgs, Visible)) \in Nat
    <3>1. TopOf(w.msgs, Visible) \subseteq w.msgs
      BY DEF TopOf
    <3> QED
      BY <1>1, <2>4, <3>1, Finite, FS_Subset, FS_CardinalityType
  <2> QED
    BY <1>1, <2>2, <2>3, <2>5
<1> QED
  BY <1>1, <1>2 DEF Reaches

\* Rows that join the others keep the ones that were stored after a page was read.
LEMMA JoinFollows ==
  ASSUME NEW c \in ClientType, NEW d \in ClientType, NEW x \in Positions,
         d.tail = c.tail, ~d.gap => ~c.gap /\ ~c.owed, d.win.msgs \subseteq c.win.msgs \cup {x},
         Running(c) /\ ~d.gap => {x} \cup Unreplaced(c) \subseteq d.win.msgs,
         d.win.hasMore = c.win.hasMore, d.win.oldest = c.win.oldest,
         NEW g, NEW h, h.thread = g.thread, h.epoch = g.epoch, ~g.lost, g.told = h.told \cup {x},
         \A y \in h.told : x < y, h.thread \subseteq Positions, Followable(c, g)
  PROVE  Followable(d, h)
<1> SUFFICES ASSUME Current(d, h), NEW y \in h.thread, d.tail.page.head < y
             PROVE  Survives(d, h, y)
  BY DEF Followable
<1>1. Running(c) /\ Running(d) /\ ~d.gap /\ Current(c, g)
  BY DEF Current, AnsweredTail, Running
<1>2. Survives(c, g, y) /\ y \in Nat
  BY <1>1 DEF Followable, Positions
<1>3. \A z \in d.tail.baseline : z < y
  BY <1>2 DEF Survives
<1>4. \A z \in Unreplaced(c) : z \in Unreplaced(d)
  BY <1>1 DEF Unreplaced
<1>5. CASE y \in Unreplaced(c)
  BY <1>3, <1>4, <1>5 DEF Survives
<1>6. CASE c.win.hasMore /\ y < c.win.oldest /\ Cardinality({z \in Unreplaced(c) : y < z}) >= Visible
  <2>1. PICK A : A = {z \in Unreplaced(c) : y < z}
    OBVIOUS
  <2>2. PICK B : B = {z \in Unreplaced(d) : y < z}
    OBVIOUS
  <2>3. A \subseteq B /\ B \subseteq d.win.msgs
    BY <1>1, <1>4, <2>1, <2>2 DEF Unreplaced
  <2>4. Cardinality(A) <= Cardinality(B) /\ Cardinality(A) \in Nat /\ Cardinality(B) \in Nat
    <3>1. d.win.msgs \in SUBSET Positions
      BY Requests DEF WindowType
    <3> QED
      BY <2>3, <3>1, Finite, FS_Subset, FS_CardinalityType
  <2>5. Cardinality({z \in Unreplaced(d) : y < z}) >= Visible
    BY <1>6, <2>1, <2>2, <2>4, SizesAssumption
  <2> QED
    BY <1>3, <1>6, <2>5 DEF Survives
<1>7. CASE Announced(c, g, y) /\ \A z \in c.win.msgs : z < y
  <2>1. y \in h.told \/ y = x
    BY <1>1, <1>7 DEF Announced
  <2>2. CASE y \in h.told
    <3>1. \A z \in d.win.msgs : z < y
      BY <1>7, <2>2
    <3> QED
      BY <1>3, <2>2, <3>1 DEF Survives, Announced
  <2>3. CASE y = x
    <3>1. x \in d.win.msgs /\ x \notin d.tail.baseline
      BY <1>1, <1>2, <1>3, <2>3
    <3>2. x \in Unreplaced(d)
      BY <1>1, <3>1 DEF Unreplaced
    <3> QED
      BY <1>3, <2>3, <3>2 DEF Survives
  <2> QED
    BY <2>1, <2>2, <2>3
<1> QED
  BY <1>2, <1>5, <1>6, <1>7 DEF Survives

\* A live message joins the rows; the ones announced before it have come.
LEMMA JoinIsWhole ==
  ASSUME NEW c \in ClientType, NEW d \in ClientType, NEW x \in Positions,
         d.tail = c.tail, d.older = c.older, d.owed = c.owed,
         ~d.gap => ~c.gap /\ ~c.owed /\ ~(x < c.win.oldest /\ x \in TopOf(c.win.msgs \cup {x}, Visible)),
         d.win.msgs = c.win.msgs \cup {x}, d.win.hasMore = c.win.hasMore, d.win.oldest = c.win.oldest,
         d.win.reset = c.win.reset, d.win.prefer = c.win.prefer, d.win.epoch = c.win.epoch,
         d.win.newest \in {c.win.newest, Higher(c.win.newest, x)},
         NEW g, NEW h, h.thread = g.thread, h.epoch = g.epoch, h.last = g.last, h.last \in Nat, x <= h.last,
         ~g.lost, g.told = h.told \cup {x},
         \A y \in h.told : x < y, h.thread \subseteq Positions, Whole(c, g)
  PROVE  Whole(d, h)
<1>1. /\ c.win \in WindowType /\ d.win \in WindowType
      /\ c.win.msgs \in SUBSET Positions /\ d.win.msgs \in SUBSET Positions
      /\ c.win.newest \in Nat /\ d.win.newest \in Nat /\ c.win.oldest \in Nat /\ d.win.oldest \in Nat
      /\ x \in Nat /\ Visible \in Nat \ {0} /\ Positions \subseteq Nat
      /\ d.win.newest \in {c.win.newest, x} /\ d.win.newest >= c.win.newest
  <2>1. /\ c.win \in WindowType /\ d.win \in WindowType
        /\ c.win.newest \in Nat /\ d.win.newest \in Nat /\ c.win.oldest \in Nat /\ d.win.oldest \in Nat
        /\ x \in Nat /\ Visible \in Nat \ {0} /\ Positions \subseteq Nat
    BY Requests, BoundsAssumption, SizesAssumption DEF WindowType, Cursor, Positions
  <2>2. c.win.msgs \in SUBSET Positions /\ d.win.msgs \in SUBSET Positions
    BY <2>1 DEF WindowType
  <2> QED
    BY <2>1, <2>2 DEF Higher
<1>2. Due(d.win) = Due(c.win) /\ Running(d) = Running(c) /\ Loading(d) = Loading(c)
  BY DEF Due, Running, Loading
<1>3. Bounded(d, h)
  <2>1. \A y \in d.win.msgs : y <= h.last
    BY DEF Whole, Bounded
  <2>2. ~d.win.reset => d.win.newest <= h.last
    BY <1>1 DEF Whole, Bounded
  <2> QED
    BY <1>2, <2>1, <2>2 DEF Whole, Bounded, AnsweredTail, AnsweredOlder
<1>4. Paged(d, h)
  BY <1>2 DEF Whole, Paged, AnsweredTail, AnsweredOlder
<1>5. ASSUME ~d.gap, ~Due(d.win)
      PROVE  Joins(d.win) /\ \A n \in Nat : Reaches(c.win, n) => Reaches(d.win, n)
  <2>1. Joins(c.win)
    BY <1>2, <1>5 DEF Whole, Based
  <2>2. \A y \in d.win.msgs \ c.win.msgs : y \in TopOf(d.win.msgs, Visible) => c.win.oldest <= y
    BY <1>1, <1>5
  <2> QED
    BY <1>1, <2>1, <2>2, AddedKeeps
<1>6. Based(d)
  <2> SUFFICES ASSUME ~d.gap, ~Due(d.win)
               PROVE  /\ Joins(d.win)
                      /\ d.win.newest # 0 => Reaches(d.win, d.win.newest)
                      /\ Running(d) /\ d.tail.after # 0 => Reaches(d.win, d.tail.after)
    BY DEF Based
  <2>1. Joins(d.win) /\ \A n \in Nat : Reaches(c.win, n) => Reaches(d.win, n)
    BY <1>5
  <2>2. CASE d.win.newest = x
    <3>1. Reaches(d.win, x)
      BY <1>1, <2>1, HeldIsReached
    <3>2. Running(d) /\ d.tail.after # 0 => Reaches(d.win, d.tail.after)
      <4> SUFFICES ASSUME Running(d), d.tail.after # 0
                   PROVE  Reaches(d.win, d.tail.after)
        OBVIOUS
      <4>1. d.tail.after \in Nat
        BY Requests, BoundsAssumption DEF TailType, Cursor
      <4> QED
        BY <1>2, <2>1, <4>1 DEF Whole, Based
    <3> QED
      BY <2>1, <2>2, <3>1, <3>2
  <2>3. CASE d.win.newest = c.win.newest
    <3>1. d.win.newest # 0 => Reaches(d.win, d.win.newest)
      BY <1>1, <1>2, <2>1, <2>3 DEF Whole, Based
    <3>2. Running(d) /\ d.tail.after # 0 => Reaches(d.win, d.tail.after)
      <4> SUFFICES ASSUME Running(d), d.tail.after # 0
                   PROVE  Reaches(d.win, d.tail.after)
        OBVIOUS
      <4>1. d.tail.after \in Nat
        BY Requests, BoundsAssumption DEF TailType, Cursor
      <4> QED
        BY <1>2, <2>1, <4>1 DEF Whole, Based
    <3> QED
      BY <2>1, <3>1, <3>2
  <2> QED
    BY <1>1, <2>2, <2>3
<1>7. Gapless(d, h)
  <2> SUFFICES ASSUME ~d.gap, ~Due(d.win), d.win.epoch \in {0, h.epoch}, NEW y \in h.thread
               PROVE  Kept(d, h, y)
    BY DEF Gapless
  <2>1. Kept(c, g, y)
    BY <1>2 DEF Whole, Gapless
  <2>2. Fetched(c, g, y) => Fetched(d, h, y)
    BY <1>2 DEF Fetched
  <2>3. c.win.newest < y /\ Announced(c, g, y) => Kept(d, h, y)
    <3> SUFFICES ASSUME c.win.newest < y, y \in h.told, y # x
                 PROVE  Kept(d, h, y)
      BY DEF Kept, Announced
    <3>1. d.win.newest < y
      BY <1>1
    <3> QED
      BY <3>1 DEF Kept, Announced
  <2> QED
    BY <2>1, <2>2, <2>3 DEF Kept
<1>8. Followable(d, h)
  <2>1. Followable(c, g) /\ (Running(c) => {x} \cup Unreplaced(c) \subseteq d.win.msgs)
    BY DEF Whole, Unreplaced
  <2> QED
    BY <2>1, JoinFollows
<1> QED
  BY <1>3, <1>4, <1>6, <1>7, <1>8 DEF Whole

\* A live message that is handled is held, or accounted for as one that was told.
LEMMA IngestIsWhole ==
  ASSUME NEW c \in ClientType, NEW x \in Positions, NEW d \in ClientType, d = Ingest(c, x),
         NEW g, NEW h, h.thread = g.thread, h.epoch = g.epoch, h.last = g.last, h.last \in Nat, x <= h.last,
         ~g.lost, g.told = h.told \cup {x},
         \A y \in h.told : x < y, h.thread \subseteq Positions, Whole(c, g)
  PROVE  Whole(d, h)
<1>1. PICK m : m = MergeInView(c.win, {x})
  OBVIOUS
<1>2. PICK merged : merged = [c.win EXCEPT !.msgs = @ \cup {x}]
  OBVIOUS
<1>3. c.win \in WindowType /\ {x} \in SUBSET Positions /\ Positions \subseteq Nat /\ x \in Nat /\ c.win.newest \in Nat
      /\ c.win.newest \in Cursor /\ x \in Cursor
  <2>1. c.win \in WindowType
    BY Requests
  <2> QED
    BY <2>1, BoundsAssumption DEF Positions, WindowType, Cursor
<1>4. m \in WindowType /\ Keeps(m, c.win)
  BY <1>1, <1>3, Views
<1>5. /\ merged \in WindowType /\ merged.msgs = c.win.msgs \cup {x} /\ merged.reset = c.win.reset
      /\ merged.prefer = c.win.prefer
      /\ merged.oldest = c.win.oldest /\ merged.newest = c.win.newest /\ merged.epoch = c.win.epoch
      /\ merged.hasMore = c.win.hasMore /\ Thinned(merged, m)
  <2>1. PICK rows \in SUBSET Positions : rows = {x}
    BY <1>3
  <2>2. merged = [c.win EXCEPT !.msgs = @ \cup rows] /\ m = MergeInView(c.win, rows)
    BY <1>1, <1>2, <2>1
  <2> QED
    BY <1>3, <2>1, <2>2, ViewThins
<1>6. PICK w : w = IF m.epoch = 0 \/ m.reset THEN m ELSE [m EXCEPT !.newest = Higher(@, x)]
  OBVIOUS
<1>7. PICK gap \in BOOLEAN :
        gap = (c.gap \/ c.owed \/ (x < c.win.oldest /\ x \in TopOf(c.win.msgs \cup {x}, Visible))
               \/ (Running(c) /\ w.reset /\ ~({x} \cup Unreplaced(c) \subseteq w.msgs)))
  OBVIOUS
<1>8. d = [c EXCEPT !.win = w, !.gap = gap]
  BY <1>1, <1>6, <1>7 DEF Ingest, ClientType, WindowType
<1>9. d.win = w /\ d.gap = gap /\ d.tail = c.tail /\ d.older = c.older /\ d.owed = c.owed
  BY <1>8 DEF ClientType
<1>10. w.msgs = m.msgs /\ w.reset = m.reset /\ w.prefer = m.prefer /\ w.epoch = m.epoch /\ w.oldest = m.oldest
       /\ w.hasMore = m.hasMore
       /\ w.newest = IF m.epoch = 0 \/ m.reset THEN m.newest ELSE Higher(m.newest, x)
  BY <1>4, <1>6 DEF WindowType
<1>11. CASE Topped(merged, m)
  <2>1. PICK newest \in Cursor : newest = IF c.win.epoch = 0 \/ c.win.reset THEN c.win.newest ELSE Higher(c.win.newest, x)
    BY <1>3 DEF Higher
  <2>2. PICK u : u = [merged EXCEPT !.newest = newest]
    OBVIOUS
  <2>3. PICK e : e = [c EXCEPT !.win = u, !.gap = gap]
    OBVIOUS
  <2>4. /\ u \in WindowType /\ u.msgs = merged.msgs /\ u.reset = merged.reset /\ u.prefer = merged.prefer
        /\ u.oldest = merged.oldest /\ u.epoch = merged.epoch /\ u.hasMore = merged.hasMore /\ u.newest = newest
    BY <1>5, <2>1, <2>2 DEF WindowType
  <2>5. e \in ClientType /\ e.win = u /\ e.gap = gap /\ e.tail = c.tail /\ e.older = c.older /\ e.owed = c.owed
    BY <2>3, <2>4 DEF ClientType
  <2>6. ~e.gap => ~c.gap /\ ~c.owed /\ ~(x < c.win.oldest /\ x \in TopOf(c.win.msgs \cup {x}, Visible))
    BY <1>7, <2>5
  <2>7. Whole(e, h)
    BY <1>5, <2>1, <2>4, <2>5, <2>6, JoinIsWhole
  <2>8. Topped(u, w)
    BY <1>10, <1>11, <2>4 DEF Topped
  <2>9. ~w.reset => w.epoch = u.epoch /\ w.newest = u.newest
    BY <1>4, <1>5, <1>10, <1>11, <2>1, <2>4 DEF Keeps, Topped
  <2>10. Thinned(u, w)
    BY <1>5, <1>10, <2>4, <2>8, <2>9 DEF Thinned
  <2>11. w.prefer = u.prefer
    BY <1>4, <1>5, <1>10, <2>4 DEF Keeps
  <2>12. Calm(e, d)
    BY <1>9, <2>5, <2>8, <2>10, <2>11 DEF Calm, Running
  <2> QED
    BY <2>5, <2>7, <2>12, CalmIsWhole
<1>12. CASE m.reset /\ m.hasMore = merged.hasMore /\ m.oldest = merged.oldest
  <2>1. /\ w.reset /\ w.hasMore = c.win.hasMore /\ w.oldest = c.win.oldest /\ w.msgs \subseteq c.win.msgs \cup {x}
    BY <1>5, <1>10, <1>12 DEF Thinned
  <2>2. Running(d) = Running(c) /\ Loading(d) = Loading(c) /\ Due(d.win)
    BY <1>9, <2>1 DEF Running, Loading, Due
  <2>3. Bounded(d, h)
    <3>1. \A y \in d.win.msgs : y <= h.last
      BY <1>9, <2>1 DEF Whole, Bounded
    <3> QED
      BY <1>9, <2>1, <2>2, <3>1 DEF Whole, Bounded, AnsweredTail, AnsweredOlder
  <2>4. Paged(d, h)
    BY <1>9, <2>2 DEF Whole, Paged, AnsweredTail, AnsweredOlder
  <2>5. Based(d) /\ Gapless(d, h)
    BY <2>2 DEF Based, Gapless
  <2>6. Followable(d, h)
    <3>1. Followable(c, g)
      BY DEF Whole
    <3>2. ~d.gap => ~c.gap /\ ~c.owed
      BY <1>7, <1>9
    <3>3. Running(c) /\ ~d.gap => {x} \cup Unreplaced(c) \subseteq d.win.msgs
      BY <1>7, <1>9, <2>1
    <3> QED
      BY <1>9, <2>1, <3>1, <3>2, <3>3, JoinFollows
  <2> QED
    BY <2>3, <2>4, <2>5, <2>6 DEF Whole
<1> QED
  BY <1>5, <1>11, <1>12 DEF Thinned

---------------------------------------------------------------------------
(* What a page says of the thread.                                         *)

\* The end of the thread.
LEMMA ThreadEnds ==
  ASSUME TypeOK
  PROVE  /\ thread \in SUBSET Positions /\ Positions \subseteq Nat /\ last \in Nat
         /\ Largest(thread) \in Nat /\ Largest(thread) <= last
         /\ \A x \in thread : x \in Nat /\ x <= last /\ x <= Largest(thread)
<1>1. /\ thread \in SUBSET Positions /\ Positions \subseteq Nat /\ last \in Nat
      /\ \A x \in thread : x \in Nat /\ x <= last
  BY BoundsAssumption DEF TypeOK, Positions
<1>2. CASE thread = {}
  BY <1>1, <1>2 DEF Largest
<1>3. CASE thread # {}
  <2>1. PICK m : m = Max(thread)
    OBVIOUS
  <2>2. m \in thread /\ \A y \in thread : y <= m
    BY <1>1, <1>3, <2>1, Ends
  <2>3. Largest(thread) = m
    BY <1>3, <2>1 DEF Largest
  <2> QED
    BY <1>1, <2>2, <2>3
<1> QED
  BY <1>2, <1>3

\* A latest page, or one before a cursor.
LEMMA LatestBrings ==
  ASSUME TypeOK, NEW before \in Nat, NEW limit \in Nat \ {0}, NEW reset \in BOOLEAN,
         NEW page, page = LatestPage(before, limit, reset)
  PROVE  /\ page.head = Largest(thread) /\ page.rows \subseteq thread /\ page.next \in Nat /\ page.next <= last
         /\ before = 0 => Lists(page, page.head) /\ Brings(page, page.head, thread)
         /\ before # 0 => Lists(page, before - 1) /\ Brings(page, before - 1, thread)
<1>1. PICK S : S = {x \in thread : before = 0 \/ x < before}
  OBVIOUS
<1>2. PICK rows : rows = TopOf(S, limit)
  OBVIOUS
<1>3. PICK oldest : oldest = Smallest(rows)
  OBVIOUS
<1>4. PICK hasMore \in BOOLEAN : hasMore = (\E x \in thread : oldest # 0 /\ x < oldest)
  OBVIOUS
<1>5. page = [direction |-> "latest", reset |-> reset, epoch |-> epoch, rows |-> rows, next |-> oldest,
              head |-> Largest(thread), hasMore |-> hasMore]
  BY <1>1, <1>2, <1>3, <1>4 DEF LatestPage
<1>6. page.rows = rows /\ page.next = oldest /\ page.hasMore = hasMore /\ page.head = Largest(thread)
  BY <1>5
<1>7. /\ thread \in SUBSET Positions /\ Positions \subseteq Nat /\ last \in Nat /\ Largest(thread) \in Nat
      /\ \A x \in thread : x \in Nat /\ x <= last /\ x <= Largest(thread)
  BY ThreadEnds
<1>8. S \in SUBSET Positions /\ S \subseteq thread /\ rows \subseteq S /\ rows \in SUBSET Positions
  BY <1>1, <1>2, <1>7 DEF TopOf
<1>9. rows # {} => oldest \in rows /\ \A y \in rows : oldest <= y
  BY <1>3, <1>8, Ends DEF Smallest
<1>10. rows = {} => oldest = 0
  BY <1>3 DEF Smallest
<1>11. \A y \in rows : y \in Nat /\ y # 0
  BY <1>8 DEF Positions
<1>12. \A x \in S : x \in rows \/ (hasMore /\ x < oldest)
  <2> SUFFICES ASSUME NEW x \in S, x \notin rows
               PROVE  hasMore /\ x < oldest
    OBVIOUS
  <2>1. rows # {}
    BY <1>2, <1>8, TopIsThere
  <2>2. \A y \in rows : x < y
    BY <1>2, <1>8, Tops
  <2>3. x < oldest /\ oldest # 0 /\ x \in thread
    BY <1>8, <1>9, <1>11, <2>1, <2>2
  <2> QED
    BY <1>4, <2>3
<1>13. (page.next # 0 <=> page.rows # {}) /\ (page.hasMore => page.rows # {})
  BY <1>4, <1>6, <1>9, <1>10, <1>11
<1>14. page.next \in Nat /\ page.next <= last
  <2>1. CASE rows = {}
    BY <1>6, <1>7, <1>10, <2>1
  <2>2. CASE rows # {}
    <3>1. oldest \in thread
      BY <1>8, <1>9, <2>2
    <3> QED
      BY <1>6, <1>7, <3>1
  <2> QED
    BY <2>1, <2>2
<1>15. ASSUME before = 0
       PROVE  Lists(page, page.head) /\ Brings(page, page.head, thread)
  <2>1. S = thread
    BY <1>1, <1>15
  <2> QED
    BY <1>6, <1>7, <1>8, <1>9, <1>12, <1>13, <2>1 DEF Lists, Brings
<1>16. ASSUME before # 0
       PROVE  Lists(page, before - 1) /\ Brings(page, before - 1, thread)
  <2>1. \A x \in thread : x \in S <=> x <= before - 1
    BY <1>1, <1>7, <1>16
  <2> QED
    BY <1>6, <1>7, <1>8, <1>9, <1>12, <1>13, <2>1 DEF Lists, Brings
<1> QED
  BY <1>6, <1>8, <1>14, <1>15, <1>16

\* A page after a cursor.
LEMMA AfterBrings ==
  ASSUME TypeOK, NEW after \in Nat, NEW until \in Nat, after <= last, until <= last,
         NEW page, page = AfterPage(after, until)
  PROVE  /\ page.direction = "after" /\ page.rows \subseteq thread
         /\ page.next \in Nat /\ page.next <= last /\ page.head \in Nat /\ page.head <= last
         /\ page.next >= after /\ \A y \in page.rows : after < y
         /\ \A x \in thread : after < x /\ x <= page.next => x \in page.rows
         /\ \A x \in thread : after < x /\ (until = 0 \/ x <= until) =>
              x \in page.rows \/ (page.hasMore /\ page.next < x /\ x <= page.head)
<1>1. PICK head : head = IF until # 0 /\ (until < Largest(thread) \/ thread = {}) THEN until ELSE Largest(thread)
  OBVIOUS
<1>2. PICK S : S = {x \in thread : after < x /\ x <= head}
  OBVIOUS
<1>3. PICK rows : rows = BottomOf(S, Page)
  OBVIOUS
<1>4. PICK next : next = IF head <= after THEN after ELSE IF rows = {} THEN head ELSE Max(rows)
  OBVIOUS
<1>5. PICK hasMore \in BOOLEAN : hasMore = (rows # {} /\ next < head)
  OBVIOUS
<1>6. page.rows = rows /\ page.next = next /\ page.head = head /\ page.direction = "after"
      /\ page.hasMore = hasMore
  <2>1. page = [direction |-> "after", reset |-> FALSE, epoch |-> epoch, rows |-> rows, next |-> next,
                head |-> head, hasMore |-> hasMore]
    BY <1>1, <1>2, <1>3, <1>4, <1>5 DEF AfterPage
  <2> QED
    BY <2>1
<1>7. /\ thread \in SUBSET Positions /\ Positions \subseteq Nat /\ last \in Nat /\ Largest(thread) \in Nat
      /\ Largest(thread) <= last
      /\ \A x \in thread : x \in Nat /\ x <= last /\ x <= Largest(thread)
  BY ThreadEnds
<1>8. head \in Nat /\ head <= last /\ \A x \in thread : until = 0 \/ x <= until => x <= head
  BY <1>1, <1>7
<1>9. S \in SUBSET Positions /\ S \subseteq thread /\ rows \subseteq S /\ rows \in SUBSET Positions
      /\ Page \in Nat \ {0}
  BY <1>2, <1>3, <1>7, SizesAssumption DEF BottomOf
<1>10. rows # {} => Max(rows) \in rows /\ \A y \in rows : y <= Max(rows)
  BY <1>9, Ends
<1>11. \A y \in rows : y \in Nat /\ y \in thread /\ after < y /\ y <= head
  BY <1>2, <1>7, <1>9
<1>12. next \in Nat /\ next <= last /\ next >= after /\ (next <= head \/ next = after)
  <2>1. CASE head <= after
    BY <1>4, <2>1
  <2>2. CASE ~(head <= after) /\ rows = {}
    BY <1>4, <1>8, <2>2
  <2>3. CASE ~(head <= after) /\ rows # {}
    <3>1. next = Max(rows)
      BY <1>4, <2>3
    <3>2. next \in rows
      BY <1>10, <2>3, <3>1
    <3> QED
      BY <1>7, <1>8, <1>11, <3>2
  <2> QED
    BY <2>1, <2>2, <2>3
<1>13. \A x \in S : x \in rows \/ (rows # {} /\ next < x)
  <2> SUFFICES ASSUME NEW x \in S, x \notin rows
               PROVE  rows # {} /\ next < x
    OBVIOUS
  <2>1. rows # {}
    BY <1>3, <1>9, BottomIsThere
  <2>2. \A y \in rows : y < x
    BY <1>3, <1>9, Bottoms
  <2>3. ~(head <= after)
    BY <1>2, <1>7, <1>8
  <2>4. next = Max(rows)
    BY <1>4, <2>1, <2>3
  <2> QED
    BY <1>10, <2>1, <2>2, <2>4
<1>14. \A x \in thread : after < x /\ x <= next => x \in rows
  <2> SUFFICES ASSUME NEW x \in thread, after < x, x <= next
               PROVE  x \in rows
    OBVIOUS
  <2>1. x \in Nat /\ x <= head
    BY <1>7, <1>8, <1>12
  <2>2. x \in S
    BY <1>2, <2>1
  <2> QED
    BY <1>12, <1>13, <2>1, <2>2
<1>15. \A x \in thread : after < x /\ (until = 0 \/ x <= until) =>
              x \in rows \/ (page.hasMore /\ next < x /\ x <= head)
  <2> SUFFICES ASSUME NEW x \in thread, after < x, until = 0 \/ x <= until, x \notin rows
               PROVE  page.hasMore /\ next < x /\ x <= head
    OBVIOUS
  <2>1. x <= head /\ x \in Nat
    BY <1>7, <1>8
  <2>2. x \in S
    BY <1>2, <2>1
  <2>3. rows # {} /\ next < x
    BY <1>13, <2>2
  <2>4. next < head
    BY <1>8, <1>12, <2>1, <2>3
  <2> QED
    BY <1>5, <1>6, <2>1, <2>3, <2>4
<1> QED
  BY <1>6, <1>8, <1>9, <1>11, <1>12, <1>14, <1>15

\* What the hub answers to a synchronization.
LEMMA TailBrings ==
  ASSUME TypeOK, NEW t \in TailType, t.after <= last, t.until <= last, NEW page, page = PageFor(t)
  PROVE  /\ page.rows \subseteq thread /\ page.head <= last /\ page.next <= last
         /\ t.after = 0 => page.direction = "latest"
         /\ t.after # 0 /\ t.epoch = epoch => page.direction = "after"
         /\ page.direction = "latest" =>
              page.head = Largest(thread) /\ Lists(page, page.head) /\ Brings(page, page.head, thread)
         /\ page.direction # "latest" =>
              /\ page.next >= t.after /\ \A y \in page.rows : t.after < y
              /\ \A x \in thread : t.after < x /\ x <= page.next => x \in page.rows
              /\ \A x \in thread : t.after < x /\ (t.until = 0 \/ x <= t.until) =>
                   x \in page.rows \/ (page.hasMore /\ page.next < x /\ x <= page.head)
<1>1. t.after \in Nat /\ t.until \in Nat /\ t.limit \in Nat \ {0} /\ 0 \in Nat
  BY SizesAssumption, BoundsAssumption DEF TailType, Cursor
<1>2. Largest(thread) \in Nat /\ Largest(thread) <= last /\ last \in Nat
  BY ThreadEnds
<1>3. \A reset \in BOOLEAN : page = LatestPage(0, t.limit, reset) =>
        /\ page.rows \subseteq thread /\ page.head <= last /\ page.next <= last /\ page.direction = "latest"
        /\ page.head = Largest(thread) /\ Lists(page, page.head) /\ Brings(page, page.head, thread)
  <2> SUFFICES ASSUME NEW reset \in BOOLEAN, page = LatestPage(0, t.limit, reset)
               PROVE  /\ page.rows \subseteq thread /\ page.head <= last /\ page.next <= last
                      /\ page.direction = "latest"
                      /\ page.head = Largest(thread) /\ Lists(page, page.head) /\ Brings(page, page.head, thread)
    OBVIOUS
  <2>1. page.direction = "latest"
    BY PageRows
  <2>2. /\ page.head = Largest(thread) /\ page.rows \subseteq thread /\ page.next \in Nat /\ page.next <= last
        /\ Lists(page, page.head) /\ Brings(page, page.head, thread)
    BY <1>1, LatestBrings
  <2> QED
    BY <1>2, <2>1, <2>2
<1>4. CASE t.after = 0
  <2>1. page = LatestPage(0, t.limit, FALSE)
    BY <1>4 DEF PageFor
  <2> QED
    BY <1>3, <1>4, <2>1
<1>5. CASE t.after # 0 /\ t.epoch # epoch
  <2>1. page = LatestPage(0, t.limit, TRUE)
    BY <1>5 DEF PageFor
  <2> QED
    BY <1>3, <1>5, <2>1
<1>6. CASE t.after # 0 /\ t.epoch = epoch
  <2>1. page = AfterPage(t.after, t.until)
    BY <1>6 DEF PageFor
  <2>2. /\ page.direction = "after" /\ page.rows \subseteq thread
        /\ page.next \in Nat /\ page.next <= last /\ page.head \in Nat /\ page.head <= last
        /\ page.next >= t.after /\ \A y \in page.rows : t.after < y
        /\ \A x \in thread : t.after < x /\ x <= page.next => x \in page.rows
        /\ \A x \in thread : t.after < x /\ (t.until = 0 \/ x <= t.until) =>
              x \in page.rows \/ (page.hasMore /\ page.next < x /\ x <= page.head)
    BY <1>1, <2>1, AfterBrings
  <2> QED
    BY <1>6, <2>2
<1> QED
  BY <1>4, <1>5, <1>6

LEMMA ServeTailFills ==
  ASSUME IInv, Whole(client, View), ServeTail
  PROVE  Whole(client, View)'
<1>1. client \in ClientType /\ Running(client) /\ client.tail \in TailType /\ client.tail.at = "asked"
      /\ Sound(client) /\ ~Loading(client)
  BY Requests DEF IInv, TypeOK, ServeTail, Running, Sound, Locks
<1>2. PICK page : page = PageFor(client.tail)
  OBVIOUS
<1>3. PICK t : t = [client.tail EXCEPT !.at = "answered", !.page = page]
  OBVIOUS
<1>4. client' = [client EXCEPT !.tail = t]
  BY <1>1, <1>2, <1>3 DEF ServeTail, ClientStep, ClientType
<1>5. /\ client'.win = client.win /\ client'.tail = t /\ client'.older = client.older /\ client'.gap = client.gap
      /\ client'.owed = client.owed
  BY <1>1, <1>4 DEF ClientType
<1>6. /\ t.at = "answered" /\ t.page = page /\ t.stale = client.tail.stale
      /\ t.cold = client.tail.cold /\ t.baseline = client.tail.baseline
      /\ t.after = client.tail.after /\ t.epoch = client.tail.epoch /\ t.until = client.tail.until
  BY <1>1, <1>3 DEF TailType
<1>7. PICK h : h = View
  OBVIOUS
<1>8. h.thread = thread /\ h.epoch = epoch /\ h.last = last /\ TypeOK /\ Whole(client, h)
  BY <1>7, Covers DEF IInv
<1>9. /\ page.rows \subseteq thread /\ page.head <= last /\ page.next <= last
      /\ t.after = 0 => page.direction = "latest"
      /\ t.after # 0 /\ t.epoch = epoch => page.direction = "after"
      /\ page.direction = "latest" =>
           page.head = Largest(thread) /\ Lists(page, page.head) /\ Brings(page, page.head, thread)
      /\ page.direction # "latest" =>
           /\ page.next >= t.after /\ \A y \in page.rows : t.after < y
           /\ \A x \in thread : t.after < x /\ x <= page.next => x \in page.rows
           /\ \A x \in thread : t.after < x /\ (t.until = 0 \/ x <= t.until) =>
                x \in page.rows \/ (page.hasMore /\ page.next < x /\ x <= page.head)
  <2>1. client.tail.after <= last /\ client.tail.until <= last
    BY <1>1, <1>8 DEF Whole, Bounded
  <2> QED
    BY <1>1, <1>2, <1>6, <1>8, <2>1, TailBrings
<1>10. \A x \in thread : x \in Nat /\ x <= last /\ x <= Largest(thread)
  BY <1>8, ThreadEnds
<1>11. Running(client') /\ ~Loading(client') /\ AnsweredTail(client') /\ ~AnsweredOlder(client')
  BY <1>1, <1>5, <1>6 DEF Running, Loading, AnsweredTail, AnsweredOlder
<1>12. Bounded(client', h)
  BY <1>1, <1>5, <1>6, <1>8, <1>9, <1>10, <1>11 DEF Whole, Bounded
<1>13. Paged(client', h)
  BY <1>5, <1>6, <1>8, <1>9, <1>11 DEF Paged
<1>14. Based(client')
  BY <1>1, <1>5, <1>6, <1>8, <1>11 DEF Whole, Based
<1>15. Gapless(client', h)
  <2> SUFFICES ASSUME ~client'.gap, ~Due(client'.win), client'.win.epoch \in {0, h.epoch}, NEW x \in h.thread
               PROVE  Kept(client', h, x)
    BY DEF Gapless
  <2>1. Kept(client, h, x)
    BY <1>5, <1>8 DEF Whole, Gapless
  <2>2. Fetched(client, h, x) => Fetched(client', h, x)
    BY <1>1, <1>5, <1>6, <1>8, <1>9, <1>10, <1>11 DEF Fetched
  <2> QED
    BY <1>5, <2>1, <2>2 DEF Kept, Announced
<1>16. Followable(client', h)
  <2> SUFFICES ASSUME Current(client', h), NEW x \in h.thread, client'.tail.page.head < x
               PROVE  FALSE
    BY DEF Followable
  <2>1. x <= Largest(thread) /\ Largest(thread) < x /\ x \in Nat /\ Largest(thread) \in Nat
    BY <1>5, <1>6, <1>8, <1>9, <1>10, ThreadEnds DEF Current
  <2> QED
    BY <2>1
<1>17. UNCHANGED <<thread, epoch, last, live, events>>
  BY Zenon DEF ServeTail, ClientStep, serverVars
<1>18. View' = h
  BY <1>7, <1>17, ViewStays
<1>19. Whole(client', h)
  BY <1>12, <1>13, <1>14, <1>15, <1>16 DEF Whole
<1> QED
  BY <1>18, <1>19

LEMMA ServeOlderFills ==
  ASSUME IInv, Whole(client, View), ServeOlder
  PROVE  Whole(client, View)'
<1>1. client \in ClientType /\ Loading(client) /\ client.older \in OlderType /\ Sound(client) /\ ~Running(client)
  BY Requests DEF IInv, TypeOK, ServeOlder, Loading, Sound, Locks
<1>2. PICK page : page = LatestPage(client.older.before, Page, FALSE)
  OBVIOUS
<1>3. PICK o : o = [client.older EXCEPT !.at = "answered", !.page = page]
  OBVIOUS
<1>4. client' = [client EXCEPT !.older = o]
  BY <1>1, <1>2, <1>3 DEF ServeOlder, ClientStep, ClientType
<1>5. /\ client'.win = client.win /\ client'.tail = client.tail /\ client'.older = o /\ client'.gap = client.gap
      /\ client'.owed = client.owed
  BY <1>1, <1>4 DEF ClientType
<1>6. o.at = "answered" /\ o.page = page /\ o.before = client.older.before
  BY <1>1, <1>3 DEF OlderType
<1>7. PICK h : h = View
  OBVIOUS
<1>8. h.thread = thread /\ h.epoch = epoch /\ h.last = last /\ TypeOK /\ Whole(client, h)
  BY <1>7, Covers DEF IInv
<1>9. o.before \in Nat /\ o.before # 0 /\ o.before <= last
  BY <1>1, <1>6, <1>8, BoundsAssumption DEF Whole, Bounded, OlderType, Cursor
<1>10. /\ page.rows \subseteq thread /\ page.next <= last
       /\ Lists(page, o.before - 1) /\ Brings(page, o.before - 1, thread)
  <2>1. Page \in Nat \ {0}
    BY SizesAssumption
  <2> QED
    BY <1>2, <1>6, <1>8, <1>9, <2>1, LatestBrings
<1>11. \A x \in thread : x \in Nat /\ x <= last
  BY <1>8, ThreadEnds
<1>12. ~Running(client') /\ Loading(client') /\ ~AnsweredTail(client') /\ AnsweredOlder(client')
  BY <1>1, <1>5, <1>6 DEF Running, Loading, AnsweredTail, AnsweredOlder
<1>13. Bounded(client', h)
  BY <1>1, <1>5, <1>6, <1>8, <1>9, <1>10, <1>11, <1>12 DEF Whole, Bounded
<1>14. Paged(client', h)
  BY <1>5, <1>6, <1>8, <1>10, <1>12 DEF Paged
<1>15. Based(client')
  BY <1>1, <1>5, <1>8, <1>12 DEF Whole, Based
<1>16. Gapless(client', h)
  BY <1>1, <1>5, <1>8 DEF Whole, Gapless, Kept, Fetched, Announced
<1>17. Followable(client', h)
  BY <1>12 DEF Followable, Current
<1>18. UNCHANGED <<thread, epoch, last, live, events>>
  BY Zenon DEF ServeOlder, ClientStep, serverVars
<1>19. View' = h
  BY <1>7, <1>18, ViewStays
<1>20. Whole(client', h)
  BY <1>13, <1>14, <1>15, <1>16, <1>17 DEF Whole
<1> QED
  BY <1>19, <1>20

---------------------------------------------------------------------------
(* A latest page.                                                          *)

\* The window that it leaves.
LEMMA LatestWindow ==
  ASSUME NEW c \in ClientType, NEW page \in PageType, NEW replace \in BOOLEAN,
         NEW l, l = ApplyLatest(c, page, replace),
         NEW incoming, incoming = (IF replace THEN c.win.msgs \ c.tail.baseline ELSE c.win.msgs) \cup page.rows
  PROVE  /\ l.win.msgs = TopOf(incoming, Visible)
         /\ l.win.epoch = page.epoch /\ ~l.win.reset /\ l.win.prefer = c.win.prefer
         /\ l.win.hasMore = (page.hasMore \/ (~replace /\ c.win.hasMore) \/ l.win.msgs # incoming)
         /\ l.win.oldest = IF l.win.msgs # incoming THEN Min(l.win.msgs)
                           ELSE IF replace \/ page.next # 0 THEN page.next ELSE c.win.oldest
         /\ l.win.newest = Higher(IF page.head # 0 THEN page.head ELSE Largest(page.rows), Largest(l.win.msgs))
         /\ l.gap = (c.gap \/ (\E x \in l.win.msgs : x < page.next) \/ (replace /\ page.rows = {} /\ c.win.hasMore))
         /\ l.owed = c.owed
<1>1. PICK kept : kept = TopOf(incoming, Visible)
  OBVIOUS
<1>2. PICK head : head = IF page.head # 0 THEN page.head ELSE Largest(page.rows)
  OBVIOUS
<1>3. PICK hasMore \in BOOLEAN : hasMore = (page.hasMore \/ (~replace /\ c.win.hasMore) \/ kept # incoming)
  OBVIOUS
<1>4. PICK oldest : oldest = IF kept # incoming THEN Min(kept)
                             ELSE IF replace \/ page.next # 0 THEN page.next ELSE c.win.oldest
  OBVIOUS
<1>5. PICK newest : newest = Higher(head, Largest(kept))
  OBVIOUS
<1>6. PICK next : next = [c.win EXCEPT !.msgs = kept, !.epoch = page.epoch, !.reset = FALSE,
                                       !.hasMore = hasMore, !.oldest = oldest, !.newest = newest]
  OBVIOUS
<1>7. PICK w : w = IF replace THEN Unbound(next) ELSE next
  OBVIOUS
<1>8. /\ w.msgs = kept /\ w.epoch = page.epoch /\ ~w.reset /\ w.prefer = c.win.prefer /\ w.newest = newest
      /\ w.oldest = oldest /\ w.hasMore = hasMore
  BY <1>6, <1>7, Requests DEF Unbound, WindowType
<1>9. PICK gap \in BOOLEAN :
        gap = (c.gap \/ (\E x \in kept : x < page.next) \/ (replace /\ page.rows = {} /\ c.win.hasMore))
  OBVIOUS
<1>10. l.win = w /\ l.gap = gap /\ l.owed = c.owed
  <2>1. next = [c.win EXCEPT
            !.msgs = kept, !.epoch = page.epoch, !.reset = FALSE,
            !.hasMore = page.hasMore \/ (~replace /\ @) \/ kept # incoming,
            !.oldest = IF kept # incoming THEN Min(kept) ELSE IF replace \/ page.next # 0 THEN page.next ELSE @,
            !.newest = Higher(head, Largest(kept))]
    BY <1>3, <1>4, <1>5, <1>6 DEF ClientType, WindowType
  <2>2. l = [c EXCEPT !.win = w, !.older = IF replace THEN NoRequest ELSE @,
                      !.gap = @ \/ (\E x \in kept : x < page.next) \/ (replace /\ page.rows = {} /\ c.win.hasMore)]
    BY <1>1, <1>2, <1>7, <2>1 DEF ApplyLatest
  <2> QED
    BY <1>9, <2>2 DEF ClientType
<1>11. l.win.hasMore = (page.hasMore \/ (~replace /\ c.win.hasMore) \/ kept # incoming)
  BY <1>3, <1>8, <1>10
<1> QED
  BY <1>1, <1>2, <1>4, <1>5, <1>8, <1>9, <1>10, <1>11

\* The head of a page, and what a window is trimmed to.
LEMMA LatestEnds ==
  ASSUME NEW page \in PageType, Lists(page, page.head), NEW kept \in SUBSET Positions,
         NEW newest, newest = Higher(IF page.head # 0 THEN page.head ELSE Largest(page.rows), Largest(kept))
  PROVE  /\ newest \in Nat /\ page.head <= newest /\ \A y \in kept : y <= newest
         /\ \A x \in Nat : page.head < x /\ (\A y \in kept : y < x) => newest < x
         /\ newest = page.head \/ newest \in kept
<1>1. page.head \in Nat /\ page.rows \in SUBSET Positions /\ Positions \subseteq Nat /\ page.next \in Nat
      /\ \A y \in Positions : y # 0
  BY BoundsAssumption DEF PageType, Cursor, Positions
<1>2. page.head = 0 => page.rows = {}
  <2> SUFFICES ASSUME page.head = 0, NEW y \in page.rows
               PROVE  FALSE
    OBVIOUS
  <2>1. y <= 0 /\ y \in Nat /\ y # 0
    BY <1>1 DEF Lists
  <2> QED
    BY <2>1
<1>3. (IF page.head # 0 THEN page.head ELSE Largest(page.rows)) = page.head
  BY <1>2 DEF Largest
<1>4. PICK m : m = Largest(kept)
  OBVIOUS
<1>5. m \in Nat /\ (kept = {} => m = 0) /\ (kept # {} => m \in kept) /\ \A y \in kept : y <= m
  <2>1. CASE kept = {}
    BY <1>4, <2>1 DEF Largest
  <2>2. CASE kept # {}
    BY <1>1, <1>4, <2>2, Ends DEF Largest
  <2> QED
    BY <2>1, <2>2
<1>6. newest = IF page.head > m THEN page.head ELSE m
  BY <1>3, <1>4 DEF Higher
<1>7. \A y \in kept : y \in Nat
  BY <1>1
<1>8. newest \in Nat /\ page.head <= newest /\ \A y \in kept : y <= newest
  BY <1>1, <1>5, <1>6, <1>7
<1>9. \A x \in Nat : page.head < x /\ (\A y \in kept : y < x) => newest < x
  BY <1>1, <1>5, <1>6
<1>10. newest = page.head \/ newest \in kept
  BY <1>1, <1>5, <1>6
<1> QED
  BY <1>8, <1>9, <1>10

\* What it leaves is whole: the page brings what is not above its head, and what is above it survived.
LEMMA LatestIsWhole ==
  ASSUME NEW c \in ClientType, AnsweredTail(c), ~c.tail.stale, c.tail.page.direction = "latest",
         c.tail.after # 0 \/ c.tail.replace \/ c.tail.cold, Steady(c),
         NEW h, h.last \in Nat, h.thread \subseteq Positions, Whole(c, h),
         NEW page, page = c.tail.page, NEW replace, replace = (c.tail.after # 0 \/ c.tail.replace \/ page.reset),
         NEW l \in ClientType, l = ApplyLatest(c, page, replace)
  PROVE  /\ \A y \in l.win.msgs : y <= h.last
         /\ l.win.oldest <= h.last /\ l.win.newest <= h.last
         /\ l.win.epoch = page.epoch /\ l.owed = c.owed
         /\ ~l.gap => Joins(l.win) /\ Reaches(l.win, l.win.newest)
         /\ ~l.gap /\ page.epoch = h.epoch =>
              \A x \in h.thread :
                x \in l.win.msgs \/ (l.win.hasMore /\ x < l.win.oldest) \/ (l.win.newest < x /\ Announced(c, h, x))
<1>1. /\ c.win \in WindowType /\ c.tail \in TailType /\ page \in PageType /\ replace \in BOOLEAN /\ Running(c)
      /\ l.win \in WindowType
  BY Requests DEF AnsweredTail, TailType, PageType
<1>2. /\ page.rows \in SUBSET Positions /\ page.head \in Nat /\ page.next \in Nat /\ page.hasMore \in BOOLEAN
      /\ c.win.msgs \in SUBSET Positions /\ c.win.oldest \in Nat /\ c.win.hasMore \in BOOLEAN
      /\ l.win.oldest \in Nat /\ l.win.newest \in Nat /\ Visible \in Nat \ {0} /\ Positions \subseteq Nat
      /\ \A y \in Positions : y # 0
  BY <1>1, BoundsAssumption, SizesAssumption DEF WindowType, PageType, Cursor, Positions
<1>3. replace = ~c.tail.cold
  <2>1. page.reset = (c.tail.after # 0)
    BY <1>1 DEF Steady, AnsweredTail
  <2>2. c.tail.cold => ~c.tail.replace /\ c.tail.after = 0
    BY <1>1 DEF Steady
  <2> QED
    BY <1>1, <2>1, <2>2 DEF TailType
<1>4. PICK incoming : incoming = Unreplaced(c) \cup page.rows
  OBVIOUS
<1>5. incoming = (IF replace THEN c.win.msgs \ c.tail.baseline ELSE c.win.msgs) \cup page.rows
  BY <1>1, <1>3, <1>4 DEF Unreplaced
<1>6. PICK kept : kept = l.win.msgs
  OBVIOUS
<1>7. /\ kept = TopOf(incoming, Visible) /\ l.win.epoch = page.epoch /\ l.owed = c.owed
      /\ l.win.hasMore = (page.hasMore \/ (~replace /\ c.win.hasMore) \/ kept # incoming)
      /\ l.win.oldest = IF kept # incoming THEN Min(kept)
                        ELSE IF replace \/ page.next # 0 THEN page.next ELSE c.win.oldest
      /\ l.win.newest = Higher(IF page.head # 0 THEN page.head ELSE Largest(page.rows), Largest(kept))
      /\ l.gap = (c.gap \/ (\E x \in kept : x < page.next) \/ (replace /\ page.rows = {} /\ c.win.hasMore))
  <2>1. PICK joins : joins = (IF replace THEN c.win.msgs \ c.tail.baseline ELSE c.win.msgs) \cup page.rows
    OBVIOUS
  <2>2. /\ l.win.msgs = TopOf(joins, Visible) /\ l.win.epoch = page.epoch /\ l.owed = c.owed
        /\ l.win.hasMore = (page.hasMore \/ (~replace /\ c.win.hasMore) \/ l.win.msgs # joins)
        /\ l.win.oldest = IF l.win.msgs # joins THEN Min(l.win.msgs)
                          ELSE IF replace \/ page.next # 0 THEN page.next ELSE c.win.oldest
        /\ l.win.newest = Higher(IF page.head # 0 THEN page.head ELSE Largest(page.rows), Largest(l.win.msgs))
        /\ l.gap = (c.gap \/ (\E x \in l.win.msgs : x < page.next) \/ (replace /\ page.rows = {} /\ c.win.hasMore))
    <3>1. PICK p \in PageType : p = page
      BY <1>1
    <3>2. PICK r \in BOOLEAN : r = replace
      BY <1>1
    <3>3. l = ApplyLatest(c, p, r) /\ joins = (IF r THEN c.win.msgs \ c.tail.baseline ELSE c.win.msgs) \cup p.rows
      BY <2>1, <3>1, <3>2
    <3>4. /\ l.win.msgs = TopOf(joins, Visible) /\ l.win.epoch = p.epoch /\ l.owed = c.owed
          /\ l.win.hasMore = (p.hasMore \/ (~r /\ c.win.hasMore) \/ l.win.msgs # joins)
          /\ l.win.oldest = IF l.win.msgs # joins THEN Min(l.win.msgs)
                            ELSE IF r \/ p.next # 0 THEN p.next ELSE c.win.oldest
          /\ l.win.newest = Higher(IF p.head # 0 THEN p.head ELSE Largest(p.rows), Largest(l.win.msgs))
          /\ l.gap = (c.gap \/ (\E x \in l.win.msgs : x < p.next) \/ (r /\ p.rows = {} /\ c.win.hasMore))
      BY <3>3, LatestWindow
    <3> QED
      BY <3>1, <3>2, <3>4
  <2> QED
    BY <1>5, <1>6, <2>1, <2>2
<1>8. incoming \in SUBSET Positions /\ kept \in SUBSET Positions /\ kept \subseteq incoming
      /\ (incoming # {} => kept # {})
  <2>1. incoming \in SUBSET Positions
    BY <1>2, <1>5
  <2> QED
    BY <1>2, <1>7, <2>1, TopIsThere DEF TopOf
<1>9. kept # incoming =>
        /\ l.win.oldest \in kept /\ \A y \in kept : l.win.oldest <= y
        /\ Cardinality(kept) >= Visible
  <2> SUFFICES ASSUME kept # incoming
               PROVE  /\ l.win.oldest \in kept /\ \A y \in kept : l.win.oldest <= y
                      /\ Cardinality(kept) >= Visible
    OBVIOUS
  <2>1. PICK z \in incoming : z \notin kept
    BY <1>8
  <2>2. kept # {}
    BY <1>8, <2>1
  <2>3. Cardinality(kept) >= Visible
    BY <1>2, <1>7, <1>8, <2>1, Tops
  <2> QED
    BY <1>7, <1>8, <2>2, <2>3, Ends
<1>10. Lists(page, page.head) /\ (page.epoch = h.epoch => Brings(page, page.head, h.thread))
  BY DEF Whole, Paged
<1>11. /\ page.head <= l.win.newest /\ \A y \in kept : y <= l.win.newest
       /\ \A x \in Nat : page.head < x /\ (\A y \in kept : y < x) => l.win.newest < x
       /\ l.win.newest = page.head \/ l.win.newest \in kept
  <2>1. PICK n : n = Higher(IF page.head # 0 THEN page.head ELSE Largest(page.rows), Largest(kept))
    OBVIOUS
  <2>2. /\ page.head <= n /\ \A y \in kept : y <= n
        /\ \A x \in Nat : page.head < x /\ (\A y \in kept : y < x) => n < x
        /\ n = page.head \/ n \in kept
    BY <1>1, <1>8, <1>10, <2>1, LatestEnds
  <2>3. l.win.newest = n
    BY <1>7, <2>1
  <2> QED
    BY <2>2, <2>3
<1>12. /\ (\A y \in page.rows : y <= h.last) /\ page.head <= h.last /\ page.next <= h.last
       /\ (\A y \in c.win.msgs : y <= h.last) /\ c.win.oldest <= h.last
  BY DEF Whole, Bounded
<1>13. \A y \in kept : y <= h.last
  BY <1>5, <1>8, <1>12
<1>14. l.win.oldest <= h.last /\ l.win.newest <= h.last
  <2>1. l.win.oldest <= h.last
    BY <1>7, <1>9, <1>12, <1>13
  <2>2. l.win.newest <= h.last
    BY <1>11, <1>12, <1>13
  <2> QED
    BY <2>1, <2>2
<1>15. ASSUME ~l.gap
       PROVE  /\ ~c.gap /\ (\A y \in kept : page.next <= y) /\ (replace /\ page.rows = {} => ~c.win.hasMore)
              /\ (~replace => Joins(c.win) /\ (c.win.oldest # 0 => c.win.msgs # {}))
  <2>1. ~c.gap /\ (replace /\ page.rows = {} => ~c.win.hasMore) /\ ~(\E x \in kept : x < page.next)
    BY <1>7, <1>15
  <2>2. \A y \in kept : page.next <= y
    <3>1. \A y \in kept : y \in Nat /\ ~(y < page.next)
      BY <1>2, <1>8, <2>1
    <3> QED
      BY <1>2, <3>1
  <2>3. ~replace => ~Due(c.win)
    BY <1>1, <1>3, <2>1 DEF Steady, Due
  <2>4. ~replace => Joins(c.win)
    BY <2>1, <2>3 DEF Whole, Based
  <2>5. c.win.oldest # 0 => c.win.msgs # {}
    BY DEF Steady
  <2> QED
    BY <2>1, <2>2, <2>4, <2>5
\* The three forms of the oldest cursor.
<1>16. ASSUME kept = incoming, replace \/ page.next # 0
       PROVE  l.win.oldest = page.next
  BY <1>7, <1>16
<1>17. ASSUME kept = incoming, ~replace, page.next = 0
       PROVE  l.win.oldest = c.win.oldest /\ kept = c.win.msgs /\ page.rows = {}
  <2>1. page.rows = {}
    BY <1>10, <1>17 DEF Lists
  <2> QED
    BY <1>5, <1>7, <1>17, <2>1
<1>18. ASSUME ~l.gap
       PROVE  Joins(l.win) /\ Reaches(l.win, l.win.newest)
  <2>1. CASE kept # incoming
    <3>1. {y \in kept : l.win.oldest <= y} = kept
      BY <1>9, <2>1
    <3>2. Joins(l.win)
      BY <1>6, <1>9, <2>1 DEF Joins, TopOf
    <3> QED
      BY <1>6, <1>9, <2>1, <3>1, <3>2 DEF Reaches
  <2>2. CASE kept = incoming /\ (replace \/ page.next # 0)
    <3>1. l.win.oldest = page.next
      BY <1>16, <2>2
    <3>2. Joins(l.win)
      BY <1>6, <1>15, <1>18, <3>1 DEF Joins, TopOf
    <3>3. page.next <= page.head
      <4>1. CASE page.rows = {}
        BY <1>2, <1>10, <4>1 DEF Lists
      <4>2. CASE page.rows # {}
        <5>1. PICK y \in page.rows : page.next <= y /\ y <= page.head
          BY <1>10, <4>2 DEF Lists
        <5>2. y \in Nat
          BY <1>2
        <5> QED
          BY <1>2, <5>1, <5>2
      <4> QED
        BY <4>1, <4>2
    <3>4. l.win.oldest <= l.win.newest
      BY <1>2, <1>11, <3>1, <3>3
    <3> QED
      BY <3>2, <3>4 DEF Reaches
  <2>3. CASE kept = incoming /\ ~replace /\ page.next = 0
    <3>1. l.win.oldest = c.win.oldest /\ l.win.msgs = c.win.msgs
      BY <1>6, <1>17, <2>3
    <3>2. Joins(c.win) /\ (c.win.oldest # 0 => c.win.msgs # {})
      BY <1>15, <1>18, <2>3
    <3>3. Joins(l.win)
      BY <3>1, <3>2 DEF Joins
    <3>4. CASE c.win.msgs = {}
      <4>1. l.win.oldest = 0
        BY <3>1, <3>2, <3>4
      <4>2. l.win.oldest <= l.win.newest
        BY <1>2, <4>1
      <4> QED
        BY <3>3, <4>2 DEF Reaches
    <3>5. CASE c.win.msgs # {}
      <4>1. PICK y \in c.win.msgs : TRUE
        BY <3>5
      <4>2. Reaches(l.win, y)
        BY <1>1, <3>1, <3>3, <4>1, HeldIsReached
      <4>3. y <= l.win.newest /\ y \in Nat
        BY <1>2, <1>6, <1>11, <3>1, <4>1
      <4> QED
        BY <1>1, <1>2, <3>3, <4>2, <4>3, HeldIsReached
    <3> QED
      BY <3>3, <3>4, <3>5
  <2> QED
    BY <2>1, <2>2, <2>3
<1>19. ASSUME ~l.gap, page.epoch = h.epoch, NEW x \in h.thread
       PROVE  x \in kept \/ (l.win.hasMore /\ x < l.win.oldest) \/ (l.win.newest < x /\ Announced(c, h, x))
  <2>1. x \in Nat /\ x # 0
    BY <1>2
  <2>2. x \in incoming => x \in kept \/ (l.win.hasMore /\ x < l.win.oldest)
    <3> SUFFICES ASSUME x \in incoming, x \notin kept
                 PROVE  l.win.hasMore /\ x < l.win.oldest
      OBVIOUS
    <3>1. l.win.oldest \in kept
      BY <1>9
    <3>2. \A y \in kept : x < y
      BY <1>2, <1>7, <1>8, Tops
    <3> QED
      BY <1>7, <3>1, <3>2
  <2>3. CASE x <= page.head
    <3>1. x \in page.rows \/ (page.hasMore /\ x < page.next)
      BY <1>10, <1>19, <2>3 DEF Brings
    <3>2. CASE x \in page.rows
      BY <1>4, <2>2, <3>2
    <3>3. CASE page.hasMore /\ x < page.next
      <4>1. l.win.hasMore
        BY <1>7, <3>3
      <4>2. page.next # 0
        BY <1>2, <2>1, <3>3
      <4>3. page.next <= l.win.oldest
        BY <1>2, <1>9, <1>15, <1>16, <1>19, <4>2
      <4> QED
        BY <1>2, <2>1, <3>3, <4>1, <4>3
    <3> QED
      BY <3>1, <3>2, <3>3
  <2>4. CASE page.head < x
    <3>1. Survives(c, h, x)
      <4>1. Current(c, h)
        BY <1>15, <1>19 DEF Current
      <4> QED
        BY <2>4, <4>1 DEF Whole, Followable
    <3>2. CASE x \in Unreplaced(c)
      BY <1>4, <2>2, <3>2
    <3>3. CASE c.win.hasMore /\ x < c.win.oldest /\ Cardinality({y \in Unreplaced(c) : x < y}) >= Visible
      <4>1. PICK A : A = {y \in Unreplaced(c) : x < y}
        OBVIOUS
      <4>2. PICK B : B = {y \in incoming : x < y}
        OBVIOUS
      <4>3. A \subseteq B /\ B \subseteq incoming
        BY <1>4, <4>1, <4>2
      <4>4. Cardinality(A) <= Cardinality(B) /\ Cardinality(A) \in Nat /\ Cardinality(B) \in Nat
        BY <1>8, <4>3, Finite, FS_Subset, FS_CardinalityType
      <4>5. Cardinality({y \in incoming : x < y}) >= Visible
        BY <1>2, <3>3, <4>1, <4>2, <4>4
      <4>6. \A y \in kept : x < y
        BY <1>2, <1>7, <1>8, <2>1, <4>5, Crowd
      <4>7. CASE kept # incoming
        BY <1>7, <1>9, <4>6, <4>7
      <4>8. CASE kept = incoming
        <5>1. page.rows = {}
          <6> SUFFICES ASSUME NEW y \in page.rows
                       PROVE  FALSE
            OBVIOUS
          <6>1. y \in Nat /\ y <= page.head /\ x < y
            BY <1>2, <1>4, <1>10, <4>6, <4>8 DEF Lists
          <6> QED
            BY <1>2, <2>1, <2>4, <6>1
        <5>2. ~replace
          BY <1>15, <1>19, <3>3, <5>1
        <5>3. page.next = 0
          BY <1>10, <5>1 DEF Lists
        <5>4. l.win.oldest = c.win.oldest
          BY <1>17, <4>8, <5>2, <5>3
        <5> QED
          BY <1>7, <3>3, <5>2, <5>4
      <4> QED
        BY <4>7, <4>8
    <3>4. CASE Announced(c, h, x) /\ \A y \in c.win.msgs : y < x
      <4>1. \A y \in kept : y < x
        <5>1. \A y \in page.rows : y \in Nat /\ y <= page.head
          BY <1>2, <1>10 DEF Lists
        <5>2. \A y \in page.rows : y < x
          BY <1>2, <2>1, <2>4, <5>1
        <5> QED
          BY <1>5, <1>8, <3>4, <5>2
      <4>2. l.win.newest < x
        BY <1>11, <2>1, <2>4, <4>1
      <4> QED
        BY <3>4, <4>2
    <3> QED
      BY <3>1, <3>2, <3>3, <3>4 DEF Survives
  <2> QED
    BY <1>2, <2>1, <2>3, <2>4
<1> QED
  BY <1>6, <1>7, <1>13, <1>14, <1>18, <1>19

---------------------------------------------------------------------------
(* A page of the catch-up loop.                                            *)

\* What it leaves is whole, but for what the next page will bring.
LEMMA AfterIsWhole ==
  ASSUME NEW c \in ClientType, AnsweredTail(c), ~c.tail.stale, c.tail.page.direction # "latest", Steady(c),
         NEW h, h.last \in Nat, h.thread \subseteq Positions, Whole(c, h),
         NEW page, page = c.tail.page, NEW v \in WindowType, v = ApplyAfter(c.win, page)
  PROVE  /\ \A y \in v.msgs : y <= h.last
         /\ v.oldest <= h.last /\ (~v.reset => v.newest <= h.last)
         /\ v.epoch = page.epoch /\ page.epoch = c.tail.epoch
         /\ page.next # 0 /\ page.next <= h.last /\ page.head <= h.last
         /\ ~c.gap /\ ~v.reset => Joins(v) /\ Reaches(v, v.newest) /\ Reaches(v, page.next)
         /\ ~c.gap /\ ~v.reset /\ page.epoch = h.epoch =>
              \A x \in h.thread :
                \/ x \in v.msgs \/ (v.hasMore /\ x < v.oldest)
                \/ v.newest < x /\ Announced(c, h, x)
                \/ /\ c.tail.until = 0 \/ x <= c.tail.until
                   /\ page.hasMore /\ page.next < x /\ x <= page.head
<1>1. /\ c.win \in WindowType /\ c.tail \in TailType /\ page \in PageType /\ Running(c)
  BY Requests DEF AnsweredTail, TailType
<1>2. /\ page.rows \in SUBSET Positions /\ page.head \in Nat /\ page.next \in Nat /\ c.tail.after \in Nat
      /\ c.win.msgs \in SUBSET Positions /\ c.win.oldest \in Nat /\ c.win.newest \in Nat
      /\ v.oldest \in Nat /\ v.newest \in Nat /\ Visible \in Nat \ {0} /\ Positions \subseteq Nat
      /\ page.direction = "after"
  BY <1>1, BoundsAssumption, SizesAssumption DEF WindowType, PageType, TailType, Cursor, Positions
<1>3. /\ c.tail.after # 0 /\ page.epoch = c.tail.epoch /\ ~c.tail.replace
      /\ (c.win.reset \/ (c.win.newest >= c.tail.after /\ c.win.epoch = c.tail.epoch)) /\ ~c.win.prefer
  BY <1>1, <1>2 DEF Steady, AnsweredTail
<1>4. /\ (\A y \in page.rows : y <= h.last) /\ page.head <= h.last /\ page.next <= h.last
      /\ (\A y \in c.win.msgs : y <= h.last) /\ c.win.oldest <= h.last /\ (~c.win.reset => c.win.newest <= h.last)
  BY DEF Whole, Bounded
<1>5. /\ page.next >= c.tail.after /\ (\A y \in page.rows : c.tail.after < y)
      /\ page.epoch = h.epoch => \A x \in h.thread : c.tail.after < x /\ x <= page.next => x \in page.rows
  BY DEF Whole, Paged
<1>6. PICK merged : merged = [c.win EXCEPT !.msgs = @ \cup page.rows]
  OBVIOUS
<1>7. /\ merged \in WindowType /\ merged.msgs = c.win.msgs \cup page.rows /\ merged.reset = c.win.reset
      /\ merged.oldest = c.win.oldest /\ merged.hasMore = c.win.hasMore
      /\ \E m \in WindowType :
           /\ Thinned(merged, m)
           /\ v.msgs = m.msgs /\ v.reset = m.reset /\ v.oldest = m.oldest /\ v.hasMore = m.hasMore
           /\ v.epoch = page.epoch
           /\ (~m.reset => v.newest = Higher(page.next, c.win.newest))
  <2>1. PICK p \in PageType : p = page
    BY <1>1
  <2>2. v = ApplyAfter(c.win, p) /\ merged = [c.win EXCEPT !.msgs = @ \cup p.rows]
    BY <1>6, <2>1
  <2>3. /\ merged \in WindowType /\ merged.msgs = c.win.msgs \cup p.rows /\ merged.reset = c.win.reset
        /\ merged.oldest = c.win.oldest /\ merged.hasMore = c.win.hasMore
        /\ \E m \in WindowType :
             /\ Thinned(merged, m)
             /\ v.msgs = m.msgs /\ v.reset = m.reset /\ v.oldest = m.oldest /\ v.hasMore = m.hasMore
             /\ v.epoch = p.epoch
             /\ (~m.reset => v.newest = Higher(p.next, c.win.newest))
    BY <1>1, <2>2, AfterRows
  <2> QED
    BY <2>1, <2>3
<1>8. PICK m \in WindowType :
           /\ Thinned(merged, m)
           /\ v.msgs = m.msgs /\ v.reset = m.reset /\ v.oldest = m.oldest /\ v.hasMore = m.hasMore
           /\ v.epoch = page.epoch
           /\ (~m.reset => v.newest = Higher(page.next, c.win.newest))
  BY <1>7
<1>9. /\ m.msgs \subseteq merged.msgs /\ (merged.msgs # {} => m.msgs # {})
      /\ (merged.reset => m.reset)
      /\ Topped(merged, m) \/ (m.reset /\ m.hasMore = merged.hasMore /\ m.oldest = merged.oldest)
  BY <1>8 DEF Thinned
<1>10. \A y \in v.msgs : y <= h.last
  BY <1>4, <1>7, <1>8, <1>9
<1>11. m.oldest = merged.oldest \/ m.oldest \in m.msgs
  <2>1. CASE m.msgs = TopOf(merged.msgs, Visible) /\ m.msgs # merged.msgs /\ m.oldest = Min(m.msgs)
    <3>1. m.msgs # {} /\ m.msgs \in SUBSET Positions
      BY <1>8, <1>9, <2>1 DEF WindowType
    <3> QED
      BY <2>1, <3>1, Ends
  <2> QED
    BY <1>9, <2>1 DEF Topped
<1>12. v.oldest <= h.last
  BY <1>4, <1>7, <1>8, <1>10, <1>11
<1>13. ~v.reset => v.newest <= h.last /\ c.win.newest <= v.newest /\ page.next <= v.newest
                   /\ (v.newest = page.next \/ v.newest = c.win.newest)
  BY <1>2, <1>4, <1>7, <1>8, <1>9 DEF Higher
<1>14. page.next # 0
  BY <1>2, <1>3, <1>5
<1>15. ASSUME ~c.gap, ~v.reset
       PROVE  /\ ~Due(c.win) /\ Joins(v) /\ Reaches(v, v.newest) /\ Reaches(v, page.next)
              /\ \A x \in Nat : c.win.hasMore /\ x < c.win.oldest => v.hasMore /\ x < v.oldest
              /\ \A x \in merged.msgs : x \in v.msgs \/ (v.hasMore /\ x < v.oldest)
  <2>1. ~Due(c.win)
    BY <1>3, <1>7, <1>8, <1>9, <1>15 DEF Due
  <2>2. Joins(c.win) /\ Reaches(c.win, c.tail.after)
    BY <1>1, <1>3, <1>15, <2>1 DEF Whole, Based
  <2>3. \A y \in merged.msgs \ c.win.msgs : y \in TopOf(merged.msgs, Visible) => c.win.oldest <= y
    <3> SUFFICES ASSUME NEW y \in merged.msgs, y \notin c.win.msgs, y \in TopOf(merged.msgs, Visible)
                 PROVE  c.win.oldest <= y
      OBVIOUS
    <3>1. c.tail.after <= y
      <4>1. y \in page.rows
        BY <1>7
      <4>2. y \in Nat /\ c.tail.after < y
        BY <1>2, <1>5, <4>1
      <4> QED
        BY <1>2, <4>2
    <3>2. c.win.msgs \subseteq merged.msgs
      BY <1>7
    <3> QED
      BY <1>1, <1>2, <1>7, <2>2, <3>1, <3>2, RowsAbove
  <2>4. Joins(merged) /\ \A n \in Nat : Reaches(c.win, n) => Reaches(merged, n)
    <3>1. c.win.msgs \subseteq merged.msgs
      BY <1>7
    <3> QED
      BY <1>1, <1>7, <2>2, <2>3, <3>1, AddedKeeps
  <2>5. Topped(merged, m)
    BY <1>8, <1>9, <1>15
  <2>6. /\ Joins(m)
        /\ \A x \in Nat : merged.hasMore /\ x < merged.oldest => m.hasMore /\ x < m.oldest
        /\ \A x \in merged.msgs : x \in m.msgs \/ (m.hasMore /\ x < m.oldest)
        /\ \A n \in Nat : Reaches(merged, n) => Reaches(m, n)
    BY <1>7, <1>8, <2>4, <2>5, ToppedKeeps
  <2>7. Joins(v) /\ \A n \in Nat : Reaches(m, n) => Reaches(v, n)
    BY <1>8, <2>6 DEF Joins, Reaches
  <2>8. Reaches(v, c.tail.after)
    BY <1>2, <2>2, <2>4, <2>6, <2>7
  <2>9. c.tail.after <= page.next /\ c.tail.after <= v.newest
    BY <1>2, <1>5, <1>13, <1>15
  <2>10. \A a, b \in Nat : a <= b /\ Reaches(v, a) => Reaches(v, b)
    BY <2>7, HeldIsReached
  <2>11. Reaches(v, v.newest) /\ Reaches(v, page.next)
    BY <1>2, <2>8, <2>9, <2>10
  <2> QED
    BY <1>7, <1>8, <2>1, <2>6, <2>7, <2>11
<1>16. ASSUME ~c.gap, ~v.reset, page.epoch = h.epoch, NEW x \in h.thread
       PROVE  \/ x \in v.msgs \/ (v.hasMore /\ x < v.oldest)
              \/ v.newest < x /\ Announced(c, h, x)
              \/ /\ c.tail.until = 0 \/ x <= c.tail.until
                 /\ page.hasMore /\ page.next < x /\ x <= page.head
  <2>1. x \in Nat
    BY <1>2
  <2>2. ~Due(c.win) /\ c.win.epoch = h.epoch /\ c.win.newest >= c.tail.after
    BY <1>3, <1>15, <1>16 DEF Due
  <2>3. Kept(c, h, x)
    BY <1>16, <2>2 DEF Whole, Gapless
  <2>4. x \in merged.msgs => x \in v.msgs \/ (v.hasMore /\ x < v.oldest)
    BY <1>15, <1>16
  <2>5. CASE x \in c.win.msgs
    BY <1>7, <2>4, <2>5
  <2>6. CASE c.win.hasMore /\ x < c.win.oldest
    BY <1>15, <1>16, <2>1, <2>6
  <2>7. CASE Fetched(c, h, x)
    <3>1. /\ c.tail.until = 0 \/ x <= c.tail.until
          /\ x \in page.rows \/ (page.hasMore /\ page.next < x /\ x <= page.head)
      BY <1>3, <2>7 DEF Fetched, AnsweredTail
    <3> QED
      BY <1>7, <2>4, <3>1
  <2>8. CASE c.win.newest < x /\ Announced(c, h, x)
    <3>1. CASE page.next < x
      <4>1. v.newest < x
        BY <1>2, <1>13, <1>16, <2>1, <2>8, <3>1
      <4> QED
        BY <2>8, <4>1
    <3>2. CASE x <= page.next
      <4>1. c.tail.after < x
        BY <1>2, <2>1, <2>2, <2>8
      <4>2. x \in page.rows
        BY <1>5, <1>16, <3>2, <4>1
      <4> QED
        BY <1>7, <2>4, <4>2
    <3> QED
      BY <1>2, <2>1, <3>1, <3>2
  <2> QED
    BY <2>3, <2>5, <2>6, <2>7, <2>8 DEF Kept
<1> QED
  BY <1>3, <1>4, <1>8, <1>10, <1>12, <1>13, <1>14, <1>15, <1>16

---------------------------------------------------------------------------
(* An answer that is applied.                                              *)

\* Rows that are added below, with the oldest cursor moved below them, keep the rows joined.
LEMMA BelowKeeps ==
  ASSUME NEW w \in WindowType, NEW u \in WindowType, NEW rows \in SUBSET Positions,
         u.msgs = w.msgs \cup rows, u.oldest <= w.oldest, \A y \in rows : u.oldest <= y, Joins(w)
  PROVE  Joins(u) /\ \A n \in Nat : Reaches(w, n) => Reaches(u, n)
<1>1. /\ w.msgs \in SUBSET Positions /\ u.msgs \in SUBSET Positions /\ Positions \subseteq Nat
      /\ w.oldest \in Nat /\ u.oldest \in Nat /\ Visible \in Nat \ {0}
  BY SizesAssumption, BoundsAssumption DEF WindowType, Cursor, Positions
<1>2. Joins(u)
  <2> SUFFICES ASSUME NEW y \in TopOf(u.msgs, Visible)
               PROVE  u.oldest <= y
    BY DEF Joins
  <2>1. y \in u.msgs /\ y \in Nat
    BY <1>1 DEF TopOf
  <2>2. CASE y \in w.msgs
    <3>1. y \in TopOf(w.msgs, Visible)
      BY <1>1, <2>2, TopsShrink
    <3>2. w.oldest <= y
      BY <3>1 DEF Joins
    <3> QED
      BY <1>1, <2>1, <3>2
  <2> QED
    BY <2>1, <2>2
<1>3. \A n \in Nat : Reaches(w, n) => Reaches(u, n)
  <2> SUFFICES ASSUME NEW n \in Nat, Reaches(w, n)
               PROVE  Reaches(u, n)
    OBVIOUS
  <2>1. CASE w.oldest <= n
    <3>1. u.oldest <= n
      BY <1>1, <2>1
    <3> QED
      BY <3>1 DEF Reaches
  <2>2. CASE Cardinality({y \in w.msgs : w.oldest <= y}) >= Visible
    <3>1. PICK A : A = {y \in w.msgs : w.oldest <= y}
      OBVIOUS
    <3>2. PICK B : B = {y \in u.msgs : u.oldest <= y}
      OBVIOUS
    <3>3. A \subseteq B
      <4>1. \A y \in w.msgs : y \in Nat
        BY <1>1
      <4>2. \A y \in w.msgs : w.oldest <= y => u.oldest <= y
        BY <1>1, <4>1
      <4> QED
        BY <3>1, <3>2, <4>2
    <3>4. Cardinality(A) <= Cardinality(B) /\ Cardinality(A) \in Nat /\ Cardinality(B) \in Nat
      <4>1. A \subseteq w.msgs /\ B \subseteq u.msgs
        BY <3>1, <3>2
      <4> QED
        BY <1>1, <3>3, <4>1, Finite, FS_Subset, FS_CardinalityType
    <3>5. Cardinality({y \in u.msgs : u.oldest <= y}) >= Visible
      BY <1>1, <2>2, <3>1, <3>2, <3>4
    <3> QED
      BY <3>5 DEF Reaches
  <2> QED
    BY <2>1, <2>2 DEF Reaches
<1> QED
  BY <1>2, <1>3

\* The page before a first page joins it.
LEMMA ContextIsWhole ==
  ASSUME TypeOK, NEW w \in WindowType, NEW before \in Nat \ {0}, NEW context \in PageType,
         context.rows \subseteq thread, context.next \in Nat, context.next <= last,
         Lists(context, before - 1), Brings(context, before - 1, thread)
  PROVE  \E u \in WindowType :
           /\ u = AddContext(w, context)
           /\ u.msgs \subseteq w.msgs \cup thread /\ u.oldest <= last
           /\ u.epoch = w.epoch /\ u.prefer = w.prefer /\ (u.reset \/ u.newest = w.newest)
           /\ ~u.reset /\ w.oldest = before /\ Joins(w) =>
                /\ Joins(u) /\ w.msgs \subseteq u.msgs
                /\ \A n \in Nat : Reaches(w, n) => Reaches(u, n)
                /\ \A x \in thread : x < before => x \in u.msgs \/ (u.hasMore /\ x < u.oldest)
<1>1. context.next # 0 => context.rows # {}
  BY DEF Lists
<1>2. PICK u \in WindowType : u = AddContext(w, context)
  <2>1. PICK z : z = AddContext(w, context)
    OBVIOUS
  <2>2. z \in WindowType
    BY <2>1, Contexts
  <2> QED
    BY <2>1, <2>2
<1>3. /\ u.msgs \subseteq w.msgs \cup context.rows /\ u.epoch = w.epoch
      /\ u.oldest = context.next /\ u.hasMore = context.hasMore /\ u.prefer = w.prefer
      /\ u.reset \/ (u.newest = w.newest /\ u.msgs = w.msgs \cup context.rows)
  BY <1>1, <1>2, ContextRows
<1>4. thread \subseteq Nat /\ thread \in SUBSET Positions /\ context.rows \in SUBSET Positions
      /\ Positions \subseteq Nat
  BY ThreadEnds
<1>5. context.next <= before
  <2>1. CASE context.rows = {}
    BY <2>1 DEF Lists
  <2>2. CASE context.rows # {}
    <3>1. PICK y \in context.rows : context.next <= y /\ y <= before - 1
      BY <2>2 DEF Lists
    <3>2. y \in Nat
      BY <1>4
    <3> QED
      BY <3>1, <3>2
  <2> QED
    BY <2>1, <2>2
<1>6. ASSUME ~u.reset, w.oldest = before, Joins(w)
      PROVE  /\ Joins(u) /\ w.msgs \subseteq u.msgs
             /\ \A n \in Nat : Reaches(w, n) => Reaches(u, n)
             /\ \A x \in thread : x < before => x \in u.msgs \/ (u.hasMore /\ x < u.oldest)
  <2>1. u.msgs = w.msgs \cup context.rows /\ w.msgs \subseteq u.msgs
    BY <1>3, <1>6
  <2>2. Joins(u) /\ \A n \in Nat : Reaches(w, n) => Reaches(u, n)
    <3>1. u.oldest <= w.oldest /\ \A y \in context.rows : u.oldest <= y
      BY <1>3, <1>5, <1>6 DEF Lists
    <3> QED
      BY <1>4, <1>6, <2>1, <3>1, BelowKeeps
  <2>3. \A x \in thread : x < before => x \in u.msgs \/ (u.hasMore /\ x < u.oldest)
    <3> SUFFICES ASSUME NEW x \in thread, x < before
                 PROVE  x \in u.msgs \/ (u.hasMore /\ x < u.oldest)
      OBVIOUS
    <3>1. x <= before - 1
      BY <1>4
    <3>2. x \in context.rows \/ (context.hasMore /\ x < context.next)
      BY <3>1 DEF Brings
    <3> QED
      BY <1>3, <2>1, <3>2
  <2> QED
    BY <2>1, <2>2, <2>3
<1>7. u.msgs \subseteq w.msgs \cup thread /\ u.oldest <= last
  BY <1>3
<1> QED
  BY <1>2, <1>3, <1>6, <1>7

\* Whatever comes of an answer, the window stays whole.
LEMMA AppliesWhole ==
  ASSUME IInv, Running(client), client.tail.at = "answered", ~client.tail.stale, ApplyTail,
         Genuine(client, View), Whole(client, View)
  PROVE  Whole(client', View)
<1>1. TypeOK /\ client \in ClientType /\ Sound(client) /\ ~Loading(client) /\ client.tail \in TailType
      /\ client.win \in WindowType /\ AnsweredTail(client)
  BY Requests DEF IInv, TypeOK, Sound, Locks, AnsweredTail
<1>2. PICK h : h = View
  OBVIOUS
<1>3. h.epoch = epoch /\ h.thread = thread /\ h.last = last /\ Whole(client, h) /\ Steady(client)
  BY <1>2, Covers DEF Genuine
<1>4. h.last \in Nat /\ h.thread \subseteq Positions /\ \A x \in thread : x \in Nat /\ x <= last
  BY <1>1, <1>3, ThreadEnds
<1>5. PICK t : t = client.tail
  OBVIOUS
<1>6. PICK page : page = t.page
  OBVIOUS
<1>7. PICK replace : replace = (t.after # 0 \/ t.replace \/ page.reset)
  OBVIOUS
<1>8. PICK l : l = ApplyLatest(client, page, replace)
  OBVIOUS
<1>9. PICK v : v = ApplyAfter(client.win, page)
  OBVIOUS
<1>10. /\ page \in PageType /\ page.epoch # 0 /\ l \in ClientType /\ v \in WindowType /\ client' \in ClientType
  BY <1>5, <1>6, <1>7, <1>8, <1>9, Outcomes
<1>11. l.win \in WindowType /\ ~l.win.reset /\ l.win.epoch = page.epoch
       /\ (l.win.prefer = client.win.prefer)
  <2>1. replace \in BOOLEAN /\ (~replace => t.cold /\ ~t.replace)
    BY <1>5, <1>6, <1>7, <1>8, <1>9, Outcomes
  <2> QED
    BY <1>1, <1>5, <1>8, <1>10, <2>1, LatestRows, Requests
<1>12. PICK d \in ClientType :
         \/ /\ Moves(d, client')
            /\ Alone(t, l, d) \/ WithContext(t, page, l, d) \/ Anew(t, page, l, d) \/ CaughtUp(t, page, v, d)
         \/ client' = d /\ Continues(t, page, v, d)
  BY <1>5, <1>6, <1>7, <1>8, <1>9, Outcomes
<1>13. ASSUME d.tail = NoRequest, d.older = NoRequest, Settled(d, h), d.win.epoch # 0, Moves(d, client')
       PROVE  Whole(client', h)
  <2>1. Whole(d, h)
    BY <1>13, SettledIsWhole
  <2> QED
    BY <1>4, <1>10, <1>13, <2>1, MoveIsWhole DEF Anchored
<1>14. page.direction = "latest" =>
         /\ \A y \in l.win.msgs : y <= h.last
         /\ l.win.oldest <= h.last /\ l.win.newest <= h.last /\ l.owed = client.owed
         /\ ~l.gap => Joins(l.win) /\ Reaches(l.win, l.win.newest)
         /\ ~l.gap /\ page.epoch = h.epoch =>
              \A x \in h.thread :
                x \in l.win.msgs \/ (l.win.hasMore /\ x < l.win.oldest)
                  \/ (l.win.newest < x /\ Announced(client, h, x))
  <2> SUFFICES ASSUME page.direction = "latest"
               PROVE  /\ \A y \in l.win.msgs : y <= h.last
                      /\ l.win.oldest <= h.last /\ l.win.newest <= h.last /\ l.owed = client.owed
                      /\ ~l.gap => Joins(l.win) /\ Reaches(l.win, l.win.newest)
                      /\ ~l.gap /\ page.epoch = h.epoch =>
                           \A x \in h.thread :
                             x \in l.win.msgs \/ (l.win.hasMore /\ x < l.win.oldest)
                               \/ (l.win.newest < x /\ Announced(client, h, x))
    OBVIOUS
  <2>1. client.tail.after # 0 \/ client.tail.replace \/ client.tail.cold
    BY <1>1 DEF Sound, Locks
  <2>2. page = client.tail.page /\ replace = (client.tail.after # 0 \/ client.tail.replace \/ page.reset)
    BY <1>5, <1>6, <1>7
  <2> QED
    BY <1>1, <1>3, <1>4, <1>6, <1>5, <1>8, <1>10, <2>1, <2>2, LatestIsWhole
<1>15. t.after = 0 => page.direction = "latest"
  BY <1>1, <1>3, <1>5, <1>6, <1>10 DEF Steady, AnsweredTail, PageType
\* Only a window that keeps its prefer flag is not due.
<1>16. ASSUME d.tail = NoRequest, d.older = NoRequest, d.gap = l.gap, d.owed = l.owed, page.direction = "latest",
              d.win.msgs = l.win.msgs, d.win.oldest = l.win.oldest, d.win.newest = l.win.newest,
              d.win.hasMore = l.win.hasMore, d.win.epoch = l.win.epoch
       PROVE  Settled(d, h)
  <2>1. \A x : Announced(d, h, x) = Announced(client, h, x)
    BY <1>14, <1>16 DEF Announced
  <2>2. Joins(l.win) => Joins(d.win)
    BY <1>16 DEF Joins
  <2>3. Reaches(l.win, l.win.newest) => Reaches(d.win, d.win.newest)
    BY <1>16 DEF Reaches
  <2>4. d.win.epoch # 0
    BY <1>10, <1>11, <1>16
  <2> QED
    BY <1>11, <1>14, <1>16, <2>1, <2>2, <2>3, <2>4 DEF Settled
<1>17. CASE Moves(d, client') /\ Alone(t, l, d)
  <2>1. /\ d.tail = NoRequest /\ d.older = NoRequest /\ d.gap = l.gap /\ d.owed = l.owed
        /\ d.win.msgs = l.win.msgs /\ d.win.oldest = l.win.oldest /\ d.win.newest = l.win.newest
        /\ d.win.hasMore = l.win.hasMore /\ d.win.epoch = l.win.epoch
    BY <1>11, <1>17 DEF Alone, Ended, WindowType
  <2>2. page.direction = "latest" /\ d.win.epoch # 0
    BY <1>10, <1>11, <1>15, <1>17, <2>1 DEF Alone
  <2> QED
    BY <1>2, <1>13, <1>16, <1>17, <2>1, <2>2
<1>18. CASE Moves(d, client') /\ WithContext(t, page, l, d)
  <2>1. page.direction = "latest" /\ page.hasMore /\ page.epoch = h.epoch
    BY <1>3, <1>15, <1>18 DEF WithContext
  <2>2. page.next # 0 /\ page.next \in Cursor
    <3>1. Lists(page, page.head)
      BY <1>1, <1>3, <1>5, <1>6, <2>1 DEF Whole, Paged
    <3> QED
      BY <1>10, <2>1, <3>1 DEF Lists, PageType
  <2>3. PICK context : context = LatestPage(page.next, Page, FALSE)
    OBVIOUS
  <2>4. PICK u \in WindowType :
        /\ u = AddContext(l.win, context)
        /\ u.msgs \subseteq l.win.msgs \cup thread /\ u.oldest <= last
        /\ u.epoch = l.win.epoch /\ u.prefer = l.win.prefer /\ (u.reset \/ u.newest = l.win.newest)
        /\ ~u.reset /\ l.win.oldest = page.next /\ Joins(l.win) =>
              /\ Joins(u) /\ l.win.msgs \subseteq u.msgs
              /\ \A n \in Nat : Reaches(l.win, n) => Reaches(u, n)
              /\ \A x \in thread : x < page.next => x \in u.msgs \/ (u.hasMore /\ x < u.oldest)
    <3>1. page.next \in Nat \ {0} /\ Page \in Nat \ {0}
      BY <2>2, SizesAssumption, BoundsAssumption DEF Cursor
    <3>2. context \in PageType
      BY <1>1, <2>2, <2>3, Pages
    <3>3. /\ context.rows \subseteq thread /\ context.next \in Nat /\ context.next <= last
          /\ Lists(context, page.next - 1) /\ Brings(context, page.next - 1, thread)
      BY <1>1, <2>3, <3>1, LatestBrings
    <3> QED
      BY <1>1, <1>11, <3>1, <3>2, <3>3, ContextIsWhole
  <2>5. Ended(d, [u EXCEPT !.prefer = FALSE, !.syncing = FALSE], (l.gap \/ l.win.oldest # page.next), l.owed)
    BY <1>18, <2>3, <2>4 DEF WithContext
  <2>6. /\ d.tail = NoRequest /\ d.older = NoRequest /\ d.gap = (l.gap \/ l.win.oldest # page.next)
        /\ d.owed = l.owed /\ d.win.msgs = u.msgs /\ d.win.oldest = u.oldest /\ d.win.newest = u.newest
        /\ d.win.hasMore = u.hasMore /\ d.win.epoch = u.epoch /\ d.win.reset = u.reset
    BY <2>4, <2>5 DEF Ended, WindowType
  <2>7. (\A y \in d.win.msgs : y <= h.last) /\ d.win.oldest <= h.last /\ (~d.win.reset => d.win.newest <= h.last)
    BY <1>3, <1>4, <1>14, <2>1, <2>4, <2>6
  <2>8. ASSUME ~d.gap, ~Due(d.win)
        PROVE  /\ Joins(d.win) /\ Reaches(d.win, d.win.newest)
               /\ \A x \in h.thread :
                    x \in d.win.msgs \/ (d.win.hasMore /\ x < d.win.oldest)
                      \/ (d.win.newest < x /\ Announced(d, h, x))
    <3>1. /\ Joins(u) /\ l.win.msgs \subseteq u.msgs /\ Reaches(u, u.newest) /\ u.newest = l.win.newest
          /\ l.win.oldest = page.next
          /\ \A x \in thread : x < page.next => x \in u.msgs \/ (u.hasMore /\ x < u.oldest)
      <4>1. ~u.reset /\ l.win.oldest = page.next /\ ~l.gap
        BY <2>6, <2>8 DEF Due
      <4>2. l.win.newest \in Nat
        BY <1>11, BoundsAssumption DEF WindowType, Cursor
      <4> QED
        BY <1>14, <2>1, <2>4, <4>1, <4>2
    <3>2. Joins(d.win)
      BY <2>6, <3>1 DEF Joins
    <3>3. Reaches(d.win, d.win.newest)
      BY <2>6, <3>1 DEF Reaches
    <3>4. \A x \in thread :
            x \in l.win.msgs \/ (l.win.hasMore /\ x < l.win.oldest) \/ (l.win.newest < x /\ Announced(client, h, x))
      BY <1>3, <1>14, <2>1, <2>6, <2>8
    <3>5. \A x : Announced(d, h, x) = Announced(client, h, x)
      BY <1>14, <2>1, <2>6 DEF Announced
    <3> QED
      BY <1>3, <2>6, <3>1, <3>2, <3>3, <3>4, <3>5
  <2>9. Settled(d, h)
    BY <2>7, <2>8 DEF Settled
  <2>10. d.win.epoch # 0
    BY <1>10, <1>11, <2>4, <2>6
  <2> QED
    BY <1>2, <1>13, <1>18, <2>6, <2>9, <2>10
<1>19. CASE Moves(d, client') /\ Anew(t, page, l, d)
  <2>1. /\ d.tail = NoRequest /\ d.older = NoRequest /\ d.gap = l.gap /\ d.owed = l.owed
        /\ d.win.msgs = l.win.msgs /\ d.win.oldest = l.win.oldest /\ d.win.newest = l.win.newest
        /\ d.win.hasMore = l.win.hasMore /\ d.win.epoch = l.win.epoch
    BY <1>11, <1>19 DEF Anew, Ended, WindowType
  <2>2. page.direction = "latest" /\ d.win.epoch # 0
    BY <1>10, <1>11, <1>19, <2>1 DEF Anew
  <2> QED
    BY <1>2, <1>13, <1>16, <1>19, <2>1, <2>2
<1>20. page.direction = "after" =>
         /\ \A y \in v.msgs : y <= h.last
         /\ v.oldest <= h.last /\ (~v.reset => v.newest <= h.last)
         /\ v.epoch = page.epoch /\ page.epoch = t.epoch
         /\ page.next # 0 /\ page.next <= h.last /\ page.head <= h.last
         /\ ~client.gap /\ ~v.reset => Joins(v) /\ Reaches(v, v.newest) /\ Reaches(v, page.next)
         /\ ~client.gap /\ ~v.reset /\ page.epoch = h.epoch =>
              \A x \in h.thread :
                \/ x \in v.msgs \/ (v.hasMore /\ x < v.oldest)
                \/ v.newest < x /\ Announced(client, h, x)
                \/ /\ t.until = 0 \/ x <= t.until
                   /\ page.hasMore /\ page.next < x /\ x <= page.head
  <2> SUFFICES ASSUME page.direction = "after"
               PROVE  /\ \A y \in v.msgs : y <= h.last
                      /\ v.oldest <= h.last /\ (~v.reset => v.newest <= h.last)
                      /\ v.epoch = page.epoch /\ page.epoch = t.epoch
                      /\ page.next # 0 /\ page.next <= h.last /\ page.head <= h.last
                      /\ ~client.gap /\ ~v.reset => Joins(v) /\ Reaches(v, v.newest) /\ Reaches(v, page.next)
                      /\ ~client.gap /\ ~v.reset /\ page.epoch = h.epoch =>
                           \A x \in h.thread :
                             \/ x \in v.msgs \/ (v.hasMore /\ x < v.oldest)
                             \/ v.newest < x /\ Announced(client, h, x)
                             \/ /\ t.until = 0 \/ x <= t.until
                                /\ page.hasMore /\ page.next < x /\ x <= page.head
    OBVIOUS
  <2> QED
    BY <1>1, <1>3, <1>4, <1>5, <1>6, <1>9, <1>10, AfterIsWhole
<1>21. CASE Moves(d, client') /\ CaughtUp(t, page, v, d)
  <2>1. /\ d.tail = NoRequest /\ d.older = NoRequest /\ d.gap = client.gap /\ d.owed = client.owed
        /\ d.win.msgs = v.msgs /\ d.win.oldest = v.oldest /\ d.win.newest = v.newest
        /\ d.win.hasMore = v.hasMore /\ d.win.epoch = v.epoch /\ d.win.reset = v.reset /\ d.win.prefer = v.prefer
    BY <1>10, <1>21 DEF CaughtUp, Ended, WindowType
  <2>2. page.direction = "after" /\ (v.reset \/ v.prefer \/ ~page.hasMore \/ page.next = 0)
    BY <1>21 DEF CaughtUp
  <2>3. d.win.epoch # 0
    BY <1>10, <1>20, <2>1, <2>2
  <2>4. \A x : Announced(d, h, x) = Announced(client, h, x)
    BY <2>1 DEF Announced
  <2>5. (Joins(v) => Joins(d.win)) /\ (Reaches(v, v.newest) => Reaches(d.win, d.win.newest))
    BY <2>1 DEF Joins, Reaches
  <2>6. ~Due(d.win) => ~v.reset /\ ~page.hasMore
    BY <1>20, <2>1, <2>2 DEF Due
  <2>7. Settled(d, h)
    BY <1>20, <2>1, <2>2, <2>3, <2>4, <2>5, <2>6 DEF Settled
  <2> QED
    BY <1>2, <1>13, <1>21, <2>1, <2>3, <2>7
<1>22. CASE client' = d /\ Continues(t, page, v, d)
  <2>1. /\ d.tail.at = "asked" /\ d.tail.after = page.next /\ d.tail.baseline = v.msgs /\ d.tail.stale = t.stale
        /\ d.tail.epoch = t.epoch /\ d.tail.until = IF t.until = 0 THEN page.head ELSE t.until
    BY <1>1, <1>5, <1>22 DEF Continues, TailType
  <2>2. Running(d) /\ ~Loading(d) /\ ~AnsweredTail(d) /\ ~AnsweredOlder(d)
    BY <1>22, <2>1 DEF Continues, Running, Loading, NoRequest, AnsweredTail, AnsweredOlder
  <2>3. /\ page.direction = "after" /\ d.win = v /\ d.gap = client.gap /\ d.owed = client.owed /\ page.next # 0
        /\ ~v.reset /\ ~v.prefer
    BY <1>22 DEF Continues
  <2>4. t.until <= h.last
    BY <1>1, <1>3, <1>5 DEF Whole, Bounded
  <2>5. Bounded(d, h)
    BY <1>20, <2>1, <2>2, <2>3, <2>4 DEF Bounded
  <2>6. Paged(d, h) /\ Followable(d, h)
    BY <2>2 DEF Paged, Followable, Current
  <2>7. Based(d)
    BY <1>20, <2>1, <2>3 DEF Based
  <2>8. Gapless(d, h)
    <3> SUFFICES ASSUME ~d.gap, d.win.epoch \in {0, h.epoch}, NEW x \in h.thread
                 PROVE  Kept(d, h, x)
      BY DEF Gapless
    <3>1. page.epoch = h.epoch /\ t.epoch = h.epoch
      BY <1>10, <1>20, <2>3
    <3>2. \/ x \in v.msgs \/ (v.hasMore /\ x < v.oldest)
          \/ v.newest < x /\ Announced(client, h, x)
          \/ /\ t.until = 0 \/ x <= t.until
             /\ page.hasMore /\ page.next < x /\ x <= page.head
      BY <1>20, <2>3, <3>1
    <3>3. Announced(client, h, x) = Announced(d, h, x)
      BY <2>3 DEF Announced
    <3>4. ASSUME t.until = 0 \/ x <= t.until, page.next < x, x <= page.head
          PROVE  Fetched(d, h, x)
      BY <1>5, <2>1, <2>2, <2>3, <3>1, <3>4 DEF Fetched
    <3> QED
      BY <2>3, <3>2, <3>3, <3>4 DEF Kept
  <2> QED
    BY <1>2, <1>22, <2>5, <2>6, <2>7, <2>8 DEF Whole
<1> QED
  BY <1>12, <1>17, <1>18, <1>19, <1>21, <1>22

---------------------------------------------------------------------------
(* Every action keeps the window whole.                                    *)

LEMMA HubTypes ==
  ASSUME IInv
  PROVE  View.last \in Nat /\ View.thread \subseteq Positions
<1>1. View.last = last /\ View.thread = thread
  BY Covers
<1> QED
  BY <1>1, ThreadEnds DEF IInv

\* A step of the client that moves does.
LEMMA MovesWhole ==
  ASSUME IInv, IInv', UNCHANGED <<thread, epoch, last, live, events>>,
         \E d \in ClientType : Anchored(d) /\ Whole(d, View) /\ Moves(d, client')
  PROVE  Whole(client, View)'
<1>1. client' \in ClientType
  BY SameType DEF IInv, TypeOK
<1>2. Whole(client', View)
  BY <1>1, HubTypes, MoveIsWhole
<1> QED
  BY <1>2, ViewStays

LEMMA CalmWhole ==
  ASSUME IInv, IInv', UNCHANGED <<thread, epoch, last, live, events>>, Whole(client, View), Calm(client, client')
  PROVE  Whole(client, View)'
<1>1. client' \in ClientType /\ client \in ClientType
  BY SameType DEF IInv, TypeOK
<1>2. Whole(client', View)
  BY <1>1, HubTypes, CalmIsWhole
<1> QED
  BY <1>2, ViewStays

\* A synchronization that was superseded leaves the window as it is; so does one that fails, and what it
\* had to bring is owed.
LEMMA AbandonIsWhole ==
  ASSUME NEW c \in ClientType, Running(c), Steady(c), NEW h, h.thread \subseteq Positions, Whole(c, h),
         NEW d \in ClientType, d.win.msgs = c.win.msgs, d.win.oldest = c.win.oldest, d.win.newest = c.win.newest,
         d.win.hasMore = c.win.hasMore,
         d.win.epoch = c.win.epoch, d.win.reset = c.win.reset, d.win.prefer = c.win.prefer,
         d.tail = NoRequest, d.older = NoRequest, c.gap => d.gap,
         \/ c.tail.stale /\ d.owed = c.owed
         \/ d.owed = TRUE /\ (~d.gap => c.tail.replace \/ ~(c.win.newest > c.tail.after))
  PROVE  Whole(d, h)
<1>1. /\ c.tail \in TailType /\ c.win.newest \in Nat /\ c.tail.after \in Nat
      /\ \A x \in h.thread : x \in Nat /\ x # 0
  BY Requests, BoundsAssumption DEF WindowType, TailType, Cursor, Positions
<1>2. Due(d.win) = Due(c.win)
  BY DEF Due
<1>3. (Joins(c.win) => Joins(d.win)) /\ (Reaches(c.win, c.win.newest) => Reaches(d.win, d.win.newest))
  BY DEF Joins, Reaches
<1>4. ASSUME ~d.gap, ~Due(d.win), d.win.epoch \in {0, h.epoch}, NEW x \in h.thread
      PROVE  x \in d.win.msgs \/ (d.win.hasMore /\ x < d.win.oldest) \/ (d.win.newest < x /\ Announced(d, h, x))
  <2>1. Kept(c, h, x)
    BY <1>2, <1>4 DEF Whole, Gapless
  <2>2. Fetched(c, h, x) => d.owed = TRUE /\ c.win.newest < x
    <3> SUFFICES ASSUME Fetched(c, h, x)
                 PROVE  d.owed = TRUE /\ c.win.newest < x
      OBVIOUS
    <3>1. ~c.tail.stale
      BY DEF Fetched
    <3>2. d.owed = TRUE /\ ~c.tail.replace
      BY <1>2, <1>4, <3>1 DEF Steady
    <3>3. c.win.newest <= c.tail.after
      BY <1>1, <1>4, <3>1, <3>2
    <3>4. c.tail.after < x
      BY <1>1 DEF Fetched
    <3> QED
      BY <1>1, <3>2, <3>3, <3>4
  <2>3. Announced(c, h, x) => Announced(d, h, x)
    BY DEF Announced
  <2> QED
    BY <2>1, <2>2, <2>3 DEF Kept, Announced
<1>5. /\ \A y \in d.win.msgs : y <= h.last
      /\ d.win.oldest <= h.last /\ (~d.win.reset => d.win.newest <= h.last)
  BY DEF Whole, Bounded
<1>6. ~d.gap /\ ~Due(d.win) => Joins(d.win) /\ (d.win.newest # 0 => Reaches(d.win, d.win.newest))
  BY <1>2, <1>3 DEF Whole, Based
<1>7. Settled(d, h)
  BY <1>4, <1>5, <1>6 DEF Settled
<1> QED
  BY <1>7, SettledIsWhole

LEMMA SupersedeFills ==
  ASSUME IInv, IInv', Genuine(client, View), Whole(client, View), Running(client), client.tail.stale,
         UNCHANGED <<thread, epoch, last, live, events>>,
         client' = StartQueued([client EXCEPT !.tail = NoRequest])
  PROVE  Whole(client, View)'
<1>1. epoch \in Nat /\ client \in ClientType /\ Sound(client) /\ client.older = NoRequest
  BY Requests DEF IInv, TypeOK, Sound, Locks
<1>2. PICK d : d = [client EXCEPT !.tail = NoRequest]
  OBVIOUS
<1>3. d \in ClientType /\ d.win = client.win /\ d.tail = NoRequest /\ d.older = NoRequest /\ d.gap = client.gap
      /\ d.owed = client.owed
  BY <1>1, <1>2 DEF ClientType
<1>4. Bound(d) /\ Anchored(d)
  BY <1>1, <1>3 DEF Sound, Bound, Anchored, Loading, NoRequest
<1>5. Whole(d, View)
  BY <1>1, <1>3, HubTypes, AbandonIsWhole DEF Genuine
<1>6. Moves(d, client')
  BY <1>1, <1>2, <1>3, <1>4, QueueMoves
<1> QED
  BY <1>3, <1>4, <1>5, <1>6, MovesWhole

LEMMA ApplyTailFills ==
  ASSUME IInv, IInv', Genuine(client, View), Whole(client, View), ApplyTail
  PROVE  Whole(client, View)'
<1>1. UNCHANGED <<thread, epoch, last, live, events>> /\ Running(client) /\ client.tail.at = "answered"
  <2>1. UNCHANGED <<thread, epoch, last, live, events>>
    BY Zenon DEF ApplyTail, ClientStep, serverVars
  <2> QED
    BY <2>1 DEF ApplyTail, Running
<1>2. CASE client.tail.stale
  <2>1. client' = StartQueued([client EXCEPT !.tail = NoRequest])
    BY <1>2, Zenon DEF ApplyTail, ClientStep
  <2> QED
    BY <1>1, <1>2, <2>1, SupersedeFills
<1>3. CASE ~client.tail.stale
  BY <1>1, <1>3, AppliesWhole, ViewStays
<1> QED
  BY <1>2, <1>3

LEMMA FailTailFills ==
  ASSUME IInv, IInv', Genuine(client, View), Whole(client, View), FailTail
  PROVE  Whole(client, View)'
<1>1. UNCHANGED <<thread, epoch, last, live, events>> /\ Running(client)
  <2>1. UNCHANGED <<thread, epoch, last, live, events>>
    BY Zenon DEF FailTail, ClientStep, serverVars
  <2> QED
    BY <2>1 DEF FailTail
<1>2. CASE client.tail.stale
  <2>1. client' = StartQueued([client EXCEPT !.tail = NoRequest])
    BY <1>2, Zenon DEF FailTail, ClientStep
  <2> QED
    BY <1>1, <1>2, <2>1, SupersedeFills
<1>3. CASE ~client.tail.stale
  <2>1. epoch \in Nat /\ client \in ClientType /\ Sound(client) /\ client.older = NoRequest /\ ~Loading(client)
    BY <1>1, Requests DEF IInv, TypeOK, Sound, Locks
  <2>2. PICK gap \in BOOLEAN : gap = (client.gap \/ (~client.tail.replace /\ client.win.newest > client.tail.after))
    OBVIOUS
  <2>3. PICK f : f = [client EXCEPT !.owed = TRUE, !.gap = gap]
    OBVIOUS
  <2>4. client' = FinishTail(f)
    <3>1. client' = FinishTail([client EXCEPT !.owed = TRUE,
                     !.gap = @ \/ (~client.tail.replace /\ client.win.newest > client.tail.after)])
      BY <1>3, Zenon DEF FailTail, ClientStep
    <3> QED
      BY <2>1, <2>2, <2>3, <3>1 DEF ClientType
  <2>5. /\ f \in ClientType /\ f.win = client.win /\ f.older = NoRequest /\ f.gap = gap /\ f.owed = TRUE
        /\ Bound(f) /\ Anchored(f) /\ ~Loading(f)
    BY <2>1, <2>3 DEF ClientType, Sound, Bound, Anchored, Loading, NoRequest
  <2>6. PICK d \in ClientType :
           /\ d.win = [f.win EXCEPT !.syncing = FALSE] /\ d.tail = NoRequest /\ d.older = NoRequest
           /\ d.gap = f.gap /\ d.owed = f.owed /\ Sound(d) /\ Moves(d, client')
    BY <2>1, <2>4, <2>5, EndMoves
  <2>7. /\ d.win.msgs = client.win.msgs /\ d.win.oldest = client.win.oldest /\ d.win.newest = client.win.newest
        /\ d.win.epoch = client.win.epoch /\ d.win.reset = client.win.reset /\ d.win.prefer = client.win.prefer
        /\ d.win.hasMore = client.win.hasMore
    BY <2>1, <2>5, <2>6, Requests DEF WindowType
  <2>8. (client.gap => d.gap) /\ d.owed = TRUE
        /\ (~d.gap => client.tail.replace \/ ~(client.win.newest > client.tail.after))
    BY <2>2, <2>5, <2>6
  <2>9. Whole(d, View)
    BY <1>1, <2>1, <2>6, <2>7, <2>8, HubTypes, AbandonIsWhole DEF Genuine
  <2> QED
    BY <1>1, <2>6, <2>9, MovesWhole DEF Sound
<1> QED
  BY <1>2, <1>3

LEMMA EnterFills ==
  ASSUME IInv, IInv', Whole(client, View), Enter
  PROVE  Whole(client, View)'
<1>1. epoch \in Nat /\ client \in ClientType /\ Sound(client) /\ (Running(client) => ~client.tail.stale)
  BY DEF IInv, TypeOK, Mounting, Enter
<1>2. UNCHANGED <<thread, epoch, last, live, events>> /\ client' = Activate(client)
  BY DEF Enter, serverVars
<1>3. Calm(client, client')
  BY <1>1, <1>2, CalmActivates
<1> QED
  BY <1>2, <1>3, CalmWhole

LEMMA MountedFills ==
  ASSUME IInv, IInv', Whole(client, View), Mounted
  PROVE  Whole(client, View)'
<1>1. epoch \in Nat /\ client \in ClientType /\ Bound(client) /\ Anchored(client)
      /\ (Running(client) => ~Loading(client))
  BY DEF IInv, TypeOK, Sound, Locks
<1>2. UNCHANGED <<thread, epoch, last, live, events>> /\ client' = Sync(client, FALSE)
  BY DEF Mounted, serverVars
<1>3. Moves(client, client')
  BY <1>1, <1>2, SyncMoves
<1> QED
  BY <1>1, <1>2, <1>3, MovesWhole

LEMMA SetViewFills ==
  ASSUME IInv, IInv', Whole(client, View), NEW mode \in {"tail", "history"}, SetView(mode)
  PROVE  Whole(client, View)'
<1>1. /\ epoch \in Nat /\ client \in ClientType /\ Sound(client) /\ (Running(client) => ~client.tail.stale)
  BY DEF IInv, TypeOK, Mounting, SetView
<1>2. UNCHANGED <<thread, epoch, last, live, events>>
  BY Zenon DEF SetView, ClientStep, serverVars
<1>3. PICK c : c = SetMode(client, mode)
  OBVIOUS
<1>4. client' \in {c, Sync(c, TRUE)}
  BY <1>3, Zenon DEF SetView, ClientStep
<1>5. PICK e \in ClientType : Calm(client, e) /\ Sound(e) /\ Moves(e, c)
  BY <1>1, <1>3, ModeMoves
<1>6. Whole(e, View)
  BY <1>1, <1>5, HubTypes, CalmIsWhole
<1>7. c \in ClientType /\ Sound(c)
  BY <1>1, <1>3, Modes
<1>8. Whole(c, View)
  BY <1>5, <1>6, <1>7, HubTypes, MoveIsWhole DEF Sound
<1>9. CASE client' = c
  BY <1>2, <1>8, <1>9, ViewStays
<1>10. CASE client' = Sync(c, TRUE)
  <2>1. Moves(c, client')
    BY <1>1, <1>7, <1>10, SyncMoves DEF Sound, Locks
  <2> QED
    BY <1>2, <1>7, <1>8, <2>1, MovesWhole DEF Sound
<1> QED
  BY <1>4, <1>9, <1>10

LEMMA LoadOlderFills ==
  ASSUME IInv, Whole(client, View), NEW install \in BOOLEAN, LoadOlder(install)
  PROVE  Whole(client, View)'
<1>1. client \in ClientType /\ Sound(client) /\ client.win \in WindowType
  BY Requests DEF IInv, TypeOK
<1>2. UNCHANGED <<thread, epoch, last, live, events>>
  BY Zenon DEF LoadOlder, ClientStep, serverVars
<1>3. ~client.win.syncing /\ ~Loading(client) /\ client.win.oldest # 0
  BY Zenon DEF LoadOlder
<1>4. PICK provisional \in BOOLEAN : provisional = (install /\ client.win.boundary = 0)
  OBVIOUS
<1>5. PICK o : o = [at |-> "asked", before |-> client.win.oldest, epoch |-> client.win.epoch, install |-> install,
                    provisional |-> provisional, page |-> NoPage]
  OBVIOUS
<1>6. PICK w : w = IF provisional THEN [client.win EXCEPT !.boundary = client.win.oldest, !.provisional = TRUE]
                   ELSE client.win
  OBVIOUS
<1>7. client' = [client EXCEPT !.older = o, !.win = w]
  BY <1>1, <1>4, <1>5, <1>6 DEF LoadOlder, ClientStep, ClientType
<1>8. /\ w.msgs = client.win.msgs /\ w.oldest = client.win.oldest /\ w.newest = client.win.newest
      /\ w.epoch = client.win.epoch /\ w.reset = client.win.reset /\ w.prefer = client.win.prefer
      /\ w.hasMore = client.win.hasMore
  BY <1>1, <1>6 DEF WindowType
<1>9. client'.win = w /\ client'.older = o /\ client'.tail = client.tail /\ client'.gap = client.gap
      /\ client'.owed = client.owed
  BY <1>1, <1>7 DEF ClientType
<1>10. ~Running(client) /\ ~Running(client') /\ ~AnsweredOlder(client') /\ ~AnsweredTail(client')
  BY <1>1, <1>3, <1>5, <1>9 DEF Sound, Locks, Running, AnsweredOlder, AnsweredTail
<1>11. PICK h : h = View
  OBVIOUS
<1>12. Whole(client, h)
  BY <1>11
<1>13. Bounded(client', h)
  BY <1>3, <1>5, <1>8, <1>9, <1>10, <1>12 DEF Whole, Bounded
<1>14. Paged(client', h) /\ Followable(client', h)
  BY <1>10 DEF Paged, Followable, Current
<1>15. Based(client')
  BY <1>8, <1>9, <1>10, <1>12 DEF Whole, Based, Due, Joins, Reaches
<1>16. Gapless(client', h)
  BY <1>8, <1>9, <1>10, <1>12 DEF Whole, Gapless, Due, Kept, Fetched, Announced
<1>17. Whole(client', h)
  BY <1>13, <1>14, <1>15, <1>16 DEF Whole
<1> QED
  BY <1>2, <1>11, <1>17, ViewStays

LEMMA OlderResetFills ==
  ASSUME IInv, IInv', Whole(client, View), OlderReset
  PROVE  Whole(client, View)'
<1>1. epoch \in Nat /\ client \in ClientType /\ Sound(client) /\ client.win \in WindowType
  BY Requests DEF IInv, TypeOK
<1>2. UNCHANGED <<thread, epoch, last, live, events>>
  BY Zenon DEF OlderReset, ClientStep, serverVars
<1>3. PICK w : w = [client.win EXCEPT !.epoch = 0, !.newest = 0, !.reset = TRUE]
  OBVIOUS
<1>4. PICK d : d = [client EXCEPT !.older = NoRequest, !.win = w]
  OBVIOUS
<1>5. d = [client EXCEPT !.older = NoRequest, !.win.epoch = 0, !.win.newest = 0, !.win.reset = TRUE]
  BY <1>1, <1>3, <1>4 DEF ClientType
<1>6. client' = Sync(d, TRUE)
  BY <1>5, Zenon DEF OlderReset, ClientStep
<1>7. w \in WindowType /\ w.msgs = client.win.msgs /\ w.oldest = client.win.oldest /\ w.reset
  <2>1. 0 \in Epoch /\ 0 \in Cursor
    BY <1>1, BoundsAssumption DEF Epoch, Cursor
  <2> QED
    BY <1>1, <1>3, <2>1 DEF WindowType
<1>8. d \in ClientType /\ d.win = w /\ d.older = NoRequest /\ d.tail = client.tail
  BY <1>1, <1>4, <1>7 DEF ClientType
<1>9. Loading(client) /\ ~Running(client) /\ d.tail = NoRequest
  BY <1>1, <1>8, Requests DEF OlderReset, Loading, Sound, Locks
<1>10. ~Running(d) /\ Bound(d) /\ Anchored(d)
  BY <1>1, <1>3, <1>7, <1>8, <1>9 DEF Sound, Bound, Anchored, Running, NoRequest, WindowType
<1>11. Settled(d, View)
  BY <1>7, <1>8 DEF Whole, Bounded, Settled, Due
<1>12. Whole(d, View)
  BY <1>8, <1>9, <1>11, SettledIsWhole
<1>13. Moves(d, client')
  BY <1>1, <1>6, <1>8, <1>10, SyncMoves
<1> QED
  BY <1>2, <1>8, <1>10, <1>12, <1>13, MovesWhole

\* A client that hears of what it heard of before stays whole.
LEMMA HearsIsWhole ==
  ASSUME NEW c, NEW d, d.win = c.win, d.tail = c.tail, d.older = c.older, c.gap => d.gap,
         NEW g, NEW h, h.thread = g.thread, h.epoch = g.epoch, h.last = g.last,
         \A x \in h.thread : Announced(c, g, x) => Announced(d, h, x),
         Whole(c, g)
  PROVE  Whole(d, h)
<1>1. /\ Running(d) = Running(c) /\ Loading(d) = Loading(c)
      /\ AnsweredTail(d) = AnsweredTail(c) /\ AnsweredOlder(d) = AnsweredOlder(c)
      /\ Unreplaced(d) = Unreplaced(c)
  BY DEF Running, Loading, AnsweredTail, AnsweredOlder, Unreplaced
<1>2. Bounded(d, h) /\ Paged(d, h)
  BY <1>1 DEF Whole, Bounded, Paged
<1>3. Based(d)
  BY <1>1 DEF Whole, Based
<1>4. Gapless(d, h)
  BY <1>1 DEF Whole, Gapless, Kept, Fetched
<1>5. Followable(d, h)
  BY <1>1 DEF Whole, Followable, Current, Survives
<1> QED
  BY <1>2, <1>3, <1>4, <1>5 DEF Whole

LEMMA DropOlderFills ==
  ASSUME IInv, IInv', Whole(client, View), DropOlder
  PROVE  Whole(client, View)'
<1>1. client \in ClientType /\ Sound(client) /\ client.win \in WindowType /\ Loading(client) /\ ~Running(client)
  BY Requests DEF IInv, TypeOK, DropOlder, Sound, Locks
<1>2. UNCHANGED <<thread, epoch, last, live, events>>
  BY Zenon DEF DropOlder, ClientStep, serverVars
<1>3. PICK r : r = TrimReleased(Unbound(client.win))
  OBVIOUS
<1>4. PICK u : u = Unbound(client.win)
  OBVIOUS
<1>5. u \in WindowType /\ u.msgs = client.win.msgs /\ u.reset = client.win.reset /\ u.oldest = client.win.oldest
      /\ u.hasMore = client.win.hasMore /\ u.epoch = client.win.epoch /\ u.newest = client.win.newest
      /\ u.prefer = client.win.prefer
  <2>1. u \in WindowType
    BY <1>1, <1>4, Unbinds
  <2> QED
    BY <1>1, <1>4, <2>1 DEF Unbound, WindowType
<1>6. Thinned(u, r) /\ r.prefer = u.prefer
  BY <1>3, <1>4, <1>5, Views, Thins DEF Keeps
<1>7. Thinned(client.win, r)
  BY <1>5, <1>6 DEF Thinned, Topped
<1>8. client' = [client EXCEPT !.older = NoRequest, !.win = IF client.older.provisional THEN r ELSE client.win]
  BY <1>1, <1>3 DEF DropOlder, ClientStep, ClientType
<1>9. /\ client'.older = NoRequest /\ client'.win \in {r, client.win} /\ client'.tail = client.tail
      /\ client'.gap = client.gap /\ client'.owed = client.owed
  BY <1>1, <1>8 DEF ClientType
<1>10. Thinned(client.win, client'.win)
  BY <1>1, <1>7, <1>9, Thins
<1>11. Calm(client, client')
  BY <1>1, <1>5, <1>6, <1>9, <1>10 DEF Calm, Running
<1> QED
  BY <1>2, <1>11, CalmWhole

LEMMA CancelOlderFills ==
  ASSUME IInv, IInv', Whole(client, View), CancelOlder
  PROVE  Whole(client, View)'
<1>1. client \in ClientType /\ (Running(client) => ~Loading(client))
  BY DEF IInv, TypeOK, Sound, Locks
<1>2. UNCHANGED <<thread, epoch, last, live, events>> /\ client' = GiveUpOlder(client)
  BY Zenon DEF CancelOlder, ClientStep, serverVars
<1>3. Calm(client, client')
  BY <1>1, <1>2, CalmGivesUp
<1> QED
  BY <1>2, <1>3, CalmWhole

\* What a lost stream had to tell is for a synchronization to find.
LEMMA LosingFills ==
  ASSUME IInv, Whole(client, View), UNCHANGED <<thread, epoch, last>>, ~live', NEW d, d = EventsLost(client)
  PROVE  Whole(d, View')
<1>1. d.win = client.win /\ d.tail = client.tail /\ d.older = client.older /\ (client.gap => d.gap)
  <2>1. client \in ClientType
    BY DEF IInv, TypeOK
  <2>2. PICK gap \in BOOLEAN : gap = (client.gap \/ OnStream("rewind") # {})
    OBVIOUS
  <2>3. d = [client EXCEPT !.gap = gap]
    BY <2>1, <2>2 DEF EventsLost, ClientType
  <2> QED
    BY <2>1, <2>2, <2>3 DEF ClientType
<1>2. /\ View'.thread = View.thread /\ View'.epoch = View.epoch /\ View'.last = View.last /\ View'.lost
  BY DEF View
<1>3. \A x \in View'.thread : Announced(d, View', x)
  BY <1>2 DEF Announced
<1> QED
  BY <1>1, <1>2, <1>3, HearsIsWhole

LEMMA CutFills ==
  ASSUME IInv, Whole(client, View), Cut
  PROVE  Whole(client, View)'
<1>1. UNCHANGED <<thread, epoch, last>> /\ ~live' /\ client' = EventsLost(client)
  BY DEF Cut, serverVars
<1> QED
  BY <1>1, LosingFills

LEMMA LeaveFills ==
  ASSUME IInv, IInv', Whole(client, View), Leave
  PROVE  Whole(client, View)'
<1>1. /\ epoch \in Nat /\ client \in ClientType /\ Sound(client) /\ (Running(client) => ~client.tail.stale)
      /\ (Running(client) => ~Loading(client))
  BY DEF IInv, TypeOK, Mounting, Leave, Sound, Locks
<1>2. UNCHANGED <<thread, epoch, last>> /\ ~live'
      /\ client' = SetMode(GiveUpOlder(EventsLost(client)), "tail")
  BY DEF Leave, serverVars
<1>3. client' \in ClientType
  BY <1>2, SameType DEF IInv, TypeOK
<1>4. PICK c : c = EventsLost(client)
  OBVIOUS
<1>5. /\ c \in ClientType /\ Whole(c, View') /\ Sound(c) /\ c.tail = client.tail
      /\ Running(c) = Running(client) /\ Loading(c) = Loading(client)
  <2>1. Whole(c, View')
    BY <1>2, <1>4, LosingFills
  <2> QED
    BY <1>1, <1>4, <2>1, Charges
<1>6. PICK g : g = GiveUpOlder(c)
  OBVIOUS
<1>7. g \in ClientType /\ g.tail = c.tail /\ Sound(g) /\ Calm(c, g)
  <2>1. Running(c) => ~Loading(c)
    BY <1>1, <1>5
  <2> QED
    BY <1>5, <1>6, <2>1, GivesUp, StaysSound, CalmGivesUp DEF Sound
<1>8. View'.last \in Nat /\ View'.thread \subseteq Positions
  <2>1. View'.last = View.last /\ View'.thread = View.thread
    BY <1>2 DEF View
  <2> QED
    BY <2>1, HubTypes
<1>9. Whole(g, View')
  BY <1>5, <1>7, <1>8, CalmIsWhole
<1>10. client' = SetMode(g, "tail") /\ (Running(g) => ~g.tail.stale)
  BY <1>1, <1>2, <1>4, <1>5, <1>6, <1>7 DEF Running
<1>11. PICK e \in ClientType : Calm(g, e) /\ Sound(e) /\ Moves(e, client')
  BY <1>1, <1>7, <1>10, ModeMoves
<1>12. Whole(e, View')
  BY <1>7, <1>8, <1>9, <1>11, CalmIsWhole
<1> QED
  BY <1>3, <1>8, <1>11, <1>12, MoveIsWhole DEF Sound

LEMMA ConnectFills ==
  ASSUME IInv, Whole(client, View), Connect
  PROVE  Whole(client, View)'
<1>1. UNCHANGED <<client, epoch, thread, last>> /\ live' = TRUE /\ events' = <<[kind |-> "connected", at |-> 0]>>
  BY DEF Connect, serverVars
<1>2. OnStream("connected")' # {}
  <2>1. PICK s : s = <<[kind |-> "connected", at |-> 0]>>
    OBVIOUS
  <2>2. 1 \in {j \in DOMAIN s : s[j].kind = "connected"}
    BY <2>1
  <2>3. s[1].at \in {s[i].at : i \in {j \in DOMAIN s : s[j].kind = "connected"}}
    BY <2>2
  <2>4. OnStream("connected")' = {s[i].at : i \in {j \in DOMAIN s : s[j].kind = "connected"}}
    BY <1>1, <2>1 DEF OnStream
  <2> QED
    BY <2>3, <2>4
<1>3. /\ View'.thread = View.thread /\ View'.epoch = View.epoch /\ View'.last = View.last /\ View'.lost
  BY <1>1, <1>2 DEF View
<1>4. \A x \in View'.thread : Announced(client', View', x)
  BY <1>3 DEF Announced
<1> QED
  BY <1>1, <1>3, <1>4, HearsIsWhole

\* A message that is stored now is beyond everything, and is announced.
LEMMA StoredIsWhole ==
  ASSUME NEW c \in ClientType, NEW g, NEW h, NEW n \in Nat, g.last \in Nat, g.last < n, h.last = n,
         h.thread = g.thread \cup {n}, h.epoch = g.epoch, g.told \subseteq h.told, h.lost = g.lost,
         Announced(c, h, n), Whole(c, g)
  PROVE  Whole(c, h)
<1>1. /\ c.win.msgs \in SUBSET Nat /\ c.win.oldest \in Nat /\ c.win.newest \in Nat
      /\ Running(c) => /\ c.tail.baseline \in SUBSET Nat /\ c.tail.after \in Nat /\ c.tail.until \in Nat
                       /\ c.tail.page.rows \in SUBSET Nat /\ c.tail.page.head \in Nat /\ c.tail.page.next \in Nat
      /\ Loading(c) => /\ c.older.before \in Nat /\ c.older.page.rows \in SUBSET Nat /\ c.older.page.next \in Nat
  BY Requests, BoundsAssumption DEF WindowType, TailType, OlderType, PageType, Cursor, Positions
<1>2. \A y \in Nat : y <= g.last => y <= h.last
  OBVIOUS
<1>3. (\A y \in c.win.msgs : y <= g.last) /\ c.win.oldest <= g.last /\ (~c.win.reset => c.win.newest <= g.last)
  BY DEF Whole, Bounded
<1>4. AnsweredTail(c) => Running(c) /\ c.tail.page.head < n /\ c.tail.page.next < n
  <2>1. AnsweredTail(c) => Running(c) /\ c.tail.page.head <= g.last /\ c.tail.page.next <= g.last
    BY DEF Whole, Bounded, AnsweredTail
  <2> QED
    BY <1>1, <2>1
<1>5. AnsweredOlder(c) => Loading(c) /\ c.older.before - 1 < n
  <2>1. AnsweredOlder(c) => Loading(c) /\ c.older.before # 0 /\ c.older.before <= g.last
    BY DEF Whole, Bounded, AnsweredOlder
  <2> QED
    BY <1>1, <2>1
<1>6. Bounded(c, h)
  <2>1. (\A y \in c.win.msgs : y <= h.last) /\ c.win.oldest <= h.last /\ (~c.win.reset => c.win.newest <= h.last)
    BY <1>1, <1>2, <1>3
  <2>2. Running(c) =>
          (\A y \in c.tail.baseline : y <= h.last) /\ c.tail.after <= h.last /\ c.tail.until <= h.last
    BY <1>1, <1>2 DEF Whole, Bounded
  <2>3. AnsweredTail(c) =>
          /\ \A y \in c.tail.page.rows : y <= h.last
          /\ c.tail.page.head <= h.last /\ c.tail.page.next <= h.last
    BY <1>1, <1>2, <1>4 DEF Whole, Bounded
  <2>4. Loading(c) => c.older.before # 0 /\ c.older.before <= h.last
    BY <1>1, <1>2 DEF Whole, Bounded
  <2>5. AnsweredOlder(c) => (\A y \in c.older.page.rows : y <= h.last) /\ c.older.page.next <= h.last
    BY <1>1, <1>2, <1>5 DEF Whole, Bounded
  <2> QED
    BY <2>1, <2>2, <2>3, <2>4, <2>5 DEF Bounded
<1>7. Paged(c, h)
  <2>1. AnsweredTail(c) /\ c.tail.page.direction = "latest" /\ c.tail.page.epoch = h.epoch =>
          Brings(c.tail.page, c.tail.page.head, h.thread)
    <3>1. AnsweredTail(c) => ~(n <= c.tail.page.head)
      BY <1>1, <1>4
    <3> QED
      BY <3>1 DEF Whole, Paged, Brings
  <2>2. AnsweredTail(c) /\ c.tail.page.direction # "latest" /\ c.tail.page.epoch = h.epoch =>
          \A x \in h.thread : c.tail.after < x /\ x <= c.tail.page.next => x \in c.tail.page.rows
    <3>1. AnsweredTail(c) => ~(n <= c.tail.page.next)
      BY <1>1, <1>4
    <3> QED
      BY <3>1 DEF Whole, Paged
  <2>3. AnsweredOlder(c) /\ c.older.page.epoch = h.epoch => Brings(c.older.page, c.older.before - 1, h.thread)
    <3>1. AnsweredOlder(c) => ~(n <= c.older.before - 1)
      <4>1. AnsweredOlder(c) => c.older.before - 1 < n /\ c.older.before - 1 \in Int
        BY <1>1, <1>5
      <4> QED
        BY <4>1
    <3> QED
      BY <3>1 DEF Whole, Paged, Brings
  <2>4. AnsweredTail(c) =>
          IF c.tail.page.direction = "latest" THEN Lists(c.tail.page, c.tail.page.head)
          ELSE c.tail.page.next >= c.tail.after /\ \A y \in c.tail.page.rows : c.tail.after < y
    BY DEF Whole, Paged
  <2>5. AnsweredOlder(c) => Lists(c.older.page, c.older.before - 1)
    BY DEF Whole, Paged
  <2> QED
    BY <2>1, <2>2, <2>3, <2>4, <2>5 DEF Paged
<1>8. \A x : Announced(c, g, x) => Announced(c, h, x)
  BY DEF Announced
<1>9. Gapless(c, h)
  <2> SUFFICES ASSUME ~c.gap, ~Due(c.win), c.win.epoch \in {0, h.epoch}, NEW x \in h.thread
               PROVE  Kept(c, h, x)
    BY DEF Gapless
  <2>1. CASE x = n
    <3>1. c.win.newest < n
      <4>1. ~c.win.reset
        BY DEF Due
      <4> QED
        BY <1>1, <1>3, <4>1
    <3> QED
      BY <2>1, <3>1 DEF Kept
  <2>2. CASE x # n
    <3>1. Kept(c, g, x)
      BY <2>2 DEF Whole, Gapless
    <3> QED
      BY <1>8, <3>1 DEF Kept, Fetched
  <2> QED
    BY <2>1, <2>2
<1>10. Followable(c, h)
  <2> SUFFICES ASSUME Current(c, h), NEW x \in h.thread, c.tail.page.head < x
               PROVE  Survives(c, h, x)
    BY DEF Followable
  <2>1. Current(c, g) /\ Running(c)
    BY DEF Current, AnsweredTail
  <2>2. CASE x = n
    <3>1. \A y \in c.tail.baseline : y < n
      <4>1. \A y \in c.tail.baseline : y <= g.last /\ y \in Nat
        BY <1>1, <2>1 DEF Whole, Bounded
      <4> QED
        BY <4>1
    <3>2. \A y \in c.win.msgs : y < n
      <4>1. \A y \in c.win.msgs : y <= g.last /\ y \in Nat
        BY <1>1, <1>3
      <4> QED
        BY <4>1
    <3> QED
      BY <2>2, <3>1, <3>2 DEF Survives
  <2>3. CASE x # n
    <3>1. Survives(c, g, x)
      BY <2>1, <2>3 DEF Whole, Followable
    <3> QED
      BY <1>8, <3>1 DEF Survives
  <2> QED
    BY <2>2, <2>3
<1>11. Based(c)
  BY DEF Whole
<1> QED
  BY <1>6, <1>7, <1>9, <1>10, <1>11 DEF Whole

LEMMA StoreFills ==
  ASSUME IInv, Whole(client, View), Store
  PROVE  Whole(client, View)'
<1>1. PICK n \in Nat : n = last + 1
  BY DEF IInv, TypeOK
<1>2. PICK e \in EventType : e = [kind |-> "message", at |-> n]
  <2>1. last + 1 \in Positions
    BY BoundsAssumption DEF IInv, TypeOK, Store, Positions
  <2> QED
    BY <1>1, <2>1 DEF EventType
<1>3. Emit(e) /\ thread' = thread \cup {n} /\ last' = n /\ UNCHANGED <<client, live, epoch>>
  BY <1>1, <1>2 DEF Store
<1>4. live => OnStream("message")' = OnStream("message") \cup {n} /\ OnStream("connected")' = OnStream("connected")
  <2>1. e.kind = "message" /\ e.at = n /\ e.kind # "connected"
    BY <1>2
  <2>2. live => OnStream("message")' = OnStream("message") \cup {n}
    <3>1. live => OnStream("message")' = OnStream("message") \cup (IF e.kind = "message" THEN {e.at} ELSE {})
      BY <1>3, Appends
    <3> QED
      BY <2>1, <3>1
  <2>3. live => OnStream("connected")' = OnStream("connected")
    BY <1>3, <2>1, Appends
  <2> QED
    BY <2>2, <2>3
<1>5. ~live => OnStream("message")' = OnStream("message")
  <2> SUFFICES ASSUME ~live
               PROVE  OnStream("message")' = OnStream("message")
    OBVIOUS
  <2>1. events' = events
    BY <1>2, <1>3, Appends
  <2> QED
    BY <2>1 DEF OnStream
<1>6. PICK g : g = View
  OBVIOUS
<1>7. PICK h : h = View'
  OBVIOUS
<1>8. /\ h.thread = g.thread \cup {n} /\ h.epoch = g.epoch /\ h.last = n /\ g.last = last
      /\ g.told \subseteq h.told
  BY <1>3, <1>4, <1>5, <1>6, <1>7 DEF View
<1>9. h.lost = g.lost
  <2>1. CASE live
    BY <1>3, <1>4, <1>6, <1>7, <2>1 DEF View
  <2>2. CASE ~live
    BY <1>3, <1>6, <1>7, <2>2 DEF View
  <2> QED
    BY <2>1, <2>2
<1>10. Announced(client, h, n)
  <2>1. CASE live
    BY <1>4, <1>7, <2>1 DEF View, Announced
  <2>2. CASE ~live
    BY <1>3, <1>7, <2>2 DEF View, Announced
  <2> QED
    BY <2>1, <2>2
<1>11. client \in ClientType /\ last \in Nat /\ last < n
  BY <1>1 DEF IInv, TypeOK
<1>12. Whole(client, h)
  BY <1>6, <1>8, <1>9, <1>10, <1>11, StoredIsWhole
<1> QED
  BY <1>3, <1>7, <1>12

\* A rewind leaves no cursors of its epoch.
LEMMA RewindIsWhole ==
  ASSUME epoch \in Nat, NEW c \in ClientType, NEW d, d.win = c.win, d.tail = c.tail, d.older = c.older,
         c.gap => d.gap, Anchored(c), Steady(c),
         NEW g, NEW h, g.epoch = epoch, h.epoch = epoch + 1, h.thread \subseteq g.thread, h.last = g.last,
         \A x \in h.thread : Announced(c, g, x) => Announced(d, h, x),
         Whole(c, g)
  PROVE  Whole(d, h)
<1>1. /\ Running(d) = Running(c) /\ Loading(d) = Loading(c)
      /\ AnsweredTail(d) = AnsweredTail(c) /\ AnsweredOlder(d) = AnsweredOlder(c)
  BY DEF Running, Loading, AnsweredTail, AnsweredOlder
<1>2. /\ c.win.epoch # h.epoch
      /\ AnsweredTail(c) => c.tail.page.epoch # h.epoch
      /\ AnsweredOlder(c) => c.older.page.epoch # h.epoch
  <2>1. \A e \in Epoch : e # h.epoch
    BY DEF Epoch
  <2> QED
    BY <2>1, Requests DEF AnsweredTail, AnsweredOlder, WindowType, TailType, OlderType, PageType
<1>3. Bounded(d, h)
  BY <1>1 DEF Whole, Bounded
<1>4. Paged(d, h) /\ Followable(d, h)
  BY <1>1, <1>2 DEF Whole, Paged, Followable, Current
<1>5. Based(d)
  BY <1>1 DEF Whole, Based
<1>6. Gapless(d, h)
  <2> SUFFICES ASSUME ~d.gap, ~Due(d.win), d.win.epoch \in {0, h.epoch}, NEW x \in h.thread
               PROVE  Kept(d, h, x)
    BY DEF Gapless
  <2>1. c.win.epoch = 0 /\ ~c.win.reset /\ c.win.newest = 0
    BY <1>2 DEF Due, Anchored
  <2>2. Kept(c, g, x)
    BY <2>1 DEF Whole, Gapless
  <2>3. Running(c) => c.tail.after = 0
    <3> SUFFICES ASSUME Running(c), c.tail.after # 0
                 PROVE  FALSE
      OBVIOUS
    <3>1. c.win.newest >= c.tail.after
      BY <2>1 DEF Steady
    <3>2. c.tail.after \in Nat
      BY Requests, BoundsAssumption DEF TailType, Cursor
    <3> QED
      BY <2>1, <3>1, <3>2
  <2>4. Fetched(c, g, x) => Fetched(d, h, x)
    BY <1>1, <2>3 DEF Fetched
  <2> QED
    BY <2>2, <2>4 DEF Kept
<1> QED
  BY <1>3, <1>4, <1>5, <1>6 DEF Whole

LEMMA RewindFills ==
  ASSUME IInv, Genuine(client, View), Whole(client, View), NEW x \in thread, Rewind(x)
  PROVE  Whole(client, View)'
<1>1. PICK e \in EventType : e = [kind |-> "rewind", at |-> x]
  <2>1. x \in Positions
    BY BoundsAssumption DEF IInv, TypeOK, Positions
  <2> QED
    BY <2>1 DEF EventType
<1>2. /\ Emit(e) /\ thread' = {y \in thread : y < x} /\ epoch' = epoch + 1 /\ live' = live /\ last' = last
      /\ client' = IF live THEN client ELSE RewindLost(client)
  BY <1>1 DEF Rewind
<1>3. epoch \in Nat /\ client \in ClientType /\ Anchored(client) /\ Steady(client)
  BY DEF IInv, TypeOK, Sound, Genuine
<1>4. /\ client'.win = client.win /\ client'.tail = client.tail /\ client'.older = client.older
      /\ (client.gap => client'.gap) /\ client'.owed = client.owed
  <2>1. CASE live
    BY <1>2, <2>1
  <2>2. CASE ~live
    <3>1. PICK gap \in BOOLEAN : gap = (client.gap \/ Unreplaced(client) # {})
      OBVIOUS
    <3>2. client' = [client EXCEPT !.gap = gap]
      BY <1>2, <1>3, <2>2, <3>1 DEF RewindLost, ClientType
    <3> QED
      BY <1>3, <3>1, <3>2 DEF ClientType
  <2> QED
    BY <2>1, <2>2
<1>5. live => OnStream("message")' = OnStream("message") /\ OnStream("connected")' = OnStream("connected")
  <2>1. e.kind # "message" /\ e.kind # "connected"
    BY <1>1
  <2> QED
    BY <1>2, <2>1, Appends
<1>6. PICK g : g = View
  OBVIOUS
<1>7. PICK h : h = View'
  OBVIOUS
<1>8. g.epoch = epoch /\ h.epoch = epoch + 1 /\ h.thread \subseteq g.thread /\ h.last = g.last
  BY <1>2, <1>6, <1>7 DEF View
<1>9. \A y \in h.thread : Announced(client, g, y) => Announced(client', h, y)
  <2>1. CASE live
    <3>1. h.told = g.told /\ h.lost = g.lost
      BY <1>2, <1>5, <1>6, <1>7, <2>1 DEF View
    <3> QED
      BY <1>4, <3>1 DEF Announced
  <2>2. CASE ~live
    BY <1>2, <1>7, <2>2 DEF View, Announced
  <2> QED
    BY <2>1, <2>2
<1>10. Whole(client', h)
  BY <1>3, <1>4, <1>6, <1>8, <1>9, RewindIsWhole
<1> QED
  BY <1>7, <1>10

\* A window that was cleared has everything ahead.
LEMMA ClearedIsWhole ==
  ASSUME NEW h, h.last \in Nat, h.thread \subseteq Positions, h.lost
  PROVE  Whole(EmptyClient, h)
<1>1. PICK d : d = EmptyClient
  OBVIOUS
<1>2. /\ d.win.msgs = {} /\ d.win.oldest = 0 /\ d.win.newest = 0 /\ d.tail = NoRequest /\ d.older = NoRequest
  BY <1>1 DEF EmptyClient, EmptyWindow
<1>3. Joins(d.win)
  BY <1>2 DEF Joins, TopOf
<1>4. \A x \in h.thread : d.win.newest < x /\ Announced(d, h, x)
  <2>1. \A x \in h.thread : 0 < x
    BY DEF Positions
  <2> QED
    BY <1>2, <2>1 DEF Announced
<1>5. 0 <= h.last
  OBVIOUS
<1>6. Settled(d, h)
  BY <1>2, <1>3, <1>4, <1>5 DEF Settled
<1> QED
  BY <1>1, <1>2, <1>6, SettledIsWhole

LEMMA HandleFills ==
  ASSUME IInv, IInv', Ordered, Whole(client, View), HandleEvent
  PROVE  Whole(client, View)'
<1>1. PICK e : e = Head(events)
  OBVIOUS
<1>2. /\ UNCHANGED <<thread, epoch, live, last>> /\ epoch \in Nat /\ client \in ClientType /\ Sound(client)
      /\ live /\ client.win \in WindowType
  BY Requests DEF HandleEvent, serverVars, IInv, TypeOK
<1>3. client' \in ClientType
  BY <1>2, SameType DEF IInv, TypeOK
<1>4. PICK g : g = View
  OBVIOUS
<1>5. PICK h : h = View'
  OBVIOUS
<1>6. h.thread = g.thread /\ h.epoch = g.epoch /\ h.last = g.last /\ g.last \in Nat /\ g.thread \subseteq Positions
      /\ g.last = last
  <2>1. h.thread = g.thread /\ h.epoch = g.epoch /\ h.last = g.last /\ g.last = last
    BY <1>2, <1>4, <1>5 DEF View
  <2> QED
    BY <1>4, <2>1, HubTypes
<1>7. Whole(client, g)
  BY <1>4
<1>8. CASE e.kind = "connected" /\ client' = Connected(client)
  <2>1. PICK d : d = [client EXCEPT !.owed = TRUE]
    OBVIOUS
  <2>2. d \in ClientType /\ d.win = client.win /\ d.tail = client.tail /\ d.older = client.older
        /\ d.gap = client.gap /\ d.owed
    BY <1>2, <2>1 DEF ClientType
  <2>3. \A x \in h.thread : Announced(d, h, x)
    BY <2>2 DEF Announced
  <2>4. Whole(d, h)
    BY <1>6, <1>7, <2>2, <2>3, HearsIsWhole
  <2>5. Sound(d) /\ Running(d) = Running(client) /\ Loading(d) = Loading(client)
    BY <1>2, <2>1, <2>2 DEF Sound, Bound, Anchored, Locks, Followed, Running, Loading, ClientType
  <2>6. client' = Sync(d, TRUE)
    BY <1>8, <2>1 DEF Connected
  <2>7. Moves(d, client')
    BY <1>2, <2>2, <2>5, <2>6, SyncMoves DEF Sound, Locks
  <2>8. Whole(client', h)
    BY <1>3, <1>6, <2>2, <2>4, <2>5, <2>7, MoveIsWhole DEF Sound
  <2> QED
    BY <1>5, <2>8
<1>9. CASE e.kind = "message" /\ client' = Ingest(client, e.at)
  <2>1. /\ OnStream("message") = OnStream("message")' \cup {e.at} /\ OnStream("connected") = {}
        /\ \A y \in OnStream("message")' : e.at < y
        /\ e.at <= last /\ e.at \in Positions
    BY <1>1, <1>9, Pops
  <2>2. g.told = h.told \cup {e.at} /\ ~g.lost /\ \A y \in h.told : e.at < y
    BY <1>2, <1>4, <1>5, <2>1 DEF View
  <2>3. PICK x \in Positions : x = e.at
    BY <2>1
  <2>4. Whole(client', h)
    BY <1>2, <1>3, <1>6, <1>7, <1>9, <2>1, <2>2, <2>3, IngestIsWhole
  <2> QED
    BY <1>5, <2>4
<1>10. CASE e.kind = "rewind" /\ client' = Invalidated(client, e.at)
  <2>1. PICK d : d = IF e.at \in client.win.msgs THEN Rewound(client, e.at) ELSE Cleared(client)
    OBVIOUS
  <2>2. PICK k : k = [g EXCEPT !.lost = TRUE]
    OBVIOUS
  <2>3. k.thread = g.thread /\ k.epoch = g.epoch /\ k.last = g.last /\ k.lost
    BY <1>4, <2>2 DEF View
  <2>4. d \in ClientType /\ ~Running(d) /\ Bound(d) /\ Anchored(d) /\ Whole(d, k)
    <3>1. CASE e.at \in client.win.msgs
      <4>1. d \in ClientType /\ ~Running(d) /\ d.win.reset /\ d.win.provisional = client.win.provisional
            /\ d.win.boundary = client.win.boundary
        BY <1>2, <2>1, <3>1, Restarts
      <4>2. PICK msgs : msgs = {y \in client.win.msgs : y < e.at}
        OBVIOUS
      <4>3. PICK w : w = [client.win EXCEPT !.msgs = msgs, !.epoch = 0, !.oldest = 0, !.newest = 0,
                                 !.reset = TRUE, !.prefer = FALSE, !.syncing = TRUE]
        OBVIOUS
      <4>4. d = [EmptyClient EXCEPT !.win = w]
        BY <2>1, <3>1, <4>2, <4>3 DEF Rewound
      <4>5. d.win = w /\ d.tail = NoRequest /\ d.older = NoRequest
        BY <4>4 DEF EmptyClient
      <4>6. w.msgs = msgs /\ w.oldest = 0 /\ w.reset
        BY <1>2, <4>3 DEF WindowType
      <4>7. \A y \in w.msgs : y <= k.last
        BY <1>7, <2>3, <4>2, <4>6 DEF Whole, Bounded
      <4>8. 0 <= k.last
        BY <1>6, <2>3
      <4>9. Settled(d, k)
        BY <4>5, <4>6, <4>7, <4>8 DEF Settled, Due
      <4>10. Whole(d, k)
        BY <4>5, <4>9, SettledIsWhole
      <4> QED
        BY <1>2, <4>1, <4>10 DEF Sound, Bound, Anchored
    <3>2. CASE e.at \notin client.win.msgs
      <4>1. d = EmptyClient
        BY <2>1, <3>2 DEF Cleared
      <4>2. Whole(EmptyClient, k)
        BY <1>6, <2>3, ClearedIsWhole
      <4> QED
        BY <1>2, <4>1, <4>2, Empties DEF Sound
    <3> QED
      BY <3>1, <3>2
  <2>5. client' = StartTail(d)
    BY <1>10, <2>1, <2>4 DEF Invalidated, Sync
  <2>6. \E b \in ClientType : Calm(d, b) /\ Started(b, client')
    BY <1>2, <2>4, <2>5, CalmStarts
  <2>7. Whole(client', h)
    BY <1>3, <1>6, <2>3, <2>4, <2>6, RestartIsWhole
  <2> QED
    BY <1>5, <2>7
<1>11. \/ e.kind = "connected" /\ client' = Connected(client)
       \/ e.kind = "message" /\ client' = Ingest(client, e.at)
       \/ e.kind = "rewind" /\ client' = Invalidated(client, e.at)
  BY <1>1 DEF HandleEvent
<1> QED
  BY <1>8, <1>9, <1>10, <1>11

\* Where a window that was thinned begins.
LEMMA ThinnedBegins ==
  ASSUME NEW w \in WindowType, NEW v \in WindowType, Thinned(w, v)
  PROVE  v.oldest = w.oldest \/ v.oldest \in v.msgs
<1>1. w.msgs \in SUBSET Positions /\ v.msgs \in SUBSET Positions /\ Visible \in Nat \ {0}
  BY SizesAssumption DEF WindowType
<1>2. CASE v.msgs = TopOf(w.msgs, Visible) /\ v.msgs # w.msgs /\ v.oldest = Min(v.msgs)
  <2>1. v.msgs # {}
    BY <1>2 DEF Thinned, TopOf
  <2> QED
    BY <1>1, <1>2, <2>1, Ends
<1> QED
  BY <1>2 DEF Thinned, Topped

LEMMA ApplyOlderFills ==
  ASSUME IInv, IInv', Genuine(client, View), Whole(client, View), NEW open \in BOOLEAN, ApplyOlder(open)
  PROVE  Whole(client, View)'
<1>1. client \in ClientType /\ Sound(client) /\ client.win \in WindowType
  BY Requests DEF IInv, TypeOK
<1>2. UNCHANGED <<thread, epoch, last, live, events>>
  BY Zenon DEF ApplyOlder, ClientStep, serverVars
<1>3. PICK o : o = client.older
  OBVIOUS
<1>4. PICK plain : plain = [client.win EXCEPT !.msgs = @ \cup o.page.rows]
  OBVIOUS
<1>5. /\ AnsweredOlder(client) /\ ~Running(client) /\ o \in OlderType /\ (o.epoch = 0 \/ o.page.epoch = o.epoch)
      /\ plain \in WindowType /\ plain.msgs = client.win.msgs \cup o.page.rows /\ plain.reset = client.win.reset
      /\ plain.newest = client.win.newest /\ plain.oldest = client.win.oldest
      /\ client'.older = NoRequest /\ client'.tail = NoRequest /\ client'.owed = client.owed
  BY <1>3, <1>4, OlderOutcome
<1>6. PICK merged \in WindowType, trimmed \in WindowType :
              /\ Thinned(plain, merged) /\ (merged = plain \/ merged.reset) /\ Thinned(merged, trimmed)
              /\ trimmed = merged \/ trimmed.msgs # merged.msgs
              /\ trimmed.prefer = client.win.prefer
              /\ client'.gap = (client.gap \/ (trimmed # merged /\ ~o.page.hasMore) \/ client.win.oldest # o.before)
              /\ client'.win.msgs = trimmed.msgs /\ client'.win.reset = trimmed.reset
              /\ client'.win.newest = trimmed.newest /\ client'.win.prefer = trimmed.prefer
              /\ client'.win.epoch = o.page.epoch /\ client'.win.hasMore = o.page.hasMore
              /\ client'.win.oldest = IF trimmed # merged THEN trimmed.oldest ELSE o.page.next
  BY <1>3, <1>4, OlderOutcome
<1>7. PICK v \in WindowType : v = client'.win
  <2>1. client' \in ClientType
    BY <1>2, SameType DEF IInv, TypeOK
  <2> QED
    BY <2>1, Requests
<1>8. PICK h : h = View
  OBVIOUS
<1>9. PICK page \in PageType : page = o.page
  BY <1>5 DEF OlderType
<1>10. /\ client.win.msgs \in SUBSET Positions /\ page.rows \in SUBSET Positions /\ Positions \subseteq Nat
       /\ client.win.oldest \in Nat /\ page.next \in Nat /\ o.before \in Nat /\ h.last \in Nat
       /\ h.thread \subseteq Positions
  BY <1>1, <1>5, <1>8, HubTypes, BoundsAssumption DEF WindowType, PageType, OlderType, Cursor, Positions
<1>11. Loading(client) /\ (client.win.reset \/ o.epoch = client.win.epoch)
  BY <1>3, <1>5 DEF AnsweredOlder, Genuine, Steady
<1>12. /\ \A y \in client.win.msgs : y <= h.last
       /\ \A y \in page.rows : y <= h.last
       /\ page.next <= h.last /\ o.before # 0
       /\ client.win.oldest <= h.last /\ (~client.win.reset => client.win.newest <= h.last)
  BY <1>3, <1>5, <1>8, <1>9, <1>11 DEF Whole, Bounded
<1>13. v.msgs \subseteq client.win.msgs \cup page.rows /\ (~v.reset => v.newest = client.win.newest /\ ~client.win.reset)
  BY <1>5, <1>6, <1>7, <1>9 DEF Thinned
<1>14. (\A y \in v.msgs : y <= h.last) /\ (~v.reset => v.newest <= h.last)
  BY <1>12, <1>13
<1>15. v.oldest <= h.last
  <2>1. CASE trimmed = merged
    BY <1>6, <1>7, <1>9, <1>12, <2>1
  <2>2. CASE trimmed # merged
    <3>1. trimmed.oldest = merged.oldest \/ trimmed.oldest \in trimmed.msgs
      BY <1>6, ThinnedBegins
    <3>2. merged.oldest = plain.oldest \/ merged.oldest \in merged.msgs
      BY <1>5, <1>6, ThinnedBegins
    <3>3. \A y \in merged.msgs : y <= h.last
      BY <1>5, <1>6, <1>9, <1>12 DEF Thinned
    <3>4. v.oldest = trimmed.oldest /\ trimmed.msgs = v.msgs
      BY <1>6, <1>7, <2>2
    <3> QED
      BY <1>5, <1>12, <1>14, <3>1, <3>2, <3>3, <3>4
  <2> QED
    BY <2>1, <2>2
<1>16. ASSUME ~client'.gap, ~Due(v)
       PROVE  /\ Joins(v)
              /\ v.newest # 0 => Reaches(v, v.newest)
              /\ v.epoch \in {0, h.epoch} =>
                   \A x \in h.thread :
                     x \in v.msgs \/ (v.hasMore /\ x < v.oldest) \/ (v.newest < x /\ Announced(client', h, x))
  <2>1. /\ ~client.gap /\ client.win.oldest = o.before /\ (trimmed # merged => page.hasMore)
    BY <1>6, <1>9, <1>16
  <2>2. ~trimmed.reset /\ ~merged.reset /\ merged = plain /\ ~Due(client.win) /\ v.newest = client.win.newest
    BY <1>5, <1>6, <1>7, <1>16 DEF Due, Thinned
  <2>3. Joins(client.win) /\ (client.win.newest # 0 => Reaches(client.win, client.win.newest))
    BY <2>1, <2>2 DEF Whole, Based
  <2>4. Lists(page, o.before - 1)
    BY <1>3, <1>5, <1>9 DEF Whole, Paged
  <2>5. PICK u : u = [plain EXCEPT !.oldest = page.next, !.hasMore = page.hasMore]
    OBVIOUS
  <2>6. u \in WindowType /\ u.msgs = client.win.msgs \cup page.rows /\ u.oldest = page.next /\ u.hasMore = page.hasMore
        /\ u.reset = plain.reset
    BY <1>5, <1>9, <2>5 DEF WindowType, PageType
  <2>7. u.oldest <= client.win.oldest
    <3>1. CASE page.rows = {}
      BY <1>10, <2>4, <2>6, <3>1 DEF Lists
    <3>2. CASE page.rows # {}
      <4>1. PICK y \in page.rows : page.next <= y /\ y <= o.before - 1
        BY <2>4, <3>2 DEF Lists
      <4>2. y \in Nat
        BY <1>10
      <4>3. page.next <= o.before
        BY <1>10, <4>1, <4>2
      <4> QED
        BY <2>1, <2>6, <4>3
    <3> QED
      BY <3>1, <3>2
  <2>8. \A y \in page.rows : u.oldest <= y
    BY <2>4, <2>6 DEF Lists
  <2>9. Joins(u) /\ \A n \in Nat : Reaches(client.win, n) => Reaches(u, n)
    BY <1>1, <1>10, <2>3, <2>6, <2>7, <2>8, BelowKeeps
  <2>10. Topped(u, v)
    <3>1. v.reset = u.reset
      <4>1. ~v.reset /\ v.reset \in BOOLEAN
        BY <1>7, <1>16 DEF Due, WindowType
      <4>2. ~u.reset /\ u.reset \in BOOLEAN
        BY <1>5, <2>2, <2>6 DEF Due, WindowType
      <4> QED
        BY <4>1, <4>2
    <3>2. CASE trimmed = merged
      <4>1. v.msgs = u.msgs /\ v.hasMore = u.hasMore /\ v.oldest = u.oldest
        BY <1>5, <1>6, <1>7, <1>9, <2>2, <2>6, <3>2
      <4> QED
        BY <3>1, <4>1 DEF Topped
    <3>3. CASE trimmed # merged
      <4>1. /\ trimmed.msgs = TopOf(plain.msgs, Visible) /\ trimmed.msgs # plain.msgs
            /\ trimmed.oldest = Min(trimmed.msgs)
        BY <1>6, <2>2, <3>3 DEF Thinned, Topped
      <4>2. v.msgs = trimmed.msgs /\ v.hasMore /\ v.oldest = trimmed.oldest
        BY <1>6, <1>7, <1>9, <2>1, <3>3
      <4> QED
        BY <1>5, <1>9, <2>6, <3>1, <4>1, <4>2 DEF Topped
    <3> QED
      BY <3>2, <3>3
  <2>11. /\ Joins(v)
         /\ \A x \in Nat : u.hasMore /\ x < u.oldest => v.hasMore /\ x < v.oldest
         /\ \A x \in u.msgs : x \in v.msgs \/ (v.hasMore /\ x < v.oldest)
         /\ \A n \in Nat : Reaches(u, n) => Reaches(v, n)
    BY <1>7, <2>6, <2>9, <2>10, ToppedKeeps
  <2>12. v.newest # 0 => Reaches(v, v.newest)
    <3>1. v.newest \in Nat
      BY <1>7, BoundsAssumption DEF WindowType, Cursor
    <3> QED
      BY <2>2, <2>3, <2>9, <2>11, <3>1
  <2>13. ASSUME v.epoch \in {0, h.epoch}, NEW x \in h.thread
         PROVE  x \in v.msgs \/ (v.hasMore /\ x < v.oldest) \/ (v.newest < x /\ Announced(client', h, x))
    <3>1. page.epoch = h.epoch /\ client.win.epoch \in {0, h.epoch}
      <4>1. page.epoch # 0
        BY <1>1, <1>3, <1>5, <1>9, <1>11 DEF Sound, Locks, AnsweredOlder
      <4>2. page.epoch = h.epoch
        BY <1>6, <1>7, <1>9, <2>13, <4>1
      <4>3. o.epoch = client.win.epoch
        BY <1>11, <2>2 DEF Due
      <4> QED
        BY <1>5, <1>9, <4>2, <4>3
    <3>2. Kept(client, h, x) /\ x \in Nat
      BY <1>8, <1>10, <2>1, <2>2, <3>1 DEF Whole, Gapless
    <3>3. CASE x \in client.win.msgs
      BY <2>6, <2>11, <3>3
    <3>4. CASE client.win.hasMore /\ x < client.win.oldest
      <4>1. x <= o.before - 1
        BY <1>10, <2>1, <3>2, <3>4
      <4>2. Brings(page, o.before - 1, h.thread)
        BY <1>3, <1>5, <1>8, <1>9, <3>1 DEF Whole, Paged
      <4>3. x \in page.rows \/ (page.hasMore /\ x < page.next)
        BY <4>1, <4>2 DEF Brings
      <4> QED
        BY <2>6, <2>11, <3>2, <4>3
    <3>5. CASE client.win.newest < x /\ Announced(client, h, x)
      BY <1>5, <2>2, <3>5 DEF Announced
    <3> QED
      BY <1>5, <3>2, <3>3, <3>4, <3>5 DEF Kept, Fetched
  <2> QED
    BY <2>11, <2>12, <2>13
<1>17. Settled(client', h)
  BY <1>7, <1>14, <1>15, <1>16 DEF Settled
<1>18. Whole(client', h)
  BY <1>5, <1>17, SettledIsWhole
<1> QED
  BY <1>2, <1>8, <1>18, ViewStays

LEMMA WholeSteps ==
  ASSUME IInv, IInv', Ordered, Genuine(client, View), Whole(client, View), [Next]_vars
  PROVE  Whole(client, View)'
<1>1. CASE UNCHANGED vars
  <2>1. UNCHANGED <<thread, epoch, last, live, events, client>>
    BY <1>1 DEF vars, serverVars
  <2> QED
    BY <2>1, ViewStays
<1> QED
  BY <1>1, StoreFills, RewindFills, ConnectFills, CutFills, HandleFills, ServeTailFills, ApplyTailFills,
     FailTailFills, EnterFills, MountedFills, LeaveFills, SetViewFills, LoadOlderFills, ServeOlderFills,
     OlderResetFills, ApplyOlderFills, DropOlderFills, CancelOlderFills DEF Next

LEMMA WholeStarts ==
  ASSUME Init
  PROVE  Whole(client, View)
<1>1. IInv /\ client = EmptyClient
  BY Starting DEF Init
<1>2. View.lost
  BY DEF Init, View
<1> QED
  BY <1>1, <1>2, HubTypes, ClearedIsWhole

\* Every message of the thread is shown, or some cursor or event will still bring it.
THEOREM NoHoleCursors == Spec => []NoHole
<1>1. Init => IInv /\ Ordered /\ Genuine(client, View) /\ Whole(client, View)
  BY Starting, StreamStarts, GenuineStarts, WholeStarts
<1>2. IInv /\ Ordered /\ Genuine(client, View) /\ Whole(client, View) /\ [Next]_vars =>
        (IInv /\ Ordered /\ Genuine(client, View) /\ Whole(client, View))'
  BY Stepping, StreamSteps, GenuineSteps, WholeSteps
<1>3. Whole(client, View) => NoHole
  <2> SUFFICES ASSUME Whole(client, View), Trusted, ~client.gap, NEW x \in thread
               PROVE  Within(x)
    BY DEF NoHole
  <2>1. View.epoch = epoch /\ View.thread = thread /\ View.told = OnStream("message")
        /\ View.lost = (~live \/ OnStream("connected") # {})
    BY DEF View
  <2>2. Kept(client, View, x)
    BY <2>1 DEF Whole, Gapless, Trusted, Due
  <2>3. Fetched(client, View, x) => InLoop(x)
    BY <2>1 DEF Fetched, InLoop
  <2>4. client.win.newest < x => x > client.win.newest
    OBVIOUS
  <2>5. Announced(client, View, x) => x \in OnStream("message") \/ SyncAhead
    BY <2>1 DEF Announced, SyncAhead
  <2> QED
    BY <2>2, <2>3, <2>4, <2>5 DEF Kept, Within
<1> QED
  BY <1>1, <1>2, <1>3, PTL DEF Spec
=============================================================================
