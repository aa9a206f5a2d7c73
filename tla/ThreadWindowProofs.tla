------------------------- MODULE ThreadWindowProofs -------------------------
(***************************************************************************)
(* Proofs about ThreadWindow: types, the busy flag of the synchronization, *)
(* the boundary of an older page, and what the boundary protects; then     *)
(* what the store's functions do to rows and cursors, and the order of the *)
(* event stream, which ThreadWindowRows rests on.                          *)
(***************************************************************************)
EXTENDS ThreadWindow, FiniteSetTheorems, WellFoundedInduction, TLAPS

---------------------------------------------------------------------------
(* The invariant.                                                          *)

\* A boundary that was installed for a page is there, and the page is on its way unless the window is
\* about to be replaced.
Bound(c) ==
  c.win.provisional => c.win.boundary # 0 /\ ((Loading(c) /\ c.older.provisional) \/ c.win.reset)

\* A newest cursor belongs to an epoch.
Anchored(c) == c.win.newest # 0 /\ ~c.win.reset => c.win.epoch # 0

\* The busy flag says whether a synchronization runs; it runs alone, and ends what was installed before.
Locks(c) ==
  /\ c.win.syncing <=> Running(c)
  /\ Running(c) =>
       /\ ~Loading(c)
       /\ c.tail.prefers => c.win.prefer
       /\ c.win.provisional => c.tail.replace
       /\ c.tail.after # 0 \/ c.tail.replace \/ c.tail.cold
       /\ c.tail.at = "answered" => c.tail.page.epoch # 0
  /\ Loading(c) =>
       /\ c.older.provisional => c.older.install
       /\ c.older.at = "answered" => c.older.page.epoch # 0

\* A synchronization that was superseded is followed by another one.
Followed(c) ==
  Running(c) /\ c.tail.stale =>
    c.win.view = "tail" /\ c.trailing /\ c.win.prefer /\ ~c.tail.prefers
Sound(c) == Bound(c) /\ Anchored(c) /\ Locks(c) /\ Followed(c)

\* It is superseded only while the session is mounted, and older pages are loaded only afterwards.
Mounting ==
  /\ Loading(client) => here = "yes"
  /\ Running(client) /\ client.tail.stale => here = "mounting"
IInv == TypeOK /\ Sound(client) /\ Mounting

---------------------------------------------------------------------------
(* Positions and windows.                                                  *)

\* A nonempty set of positions has a least and a greatest element, and Min and Max are these.
LEMMA Ends ==
  ASSUME NEW S \in SUBSET Positions, S # {}
  PROVE  /\ Min(S) \in S /\ \A y \in S : Min(S) <= y
         /\ Max(S) \in S /\ \A y \in S : y <= Max(S)
<1>1. MaxMessages \in Nat /\ S \subseteq Nat
  BY BoundsAssumption DEF Positions
<1> DEFINE R == {ss \in Nat \X Nat : ss[1] < ss[2]}
<1>2. IsWellFoundedOn(R, Nat)
  BY NatLessThanWellFounded DEF OpToRel
<1>3. \A T \in SUBSET Nat : T # {} => \E x \in T : \A y \in T : x <= y
  <2> SUFFICES ASSUME NEW T \in SUBSET Nat, T # {}
               PROVE  \E x \in T : \A y \in T : x <= y
    OBVIOUS
  <2> HIDE DEF R
  <2>1. PICK x \in T : \A y \in T : <<y, x>> \notin R
    BY <1>2, WFMin
  <2>2. \A y \in T : ~(y < x)
    BY <2>1 DEF R
  <2> QED
    BY <2>2
<1>4. \E x \in S : \A y \in S : x <= y
  BY <1>1, <1>3
<1>5. \E x \in S : \A y \in S : y <= x
  <2> DEFINE T == {MaxMessages - x : x \in S}
  <2>1. T \in SUBSET Nat /\ T # {}
    <3>1. \A x \in S : MaxMessages - x \in Nat
      BY <1>1 DEF Positions
    <3> QED
      BY <3>1
  <2>2. PICK t \in T : \A u \in T : t <= u
    BY <1>3, <2>1
  <2>3. PICK x \in S : t = MaxMessages - x
    BY <2>2
  <2>4. \A y \in S : MaxMessages - x <= MaxMessages - y
    BY <2>2, <2>3
  <2> QED
    BY <1>1, <2>4
<1> QED
  BY <1>1, <1>4, <1>5 DEF Min, Max

\* So cursors are cursors.
LEMMA CursorTypes ==
  ASSUME NEW S \in SUBSET Positions
  PROVE  Largest(S) \in Cursor /\ Smallest(S) \in Cursor /\ (S # {} => Min(S) \in Cursor /\ Max(S) \in Cursor)
<1>1. MaxMessages \in Nat
  BY BoundsAssumption
<1>2. CASE S = {}
  BY <1>1, <1>2 DEF Largest, Smallest, Cursor
<1>3. CASE S # {}
  <2>1. Min(S) \in Positions /\ Max(S) \in Positions
    BY <1>3, Ends
  <2> QED
    BY <1>1, <1>3, <2>1 DEF Largest, Smallest, Cursor, Positions
<1> QED
  BY <1>2, <1>3

\* The higher of two numbers.
LEMMA HigherTypes ==
  ASSUME NEW a \in Nat, NEW b \in Nat
  PROVE  /\ Higher(a, b) \in {a, b} /\ Higher(a, b) >= a /\ Higher(a, b) >= b
BY DEF Higher

\* What the trims and merges leave alone.
Keeps(v, w) ==
  /\ v.view = w.view /\ v.boundary = w.boundary /\ v.provisional = w.provisional
  /\ v.prefer = w.prefer /\ v.syncing = w.syncing /\ v.epoch = w.epoch
  /\ v.reset \/ (v.newest = w.newest /\ v.reset = w.reset)

\* A trim keeps everything but rows and cursors.
LEMMA Trims ==
  ASSUME NEW w \in WindowType, NEW kept \in SUBSET w.msgs
  PROVE  /\ DropOldest(w, kept) \in WindowType /\ Keeps(DropOldest(w, kept), w)
         /\ DropNewest(w, kept) \in WindowType /\ Keeps(DropNewest(w, kept), w)
         /\ DropOldest(w, kept).msgs = kept /\ DropNewest(w, kept).msgs = kept
<1>1. kept \in SUBSET Positions
  BY DEF WindowType
<1>2. Largest(kept) \in Cursor /\ (kept # {} => Min(kept) \in Cursor)
  BY <1>1, CursorTypes
<1>3. DropOldest(w, kept) \in WindowType /\ Keeps(DropOldest(w, kept), w) /\ DropOldest(w, kept).msgs = kept
  BY <1>1, <1>2 DEF DropOldest, WindowType, Keeps
<1>4. DropNewest(w, kept) \in WindowType /\ Keeps(DropNewest(w, kept), w) /\ DropNewest(w, kept).msgs = kept
  BY <1>1, <1>2 DEF DropNewest, WindowType, Keeps
<1> QED
  BY <1>3, <1>4

\* So does a merge.
LEMMA Merges ==
  ASSUME NEW w \in WindowType, NEW incoming \in SUBSET Positions, NEW mode, NEW limit, NEW boundary
  PROVE  Merge(w, incoming, mode, limit, boundary) \in WindowType
         /\ Keeps(Merge(w, incoming, mode, limit, boundary), w)
<1>1. PICK merged : merged = [w EXCEPT !.msgs = @ \cup incoming]
  OBVIOUS
<1>2. merged \in WindowType /\ Keeps(merged, w)
  BY <1>1 DEF WindowType, Keeps
<1>3. \A n : TopOf(merged.msgs, n) \subseteq merged.msgs /\ BottomOf(merged.msgs, n) \subseteq merged.msgs
  BY DEF TopOf, BottomOf
<1>4. \A n : /\ DropOldest(merged, TopOf(merged.msgs, n)) \in WindowType
             /\ Keeps(DropOldest(merged, TopOf(merged.msgs, n)), merged)
             /\ DropNewest(merged, BottomOf(merged.msgs, n)) \in WindowType
             /\ Keeps(DropNewest(merged, BottomOf(merged.msgs, n)), merged)
  BY <1>2, <1>3, Trims
<1>5. \/ Merge(w, incoming, mode, limit, boundary) = merged
      \/ \E n : \/ Merge(w, incoming, mode, limit, boundary) = DropOldest(merged, TopOf(merged.msgs, n))
                \/ Merge(w, incoming, mode, limit, boundary) = DropNewest(merged, BottomOf(merged.msgs, n))
  BY <1>1, Zenon DEF Merge
<1> HIDE DEF Merge
<1>6. \A v : Keeps(v, merged) => Keeps(v, w)
  BY <1>2 DEF Keeps
<1> QED
  BY <1>2, <1>4, <1>5, <1>6

\* A merge in view and a trim of a released window are such.
LEMMA Views ==
  ASSUME NEW w \in WindowType
  PROVE  /\ \A incoming \in SUBSET Positions :
              MergeInView(w, incoming) \in WindowType /\ Keeps(MergeInView(w, incoming), w)
         /\ TrimReleased(w) \in WindowType /\ Keeps(TrimReleased(w), w)
<1>1. \A n : TopOf(w.msgs, n) \subseteq w.msgs /\ BottomOf(w.msgs, n) \subseteq w.msgs
  BY DEF TopOf, BottomOf
<1>2. TrimReleased(w) \in WindowType /\ Keeps(TrimReleased(w), w)
  BY <1>1, Trims DEF TrimReleased
<1>3. ASSUME NEW incoming \in SUBSET Positions
      PROVE  MergeInView(w, incoming) \in WindowType /\ Keeps(MergeInView(w, incoming), w)
  BY Merges DEF MergeInView
<1> QED
  BY <1>2, <1>3

\* An unbound window keeps its type and its other fields.
LEMMA Unbinds ==
  ASSUME NEW w \in WindowType
  PROVE  /\ Unbound(w) \in WindowType /\ Unbound(w).boundary = 0 /\ ~Unbound(w).provisional
         /\ Unbound(w).view = w.view /\ Unbound(w).prefer = w.prefer /\ Unbound(w).reset = w.reset
         /\ Unbound(w).syncing = w.syncing /\ Unbound(w).epoch = w.epoch /\ Unbound(w).newest = w.newest
<1>1. 0 \in Cursor
  BY BoundsAssumption DEF Cursor
<1> QED
  BY <1>1 DEF Unbound, WindowType

---------------------------------------------------------------------------
(* Pages.                                                                  *)

\* A page is a page, and is of the epoch there is.
LEMMA Pages ==
  ASSUME TypeOK, NEW before \in Cursor, NEW limit, NEW reset \in BOOLEAN
  PROVE  /\ LatestPage(before, limit, reset) \in PageType
         /\ LatestPage(before, limit, reset).epoch = epoch /\ epoch # 0
<1>1. thread \in SUBSET Positions /\ epoch \in Epoch /\ epoch # 0
  BY BoundsAssumption DEF TypeOK, Positions, Epoch
<1>2. PICK rows : rows = TopOf({x \in thread : before = 0 \/ x < before}, limit)
  OBVIOUS
<1>3. rows \in SUBSET Positions
  BY <1>1, <1>2 DEF TopOf
<1>4. Smallest(rows) \in Cursor /\ Largest(thread) \in Cursor
  BY <1>1, <1>3, CursorTypes
<1> QED
  BY <1>1, <1>2, <1>3, <1>4 DEF LatestPage, PageType

\* So is a page of a catch-up.
LEMMA CatchUpPages ==
  ASSUME TypeOK, NEW after \in Cursor, NEW until \in Cursor
  PROVE  /\ AfterPage(after, until) \in PageType
         /\ AfterPage(after, until).epoch = epoch /\ epoch # 0
<1>1. thread \in SUBSET Positions /\ epoch \in Epoch /\ epoch # 0
  BY BoundsAssumption DEF TypeOK, Positions, Epoch
<1>2. PICK head : head = IF until # 0 /\ (until < Largest(thread) \/ thread = {}) THEN until
                         ELSE Largest(thread)
  OBVIOUS
<1>3. PICK rows : rows = BottomOf({x \in thread : after < x /\ x <= head}, Page)
  OBVIOUS
<1>4. rows \in SUBSET Positions
  BY <1>1, <1>3 DEF BottomOf
<1>5. head \in Cursor /\ (rows # {} => Max(rows) \in Cursor)
  BY <1>1, <1>2, <1>4, CursorTypes
<1>6. PICK next : next = IF head <= after THEN after ELSE IF rows = {} THEN head ELSE Max(rows)
  OBVIOUS
<1>7. next \in Cursor
  BY <1>5, <1>6
<1>8. AfterPage(after, until) =
        [direction |-> "after", reset |-> FALSE, epoch |-> epoch, rows |-> rows, next |-> next,
         head |-> head, hasMore |-> rows # {} /\ next < head]
  BY <1>2, <1>3, <1>6, Zenon DEF AfterPage
<1> QED
  BY <1>1, <1>4, <1>5, <1>7, <1>8 DEF PageType

\* So is the answer to a synchronization's request.
LEMMA Answers ==
  ASSUME TypeOK, NEW t \in TailType
  PROVE  PageFor(t) \in PageType /\ PageFor(t).epoch # 0
<1>1. t.after \in Cursor /\ t.until \in Cursor /\ 0 \in Cursor
  BY BoundsAssumption DEF TailType, Cursor
<1> QED
  BY <1>1, Pages, CatchUpPages DEF PageFor

---------------------------------------------------------------------------
(* The store's functions.                                                  *)

\* The older page goes with the boundary it installed; the rest stays.
LEMMA GivesUp ==
  ASSUME NEW c \in ClientType, Bound(c), NEW g, g = GiveUpOlder(c)
  PROVE  /\ g \in ClientType /\ Bound(g) /\ (Anchored(c) => Anchored(g))
         /\ g.older = NoRequest /\ g.tail = c.tail /\ g.trailing = c.trailing
         /\ g.win.view = c.win.view /\ g.win.prefer = c.win.prefer /\ g.win.syncing = c.win.syncing
         /\ g.win.provisional => g.win.reset
<1>1. c.win \in WindowType
  BY DEF ClientType
<1>2. PICK u : u = Unbound(c.win)
  OBVIOUS
<1>3. /\ u \in WindowType /\ u.boundary = 0 /\ ~u.provisional
      /\ u.view = c.win.view /\ u.prefer = c.win.prefer /\ u.reset = c.win.reset
      /\ u.syncing = c.win.syncing /\ u.epoch = c.win.epoch /\ u.newest = c.win.newest
  BY <1>1, <1>2, Unbinds
<1>4. PICK r : r = TrimReleased(u)
  OBVIOUS
<1>5. r \in WindowType /\ Keeps(r, u)
  BY <1>3, <1>4, Views
<1>6. g = [c EXCEPT !.older = NoRequest, !.win = IF Loading(c) /\ @.provisional THEN r ELSE @]
  BY <1>2, <1>4, Zenon DEF GiveUpOlder
<1>7. CASE Loading(c) /\ c.win.provisional
  <2>1. g = [c EXCEPT !.older = NoRequest, !.win = r]
    BY <1>6, <1>7
  <2>2. g \in ClientType /\ g.win = r /\ g.older = NoRequest /\ g.tail = c.tail /\ g.trailing = c.trailing
    BY <1>5, <2>1 DEF ClientType
  <2> QED
    BY <1>3, <1>5, <2>2 DEF Keeps, Bound, Anchored
<1>8. CASE ~(Loading(c) /\ c.win.provisional)
  <2>1. g = [c EXCEPT !.older = NoRequest]
    BY <1>6, <1>8 DEF ClientType
  <2>2. g \in ClientType /\ g.win = c.win /\ g.older = NoRequest /\ g.tail = c.tail /\ g.trailing = c.trailing
    BY <2>1 DEF ClientType
  <2> QED
    BY <1>8, <2>2 DEF Bound, Anchored
<1> QED
  BY <1>7, <1>8

\* There is none while a synchronization runs, so what held before holds after.
LEMMA StaysSound ==
  ASSUME NEW c \in ClientType, Sound(c)
  PROVE  Sound(GiveUpOlder(c))
<1>1. PICK g : g = GiveUpOlder(c)
  OBVIOUS
<1>2. /\ g \in ClientType /\ Bound(g) /\ Anchored(g) /\ g.older = NoRequest /\ g.tail = c.tail
      /\ g.win.syncing = c.win.syncing
  BY <1>1, GivesUp DEF Sound
<1>3. CASE Running(c)
  <2>1. ~Loading(c) /\ c.older = NoRequest
    BY <1>3 DEF Sound, Locks, Loading, ClientType, OlderType
  <2>2. g = [c EXCEPT !.older = NoRequest]
    BY <1>1, <2>1 DEF GiveUpOlder, ClientType
  <2>3. g = c
    BY <2>1, <2>2 DEF ClientType
  <2> QED
    BY <1>1, <2>3
<1>4. CASE ~Running(c)
  BY <1>1, <1>2, <1>4 DEF Sound, Locks, Followed, Running, Loading, NoRequest
<1> QED
  BY <1>3, <1>4

\* A synchronization starts from any window whose boundary and cursors are in order.
LEMMA Starts ==
  ASSUME epoch \in Nat, NEW c \in ClientType, Bound(c), Anchored(c), NEW s, s = StartTail(c)
  PROVE  /\ s \in ClientType /\ Sound(s)
         /\ s.older = NoRequest /\ Running(s) /\ ~s.tail.stale /\ s.tail.at = "asked"
         /\ s.win.view = c.win.view
<1>1. PICK b : b = GiveUpOlder(c)
  OBVIOUS
<1>2. /\ b \in ClientType /\ Bound(b) /\ Anchored(b) /\ b.older = NoRequest
      /\ b.win.view = c.win.view /\ (b.win.provisional => b.win.reset)
  BY <1>1, GivesUp
<1>3. PICK w : w = b.win
  OBVIOUS
<1>4. PICK increment : increment = (w.newest # 0 /\ w.epoch # 0 /\ ~w.reset /\ ~w.prefer)
  OBVIOUS
<1>5. PICK cold : cold = (~w.reset /\ ~w.prefer /\ w.newest = 0)
  OBVIOUS
<1>6. PICK t : t = [at |-> "asked", stale |-> FALSE, prefers |-> w.prefer, cold |-> cold,
                    replace |-> w.reset \/ w.prefer, baseline |-> w.msgs,
                    after |-> IF increment THEN w.newest ELSE 0, until |-> 0,
                    epoch |-> w.epoch, limit |-> IF (w.prefer /\ ~w.reset) \/ cold THEN Initial ELSE Page,
                    page |-> NoPage]
  OBVIOUS
<1>7. s = [b EXCEPT !.win.syncing = TRUE, !.owed = FALSE, !.gap = @ /\ ~w.reset /\ ~w.prefer, !.tail = t]
  BY <1>1, <1>3, <1>4, <1>5, <1>6, Zenon DEF StartTail
<1>8. w \in WindowType /\ 0 \in Cursor /\ 0 \in Epoch
  <2>1. 0 \in Cursor
    BY BoundsAssumption DEF Cursor
  <2> QED
    BY <1>2, <1>3, <2>1 DEF ClientType, Epoch
<1>9. NoPage \in PageType
  BY <1>8 DEF NoPage, PageType, Positions
<1>10. t \in TailType
  BY <1>4, <1>5, <1>6, <1>8, <1>9 DEF TailType, WindowType
<1>11. s \in ClientType /\ s.tail = t /\ s.older = NoRequest /\ s.win = [w EXCEPT !.syncing = TRUE]
  <2>1. PICK v : v = [w EXCEPT !.syncing = TRUE]
    OBVIOUS
  <2>2. PICK gap \in BOOLEAN : gap = (b.gap /\ ~w.reset /\ ~w.prefer)
    OBVIOUS
  <2>3. s = [b EXCEPT !.win = v, !.owed = FALSE, !.gap = gap, !.tail = t]
    BY <1>2, <1>3, <1>7, <2>1, <2>2 DEF ClientType
  <2>4. v \in WindowType
    BY <1>8, <2>1 DEF WindowType
  <2> QED
    BY <1>2, <1>10, <2>1, <2>3, <2>4 DEF ClientType
<1>12. /\ s.win.syncing /\ s.win.view = w.view /\ s.win.prefer = w.prefer /\ s.win.reset = w.reset
       /\ s.win.provisional = w.provisional /\ s.win.boundary = w.boundary
       /\ s.win.newest = w.newest /\ s.win.epoch = w.epoch
  BY <1>8, <1>11 DEF WindowType
<1>13. /\ t.at = "asked" /\ ~t.stale /\ t.prefers = w.prefer /\ t.cold = cold
       /\ t.replace = (w.reset \/ w.prefer) /\ t.after = IF increment THEN w.newest ELSE 0
  BY <1>6
<1>14. Running(s) /\ ~Loading(s) /\ ~s.tail.stale
  BY <1>11, <1>13 DEF Running, Loading, NoRequest
<1>15. Anchored(s) /\ Bound(s)
  BY <1>2, <1>3, <1>12 DEF Anchored, Bound
<1>16. w.newest # 0 /\ ~w.reset => w.epoch # 0
  BY <1>2, <1>3 DEF Anchored
<1>17. t.after # 0 \/ t.replace \/ t.cold
  BY <1>4, <1>5, <1>13, <1>16
<1>18. Locks(s)
  BY <1>2, <1>3, <1>11, <1>12, <1>13, <1>14, <1>17 DEF Locks
<1> QED
  BY <1>2, <1>3, <1>11, <1>12, <1>13, <1>14, <1>15, <1>18 DEF Sound, Followed

\* A synchronization that is asked for leaves one that runs and is not stale: what was superseded is
\* the one thing a preferring synchronization does not wait for.
LEMMA Syncs ==
  ASSUME epoch \in Nat, NEW c \in ClientType, Bound(c), Anchored(c), Running(c) => Sound(c),
         NEW after \in BOOLEAN, NEW s, s = Sync(c, after)
  PROVE  s \in ClientType /\ Sound(s) /\ Running(s) /\ ~Loading(s) /\ ~s.tail.stale
<1>1. CASE ~Running(c)
  <2>1. s = StartTail(c)
    BY <1>1 DEF Sync
  <2> QED
    BY <2>1, Starts DEF Loading, NoRequest
<1>2. CASE Running(c) /\ c.win.prefer /\ c.tail.prefers
  <2>1. s = c
    BY <1>2 DEF Sync
  <2> QED
    BY <1>2, <2>1 DEF Sound, Locks, Followed
<1>3. CASE Running(c) /\ c.win.prefer /\ ~c.tail.prefers
  <2>1. PICK d : d = [c EXCEPT !.trailing = FALSE]
    OBVIOUS
  <2>2. s = StartTail(d)
    BY <1>3, <2>1 DEF Sync
  <2>3. d \in ClientType /\ Bound(d) /\ Anchored(d)
    BY <2>1 DEF ClientType, Bound, Anchored, Loading
  <2> QED
    BY <2>2, <2>3, Starts DEF Loading, NoRequest
<1>4. CASE Running(c) /\ ~c.win.prefer
  <2>1. PICK trailing \in BOOLEAN : trailing = (c.trailing \/ after)
    OBVIOUS
  <2>2. s = [c EXCEPT !.trailing = trailing]
    BY <1>4, <2>1 DEF Sync, ClientType
  <2>3. s \in ClientType /\ s.win = c.win /\ s.tail = c.tail /\ s.older = c.older
    BY <2>2 DEF ClientType
  <2>4. Sound(c) /\ ~c.tail.stale
    BY <1>4 DEF Sound, Followed
  <2> QED
    BY <1>4, <2>3, <2>4 DEF Sound, Bound, Anchored, Locks, Followed, Running, Loading
<1> QED
  BY <1>1, <1>2, <1>3, <1>4

\* One that is queued starts when it may, else nothing happens.
LEMMA Queues ==
  ASSUME epoch \in Nat, NEW c \in ClientType, Bound(c), Anchored(c), NEW s, s = StartQueued(c)
  PROVE  IF c.win.view = "tail" /\ c.trailing /\ ~Running(c)
         THEN s \in ClientType /\ Sound(s) /\ Running(s) /\ ~Loading(s) /\ ~s.tail.stale /\ s.tail.at = "asked"
         ELSE s = c
<1>1. CASE c.win.view = "tail" /\ c.trailing /\ ~Running(c)
  <2>1. PICK d : d = [c EXCEPT !.trailing = FALSE]
    OBVIOUS
  <2>2. s = StartTail(d)
    BY <1>1, <2>1 DEF StartQueued
  <2>3. d \in ClientType /\ Bound(d) /\ Anchored(d)
    BY <2>1 DEF ClientType, Bound, Anchored, Loading
  <2> QED
    BY <1>1, <2>2, <2>3, Starts DEF Loading, NoRequest
<1>2. CASE ~(c.win.view = "tail" /\ c.trailing /\ ~Running(c))
  BY <1>2 DEF StartQueued
<1> QED
  BY <1>1, <1>2

\* A synchronization that ends leaves the busy flag clear, or to the next one.
LEMMA Finishes ==
  ASSUME epoch \in Nat, NEW c \in ClientType, Bound(c), Anchored(c), ~Loading(c), NEW f, f = FinishTail(c)
  PROVE  f \in ClientType /\ Sound(f) /\ ~Loading(f) /\ (Running(f) => ~f.tail.stale) /\ f.tail.at # "answered"
<1>1. PICK d : d = [c EXCEPT !.tail = NoRequest, !.win.syncing = FALSE]
  OBVIOUS
<1>2. PICK w : w = [c.win EXCEPT !.syncing = FALSE]
  OBVIOUS
<1>3. d = [c EXCEPT !.tail = NoRequest, !.win = w]
  BY <1>1, <1>2 DEF ClientType
<1>4. w \in WindowType /\ ~w.syncing /\ w.provisional = c.win.provisional /\ w.boundary = c.win.boundary
      /\ w.reset = c.win.reset /\ w.newest = c.win.newest /\ w.epoch = c.win.epoch
  BY <1>2 DEF ClientType, WindowType
<1>5. d \in ClientType /\ d.win = w /\ d.tail = NoRequest /\ d.older = c.older
  BY <1>3, <1>4 DEF ClientType
<1>6. ~Running(d) /\ ~Loading(d)
  BY <1>5 DEF Running, Loading, NoRequest
<1>7. Sound(d)
  BY <1>4, <1>5, <1>6 DEF Sound, Bound, Anchored, Locks, Followed, Loading
<1>8. f = StartQueued(d)
  BY <1>1 DEF FinishTail
<1>9. IF d.win.view = "tail" /\ d.trailing /\ ~Running(d)
      THEN f \in ClientType /\ Sound(f) /\ Running(f) /\ ~Loading(f) /\ ~f.tail.stale /\ f.tail.at = "asked"
      ELSE f = d
  BY <1>5, <1>7, <1>8, Queues DEF Sound
<1> QED
  BY <1>5, <1>6, <1>7, <1>9 DEF NoRequest

\* Returning to the tail releases the boundary; it starts nothing and loads nothing.
LEMMA Enters ==
  ASSUME epoch \in Nat, NEW c \in ClientType, Sound(c), NEW e, e = EnterTail(c)
  PROVE  /\ e \in ClientType /\ Sound(e) /\ (Loading(e) => Loading(c))
         /\ e.tail = c.tail /\ e.trailing = c.trailing /\ e.win.view = "tail"
         /\ e.win.prefer = c.win.prefer /\ e.win.syncing = c.win.syncing
<1>1. PICK w : w = [c.win EXCEPT !.view = "tail"]
  OBVIOUS
<1>2. PICK kept : kept = TopOf(c.win.msgs, Visible)
  OBVIOUS
<1>3. PICK trimmed : trimmed = DropOldest(w, kept)
  OBVIOUS
<1>4. PICK u : u = Unbound(trimmed)
  OBVIOUS
<1>5. PICK v : v = IF c.win.reset THEN [u EXCEPT !.epoch = 0, !.newest = 0] ELSE u
  OBVIOUS
<1>6. PICK older : older = IF Loading(c) /\ (kept # c.win.msgs \/ c.win.boundary # 0) THEN NoRequest ELSE c.older
  OBVIOUS
<1>7. e = [c EXCEPT !.win = v, !.older = older]
  BY <1>1, <1>2, <1>3, <1>4, <1>5, <1>6 DEF EnterTail, ClientType
<1>8. /\ w \in WindowType /\ w.msgs = c.win.msgs /\ w.view = "tail" /\ w.prefer = c.win.prefer
      /\ w.syncing = c.win.syncing /\ w.reset = c.win.reset /\ w.newest = c.win.newest
      /\ w.epoch = c.win.epoch
  BY <1>1 DEF ClientType, WindowType
<1>9. kept \subseteq w.msgs
  BY <1>2, <1>8 DEF TopOf
<1>10. trimmed \in WindowType /\ Keeps(trimmed, w)
  BY <1>3, <1>8, <1>9, Trims
<1>11. /\ u \in WindowType /\ u.boundary = 0 /\ ~u.provisional
       /\ u.view = trimmed.view /\ u.prefer = trimmed.prefer /\ u.reset = trimmed.reset
       /\ u.syncing = trimmed.syncing /\ u.epoch = trimmed.epoch /\ u.newest = trimmed.newest
  BY <1>4, <1>10, Unbinds
<1>12. 0 \in Cursor /\ 0 \in Epoch
  BY BoundsAssumption DEF Cursor, Epoch
<1>13. /\ v \in WindowType /\ ~v.provisional /\ v.view = u.view /\ v.prefer = u.prefer
       /\ v.syncing = u.syncing /\ v.reset = u.reset
       /\ (c.win.reset => v.newest = 0) /\ (~c.win.reset => v = u)
  BY <1>5, <1>11, <1>12 DEF WindowType
<1>14. v.newest # 0 /\ ~v.reset => v.epoch # 0
  BY <1>8, <1>10, <1>11, <1>13 DEF Keeps, Sound, Anchored
<1>15. older \in {NoRequest} \cup OlderType /\ older \in {NoRequest, c.older}
  BY <1>6 DEF ClientType
<1>16. /\ e \in ClientType /\ e.win = v /\ e.older = older /\ e.tail = c.tail /\ e.trailing = c.trailing
  BY <1>7, <1>13, <1>15 DEF ClientType
<1>17. Loading(e) => Loading(c) /\ e.older = c.older
  BY <1>15, <1>16 DEF Loading, NoRequest
<1>18. v.view = "tail" /\ v.prefer = c.win.prefer /\ v.syncing = c.win.syncing
  BY <1>8, <1>10, <1>11, <1>13 DEF Keeps
<1>19. Sound(e)
  <2>1. Bound(e) /\ Anchored(e)
    BY <1>13, <1>14, <1>16 DEF Bound, Anchored
  <2>2. Locks(e)
    BY <1>13, <1>16, <1>17, <1>18 DEF Sound, Locks, Running
  <2>3. Followed(e)
    BY <1>16, <1>18 DEF Sound, Followed, Running
  <2> QED
    BY <2>1, <2>2, <2>3 DEF Sound
<1> QED
  BY <1>16, <1>17, <1>18, <1>19

\* A change of the view mode supersedes nothing.
LEMMA Modes ==
  ASSUME epoch \in Nat, NEW c \in ClientType, Sound(c), Running(c) => ~c.tail.stale,
         NEW mode \in {"tail", "history"}, NEW s, s = SetMode(c, mode)
  PROVE  s \in ClientType /\ Sound(s) /\ (Loading(s) => Loading(c)) /\ (Running(s) => ~s.tail.stale)
<1>1. CASE mode = "history"
  <2>1. PICK d : d = [c EXCEPT !.win.view = "history"]
    OBVIOUS
  <2>2. s = StartQueued(d)
    BY <1>1, <2>1 DEF SetMode
  <2>3. PICK w : w = [c.win EXCEPT !.view = "history"]
    OBVIOUS
  <2>4. /\ w \in WindowType /\ w.view = "history" /\ w.prefer = c.win.prefer /\ w.syncing = c.win.syncing
        /\ w.provisional = c.win.provisional /\ w.boundary = c.win.boundary /\ w.reset = c.win.reset
        /\ w.newest = c.win.newest /\ w.epoch = c.win.epoch
    BY <2>3 DEF ClientType, WindowType
  <2>5. d = [c EXCEPT !.win = w]
    BY <2>1, <2>3 DEF ClientType
  <2>6. d \in ClientType /\ d.win = w /\ d.tail = c.tail /\ d.older = c.older
    BY <2>4, <2>5 DEF ClientType
  <2>7. Sound(d)
    BY <2>4, <2>6 DEF Sound, Bound, Anchored, Locks, Followed, Running, Loading
  <2>8. s = d
    BY <2>2, <2>4, <2>6 DEF StartQueued
  <2> QED
    BY <2>6, <2>7, <2>8 DEF Loading, Running
<1>2. CASE mode = "tail"
  <2>1. PICK e : e = IF c.win.view # "tail" \/ c.win.boundary # 0 THEN EnterTail(c) ELSE c
    OBVIOUS
  <2>2. s = StartQueued(e)
    BY <1>2, <2>1 DEF SetMode
  <2>3. e \in ClientType /\ Sound(e) /\ (Loading(e) => Loading(c)) /\ e.tail = c.tail
    BY <2>1, Enters
  <2>4. IF e.win.view = "tail" /\ e.trailing /\ ~Running(e)
        THEN s \in ClientType /\ Sound(s) /\ Running(s) /\ ~Loading(s) /\ ~s.tail.stale
        ELSE s = e
    BY <2>2, <2>3, Queues DEF Sound
  <2> QED
    BY <2>3, <2>4 DEF Running
<1> QED
  BY <1>1, <1>2

\* An activation that supersedes the running synchronization has the next one follow it.
LEMMA Activates ==
  ASSUME epoch \in Nat, NEW c \in ClientType, Sound(c), ~Loading(c), Running(c) => ~c.tail.stale,
         NEW a, a = Activate(c)
  PROVE  a \in ClientType /\ Sound(a) /\ ~Loading(a)
<1>1. PICK kept : kept = TopOf(c.win.msgs, Visible)
  OBVIOUS
<1>2. PICK prefer \in BOOLEAN : prefer = (c.win.newest # 0 /\ c.win.epoch # 0 /\ ~c.win.reset /\ kept # {})
  OBVIOUS
<1>3. PICK requested \in BOOLEAN : requested = (prefer /\ ~c.win.prefer)
  OBVIOUS
<1>4. PICK e : e = IF c.win.view = "tail" /\ kept = c.win.msgs /\ ~c.win.reset /\ c.win.boundary = 0
                   THEN c ELSE EnterTail(c)
  OBVIOUS
<1>5. /\ e \in ClientType /\ Sound(e) /\ ~Loading(e) /\ e.tail = c.tail /\ e.win.view = "tail"
      /\ e.win.prefer = c.win.prefer /\ e.win.syncing = c.win.syncing
  BY <1>4, Enters
<1>6. PICK w : w = [e.win EXCEPT !.prefer = prefer \/ @]
  OBVIOUS
<1>7. /\ w \in WindowType /\ w.prefer = (prefer \/ c.win.prefer) /\ w.view = "tail"
      /\ w.syncing = c.win.syncing /\ w.provisional = e.win.provisional /\ w.boundary = e.win.boundary
      /\ w.reset = e.win.reset /\ w.newest = e.win.newest /\ w.epoch = e.win.epoch
  BY <1>5, <1>6 DEF ClientType, WindowType
<1>8. PICK tail : tail = IF requested /\ c.win.syncing /\ Running(c) THEN [c.tail EXCEPT !.stale = TRUE] ELSE c.tail
  OBVIOUS
<1>9. tail \in {NoRequest} \cup TailType
  BY <1>8 DEF ClientType, TailType, Running, NoRequest
<1>10. PICK trailing \in BOOLEAN : trailing = (e.trailing \/ (requested /\ Running(c)))
  OBVIOUS
<1>11. PICK older : older = IF requested /\ c.win.syncing THEN NoRequest ELSE e.older
  OBVIOUS
<1>12. a = [e EXCEPT !.win = w, !.older = older, !.tail = tail, !.trailing = trailing]
  BY <1>1, <1>2, <1>3, <1>4, <1>5, <1>6, <1>8, <1>10, <1>11 DEF Activate, ClientType
<1>13. older \in {NoRequest} \cup OlderType /\ older.at = "none"
  BY <1>5, <1>11 DEF ClientType, Loading, NoRequest
<1>14. a \in ClientType /\ a.win = w /\ a.older = older /\ a.tail = tail /\ a.trailing = trailing
  BY <1>5, <1>7, <1>9, <1>12, <1>13 DEF ClientType
<1>15. ~Loading(a)
  BY <1>13, <1>14 DEF Loading
<1>16. Running(a) = Running(c)
  BY <1>8, <1>14 DEF Running, ClientType, TailType, NoRequest
<1>17. Running(c) => /\ tail.prefers = c.tail.prefers /\ tail.replace = c.tail.replace /\ tail.after = c.tail.after
                     /\ tail.cold = c.tail.cold /\ tail.at = c.tail.at /\ tail.page = c.tail.page
                     /\ (tail.stale => requested)
  BY <1>8 DEF Running, ClientType, TailType, NoRequest
<1>18. Bound(a) /\ Anchored(a)
  BY <1>5, <1>7, <1>14 DEF Sound, Bound, Anchored
<1>19. Locks(a)
  BY <1>5, <1>7, <1>14, <1>15, <1>16, <1>17 DEF Sound, Locks, Running
<1>20. Followed(a)
  BY <1>3, <1>5, <1>7, <1>10, <1>14, <1>16, <1>17 DEF Sound, Locks, Followed
<1> QED
  BY <1>14, <1>15, <1>18, <1>19, <1>20 DEF Sound

\* d has the rows, the boundary and the epoch of c, unless its boundary is gone.
Spares(c, d) ==
  d.win.boundary # 0 =>
    d.win.msgs = c.win.msgs /\ d.win.boundary = c.win.boundary /\ d.win.epoch = c.win.epoch

\* Giving up an older page, and starting, queuing or ending a synchronization, spares the window.
LEMMA Sparing ==
  ASSUME NEW c \in ClientType, Bound(c)
  PROVE  /\ Spares(c, GiveUpOlder(c)) /\ Spares(c, StartTail(c)) /\ Spares(c, StartQueued(c))
         /\ Spares(c, FinishTail(c)) /\ \A after \in BOOLEAN : Spares(c, Sync(c, after))
<1>1. \A d \in ClientType : Bound(d) => Spares(d, GiveUpOlder(d))
  <2> SUFFICES ASSUME NEW d \in ClientType, Bound(d)
               PROVE  Spares(d, GiveUpOlder(d))
    OBVIOUS
  <2>1. d.win \in WindowType
    BY DEF ClientType
  <2>2. PICK u : u = Unbound(d.win)
    OBVIOUS
  <2>3. u \in WindowType /\ u.boundary = 0
    BY <2>1, <2>2, Unbinds
  <2>4. PICK r : r = TrimReleased(u)
    OBVIOUS
  <2>5. r.boundary = 0
    BY <2>3, <2>4, Views DEF Keeps
  <2>6. GiveUpOlder(d) = [d EXCEPT !.older = NoRequest, !.win = IF Loading(d) /\ @.provisional THEN r ELSE @]
    BY <2>2, <2>4, Zenon DEF GiveUpOlder
  <2>7. GiveUpOlder(d).win \in {r, d.win}
    BY <2>6 DEF ClientType
  <2> QED
    BY <2>5, <2>7 DEF Spares
<1>2. \A d \in ClientType : Bound(d) => Spares(d, StartTail(d))
  <2> SUFFICES ASSUME NEW d \in ClientType, Bound(d)
               PROVE  Spares(d, StartTail(d))
    OBVIOUS
  <2>1. PICK b : b = GiveUpOlder(d)
    OBVIOUS
  <2>2. b \in ClientType /\ Spares(d, b)
    BY <1>1, <2>1, GivesUp
  <2>3. PICK s : s = StartTail(d)
    OBVIOUS
  <2>4. s.win = [b.win EXCEPT !.syncing = TRUE]
    BY <2>1, <2>2, <2>3 DEF StartTail, ClientType
  <2>5. s.win.msgs = b.win.msgs /\ s.win.boundary = b.win.boundary /\ s.win.epoch = b.win.epoch
    BY <2>2, <2>4 DEF ClientType, WindowType
  <2> QED
    BY <2>2, <2>3, <2>5 DEF Spares
<1>3. \A d \in ClientType : Bound(d) => Spares(d, StartQueued(d))
  <2> SUFFICES ASSUME NEW d \in ClientType, Bound(d)
               PROVE  Spares(d, StartQueued(d))
    OBVIOUS
  <2>1. PICK f : f = [d EXCEPT !.trailing = FALSE]
    OBVIOUS
  <2>2. f \in ClientType /\ Bound(f) /\ f.win = d.win
    BY <2>1 DEF ClientType, Bound, Loading
  <2>3. StartQueued(d) \in {d, StartTail(f)}
    BY <2>1 DEF StartQueued
  <2>4. Spares(d, StartTail(f)) /\ Spares(d, d)
    BY <1>2, <2>2 DEF Spares
  <2> QED
    BY <2>3, <2>4
<1>4. Spares(c, FinishTail(c))
  <2>1. PICK w : w = [c.win EXCEPT !.syncing = FALSE]
    OBVIOUS
  <2>2. w \in WindowType /\ w.provisional = c.win.provisional /\ w.boundary = c.win.boundary
        /\ w.reset = c.win.reset /\ w.msgs = c.win.msgs /\ w.epoch = c.win.epoch
    BY <2>1 DEF ClientType, WindowType
  <2>3. PICK d : d = [c EXCEPT !.tail = NoRequest, !.win = w]
    OBVIOUS
  <2>4. d \in ClientType /\ Bound(d) /\ d.win = w
    BY <2>2, <2>3 DEF ClientType, Bound, Loading
  <2>5. FinishTail(c) = StartQueued(d)
    <3>1. d = [c EXCEPT !.tail = NoRequest, !.win.syncing = FALSE]
      BY <2>1, <2>3 DEF ClientType
    <3> QED
      BY <3>1 DEF FinishTail
  <2>6. Spares(d, StartQueued(d))
    BY <1>3, <2>4
  <2> QED
    BY <2>2, <2>4, <2>5, <2>6 DEF Spares
<1>5. ASSUME NEW after \in BOOLEAN
      PROVE  Spares(c, Sync(c, after))
  <2>1. PICK f : f = [c EXCEPT !.trailing = FALSE]
    OBVIOUS
  <2>2. PICK g : g = [c EXCEPT !.trailing = @ \/ after]
    OBVIOUS
  <2>3. f \in ClientType /\ Bound(f) /\ f.win = c.win /\ g.win = c.win
    BY <2>1, <2>2 DEF ClientType, Bound, Loading
  <2>4. Sync(c, after) \in {c, g, StartTail(c), StartTail(f)}
    BY <2>1, <2>2 DEF Sync
  <2>5. Spares(c, StartTail(f)) /\ Spares(c, c) /\ Spares(c, g) /\ Spares(c, StartTail(c))
    BY <1>2, <2>3 DEF Spares
  <2> QED
    BY <2>4, <2>5
<1> QED
  BY <1>1, <1>2, <1>3, <1>4, <1>5

\* A view change and an activation spare it.
LEMMA SparingViews ==
  ASSUME epoch \in Nat, NEW c \in ClientType, Sound(c)
  PROVE  /\ \A mode \in {"tail", "history"} : Spares(c, SetMode(c, mode))
         /\ Spares(c, Activate(c))
<1>1. Spares(c, EnterTail(c)) /\ EnterTail(c) \in ClientType /\ Sound(EnterTail(c)) /\ EnterTail(c).win.boundary = 0
  <2>1. PICK w : w = [c.win EXCEPT !.view = "tail"]
    OBVIOUS
  <2>2. PICK kept : kept = TopOf(c.win.msgs, Visible)
    OBVIOUS
  <2>3. w \in WindowType /\ w.msgs = c.win.msgs /\ kept \subseteq w.msgs
    BY <2>1, <2>2 DEF ClientType, WindowType, TopOf
  <2>4. PICK t : t = DropOldest(w, kept)
    OBVIOUS
  <2>5. t \in WindowType
    BY <2>3, <2>4, Trims
  <2>6. PICK u : u = Unbound(t)
    OBVIOUS
  <2>7. u \in WindowType /\ u.boundary = 0
    BY <2>5, <2>6, Unbinds
  <2>8. EnterTail(c).win = IF c.win.reset THEN [u EXCEPT !.epoch = 0, !.newest = 0] ELSE u
    BY <2>1, <2>2, <2>4, <2>6 DEF EnterTail, ClientType
  <2>9. EnterTail(c).win.boundary = 0
    BY <2>7, <2>8 DEF WindowType
  <2> QED
    BY <2>9, Enters DEF Spares
<1>2. ASSUME NEW mode \in {"tail", "history"}
      PROVE  Spares(c, SetMode(c, mode))
  <2>1. CASE mode = "history"
    <3>1. PICK w : w = [c.win EXCEPT !.view = "history"]
      OBVIOUS
    <3>2. PICK d : d = [c EXCEPT !.win = w]
      OBVIOUS
    <3>3. w \in WindowType /\ w.view = "history" /\ w.msgs = c.win.msgs /\ w.boundary = c.win.boundary
          /\ w.epoch = c.win.epoch
      BY <3>1 DEF ClientType, WindowType
    <3>4. d = [c EXCEPT !.win.view = "history"] /\ d.win = w
      BY <3>1, <3>2 DEF ClientType
    <3>5. SetMode(c, mode) = d
      BY <2>1, <3>3, <3>4 DEF SetMode, StartQueued
    <3> QED
      BY <3>3, <3>4, <3>5 DEF Spares
  <2>2. CASE mode = "tail"
    <3>1. SetMode(c, mode) \in {StartQueued(c), StartQueued(EnterTail(c))}
      BY <2>2 DEF SetMode
    <3>2. Spares(c, StartQueued(c))
      BY Sparing DEF Sound
    <3>3. Spares(EnterTail(c), StartQueued(EnterTail(c)))
      BY <1>1, Sparing DEF Sound
    <3> QED
      BY <1>1, <3>1, <3>2, <3>3 DEF Spares
  <2> QED
    BY <2>1, <2>2
<1>3. Spares(c, Activate(c))
  <2>1. PICK e : e \in {c, EnterTail(c)} /\ \E prefer : Activate(c).win = [e.win EXCEPT !.prefer = prefer]
    <3>1. PICK e : e = IF c.win.view = "tail" /\ TopOf(c.win.msgs, Visible) = c.win.msgs /\ ~c.win.reset
                          /\ c.win.boundary = 0
                       THEN c ELSE EnterTail(c)
      OBVIOUS
    <3>2. e \in ClientType /\ e \in {c, EnterTail(c)}
      BY <1>1, <3>1
    <3>3. PICK prefer : prefer = (c.win.newest # 0 /\ c.win.epoch # 0 /\ ~c.win.reset /\ TopOf(c.win.msgs, Visible) # {})
      OBVIOUS
    <3>4. Activate(c).win = [e.win EXCEPT !.prefer = prefer \/ @]
      BY <3>1, <3>2, <3>3 DEF Activate, ClientType
    <3> QED
      BY <3>2, <3>4
  <2>2. e \in ClientType /\ Spares(c, e)
    BY <1>1, <2>1 DEF Spares
  <2>3. Activate(c).win.msgs = e.win.msgs /\ Activate(c).win.boundary = e.win.boundary
        /\ Activate(c).win.epoch = e.win.epoch
    BY <2>1, <2>2 DEF ClientType, WindowType
  <2> QED
    BY <2>2, <2>3 DEF Spares
<1> QED
  BY <1>2, <1>3

\* What a trim keeps of a nonempty set is not empty.
LEMMA TopIsThere ==
  ASSUME NEW S \in SUBSET Positions, S # {}, NEW n \in Nat \ {0}
  PROVE  TopOf(S, n) # {}
<1>1. Max(S) \in S /\ \A y \in S : y <= Max(S)
  BY Ends
<1>2. S \subseteq Nat
  BY DEF Positions
<1>3. {y \in S : y > Max(S)} = {}
  <2>1. PICK m \in S : m = Max(S) /\ \A y \in S : y <= m
    BY <1>1
  <2>2. \A y \in S : ~(y > m)
    BY <1>2, <2>1
  <2> QED
    BY <2>1, <2>2
<1>4. Cardinality({y \in S : y > Max(S)}) = 0
  BY <1>3, FS_EmptySet
<1> QED
  BY <1>1, <1>4 DEF TopOf

\* A latest page leaves cursors of its epoch and no boundary that waits for an older page.
LEMMA Latests ==
  ASSUME NEW c \in ClientType, Sound(c), Running(c), NEW page \in PageType, page.epoch # 0,
         NEW replace \in BOOLEAN, ~replace => c.tail.cold /\ ~c.tail.replace, NEW l, l = ApplyLatest(c, page, replace)
  PROVE  /\ l \in ClientType /\ ~Loading(l) /\ l.win.epoch # 0 /\ ~l.win.provisional
         /\ (replace => l.win.boundary = 0)
<1>1. PICK incoming : incoming = (IF replace THEN c.win.msgs \ c.tail.baseline ELSE c.win.msgs) \cup page.rows
  OBVIOUS
<1>2. PICK kept : kept = TopOf(incoming, Visible)
  OBVIOUS
<1>3. PICK head : head = IF page.head # 0 THEN page.head ELSE Largest(page.rows)
  OBVIOUS
<1>4. PICK hasMore \in BOOLEAN : hasMore = (page.hasMore \/ (~replace /\ c.win.hasMore) \/ kept # incoming)
  OBVIOUS
<1>5. PICK oldest : oldest = IF kept # incoming THEN Min(kept)
                             ELSE IF replace \/ page.next # 0 THEN page.next ELSE c.win.oldest
  OBVIOUS
<1>6. PICK newest : newest = Higher(head, Largest(kept))
  OBVIOUS
<1>7. PICK next : next = [c.win EXCEPT !.msgs = kept, !.epoch = page.epoch, !.reset = FALSE,
                                       !.hasMore = hasMore, !.oldest = oldest, !.newest = newest]
  OBVIOUS
<1>8. PICK w : w = IF replace THEN Unbound(next) ELSE next
  OBVIOUS
<1>9. PICK older : older = IF replace THEN NoRequest ELSE c.older
  OBVIOUS
<1>10. PICK gap \in BOOLEAN : gap = (c.gap \/ (\E x \in kept : x < page.next)
                                  \/ (replace /\ page.rows = {} /\ c.win.hasMore))
  OBVIOUS
<1>11. l = [c EXCEPT !.win = w, !.older = older, !.gap = gap]
  <2>1. next = [c.win EXCEPT
            !.msgs = kept, !.epoch = page.epoch, !.reset = FALSE,
            !.hasMore = page.hasMore \/ (~replace /\ @) \/ kept # incoming,
            !.oldest = IF kept # incoming THEN Min(kept) ELSE IF replace \/ page.next # 0 THEN page.next ELSE @,
            !.newest = Higher(head, Largest(kept))]
    BY <1>4, <1>5, <1>6, <1>7 DEF ClientType, WindowType
  <2>2. l = [c EXCEPT !.win = w, !.older = IF replace THEN NoRequest ELSE @,
                      !.gap = @ \/ (\E x \in kept : x < page.next) \/ (replace /\ page.rows = {} /\ c.win.hasMore)]
    BY <1>1, <1>2, <1>3, <1>8, <2>1 DEF ApplyLatest
  <2> QED
    BY <1>9, <1>10, <2>2 DEF ClientType
<1>12. incoming \in SUBSET Positions /\ c.win \in WindowType
  BY <1>1 DEF ClientType, WindowType, PageType
<1>13. kept \in SUBSET Positions /\ (kept # incoming => kept # {})
  <2>1. Visible \in Nat \ {0}
    BY SizesAssumption
  <2>2. incoming # {} => kept # {}
    BY <1>2, <1>12, <2>1, TopIsThere
  <2> QED
    BY <1>2, <1>12, <2>2 DEF TopOf
<1>14. oldest \in Cursor /\ newest \in Cursor
  <2>1. Largest(kept) \in Cursor /\ Largest(page.rows) \in Cursor /\ (kept # {} => Min(kept) \in Cursor)
    BY <1>13, CursorTypes DEF PageType
  <2>2. head \in Cursor
    BY <1>3, <2>1 DEF PageType
  <2>3. oldest \in Cursor
    BY <1>5, <1>12, <1>13, <2>1 DEF PageType, WindowType
  <2>4. newest \in Cursor
    BY <1>6, <2>1, <2>2 DEF Higher
  <2> QED
    BY <2>3, <2>4
<1>15. next \in WindowType /\ next.epoch = page.epoch /\ next.provisional = c.win.provisional
  BY <1>7, <1>12, <1>13, <1>14 DEF WindowType, PageType
<1>16. w \in WindowType /\ w.epoch # 0 /\ ~w.provisional /\ (replace => w.boundary = 0)
  <2>1. CASE replace
    BY <1>8, <1>15, <2>1, Unbinds
  <2>2. CASE ~replace
    BY <1>8, <1>15, <2>2 DEF Sound, Locks
  <2> QED
    BY <2>1, <2>2
<1>17. older \in {NoRequest} \cup OlderType /\ older.at = "none"
  BY <1>9 DEF ClientType, Sound, Locks, Loading, NoRequest
<1>18. l \in ClientType /\ l.win = w /\ l.older = older
  BY <1>11, <1>16, <1>17 DEF ClientType
<1> QED
  BY <1>16, <1>17, <1>18 DEF Loading

\* The page before it adds rows.
LEMMA Contexts ==
  ASSUME NEW w \in WindowType, NEW page \in PageType
  PROVE  /\ AddContext(w, page) \in WindowType
         /\ AddContext(w, page).epoch = w.epoch /\ AddContext(w, page).provisional = w.provisional
         /\ AddContext(w, page).boundary = w.boundary
<1>1. PICK m : m = Merge(w, page.rows, "prepend", Visible, w.boundary)
  OBVIOUS
<1>2. m \in WindowType /\ Keeps(m, w)
  <2>1. page.rows \in SUBSET Positions
    BY DEF PageType
  <2> QED
    BY <1>1, <2>1, Merges
<1> QED
  BY <1>1, <1>2 DEF AddContext, Keeps, WindowType, PageType

\* A page of the catch-up moves the newest cursor of the page's epoch.
LEMMA Afters ==
  ASSUME NEW w \in WindowType, NEW page \in PageType, NEW v, v = ApplyAfter(w, page)
  PROVE  /\ v \in WindowType /\ v.epoch = page.epoch
         /\ v.provisional = w.provisional /\ v.boundary = w.boundary /\ v.prefer = w.prefer
         /\ v.syncing = w.syncing /\ v.view = w.view /\ (w.reset => v.reset)
         /\ v.msgs = MergeInView(w, page.rows).msgs
<1>1. PICK m : m = MergeInView(w, page.rows)
  OBVIOUS
<1>2. m \in WindowType /\ Keeps(m, w)
  <2>1. page.rows \in SUBSET Positions
    BY DEF PageType
  <2> QED
    BY <1>1, <2>1, Views
<1>3. PICK n : n = Higher(page.next, m.newest)
  OBVIOUS
<1>4. n \in Cursor
  BY <1>2, <1>3 DEF Higher, PageType, WindowType
<1>5. v = IF m.reset THEN [m EXCEPT !.epoch = page.epoch] ELSE [m EXCEPT !.epoch = page.epoch, !.newest = n]
  BY <1>1, <1>2, <1>3 DEF ApplyAfter, WindowType
<1>6. page.epoch \in Epoch
  BY DEF PageType
<1>7. CASE m.reset
  <2>1. v = [m EXCEPT !.epoch = page.epoch]
    BY <1>5, <1>7
  <2> QED
    BY <1>1, <1>2, <1>6, <1>7, <2>1 DEF WindowType, Keeps
<1>8. CASE ~m.reset
  <2>1. v = [m EXCEPT !.epoch = page.epoch, !.newest = n]
    BY <1>5, <1>8
  <2> QED
    BY <1>1, <1>2, <1>4, <1>6, <1>8, <2>1 DEF WindowType, Keeps
<1> QED
  BY <1>7, <1>8

\* A live message moves it only within an epoch.
LEMMA Ingests ==
  ASSUME NEW c \in ClientType, Sound(c), NEW x \in Positions, NEW d, d = Ingest(c, x)
  PROVE  d \in ClientType /\ Sound(d) /\ d.tail = c.tail /\ d.older = c.older
<1>1. PICK m : m = MergeInView(c.win, {x})
  OBVIOUS
<1>2. m \in WindowType /\ Keeps(m, c.win)
  <2>1. c.win \in WindowType /\ {x} \in SUBSET Positions
    BY DEF ClientType
  <2> QED
    BY <1>1, <2>1, Views
<1>3. PICK n : n = Higher(m.newest, x)
  OBVIOUS
<1>4. n \in Cursor
  BY <1>2, <1>3 DEF Higher, Positions, Cursor, WindowType
<1>5. PICK w : w = IF m.epoch = 0 \/ m.reset THEN m ELSE [m EXCEPT !.newest = n]
  OBVIOUS
<1>6. PICK gap \in BOOLEAN :
        gap = (c.gap \/ c.owed \/ (x < c.win.oldest /\ x \in TopOf(c.win.msgs \cup {x}, Visible))
               \/ (Running(c) /\ w.reset /\ ~({x} \cup Unreplaced(c) \subseteq w.msgs)))
  OBVIOUS
<1>7. d = [c EXCEPT !.win = w, !.gap = gap]
  BY <1>1, <1>2, <1>3, <1>5, <1>6 DEF Ingest, ClientType, WindowType
<1>8. /\ w \in WindowType /\ w.provisional = m.provisional /\ w.boundary = m.boundary /\ w.prefer = m.prefer
      /\ w.syncing = m.syncing /\ w.view = m.view /\ w.reset = m.reset /\ w.epoch = m.epoch
      /\ (m.epoch # 0 \/ w = m)
  BY <1>2, <1>4, <1>5 DEF WindowType
<1>9. d \in ClientType /\ d.win = w /\ d.tail = c.tail /\ d.older = c.older /\ d.trailing = c.trailing
  BY <1>7, <1>8 DEF ClientType
<1>10. Bound(d) /\ Anchored(d)
  BY <1>2, <1>8, <1>9 DEF Sound, Bound, Anchored, Keeps, Loading
<1>11. Locks(d)
  BY <1>2, <1>8, <1>9 DEF Sound, Locks, Keeps, Loading, Running
<1>12. Followed(d)
  BY <1>2, <1>8, <1>9 DEF Sound, Followed, Keeps, Running
<1> QED
  BY <1>9, <1>10, <1>11, <1>12 DEF Sound

\* A cleared window starts anew.
LEMMA Empties ==
  ASSUME epoch \in Nat
  PROVE  EmptyClient \in ClientType /\ ~Running(EmptyClient) /\ Sound(EmptyClient)
<1>1. 0 \in Cursor /\ 0 \in Epoch
  BY BoundsAssumption DEF Cursor, Epoch
<1>2. EmptyWindow \in WindowType
  BY <1>1 DEF EmptyWindow, WindowType
<1>3. EmptyClient \in ClientType
  BY <1>2 DEF EmptyClient, ClientType
<1> QED
  BY <1>3 DEF EmptyClient, EmptyWindow, Sound, Bound, Anchored, Locks, Followed, Running, Loading, NoRequest

\* One that a rewind cut waits for the thread to be read again.
LEMMA Restarts ==
  ASSUME epoch \in Nat, NEW c \in ClientType, NEW x
  PROVE  /\ Rewound(c, x) \in ClientType /\ ~Running(Rewound(c, x))
         /\ Rewound(c, x).win.reset
         /\ Rewound(c, x).win.provisional = c.win.provisional /\ Rewound(c, x).win.boundary = c.win.boundary
<1>1. 0 \in Cursor /\ 0 \in Epoch
  BY BoundsAssumption DEF Cursor, Epoch
<1>2. PICK w : w = [c.win EXCEPT !.msgs = {y \in @ : y < x}, !.epoch = 0, !.oldest = 0, !.newest = 0,
                                 !.reset = TRUE, !.prefer = FALSE, !.syncing = TRUE]
  OBVIOUS
<1>3. w \in WindowType /\ w.reset /\ w.provisional = c.win.provisional /\ w.boundary = c.win.boundary
  BY <1>1, <1>2 DEF ClientType, WindowType
<1>4. PICK r : r = [EmptyClient EXCEPT !.win = w]
  OBVIOUS
<1>5. r = Rewound(c, x)
  BY <1>2, <1>4 DEF Rewound
<1>6. r \in ClientType /\ r.win = w /\ r.tail = NoRequest
  BY <1>3, <1>4, Empties DEF EmptyClient, ClientType
<1> QED
  BY <1>3, <1>5, <1>6 DEF Running, NoRequest

---------------------------------------------------------------------------
(* The steps.                                                              *)

\* The types depend on the epoch only, and only widen with it.
LEMMA Epochs ==
  ASSUME epoch \in Nat, epoch' \in {epoch, epoch + 1}, NEW c \in ClientType
  PROVE  c \in ClientType'
<1>1. Epoch \subseteq Epoch'
  BY DEF Epoch
<1>2. PageType \subseteq PageType'
  BY <1>1 DEF PageType, Positions, Cursor
<1>3. TailType \subseteq TailType'
  BY <1>1, <1>2 DEF TailType, Positions, Cursor
<1>4. OlderType \subseteq OlderType'
  BY <1>1, <1>2 DEF OlderType, Cursor
<1>5. WindowType \subseteq WindowType'
  BY <1>1 DEF WindowType, Positions, Cursor
<1> QED
  BY <1>3, <1>4, <1>5 DEF ClientType

\* What a step that leaves the thread alone has to show.
LEMMA Stepped ==
  ASSUME IInv, UNCHANGED <<serverVars, rewinds>>,
         cuts' \in Nat, failures' \in Nat, scrolls' \in Nat, here' \in {"no", "mounting", "yes"},
         live' \in BOOLEAN, live' => here' = "yes",
         events' \in Seq(EventType), events' # <<>> => live',
         client' \in ClientType, Sound(client'),
         Loading(client') => here' = "yes", Running(client') /\ client'.tail.stale => here' = "mounting"
  PROVE  IInv'
<1>1. epoch \in Nat /\ epoch' = epoch
  BY DEF IInv, TypeOK, serverVars
<1>2. client' \in ClientType'
  BY <1>1, Epochs
<1>3. TypeOK'
  BY <1>2 DEF IInv, TypeOK, serverVars, EventType, Positions
<1>4. Sound(client)'
  BY DEF Sound, Bound, Anchored, Locks, Followed, Running, Loading
<1>5. Mounting'
  BY DEF Mounting, Running, Loading
<1> QED
  BY <1>3, <1>4, <1>5 DEF IInv

\* What a step of the client alone has to show.
LEMMA ClientSteps ==
  ASSUME IInv, NEW c \in ClientType, ClientStep(c), failures' \in Nat, scrolls' \in Nat, Sound(c),
         Loading(c) => here = "yes", Running(c) /\ c.tail.stale => here = "mounting"
  PROVE  IInv'
<1>1. /\ UNCHANGED <<serverVars, rewinds>> /\ cuts' \in Nat /\ here' \in {"no", "mounting", "yes"}
      /\ live' \in BOOLEAN /\ (live' => here' = "yes") /\ here' = here
      /\ events' \in Seq(EventType) /\ (events' # <<>> => live')
  BY DEF ClientStep, IInv, TypeOK
<1>2. client' = c
  BY DEF ClientStep
<1> QED
  BY <1>1, <1>2, Stepped

\* The invariant holds at the start.
LEMMA Starting ==
  ASSUME Init
  PROVE  IInv
<1>1. epoch \in Nat
  BY DEF Init
<1>2. client \in ClientType /\ Sound(client)
  BY <1>1, Empties DEF Init
<1>3. thread \subseteq 1..last /\ last \in 0..MaxMessages
  BY BoundsAssumption DEF Init
<1>4. epoch = rewinds + 1 /\ rewinds \in 0..MaxRewinds /\ cuts \in Nat /\ failures \in Nat /\ scrolls \in Nat
  BY BoundsAssumption DEF Init
<1>5. TypeOK
  <2>1. <<>> \in Seq(EventType)
    OBVIOUS
  <2> QED
    BY <1>2, <1>3, <1>4, <2>1 DEF Init, TypeOK
<1>6. Mounting
  BY DEF Init, Mounting, EmptyClient, Loading, Running, NoRequest
<1> QED
  BY <1>2, <1>5, <1>6 DEF IInv

\* A gap is all that the client is charged with when it is not told of something.
LEMMA Charges ==
  ASSUME NEW c \in ClientType, NEW d \in {c, RewindLost(c), EventsLost(c)}
  PROVE  /\ d \in ClientType /\ d.win = c.win /\ d.tail = c.tail /\ d.older = c.older
         /\ (Sound(c) => Sound(d)) /\ Running(d) = Running(c) /\ Loading(d) = Loading(c)
<1>1. \E gap \in BOOLEAN : d = [c EXCEPT !.gap = gap]
  <2>1. CASE d = c
    <3>1. d = [c EXCEPT !.gap = c.gap]
      BY <2>1 DEF ClientType
    <3> QED
      BY <3>1 DEF ClientType
  <2>2. CASE d = RewindLost(c)
    <3>1. PICK gap \in BOOLEAN : gap = (c.gap \/ Unreplaced(c) # {})
      OBVIOUS
    <3> QED
      BY <2>2, <3>1 DEF RewindLost, ClientType
  <2>3. CASE d = EventsLost(c)
    <3>1. PICK gap \in BOOLEAN : gap = (c.gap \/ OnStream("rewind") # {})
      OBVIOUS
    <3> QED
      BY <2>3, <3>1 DEF EventsLost, ClientType
  <2> QED
    BY <2>1, <2>2, <2>3
<1>2. PICK gap \in BOOLEAN : d = [c EXCEPT !.gap = gap]
  BY <1>1
<1>3. d \in ClientType /\ d.win = c.win /\ d.tail = c.tail /\ d.older = c.older /\ d.trailing = c.trailing
  BY <1>2 DEF ClientType
<1> QED
  BY <1>3 DEF Sound, Bound, Anchored, Locks, Followed, Running, Loading

\* An event that goes on the stream is one, and there is a stream.
LEMMA Emits ==
  ASSUME IInv, NEW e \in EventType, Emit(e)
  PROVE  events' \in Seq(EventType) /\ (events' # <<>> => live)
BY DEF IInv, TypeOK, Emit

\* Storing a message.
LEMMA Stores ==
  ASSUME IInv, Store
  PROVE  IInv'
<1>1. epoch \in Nat /\ epoch' = epoch /\ client' = client
  BY DEF IInv, TypeOK, Store
<1>2. client' \in ClientType'
  BY <1>1, Epochs DEF IInv, TypeOK
<1>3. last \in Nat /\ last' = last + 1 /\ last' \in 0..MaxMessages /\ last + 1 \in Positions
  BY BoundsAssumption DEF IInv, TypeOK, Store, Positions
<1>4. thread' \subseteq 1..last'
  BY <1>3 DEF IInv, TypeOK, Store
<1>5. [kind |-> "message", at |-> last + 1] \in EventType
  BY <1>3 DEF EventType
<1>6. events' \in Seq(EventType) /\ (events' # <<>> => live)
  BY <1>5, Emits DEF Store
<1>7. TypeOK'
  BY <1>1, <1>2, <1>3, <1>4, <1>6 DEF IInv, TypeOK, Store, EventType, Positions
<1> QED
  BY <1>1, <1>7 DEF IInv, Store, Mounting, Sound, Bound, Anchored, Locks, Followed, Running, Loading

\* A rewind.
LEMMA Rewinds ==
  ASSUME IInv, NEW x \in thread, Rewind(x)
  PROVE  IInv'
<1>1. epoch \in Nat /\ epoch' = epoch + 1 /\ rewinds' = rewinds + 1 /\ rewinds' \in 0..MaxRewinds
  BY BoundsAssumption DEF IInv, TypeOK, Rewind
<1>2. client' \in {client, RewindLost(client), EventsLost(client)}
  BY DEF Rewind
<1>3. /\ client' \in ClientType /\ client'.tail = client.tail /\ Sound(client')
      /\ Running(client') = Running(client) /\ Loading(client') = Loading(client)
  BY <1>2, Charges DEF IInv, TypeOK
<1>4. client' \in ClientType'
  BY <1>1, <1>3, Epochs
<1>5. thread' \subseteq 1..last' /\ last' \in 0..MaxMessages
  BY DEF IInv, TypeOK, Rewind
<1>6. [kind |-> "rewind", at |-> x] \in EventType
  <2>1. x \in Positions
    BY BoundsAssumption DEF IInv, TypeOK, Positions
  <2> QED
    BY <2>1 DEF EventType
<1>7. events' \in Seq(EventType) /\ (events' # <<>> => live)
  BY <1>6, Emits DEF Rewind
<1>8. TypeOK'
  BY <1>1, <1>4, <1>5, <1>7 DEF IInv, TypeOK, Rewind, EventType, Positions
<1>9. Sound(client)'
  BY <1>3 DEF Sound, Bound, Anchored, Locks, Followed, Running, Loading
<1>10. Mounting'
  BY <1>3 DEF IInv, Mounting, Running, Loading, Rewind
<1> QED
  BY <1>8, <1>9, <1>10 DEF IInv

\* The stream connects, and is lost.
LEMMA Streams ==
  ASSUME IInv, Connect \/ Cut
  PROVE  IInv'
<1>1. epoch \in Nat /\ epoch' = epoch
  BY DEF IInv, TypeOK, Connect, Cut, serverVars
<1>2. client' \in {client, RewindLost(client), EventsLost(client)}
  BY DEF Connect, Cut
<1>3. /\ client' \in ClientType /\ client'.tail = client.tail /\ Sound(client')
      /\ Running(client') = Running(client) /\ Loading(client') = Loading(client)
  BY <1>2, Charges DEF IInv, TypeOK
<1>4. client' \in ClientType'
  BY <1>1, <1>3, Epochs
<1>5. /\ live' \in BOOLEAN /\ (live' => here' = "yes") /\ here' = here /\ cuts' \in Nat
      /\ events' \in Seq(EventType) /\ (events' # <<>> => live')
  <2>1. CASE Connect
    <3>1. PICK e \in EventType : e = [kind |-> "connected", at |-> 0]
      BY DEF EventType
    <3>2. events' = <<e>>
      BY <2>1, <3>1 DEF Connect
    <3>3. <<e>> \in Seq(EventType)
      OBVIOUS
    <3> QED
      BY <2>1, <3>2, <3>3 DEF Connect, IInv, TypeOK
  <2>2. CASE Cut
    <3>1. <<>> \in Seq(EventType) /\ cuts' \in Nat
      BY <2>2 DEF Cut, IInv, TypeOK
    <3> QED
      BY <2>2, <3>1 DEF Cut, IInv, TypeOK
  <2> QED
    BY <2>1, <2>2
<1>6. UNCHANGED <<thread, last, rewinds, failures, scrolls>>
  BY DEF Connect, Cut, serverVars
<1>7. TypeOK'
  BY <1>1, <1>4, <1>5, <1>6 DEF IInv, TypeOK, EventType, Positions
<1>8. Sound(client)'
  BY <1>3 DEF Sound, Bound, Anchored, Locks, Followed, Running, Loading
<1>9. Mounting'
  BY <1>3, <1>5 DEF IInv, Mounting, Running, Loading
<1> QED
  BY <1>7, <1>8, <1>9 DEF IInv

\* An event is handled.
LEMMA Handles ==
  ASSUME IInv, HandleEvent
  PROVE  IInv'
<1>1. PICK s \in Seq(EventType) : s = events /\ s # <<>> /\ events' = Tail(s)
  BY DEF HandleEvent, IInv, TypeOK
<1>2. live /\ here = "yes" /\ epoch \in Nat
  BY DEF HandleEvent, IInv, TypeOK
<1>3. PICK e \in EventType : e = Head(events)
  BY <1>1
<1>4. /\ client \in ClientType /\ Sound(client) /\ (Running(client) => ~client.tail.stale)
  BY <1>2 DEF IInv, TypeOK, Mounting
<1>5. client' \in ClientType /\ Sound(client') /\ (Running(client') => ~client'.tail.stale)
  <2>1. CASE e.kind = "connected" /\ client' = Connected(client)
    <3>1. PICK d : d = [client EXCEPT !.owed = TRUE]
      OBVIOUS
    <3>2. d \in ClientType /\ d.win = client.win /\ d.tail = client.tail /\ d.older = client.older
          /\ d.trailing = client.trailing
      BY <1>4, <3>1 DEF ClientType
    <3>3. Sound(d)
      BY <1>4, <3>2 DEF Sound, Bound, Anchored, Locks, Followed, Running, Loading
    <3>4. client' = Sync(d, TRUE)
      BY <2>1, <3>1 DEF Connected
    <3> QED
      BY <1>2, <3>2, <3>3, <3>4, Syncs DEF Sound
  <2>2. CASE e.kind = "message" /\ client' = Ingest(client, e.at)
    <3>1. e.at \in Positions
      BY <2>2 DEF EventType
    <3>2. client' \in ClientType /\ Sound(client') /\ client'.tail = client.tail
      BY <1>4, <2>2, <3>1, Ingests
    <3> QED
      BY <1>4, <3>2 DEF Running
  <2>3. CASE e.kind = "rewind" /\ client' = Invalidated(client, e.at)
    <3>1. PICK d : d = IF e.at \in client.win.msgs THEN Rewound(client, e.at) ELSE Cleared(client)
      OBVIOUS
    <3>2. client' = Sync(d, FALSE)
      BY <2>3, <3>1 DEF Invalidated
    <3>3. d \in ClientType /\ ~Running(d) /\ Bound(d) /\ Anchored(d)
      <4>1. CASE e.at \in client.win.msgs
        BY <1>2, <1>4, <3>1, <4>1, Restarts DEF Sound, Bound, Anchored
      <4>2. CASE e.at \notin client.win.msgs
        BY <1>2, <3>1, <4>2, Empties DEF Cleared, Sound
      <4> QED
        BY <4>1, <4>2
    <3> QED
      BY <1>2, <3>2, <3>3, Syncs
  <2> QED
    BY <1>3, <2>1, <2>2, <2>3 DEF HandleEvent
<1>6. events' \in Seq(EventType) /\ (events' # <<>> => live)
  BY <1>1, <1>2
<1>7. /\ UNCHANGED <<serverVars, rewinds, here, live>> /\ cuts' \in Nat /\ failures' \in Nat /\ scrolls' \in Nat
  BY DEF HandleEvent, IInv, TypeOK
<1> QED
  BY <1>2, <1>5, <1>6, <1>7, Stepped DEF IInv, TypeOK

\* The hub answers.
LEMMA Serves ==
  ASSUME IInv, ServeTail \/ ServeOlder
  PROVE  IInv'
<1>1. epoch \in Nat /\ client \in ClientType /\ Sound(client)
  BY DEF IInv, TypeOK
<1>2. failures' \in Nat /\ scrolls' \in Nat
  BY DEF IInv, TypeOK, ServeTail, ServeOlder
<1>3. CASE ServeTail
  <2>1. client.tail \in TailType /\ Running(client)
    BY <1>1, <1>3 DEF ServeTail, ClientType, NoRequest, Running
  <2>2. PICK page \in PageType : page = PageFor(client.tail) /\ page.epoch # 0
    BY <2>1, Answers DEF IInv
  <2>3. PICK t : t = [client.tail EXCEPT !.at = "answered", !.page = page]
    OBVIOUS
  <2>4. PICK c : c = [client EXCEPT !.tail = t]
    OBVIOUS
  <2>5. /\ t \in TailType /\ t.at = "answered" /\ t.page = page /\ t.stale = client.tail.stale
        /\ t.prefers = client.tail.prefers /\ t.replace = client.tail.replace
        /\ t.after = client.tail.after /\ t.cold = client.tail.cold
    BY <2>1, <2>3 DEF TailType
  <2>6. /\ c \in ClientType /\ c.win = client.win /\ c.tail = t /\ c.older = client.older
        /\ c.trailing = client.trailing
    BY <1>1, <2>4, <2>5 DEF ClientType
  <2>7. ClientStep(c)
    BY <1>1, <1>3, <2>2, <2>3, <2>4 DEF ServeTail, ClientType
  <2>8. Running(c) /\ Sound(c)
    BY <1>1, <2>1, <2>2, <2>5, <2>6 DEF Sound, Bound, Anchored, Locks, Followed, Running, Loading
  <2> QED
    BY <1>2, <2>1, <2>5, <2>6, <2>7, <2>8, ClientSteps DEF IInv, Mounting, Loading
<1>4. CASE ServeOlder
  <2>1. client.older \in OlderType /\ Loading(client)
    BY <1>1, <1>4 DEF ServeOlder, ClientType, NoRequest, Loading
  <2>2. PICK page \in PageType : page = LatestPage(client.older.before, Page, FALSE) /\ page.epoch # 0
    <3>1. client.older.before \in Cursor
      BY <2>1 DEF OlderType
    <3>2. TypeOK
      BY DEF IInv
    <3> QED
      BY <3>1, <3>2, Pages
  <2>3. PICK o : o = [client.older EXCEPT !.at = "answered", !.page = page]
    OBVIOUS
  <2>4. PICK c : c = [client EXCEPT !.older = o]
    OBVIOUS
  <2>5. /\ o \in OlderType /\ o.at = "answered" /\ o.page = page
        /\ o.provisional = client.older.provisional /\ o.install = client.older.install
    BY <2>1, <2>3 DEF OlderType
  <2>6. /\ c \in ClientType /\ c.win = client.win /\ c.tail = client.tail /\ c.older = o
        /\ c.trailing = client.trailing
    BY <1>1, <2>4, <2>5 DEF ClientType
  <2>7. ClientStep(c)
    BY <1>1, <1>4, <2>2, <2>3, <2>4 DEF ServeOlder, ClientType
  <2>8. Loading(c) /\ Sound(c)
    BY <1>1, <2>1, <2>2, <2>5, <2>6 DEF Sound, Bound, Anchored, Locks, Followed, Running, Loading
  <2> QED
    BY <1>2, <2>1, <2>6, <2>7, <2>8, ClientSteps DEF IInv, Mounting, Running
<1> QED
  BY <1>3, <1>4

\* A superseded synchronization ends: the next one starts.
LEMMA Supersedes ==
  ASSUME IInv, Running(client), client.tail.stale, NEW c, c = StartQueued([client EXCEPT !.tail = NoRequest])
  PROVE  c \in ClientType /\ Sound(c) /\ ~Loading(c) /\ ~c.tail.stale
<1>1. epoch \in Nat /\ client \in ClientType /\ Sound(client)
  BY DEF IInv, TypeOK
<1>2. PICK d : d = [client EXCEPT !.tail = NoRequest]
  OBVIOUS
<1>3. /\ d \in ClientType /\ d.win = client.win /\ d.tail = NoRequest /\ d.older = client.older
      /\ d.trailing = client.trailing
  BY <1>1, <1>2 DEF ClientType
<1>4. d.win.view = "tail" /\ d.trailing /\ ~Running(d)
  BY <1>1, <1>3 DEF Sound, Followed, Running, NoRequest
<1>5. Bound(d) /\ Anchored(d)
  BY <1>1, <1>3 DEF Sound, Bound, Anchored, Loading
<1> QED
  BY <1>1, <1>2, <1>3, <1>4, <1>5, Queues

\* The answer of a synchronization that has not been superseded.  Where a boundary outlasts it, and it
\* is not the first page, it has been merged in view.
LEMMA Applies ==
  ASSUME IInv, Running(client), client.tail.at = "answered", ~client.tail.stale, ApplyTail
  PROVE  /\ client' \in ClientType /\ Sound(client')
         /\ ~Loading(client') /\ (Running(client') => ~client'.tail.stale)
         /\ \/ client'.win.boundary = 0 \/ FirstPage
            \/ client'.win.msgs = MergeInView(client.win, client.tail.page.rows).msgs
<1>1. epoch \in Nat /\ client \in ClientType /\ Sound(client) /\ ~Loading(client)
  BY DEF IInv, TypeOK, Sound, Locks
<1>2. PICK t \in TailType : t = client.tail /\ t.at = "answered" /\ ~t.stale
  BY <1>1 DEF ClientType, Running, NoRequest
<1>3. PICK page \in PageType : page = t.page /\ page.epoch # 0
  BY <1>1, <1>2 DEF TailType, Sound, Locks
<1>4. PICK replace \in BOOLEAN : replace = (t.after # 0 \/ t.replace \/ page.reset)
  OBVIOUS
<1>5. PICK latest : latest = ApplyLatest(client, page, replace)
  OBVIOUS
<1>6. /\ latest \in ClientType /\ ~Loading(latest) /\ latest.win.epoch # 0 /\ ~latest.win.provisional
      /\ (~replace => t.cold) /\ (replace => latest.win.boundary = 0)
  <2>1. ~replace => client.tail.cold /\ ~client.tail.replace
    BY <1>1, <1>2, <1>4 DEF Sound, Locks
  <2> QED
    BY <1>1, <1>2, <1>3, <1>5, <2>1, Latests
<1>7. PICK context \in PageType : context = LatestPage(page.next, Page, FALSE)
  <2>1. page.next \in Cursor /\ TypeOK
    BY DEF PageType, IInv
  <2> QED
    BY <2>1, Pages
<1>8. PICK v : v = ApplyAfter(client.win, page)
  OBVIOUS
<1>9. PICK applied : applied = [client EXCEPT !.win = v]
  OBVIOUS
<1>10. /\ v \in WindowType /\ v.epoch # 0
       /\ v.provisional = client.win.provisional /\ v.boundary = client.win.boundary
       /\ v.prefer = client.win.prefer /\ v.syncing = client.win.syncing /\ (client.win.reset => v.reset)
       /\ v.msgs = MergeInView(client.win, client.tail.page.rows).msgs
  BY <1>1, <1>2, <1>3, <1>8, Afters DEF ClientType
<1>11. /\ applied \in ClientType /\ applied.win = v /\ applied.older = client.older /\ applied.tail = t
  BY <1>1, <1>2, <1>9, <1>10 DEF ClientType
<1>12. Bound(applied) /\ Anchored(applied) /\ ~Loading(applied)
  BY <1>1, <1>10, <1>11 DEF Sound, Bound, Anchored, Loading
<1>13. PICK loop : loop = [t EXCEPT !.at = "asked", !.page = NoPage, !.after = page.next, !.baseline = v.msgs,
                                    !.until = IF @ = 0 THEN page.head ELSE @]
  OBVIOUS
<1>14. /\ loop \in TailType /\ loop.at = "asked" /\ ~loop.stale /\ loop.after = page.next
       /\ loop.prefers = t.prefers /\ loop.replace = t.replace
  <2>1. NoPage \in PageType
    BY <1>1, BoundsAssumption DEF NoPage, PageType, Positions, Cursor, Epoch
  <2>2. page.next \in Cursor /\ page.head \in Cursor /\ v.msgs \in SUBSET Positions
    BY <1>10 DEF PageType, WindowType
  <2> QED
    BY <1>2, <1>13, <2>1, <2>2 DEF TailType
<1> DEFINE Shown == \/ client'.win.boundary = 0 \/ FirstPage
                    \/ client'.win.msgs = MergeInView(client.win, client.tail.page.rows).msgs
<1>15. ASSUME NEW d \in ClientType, Bound(d), Anchored(d), ~Loading(d), client' = FinishTail(d),
              d.win.boundary = latest.win.boundary
       PROVE  Shown
  <2>1. CASE replace
    <3>1. Spares(d, client')
      BY <1>15, Sparing
    <3> QED
      BY <1>6, <1>15, <2>1, <3>1 DEF Spares
  <2>2. CASE ~replace
    <3>1. client'.tail.at # "answered"
      BY <1>1, <1>15, Finishes
    <3> QED
      BY <1>2, <1>6, <2>2, <3>1 DEF FirstPage
  <2> QED
    BY <2>1, <2>2
<1>16. CASE client' = FinishTail([latest EXCEPT !.win.prefer = FALSE])
  <2>1. PICK w : w = [latest.win EXCEPT !.prefer = FALSE]
    OBVIOUS
  <2>2. PICK d : d = [latest EXCEPT !.win = w]
    OBVIOUS
  <2>3. d = [latest EXCEPT !.win.prefer = FALSE]
    BY <1>6, <2>1, <2>2 DEF ClientType
  <2>4. w \in WindowType /\ w.epoch # 0 /\ ~w.provisional /\ w.boundary = latest.win.boundary
    BY <1>6, <2>1 DEF ClientType, WindowType
  <2>5. d \in ClientType /\ Bound(d) /\ Anchored(d) /\ ~Loading(d) /\ d.win = w
    BY <1>6, <2>2, <2>4 DEF ClientType, Bound, Anchored, Loading
  <2>6. Shown
    BY <1>16, <1>15, <2>3, <2>4, <2>5
  <2> QED
    BY <1>1, <1>16, <2>3, <2>5, <2>6, Finishes
<1>17. CASE client' = FinishTail([latest EXCEPT
               !.gap = @ \/ latest.win.oldest # page.next,
               !.win = [AddContext(@, context) EXCEPT !.prefer = FALSE]])
  <2>1. PICK u : u = AddContext(latest.win, context)
    OBVIOUS
  <2>2. u \in WindowType /\ u.epoch # 0 /\ ~u.provisional /\ u.boundary = latest.win.boundary
    BY <1>6, <2>1, Contexts DEF ClientType
  <2>3. PICK w : w = [u EXCEPT !.prefer = FALSE]
    OBVIOUS
  <2>4. PICK gap \in BOOLEAN : gap = (latest.gap \/ latest.win.oldest # page.next)
    OBVIOUS
  <2>5. PICK d : d = [latest EXCEPT !.gap = gap, !.win = w]
    OBVIOUS
  <2>6. d = [latest EXCEPT !.gap = @ \/ latest.win.oldest # page.next,
                           !.win = [AddContext(@, context) EXCEPT !.prefer = FALSE]]
    BY <1>6, <2>1, <2>3, <2>4, <2>5 DEF ClientType
  <2>7. w \in WindowType /\ w.epoch # 0 /\ ~w.provisional /\ w.boundary = latest.win.boundary
    BY <2>2, <2>3 DEF WindowType
  <2>8. d \in ClientType /\ Bound(d) /\ Anchored(d) /\ ~Loading(d) /\ d.win = w
    BY <1>6, <2>5, <2>7 DEF ClientType, Bound, Anchored, Loading
  <2>9. Shown
    BY <1>17, <1>15, <2>6, <2>7, <2>8
  <2> QED
    BY <1>1, <1>17, <2>6, <2>8, <2>9, Finishes
<1>18. CASE client' = FinishTail(latest)
  <2>1. Bound(latest) /\ Anchored(latest)
    BY <1>6 DEF Bound, Anchored
  <2>2. Shown
    BY <1>6, <1>18, <1>15, <2>1
  <2> QED
    BY <1>1, <1>6, <1>18, <2>1, <2>2, Finishes
<1>19. CASE client' = FinishTail(applied)
  <2>1. Spares(applied, client')
    BY <1>11, <1>12, <1>19, Sparing
  <2>2. Shown
    BY <1>10, <1>11, <2>1 DEF Spares
  <2> QED
    BY <1>1, <1>11, <1>12, <1>19, <2>2, Finishes
<1>20. CASE client' = [applied EXCEPT !.tail = loop] /\ page.next # 0
  <2>1. /\ client' \in ClientType /\ client'.win = v /\ client'.older = client.older /\ client'.tail = loop
    BY <1>11, <1>14, <1>20 DEF ClientType
  <2>2. Running(client') /\ ~Loading(client') /\ ~client'.tail.stale
    BY <1>1, <1>14, <2>1 DEF Running, Loading
  <2>3. Bound(client') /\ Anchored(client')
    BY <1>11, <1>12, <2>1 DEF Bound, Anchored, Loading
  <2>4. Locks(client')
    BY <1>1, <1>2, <1>10, <1>14, <1>20, <2>1, <2>2 DEF Sound, Locks
  <2>5. Shown
    BY <1>10, <2>1
  <2> QED
    BY <2>1, <2>2, <2>3, <2>4, <2>5 DEF Sound, Followed
<1>21. \/ client' = FinishTail([latest EXCEPT !.win.prefer = FALSE])
       \/ client' = FinishTail([latest EXCEPT
               !.gap = @ \/ latest.win.oldest # page.next,
               !.win = [AddContext(@, context) EXCEPT !.prefer = FALSE]])
       \/ client' = FinishTail(latest)
       \/ client' = FinishTail(applied)
       \/ client' = [applied EXCEPT !.tail = loop] /\ page.next # 0
  <2>1. applied = [client EXCEPT !.win = ApplyAfter(@, page)]
    BY <1>1, <1>8, <1>9 DEF ClientType
  <2>2. loop = [t EXCEPT !.at = "asked", !.page = NoPage, !.after = page.next, !.baseline = applied.win.msgs,
                         !.until = IF @ = 0 THEN page.head ELSE @]
    BY <1>11, <1>13
  <2> QED
    BY <1>2, <1>3, <1>4, <1>5, <1>7, <2>1, <2>2, Zenon DEF ApplyTail, ClientStep
<1> QED
  BY <1>16, <1>17, <1>18, <1>19, <1>20, <1>21

\* The client reads an answer, or the request has failed.
LEMMA Answered ==
  ASSUME IInv, ApplyTail \/ FailTail
  PROVE  IInv'
<1>1. epoch \in Nat /\ client \in ClientType /\ Sound(client)
  BY DEF IInv, TypeOK
<1>2. Running(client)
  BY DEF ApplyTail, FailTail, Running
<1>3. ClientStep(client') /\ failures' \in Nat /\ scrolls' \in Nat
  <2>1. CASE ApplyTail
    BY <2>1, Zenon DEF ApplyTail, ClientStep, IInv, TypeOK
  <2>2. CASE FailTail
    <3>1. failures \in Nat /\ failures' = failures + 1 /\ scrolls \in Nat /\ scrolls' = scrolls
      BY <2>2 DEF FailTail, IInv, TypeOK
    <3>2. ClientStep(client')
      BY <2>2, Zenon DEF FailTail, ClientStep
    <3> QED
      BY <3>1, <3>2
  <2> QED
    BY <2>1, <2>2
<1>4. client' \in ClientType /\ Sound(client') /\ ~Loading(client') /\ (Running(client') => ~client'.tail.stale)
  <2>1. CASE client.tail.stale
    <3>1. client' = StartQueued([client EXCEPT !.tail = NoRequest])
      <4>1. CASE ApplyTail
        BY <2>1, <4>1, Zenon DEF ApplyTail, ClientStep
      <4>2. CASE FailTail
        BY <2>1, <4>2 DEF FailTail, ClientStep
      <4> QED
        BY <4>1, <4>2
    <3> QED
      BY <1>2, <2>1, <3>1, Supersedes
  <2>2. CASE ~client.tail.stale /\ ApplyTail
    <3>1. client.tail.at = "answered"
      BY <2>2 DEF ApplyTail
    <3> QED
      BY <1>2, <2>2, <3>1, Applies
  <2>3. CASE ~client.tail.stale /\ FailTail
    <3>1. PICK gap \in BOOLEAN : gap = (client.gap \/ (~client.tail.replace /\ client.win.newest > client.tail.after))
      OBVIOUS
    <3>2. PICK d : d = [client EXCEPT !.owed = TRUE, !.gap = gap]
      OBVIOUS
    <3>3. client' = FinishTail(d)
      BY <1>1, <2>3, <3>1, <3>2 DEF FailTail, ClientStep, ClientType
    <3>4. d \in ClientType /\ d.win = client.win /\ d.older = client.older
      BY <1>1, <3>2 DEF ClientType
    <3>5. Bound(d) /\ Anchored(d) /\ ~Loading(d)
      BY <1>1, <1>2, <3>4 DEF Sound, Bound, Anchored, Locks, Loading
    <3> QED
      BY <1>1, <3>3, <3>4, <3>5, Finishes
  <2> QED
    BY <2>1, <2>2, <2>3
<1> QED
  BY <1>3, <1>4, ClientSteps

\* The session is opened, and left.
LEMMA Visits ==
  ASSUME IInv, Enter \/ Mounted \/ Leave
  PROVE  IInv'
<1>1. epoch \in Nat /\ client \in ClientType /\ Sound(client)
  BY DEF IInv, TypeOK
<1>2. CASE Enter
  <2>1. ~Loading(client) /\ (Running(client) => ~client.tail.stale)
    BY <1>2 DEF IInv, Mounting, Enter
  <2>2. client' \in ClientType /\ Sound(client') /\ ~Loading(client')
    BY <1>1, <1>2, <2>1, Activates DEF Enter
  <2>3. /\ UNCHANGED <<serverVars, rewinds>> /\ cuts' \in Nat /\ failures' \in Nat /\ scrolls' \in Nat
        /\ here' = "mounting" /\ live' = FALSE /\ events' \in Seq(EventType) /\ events' = <<>>
    BY <1>2 DEF Enter, IInv, TypeOK
  <2> QED
    BY <2>2, <2>3, Stepped
<1>3. CASE Mounted
  <2>1. client' \in ClientType /\ Sound(client') /\ ~Loading(client') /\ ~client'.tail.stale
    BY <1>1, <1>3, Syncs DEF Mounted, Sound
  <2>2. /\ UNCHANGED <<serverVars, rewinds, live, events>> /\ cuts' \in Nat /\ failures' \in Nat /\ scrolls' \in Nat
        /\ here' = "yes" /\ live \in BOOLEAN /\ events \in Seq(EventType) /\ (events # <<>> => live)
    BY <1>3 DEF Mounted, IInv, TypeOK
  <2> QED
    BY <2>1, <2>2, Stepped
<1>4. CASE Leave
  <2>1. PICK d : d = EventsLost(client)
    OBVIOUS
  <2>2. /\ d \in ClientType /\ d.win = client.win /\ d.tail = client.tail /\ Sound(d)
        /\ Running(d) = Running(client)
    BY <1>1, <2>1, Charges
  <2>3. PICK g : g = GiveUpOlder(d)
    OBVIOUS
  <2>4. /\ g \in ClientType /\ Bound(g) /\ Anchored(g) /\ g.older = NoRequest /\ g.tail = d.tail
        /\ g.trailing = d.trailing /\ g.win.view = d.win.view /\ g.win.prefer = d.win.prefer
        /\ g.win.syncing = d.win.syncing
    BY <2>2, <2>3, GivesUp DEF Sound
  <2>5. Running(d) => ~d.tail.stale
    BY <1>4, <2>2 DEF IInv, Mounting, Leave
  <2>6. ~Loading(g)
    BY <2>4 DEF Loading, NoRequest
  <2>7. Sound(g)
    BY <2>2, <2>3, StaysSound
  <2>8. client' = SetMode(g, "tail")
    BY <1>4, <2>1, <2>3 DEF Leave
  <2>9. client' \in ClientType /\ Sound(client') /\ ~Loading(client') /\ (Running(client') => ~client'.tail.stale)
    BY <1>1, <2>4, <2>5, <2>6, <2>7, <2>8, Modes DEF Running
  <2>10. /\ UNCHANGED <<serverVars, rewinds>> /\ cuts' \in Nat /\ failures' \in Nat /\ scrolls' \in Nat
         /\ here' = "no" /\ live' = FALSE /\ events' = <<>>
    BY <1>4 DEF Leave, IInv, TypeOK
  <2>11. <<>> \in Seq(EventType)
    OBVIOUS
  <2> QED
    BY <2>9, <2>10, <2>11, Stepped
<1> QED
  BY <1>2, <1>3, <1>4

\* The user scrolls.
LEMMA Scrolls ==
  ASSUME IInv, NEW mode \in {"tail", "history"}, SetView(mode)
  PROVE  IInv'
<1>1. epoch \in Nat /\ client \in ClientType /\ Sound(client) /\ here = "yes"
  BY DEF IInv, TypeOK, SetView
<1>2. PICK c : c = SetMode(client, mode)
  OBVIOUS
<1>3. Running(client) => ~client.tail.stale
  BY <1>1 DEF IInv, Mounting
<1>4. c \in ClientType /\ Sound(c) /\ (Running(c) => ~c.tail.stale)
  BY <1>1, <1>2, <1>3, Modes
<1>5. PICK s : s = Sync(c, TRUE)
  OBVIOUS
<1>6. s \in ClientType /\ Sound(s) /\ (Running(s) => ~s.tail.stale)
  BY <1>1, <1>4, <1>5, Syncs DEF Sound
<1>7. client' \in {c, s} /\ ClientStep(client')
  BY <1>2, <1>5 DEF SetView, ClientStep
<1>8. failures' \in Nat /\ scrolls' \in Nat
  BY DEF SetView, IInv, TypeOK
<1> QED
  BY <1>1, <1>4, <1>6, <1>7, <1>8, ClientSteps

\* An older page is asked for.
LEMMA Loads ==
  ASSUME IInv, NEW install \in BOOLEAN, LoadOlder(install)
  PROVE  IInv'
<1>1. epoch \in Nat /\ client \in ClientType /\ Sound(client) /\ here = "yes" /\ ~Running(client)
      /\ ~Loading(client) /\ client.win.oldest # 0
  BY DEF IInv, TypeOK, LoadOlder, Sound, Locks
<1>2. PICK provisional \in BOOLEAN : provisional = (install /\ client.win.boundary = 0)
  OBVIOUS
<1>3. PICK o : o = [at |-> "asked", before |-> client.win.oldest, epoch |-> client.win.epoch, install |-> install,
                    provisional |-> provisional, page |-> NoPage]
  OBVIOUS
<1>4. o \in OlderType /\ o.at = "asked" /\ o.provisional = provisional /\ (provisional => o.install)
  <2>1. NoPage \in PageType
    BY <1>1, BoundsAssumption DEF NoPage, PageType, Positions, Cursor, Epoch
  <2> QED
    BY <1>1, <1>2, <1>3, <2>1 DEF OlderType, ClientType, WindowType
<1>5. PICK w : w = IF provisional THEN [client.win EXCEPT !.boundary = client.win.oldest, !.provisional = TRUE]
                   ELSE client.win
  OBVIOUS
<1>6. /\ w \in WindowType /\ w.syncing = client.win.syncing /\ w.reset = client.win.reset
      /\ w.newest = client.win.newest /\ w.epoch = client.win.epoch
      /\ (provisional => w.boundary # 0)
      /\ (~provisional => w = client.win)
  BY <1>1, <1>5 DEF ClientType, WindowType
<1>7. PICK c : c = [client EXCEPT !.older = o, !.win = w]
  OBVIOUS
<1>8. c \in ClientType /\ c.win = w /\ c.older = o /\ c.tail = client.tail
  BY <1>1, <1>4, <1>6, <1>7 DEF ClientType
<1>9. ClientStep(c) /\ failures' \in Nat /\ scrolls' \in Nat
  <2>1. failures' \in Nat /\ scrolls' \in Nat
    BY DEF LoadOlder, IInv, TypeOK
  <2>2. ClientStep([client EXCEPT !.older = o, !.win = IF provisional THEN [@ EXCEPT !.boundary = client.win.oldest, !.provisional = TRUE] ELSE @])
    BY <1>2, <1>3, Zenon DEF LoadOlder
  <2>3. c = [client EXCEPT !.older = o, !.win = IF provisional THEN [@ EXCEPT !.boundary = client.win.oldest, !.provisional = TRUE] ELSE @]
    BY <1>1, <1>5, <1>7 DEF ClientType
  <2> QED
    BY <2>1, <2>2, <2>3
<1>10. ~Running(c) /\ Loading(c)
  BY <1>1, <1>4, <1>8 DEF Running, Loading
<1>11. Bound(c) /\ Anchored(c)
  BY <1>1, <1>4, <1>6, <1>8, <1>10 DEF Sound, Bound, Anchored
<1>12. Locks(c)
  BY <1>1, <1>4, <1>6, <1>8, <1>10 DEF Sound, Locks
<1>13. Sound(c)
  BY <1>10, <1>11, <1>12 DEF Sound, Followed
<1> QED
  BY <1>1, <1>8, <1>9, <1>10, <1>13, ClientSteps

\* It shows that the cursors are worthless.
LEMMA Resets ==
  ASSUME IInv, OlderReset
  PROVE  IInv'
<1>1. epoch \in Nat /\ client \in ClientType /\ Sound(client) /\ Loading(client)
  BY DEF IInv, TypeOK, OlderReset, Loading
<1>2. PICK w : w = [client.win EXCEPT !.epoch = 0, !.newest = 0, !.reset = TRUE]
  OBVIOUS
<1>3. w \in WindowType /\ w.reset /\ w.provisional = client.win.provisional /\ w.boundary = client.win.boundary
  <2>1. 0 \in Cursor /\ 0 \in Epoch
    BY <1>1, BoundsAssumption DEF Cursor, Epoch
  <2> QED
    BY <1>1, <1>2, <2>1 DEF ClientType, WindowType
<1>4. PICK d : d = [client EXCEPT !.older = NoRequest, !.win = w]
  OBVIOUS
<1>5. d \in ClientType /\ d.win = w /\ d.tail = client.tail
  BY <1>1, <1>3, <1>4 DEF ClientType
<1>6. ClientStep(Sync(d, TRUE)) /\ failures' \in Nat /\ scrolls' \in Nat
  <2>1. d = [client EXCEPT !.older = NoRequest, !.win.epoch = 0, !.win.newest = 0, !.win.reset = TRUE]
    BY <1>1, <1>2, <1>4 DEF ClientType, WindowType
  <2> QED
    BY <2>1 DEF OlderReset, IInv, TypeOK
<1>7. ~Running(d)
  BY <1>1, <1>5 DEF Sound, Locks, Running
<1>8. Bound(d) /\ Anchored(d)
  BY <1>1, <1>3, <1>5 DEF Sound, Bound, Anchored
<1>9. PICK s : s = Sync(d, TRUE)
  OBVIOUS
<1>10. s \in ClientType /\ Sound(s) /\ ~Loading(s) /\ ~s.tail.stale
  BY <1>1, <1>5, <1>7, <1>8, <1>9, Syncs
<1> QED
  BY <1>6, <1>9, <1>10, ClientSteps

\* It is merged.
LEMMA AppliesOlder ==
  ASSUME IInv, NEW open \in BOOLEAN, ApplyOlder(open)
  PROVE  IInv'
<1>1. epoch \in Nat /\ client \in ClientType /\ Sound(client) /\ Loading(client) /\ ~Running(client)
      /\ client.older.at = "answered"
  BY DEF IInv, TypeOK, ApplyOlder, Loading, Sound, Locks
<1>2. PICK o \in OlderType : o = client.older /\ o.page.epoch # 0
  BY <1>1 DEF ClientType, Loading, NoRequest, Sound, Locks
<1>3. PICK w \in WindowType : w = client.win
  BY <1>1 DEF ClientType
<1>4. PICK boundary : boundary = IF w.boundary # 0 THEN w.boundary ELSE IF open THEN o.before ELSE 0
  OBVIOUS
<1>5. PICK merged : merged = Merge(w, o.page.rows, IF w.view = "tail" /\ boundary # 0 THEN "append" ELSE "prepend",
                                   Older, boundary)
  OBVIOUS
<1>6. PICK trimmed : trimmed = IF ~open /\ o.provisional /\ w.view = "tail" THEN TrimReleased(merged) ELSE merged
  OBVIOUS
<1>7. trimmed \in WindowType /\ trimmed.syncing = w.syncing
  <2>1. o.page.rows \in SUBSET Positions
    BY DEF OlderType, PageType
  <2>2. merged \in WindowType /\ Keeps(merged, w)
    BY <1>5, <2>1, Merges
  <2>3. TrimReleased(merged) \in WindowType /\ Keeps(TrimReleased(merged), merged)
    BY <2>2, Views
  <2> QED
    BY <1>6, <2>2, <2>3 DEF Keeps
<1>8. PICK oldest : oldest = IF trimmed # merged THEN trimmed.oldest ELSE o.page.next
  OBVIOUS
<1>9. PICK kept : kept = IF open THEN o.before ELSE IF o.install THEN 0 ELSE w.boundary
  OBVIOUS
<1>10. oldest \in Cursor /\ kept \in Cursor /\ o.page.epoch \in Epoch /\ o.page.hasMore \in BOOLEAN
  BY <1>7, <1>8, <1>9, BoundsAssumption DEF WindowType, OlderType, PageType, Cursor
<1>11. PICK v : v = [trimmed EXCEPT !.hasMore = o.page.hasMore, !.epoch = o.page.epoch, !.oldest = oldest,
                                    !.boundary = kept, !.provisional = FALSE]
  OBVIOUS
<1>12. v \in WindowType /\ v.epoch # 0 /\ ~v.provisional /\ v.syncing = w.syncing
  BY <1>2, <1>7, <1>10, <1>11 DEF WindowType
<1>13. PICK gap \in BOOLEAN : gap = (client.gap \/ (trimmed # merged /\ ~o.page.hasMore) \/ w.oldest # o.before)
  OBVIOUS
<1>14. PICK c : c = [client EXCEPT !.older = NoRequest, !.gap = gap, !.win = v]
  OBVIOUS
<1>15. c \in ClientType /\ c.win = v /\ c.older = NoRequest /\ c.tail = client.tail
  BY <1>1, <1>12, <1>14 DEF ClientType
<1>16. ClientStep(c) /\ failures' \in Nat /\ scrolls' \in Nat
  <2>1. failures' \in Nat /\ scrolls' \in Nat
    BY DEF ApplyOlder, IInv, TypeOK
  <2> DEFINE b == IF client.win.boundary # 0 THEN client.win.boundary ELSE IF open THEN client.older.before ELSE 0
             m == Merge(client.win, client.older.page.rows,
                        IF client.win.view = "tail" /\ b # 0 THEN "append" ELSE "prepend", Older, b)
             u == IF ~open /\ client.older.provisional /\ client.win.view = "tail" THEN TrimReleased(m) ELSE m
             f == [client EXCEPT
                     !.older = NoRequest,
                     !.gap = @ \/ (u # m /\ ~client.older.page.hasMore) \/ client.win.oldest # client.older.before,
                     !.win = [u EXCEPT
                        !.hasMore = client.older.page.hasMore, !.epoch = client.older.page.epoch,
                        !.oldest = IF u # m THEN @ ELSE client.older.page.next,
                        !.boundary = IF open THEN client.older.before
                                     ELSE IF client.older.install THEN 0 ELSE client.win.boundary,
                        !.provisional = FALSE]]
  <2>2. b = boundary
    BY <1>2, <1>3, <1>4
  <2>3. ClientStep(f)
    BY DEF ApplyOlder
  <2>5. m = merged
    BY <1>2, <1>3, <1>5, <2>2
  <2> HIDE DEF m, b
  <2>6. u = trimmed
    BY <1>2, <1>3, <1>6, <2>5
  <2> HIDE DEF u
  <2>4. f = c
    BY <1>1, <1>2, <1>3, <1>7, <1>8, <1>9, <1>11, <1>13, <1>14, <2>5, <2>6 DEF ClientType, WindowType
  <2> QED
    BY <2>1, <2>3, <2>4
<1>17. ~Running(c) /\ ~Loading(c)
  BY <1>1, <1>15 DEF Running, Loading, NoRequest
<1>18. Sound(c)
  BY <1>1, <1>3, <1>12, <1>15, <1>17 DEF Sound, Bound, Anchored, Locks, Followed
<1> QED
  BY <1>15, <1>16, <1>17, <1>18, ClientSteps

\* It is refused, or given up: the boundary that was installed for it goes.
LEMMA Refuses ==
  ASSUME IInv, DropOlder \/ CancelOlder
  PROVE  IInv'
<1>1. epoch \in Nat /\ client \in ClientType /\ Sound(client) /\ Loading(client) /\ ~Running(client)
  BY DEF IInv, TypeOK, DropOlder, CancelOlder, Sound, Locks
<1>2. failures' \in Nat /\ scrolls' \in Nat
  BY DEF IInv, TypeOK, DropOlder, CancelOlder
<1>3. CASE DropOlder
  <2>1. PICK u : u = Unbound(client.win)
    OBVIOUS
  <2>2. u \in WindowType /\ ~u.provisional /\ u.syncing = client.win.syncing
        /\ u.epoch = client.win.epoch /\ u.newest = client.win.newest /\ u.reset = client.win.reset
    BY <1>1, <2>1, Unbinds DEF ClientType
  <2>3. PICK r : r = TrimReleased(u)
    OBVIOUS
  <2>4. r \in WindowType /\ Keeps(r, u)
    BY <2>2, <2>3, Views
  <2>5. PICK w : w = IF client.older.provisional THEN r ELSE client.win
    OBVIOUS
  <2>6. w \in WindowType /\ w.syncing = client.win.syncing
        /\ (w.newest # 0 /\ ~w.reset => w.epoch # 0)
    BY <1>1, <2>2, <2>4, <2>5 DEF Keeps, ClientType, Sound, Anchored
  <2>7. w.provisional => w.boundary # 0 /\ w.reset
    BY <1>1, <2>2, <2>4, <2>5 DEF Keeps, Sound, Bound
  <2>8. PICK c : c = [client EXCEPT !.older = NoRequest, !.win = w]
    OBVIOUS
  <2>9. c \in ClientType /\ c.win = w /\ c.older = NoRequest /\ c.tail = client.tail
    BY <1>1, <2>6, <2>8 DEF ClientType
  <2>10. ClientStep(c)
    BY <1>1, <1>3, <2>1, <2>3, <2>5, <2>8 DEF DropOlder, ClientType
  <2>11. ~Running(c) /\ ~Loading(c)
    BY <1>1, <2>9 DEF Running, Loading, NoRequest
  <2>12. Sound(c)
    BY <1>1, <2>6, <2>7, <2>9, <2>11 DEF Sound, Bound, Anchored, Locks, Followed
  <2> QED
    BY <1>2, <2>9, <2>10, <2>11, <2>12, ClientSteps
<1>4. CASE CancelOlder
  <2>1. PICK g : g = GiveUpOlder(client)
    OBVIOUS
  <2>2. /\ g \in ClientType /\ Bound(g) /\ Anchored(g) /\ g.older = NoRequest /\ g.tail = client.tail
        /\ g.win.syncing = client.win.syncing
    BY <1>1, <2>1, GivesUp DEF Sound
  <2>3. ~Running(g) /\ ~Loading(g)
    BY <1>1, <2>2 DEF Running, Loading, NoRequest
  <2>4. Sound(g)
    BY <1>1, <2>2, <2>3 DEF Sound, Locks, Followed
  <2>5. ClientStep(g)
    BY <1>4, <2>1 DEF CancelOlder
  <2> QED
    BY <1>2, <2>2, <2>3, <2>4, <2>5, ClientSteps
<1> QED
  BY <1>3, <1>4

---------------------------------------------------------------------------
(* The theorems about states.                                              *)

\* Every step keeps the invariant.
LEMMA Stepping ==
  IInv /\ [Next]_vars => IInv'
<1> SUFFICES ASSUME IInv, [Next]_vars
             PROVE  IInv'
  OBVIOUS
<1>1. CASE UNCHANGED vars
  BY <1>1 DEF vars, serverVars, IInv, TypeOK, Mounting, Sound, Bound, Anchored, Locks, Followed, Running, Loading,
              ClientType, WindowType, TailType, OlderType, PageType, EventType, Positions, Cursor, Epoch
<1>2. ASSUME NEW x \in thread, Rewind(x)
      PROVE  IInv'
  BY <1>2, Rewinds
<1>3. ASSUME NEW mode \in {"tail", "history"}, SetView(mode)
      PROVE  IInv'
  BY <1>3, Scrolls
<1>4. ASSUME NEW install \in BOOLEAN, LoadOlder(install)
      PROVE  IInv'
  BY <1>4, Loads
<1>5. ASSUME NEW open \in BOOLEAN, ApplyOlder(open)
      PROVE  IInv'
  BY <1>5, AppliesOlder
<1>6. CASE Store
  BY <1>6, Stores
<1>7. CASE Connect \/ Cut
  BY <1>7, Streams
<1>8. CASE HandleEvent
  BY <1>8, Handles
<1>9. CASE ServeTail \/ ServeOlder
  BY <1>9, Serves
<1>10. CASE ApplyTail \/ FailTail
  BY <1>10, Answered
<1>11. CASE Enter \/ Mounted \/ Leave
  BY <1>11, Visits
<1>12. CASE OlderReset
  BY <1>12, Resets
<1>13. CASE DropOlder \/ CancelOlder
  BY <1>13, Refuses
<1> QED
  BY <1>1, <1>2, <1>3, <1>4, <1>5, <1>6, <1>7, <1>8, <1>9, <1>10, <1>11, <1>12, <1>13 DEF Next

\* The invariant holds in every state.
THEOREM Inductive == Spec => []IInv
<1>1. Init => IInv
  BY Starting
<1>2. IInv /\ [Next]_vars => IInv'
  BY Stepping
<1> QED
  BY <1>1, <1>2, PTL DEF Spec

\* TypeOK: whatever overlaps, cursors and pages stay cursors and pages of epochs that have been.
THEOREM TypeCorrect == Spec => []TypeOK
<1>1. IInv => TypeOK
  BY DEF IInv
<1> QED
  BY <1>1, Inductive, PTL

\* ProvisionalEnds: the boundary that was installed for an older page ends with its request, in every
\* order of syncs, cancellations, view changes and re-entries.
THEOREM BoundaryEnds == Spec => []ProvisionalEnds
<1>1. IInv => ProvisionalEnds
  BY DEF IInv, Sound, Bound, ProvisionalEnds
<1> QED
  BY <1>1, Inductive, PTL

\* SyncingIsRunning: the busy flag is never left behind by the synchronizations that supersede each other.
THEOREM BusyEnds == Spec => []SyncingIsRunning
<1>1. IInv => SyncingIsRunning
  BY DEF IInv, Sound, Locks, SyncingIsRunning
<1> QED
  BY <1>1, Inductive, PTL

---------------------------------------------------------------------------
(* What the boundary protects.                                             *)

\* A set of positions is finite.
LEMMA Finite ==
  ASSUME NEW S \in SUBSET Positions
  PROVE  IsFiniteSet(S) /\ Cardinality(S) \in Nat
<1>1. 1 \in Int /\ MaxMessages \in Int
  BY BoundsAssumption
<1>2. IsFiniteSet(Positions)
  BY <1>1, FS_Interval DEF Positions
<1> QED
  BY <1>2, FS_Subset, FS_CardinalityType

\* What a bottom part of a set leaves out lies above it, and then the part is full.
LEMMA Bottoms ==
  ASSUME NEW S \in SUBSET Positions, NEW n \in Nat, NEW x \in S, x \notin BottomOf(S, n)
  PROVE  /\ Cardinality(BottomOf(S, n)) >= n
         /\ \A y \in BottomOf(S, n) : y < x
<1> DEFINE B == BottomOf(S, n)
           below(z) == {y \in S : y < z}
<1>1. S \subseteq Nat /\ IsFiniteSet(S)
  BY Finite DEF Positions
<1>2. \A z : IsFiniteSet(below(z)) /\ Cardinality(below(z)) \in Nat
  <2> TAKE z
  <2>1. below(z) \subseteq S
    OBVIOUS
  <2> QED
    BY <1>1, <2>1, FS_Subset, FS_CardinalityType
<1>3. \A z \in S : z \in B <=> Cardinality(below(z)) < n
  BY DEF BottomOf
<1>4. B \subseteq S
  BY DEF BottomOf
<1> HIDE DEF B
<1>5. \A y \in B : y < x
  <2> SUFFICES ASSUME NEW y \in B, ~(y < x)
               PROVE  FALSE
    OBVIOUS
  <2>1. x \in Nat /\ y \in Nat /\ x <= y /\ y \in S
    BY <1>1, <1>4
  <2>2. below(x) \subseteq below(y)
    <3>1. \A v \in S : v < x => v < y
      BY <1>1, <2>1
    <3> QED
      BY <3>1
  <2>3. Cardinality(below(x)) <= Cardinality(below(y))
    BY <1>2, <2>2, FS_Subset
  <2>4. Cardinality(below(y)) < n /\ ~(Cardinality(below(x)) < n)
    BY <1>3, <2>1 DEF B
  <2> HIDE DEF below
  <2> QED
    BY <1>2, <2>3, <2>4
<1>6. Cardinality(B) >= n
  <2>1. S \ B \in SUBSET Positions /\ x \in S \ B
    BY DEF B
  <2>2. PICK z \in S \ B : \A y \in S \ B : z <= y
    BY <2>1, Ends
  <2>3. below(z) \subseteq B
    <3>1. \A v \in S : v < z => v \in B
      BY <1>1, <2>2
    <3> QED
      BY <3>1
  <2>4. Cardinality(below(z)) <= Cardinality(B)
    BY <1>1, <1>4, <2>3, FS_Subset
  <2>5. ~(Cardinality(below(z)) < n)
    BY <1>3, <2>2
  <2>6. Cardinality(B) \in Nat
    BY <1>1, <1>4, FS_Subset, FS_CardinalityType
  <2> HIDE DEF below
  <2> QED
    BY <1>2, <2>4, <2>5, <2>6
<1> QED
  BY <1>5, <1>6 DEF B

\* x is there, or a full window of older rows is.
Held(msgs, x) == x \in msgs \/ (Cardinality(msgs) >= Older /\ \A y \in msgs : y < x)

\* So a merge under a boundary holds what was there.
LEMMA Merging ==
  ASSUME NEW w \in WindowType, NEW incoming \in SUBSET Positions, NEW mode, NEW limit \in Nat,
         NEW boundary \in Cursor, boundary # 0, NEW x \in w.msgs
  PROVE  Held(Merge(w, incoming, mode, limit, boundary).msgs, x)
<1>1. PICK m : m = [w EXCEPT !.msgs = @ \cup incoming]
  OBVIOUS
<1>2. m \in WindowType /\ m.msgs = w.msgs \cup incoming /\ x \in m.msgs
  BY <1>1 DEF WindowType
<1>3. CASE incoming = {} \/ mode = "append"
  BY <1>1, <1>2, <1>3 DEF Merge, Held
<1>4. CASE incoming # {} /\ mode # "append"
  <2>1. PICK n : n = Higher(Higher(limit, Older), Cardinality(w.msgs))
    OBVIOUS
  <2>2. Older \in Nat /\ Cardinality(w.msgs) \in Nat
    <3>1. w.msgs \in SUBSET Positions
      BY DEF WindowType
    <3> QED
      BY <3>1, SizesAssumption, Finite
  <2>3. n \in Nat /\ n >= Older
    BY <2>1, <2>2 DEF Higher
  <2>4. PICK kept : kept = BottomOf(m.msgs, n)
    OBVIOUS
  <2>5. kept \subseteq m.msgs
    BY <2>4 DEF BottomOf
  <2>6. Merge(w, incoming, mode, limit, boundary).msgs = kept
    <3>1. Merge(w, incoming, mode, limit, boundary) = DropNewest(m, kept)
      BY <1>1, <1>4, <2>1, <2>4, Zenon DEF Merge
    <3> QED
      BY <1>2, <2>5, <3>1, Trims
  <2>7. x \notin kept => Cardinality(kept) >= n /\ \A y \in kept : y < x
    BY <1>2, <2>3, <2>4, Bottoms DEF WindowType
  <2>8. Cardinality(kept) \in Nat
    <3>1. kept \in SUBSET Positions
      BY <1>2, <2>5 DEF WindowType
    <3> QED
      BY <3>1, Finite
  <2> QED
    BY <2>2, <2>3, <2>6, <2>7, <2>8 DEF Held
<1> QED
  BY <1>3, <1>4

\* What a step that spares the window shows.
LEMMA Spared ==
  ASSUME Spares(client, client'), client'.win.boundary # 0, NEW x \in client.win.msgs
  PROVE  Held(client'.win.msgs, x)
BY DEF Spares, Held

\* A merge in view under a boundary holds what was there.
LEMMA MergingInView ==
  ASSUME NEW w \in WindowType, w.boundary # 0, NEW incoming \in SUBSET Positions, NEW x \in w.msgs
  PROVE  Held(MergeInView(w, incoming).msgs, x)
<1>1. History \in Nat /\ Visible \in Nat /\ w.boundary \in Cursor
  BY SizesAssumption DEF WindowType
<1> QED
  BY <1>1, Merging DEF MergeInView

\* An event holds it.
LEMMA HandlingHolds ==
  ASSUME IInv, HandleEvent, client.win.boundary # 0, client'.win.boundary # 0, client'.win.epoch # 0,
         NEW x \in client.win.msgs
  PROVE  Held(client'.win.msgs, x)
<1>1. epoch \in Nat /\ client \in ClientType /\ Sound(client)
  BY DEF IInv, TypeOK
<1>2. PICK e \in EventType : e = Head(events)
  <2>1. PICK s \in Seq(EventType) : s = events /\ s # <<>>
    BY DEF HandleEvent, IInv, TypeOK
  <2> QED
    BY <2>1
<1>3. CASE e.kind = "connected" /\ client' = Connected(client)
  <2>1. PICK d : d = [client EXCEPT !.owed = TRUE]
    OBVIOUS
  <2>2. d \in ClientType /\ d.win = client.win /\ d.older = client.older
    BY <1>1, <2>1 DEF ClientType
  <2>3. client' = Sync(d, TRUE)
    BY <1>3, <2>1 DEF Connected
  <2>4. Bound(d)
    BY <1>1, <2>2 DEF Sound, Bound, Loading
  <2>5. Spares(d, client')
    BY <2>2, <2>3, <2>4, Sparing
  <2> QED
    BY <2>2, <2>5, Spared DEF Spares
<1>4. CASE e.kind = "message" /\ client' = Ingest(client, e.at)
  <2>1. PICK m : m = MergeInView(client.win, {e.at})
    OBVIOUS
  <2>2. {e.at} \in SUBSET Positions /\ client.win \in WindowType
    BY <1>1, <1>4 DEF EventType, ClientType
  <2>3. m \in WindowType /\ Held(m.msgs, x)
    BY <2>1, <2>2, Views, MergingInView
  <2>4. client'.win \in {m, [m EXCEPT !.newest = Higher(@, e.at)]}
    BY <1>1, <1>4, <2>1 DEF Ingest, ClientType
  <2>5. client'.win.msgs = m.msgs
    BY <2>3, <2>4 DEF WindowType
  <2> QED
    BY <2>3, <2>5
<1>5. CASE e.kind = "rewind" /\ client' = Invalidated(client, e.at)
  <2>1. PICK d : d = IF e.at \in client.win.msgs THEN Rewound(client, e.at) ELSE Cleared(client)
    OBVIOUS
  <2>2. client' = Sync(d, FALSE)
    BY <1>5, <2>1 DEF Invalidated
  <2>3. d \in ClientType /\ Bound(d) /\ d.win.epoch = 0
    <3>1. CASE e.at \in client.win.msgs
      <4>1. d.win.epoch = 0
        BY <1>1, <2>1, <3>1 DEF Rewound, EmptyClient, ClientType, WindowType
      <4> QED
        BY <1>1, <2>1, <3>1, <4>1, Restarts DEF Sound, Bound
    <3>2. CASE e.at \notin client.win.msgs
      BY <1>1, <2>1, <3>2, Empties DEF Cleared, Sound, EmptyClient, EmptyWindow
    <3> QED
      BY <3>1, <3>2
  <2>4. Spares(d, client')
    BY <2>2, <2>3, Sparing
  <2> QED
    BY <2>3, <2>4 DEF Spares
<1> QED
  BY <1>2, <1>3, <1>4, <1>5 DEF HandleEvent

\* So does the answer of a synchronization, unless it is the first page.
LEMMA AnsweringHolds ==
  ASSUME IInv, ApplyTail \/ FailTail, client.win.boundary # 0, client'.win.boundary # 0,
         NEW x \in client.win.msgs
  PROVE  Held(client'.win.msgs, x) \/ FirstPage
<1>1. epoch \in Nat /\ client \in ClientType /\ Sound(client)
  BY DEF IInv, TypeOK
<1>2. Running(client) /\ ~Loading(client) /\ client.tail \in TailType
  <2>1. Running(client)
    BY DEF ApplyTail, FailTail, Running
  <2> QED
    BY <1>1, <2>1 DEF Sound, Locks, ClientType, Running, NoRequest
<1>3. CASE client' = StartQueued([client EXCEPT !.tail = NoRequest])
  <2>1. PICK d : d = [client EXCEPT !.tail = NoRequest]
    OBVIOUS
  <2>2. d \in ClientType /\ d.win = client.win /\ d.older = client.older
    BY <1>1, <2>1 DEF ClientType
  <2>3. Bound(d)
    BY <1>1, <2>2 DEF Sound, Bound, Loading
  <2>4. Spares(d, client')
    BY <1>3, <2>1, <2>2, <2>3, Sparing
  <2> QED
    BY <2>2, <2>4, Spared DEF Spares
<1>4. CASE FailTail /\ ~client.tail.stale
  <2>1. PICK gap : gap = (client.gap \/ (~client.tail.replace /\ client.win.newest > client.tail.after)) /\ gap \in BOOLEAN
    OBVIOUS
  <2>2. PICK d : d = [client EXCEPT !.owed = TRUE, !.gap = gap]
    OBVIOUS
  <2>3. client' = FinishTail(d)
    BY <1>1, <1>4, <2>1, <2>2 DEF FailTail, ClientStep, ClientType
  <2>4. d \in ClientType /\ d.win = client.win /\ d.older = client.older
    BY <1>1, <2>1, <2>2 DEF ClientType
  <2>5. Bound(d)
    BY <1>1, <2>4 DEF Sound, Bound, Loading
  <2>6. Spares(d, client')
    BY <2>3, <2>4, <2>5, Sparing
  <2> QED
    BY <2>4, <2>6, Spared DEF Spares
<1>5. CASE ApplyTail /\ ~client.tail.stale
  <2>1. client.tail.at = "answered"
    BY <1>5 DEF ApplyTail
  <2>2. FirstPage \/ client'.win.msgs = MergeInView(client.win, client.tail.page.rows).msgs
    BY <1>2, <1>5, <2>1, Applies
  <2>3. client.win \in WindowType /\ client.tail.page.rows \in SUBSET Positions
    BY <1>1, <1>2 DEF ClientType, TailType, PageType
  <2> QED
    BY <2>2, <2>3, MergingInView
<1>6. CASE client.tail.stale
  <2>1. client' = StartQueued([client EXCEPT !.tail = NoRequest])
    <3>1. CASE ApplyTail
      BY <1>6, <3>1, Zenon DEF ApplyTail, ClientStep
    <3>2. CASE FailTail
      BY <1>6, <3>2 DEF FailTail, ClientStep
    <3> QED
      BY <3>1, <3>2
  <2> QED
    BY <1>3, <2>1
<1> QED
  BY <1>4, <1>5, <1>6

\* So does everything that is done with older pages.
LEMMA LoadingHolds ==
  ASSUME IInv, client.win.boundary # 0, client'.win.boundary # 0, client'.win.epoch # 0,
         NEW x \in client.win.msgs,
         \/ \E install \in BOOLEAN : LoadOlder(install)
         \/ ServeTail \/ ServeOlder \/ OlderReset \/ DropOlder \/ CancelOlder
         \/ \E open \in BOOLEAN : ApplyOlder(open)
  PROVE  Held(client'.win.msgs, x)
<1>1. epoch \in Nat /\ client \in ClientType /\ Sound(client)
  BY DEF IInv, TypeOK
<1>2. ASSUME NEW install \in BOOLEAN, LoadOlder(install)
      PROVE  Held(client'.win.msgs, x)
  <2>1. client'.win.msgs = client.win.msgs
    BY <1>1, <1>2 DEF LoadOlder, ClientStep, ClientType, WindowType
  <2> QED
    BY <2>1 DEF Held
<1>3. CASE ServeTail \/ ServeOlder
  <2>1. client'.win = client.win
    BY <1>1, <1>3 DEF ServeTail, ServeOlder, ClientStep, ClientType
  <2> QED
    BY <2>1 DEF Held
<1>4. CASE OlderReset
  <2>1. PICK w : w = [client.win EXCEPT !.epoch = 0, !.newest = 0, !.reset = TRUE]
    OBVIOUS
  <2>2. w \in WindowType /\ w.reset /\ w.provisional = client.win.provisional /\ w.boundary = client.win.boundary
        /\ w.epoch = 0
    <3>1. 0 \in Cursor /\ 0 \in Epoch
      BY <1>1, BoundsAssumption DEF Cursor, Epoch
    <3> QED
      BY <1>1, <2>1, <3>1 DEF ClientType, WindowType
  <2>3. PICK d : d = [client EXCEPT !.older = NoRequest, !.win = w]
    OBVIOUS
  <2>4. d \in ClientType /\ d.win = w
    BY <1>1, <2>2, <2>3 DEF ClientType
  <2>5. client' = Sync(d, TRUE)
    <3>1. d = [client EXCEPT !.older = NoRequest, !.win.epoch = 0, !.win.newest = 0, !.win.reset = TRUE]
      BY <1>1, <2>1, <2>3 DEF ClientType, WindowType
    <3> QED
      BY <1>4, <3>1 DEF OlderReset, ClientStep
  <2>6. Bound(d)
    BY <1>1, <2>2, <2>4 DEF Sound, Bound
  <2>7. Spares(d, client')
    BY <2>4, <2>5, <2>6, Sparing
  <2> QED
    BY <2>2, <2>4, <2>7 DEF Spares
<1>5. CASE DropOlder
  <2>1. PICK u : u = Unbound(client.win)
    OBVIOUS
  <2>2. u \in WindowType /\ u.boundary = 0
    BY <1>1, <2>1, Unbinds DEF ClientType
  <2>3. PICK r : r = TrimReleased(u)
    OBVIOUS
  <2>4. r.boundary = 0
    BY <2>2, <2>3, Views DEF Keeps
  <2>5. client'.win \in {r, client.win}
    BY <1>1, <1>5, <2>1, <2>3 DEF DropOlder, ClientStep, ClientType
  <2> QED
    BY <2>4, <2>5 DEF Held
<1>6. CASE CancelOlder
  <2>1. client' = GiveUpOlder(client)
    BY <1>6 DEF CancelOlder, ClientStep
  <2> QED
    BY <1>1, <2>1, Sparing, Spared DEF Sound
<1>7. ASSUME NEW open \in BOOLEAN, ApplyOlder(open)
      PROVE  Held(client'.win.msgs, x)
  <2>1. client.older \in OlderType /\ (client.older.provisional => client.older.install)
    <3>1. client.older.at = "answered"
      BY <1>7 DEF ApplyOlder
    <3> QED
      BY <1>1, <3>1 DEF ClientType, NoRequest, Sound, Locks, Loading
  <2>2. PICK w \in WindowType : w = client.win /\ x \in w.msgs /\ w.boundary # 0
    BY <1>1 DEF ClientType
  <2>3. PICK mode : mode = IF w.view = "tail" THEN "append" ELSE "prepend"
    OBVIOUS
  <2>4. PICK m : m = Merge(w, client.older.page.rows, mode, Older, w.boundary)
    OBVIOUS
  <2>5. client.older.page.rows \in SUBSET Positions
    BY <2>1 DEF OlderType, PageType
  <2>6. m \in WindowType /\ Held(m.msgs, x)
    <3>1. w.boundary \in Cursor /\ Older \in Nat
      BY SizesAssumption DEF WindowType
    <3> QED
      BY <2>2, <2>4, <2>5, <3>1, Merges, Merging
  <2>7. PICK t : t = IF ~open /\ client.older.provisional /\ client.win.view = "tail" THEN TrimReleased(m) ELSE m
    OBVIOUS
  <2>8. t \in WindowType
    BY <2>6, <2>7, Views
  <2>9. /\ client'.win.msgs = t.msgs
        /\ client'.win.boundary = IF open THEN client.older.before
                                  ELSE IF client.older.install THEN 0 ELSE client.win.boundary
    <3> DEFINE b == IF client.win.boundary # 0 THEN client.win.boundary ELSE IF open THEN client.older.before ELSE 0
               n == Merge(client.win, client.older.page.rows,
                          IF client.win.view = "tail" /\ b # 0 THEN "append" ELSE "prepend", Older, b)
               u == IF ~open /\ client.older.provisional /\ client.win.view = "tail" THEN TrimReleased(n) ELSE n
               f == [client EXCEPT
                       !.older = NoRequest,
                       !.gap = @ \/ (u # n /\ ~client.older.page.hasMore) \/ client.win.oldest # client.older.before,
                       !.win = [u EXCEPT
                          !.hasMore = client.older.page.hasMore, !.epoch = client.older.page.epoch,
                          !.oldest = IF u # n THEN @ ELSE client.older.page.next,
                          !.boundary = IF open THEN client.older.before
                                       ELSE IF client.older.install THEN 0 ELSE client.win.boundary,
                          !.provisional = FALSE]]
    <3>1. client' = f
      BY <1>7 DEF ApplyOlder, ClientStep
    <3>2. b = w.boundary
      BY <2>2
    <3>3. n = m
      BY <2>2, <2>3, <2>4, <3>2
    <3> HIDE DEF n, b
    <3>4. u = t
      BY <2>7, <3>3
    <3> HIDE DEF u
    <3> QED
      BY <1>1, <2>8, <3>1, <3>4 DEF ClientType, WindowType
  <2>10. t = m
    BY <2>1, <2>7, <2>9
  <2> QED
    BY <2>6, <2>9, <2>10
<1> QED
  BY <1>2, <1>3, <1>4, <1>5, <1>6, <1>7

\* So do the visits and the view changes.
LEMMA VisitingHolds ==
  ASSUME IInv, client.win.boundary # 0, client'.win.boundary # 0, NEW x \in client.win.msgs,
         Enter \/ Mounted \/ Leave \/ \E mode \in {"tail", "history"} : SetView(mode)
  PROVE  Held(client'.win.msgs, x)
<1>1. epoch \in Nat /\ client \in ClientType /\ Sound(client)
  BY DEF IInv, TypeOK
<1>2. CASE Enter
  BY <1>1, <1>2, SparingViews, Spared DEF Enter
<1>3. CASE Mounted
  BY <1>1, <1>3, Sparing, Spared DEF Mounted, Sound
<1>4. CASE Leave
  <2>1. PICK d : d = EventsLost(client)
    OBVIOUS
  <2>2. /\ d \in ClientType /\ d.win = client.win /\ Sound(d)
    BY <1>1, <2>1, Charges
  <2>3. PICK g : g = GiveUpOlder(d)
    OBVIOUS
  <2>4. g \in ClientType /\ Bound(g) /\ Spares(d, g)
    BY <2>2, <2>3, GivesUp, Sparing DEF Sound
  <2>5. client' = SetMode(g, "tail")
    BY <1>4, <2>1, <2>3 DEF Leave
  <2>6. Spares(g, client')
    BY <1>1, <2>2, <2>3, <2>4, <2>5, StaysSound, SparingViews
  <2> QED
    BY <2>2, <2>4, <2>6, Spared DEF Spares
<1>5. ASSUME NEW mode \in {"tail", "history"}, SetView(mode)
      PROVE  Held(client'.win.msgs, x)
  <2>1. PICK c : c = SetMode(client, mode)
    OBVIOUS
  <2>2. Running(client) => ~client.tail.stale
    BY <1>5 DEF IInv, Mounting, SetView
  <2>3. c \in ClientType /\ Sound(c) /\ Spares(client, c)
    BY <1>1, <2>1, <2>2, Modes, SparingViews
  <2>4. client' \in {c, Sync(c, TRUE)}
    BY <1>5, <2>1 DEF SetView, ClientStep
  <2>5. Spares(c, Sync(c, TRUE))
    BY <2>3, Sparing DEF Sound
  <2>6. Spares(client, client')
    BY <2>3, <2>4, <2>5 DEF Spares
  <2> QED
    BY <2>6, Spared
<1> QED
  BY <1>2, <1>3, <1>4, <1>5

\* LoadedStays: while a boundary is held, nothing that the user has loaded is evicted except for a full
\* window of older rows, whichever live messages, pages and view changes come in between.
THEOREM LoadedIsKept == Spec => LoadedStays
<1> DEFINE A == client.win.boundary # 0 /\ client'.win.boundary # 0 /\ client'.win.epoch # 0 =>
                  \A x \in client.win.msgs : x \in client'.win.msgs \/ GaveWay(x) \/ FirstPage
<1>1. IInv /\ [Next]_vars => A
  <2> SUFFICES ASSUME IInv, [Next]_vars, client.win.boundary # 0, client'.win.boundary # 0,
                      client'.win.epoch # 0, NEW x \in client.win.msgs
               PROVE  Held(client'.win.msgs, x) \/ FirstPage
    BY DEF Held, GaveWay
  <2>1. CASE client'.win.msgs = client.win.msgs
    BY <2>1 DEF Held
  <2>2. CASE UNCHANGED vars \/ Store \/ Connect
    BY <2>1, <2>2 DEF vars, Store, Connect
  <2>3. CASE Cut \/ \E y \in thread : Rewind(y)
    <3>1. client' \in {client, RewindLost(client), EventsLost(client)}
      BY <2>3 DEF Cut, Rewind
    <3>2. client'.win = client.win
      BY <3>1, Charges DEF IInv, TypeOK
    <3> QED
      BY <2>1, <3>2
  <2>4. CASE HandleEvent
    BY <2>4, HandlingHolds
  <2>5. CASE ApplyTail \/ FailTail
    BY <2>5, AnsweringHolds
  <2>6. CASE Enter \/ Mounted \/ Leave \/ \E mode \in {"tail", "history"} : SetView(mode)
    BY <2>6, VisitingHolds
  <2>7. CASE \/ \E install \in BOOLEAN : LoadOlder(install)
             \/ ServeTail \/ ServeOlder \/ OlderReset \/ DropOlder \/ CancelOlder
             \/ \E open \in BOOLEAN : ApplyOlder(open)
    BY <2>7, LoadingHolds
  <2> QED
    BY <2>2, <2>3, <2>4, <2>5, <2>6, <2>7 DEF Next
<1>2. IInv /\ [Next]_vars => [A]_vars
  BY <1>1
<1>3. Init => IInv
  BY Starting
<1>4. IInv /\ [Next]_vars => IInv'
  BY Stepping
<1>5. Spec => [][A]_vars
  BY <1>2, <1>3, <1>4, PTL DEF Spec
<1> QED
  BY <1>5 DEF LoadedStays

---------------------------------------------------------------------------
(* What the store's functions may do to rows and cursors.                  *)

\* The window is about to be replaced.
Due(w) == w.reset \/ w.prefer

\* v has all rows of w, or the newest of them and an oldest cursor that accounts for the others.
Topped(w, v) ==
  /\ v.reset = w.reset
  /\ \/ v.msgs = w.msgs /\ v.hasMore = w.hasMore /\ v.oldest = w.oldest
     \/ v.msgs = TopOf(w.msgs, Visible) /\ v.msgs # w.msgs /\ v.hasMore /\ v.oldest = Min(v.msgs)

\* v is w with rows dropped: the oldest of them, or others with a reset to follow.
Thinned(w, v) ==
  /\ v.msgs \subseteq w.msgs /\ (w.msgs # {} => v.msgs # {})
  /\ v.oldest # 0 => w.oldest # 0 \/ v.msgs # {}
  /\ w.reset => v.reset
  /\ v.reset => w.reset \/ v.msgs # w.msgs
  /\ ~v.reset => v.epoch = w.epoch /\ v.newest = w.newest
  /\ Topped(w, v) \/ (v.reset /\ v.hasMore = w.hasMore /\ v.oldest = w.oldest)

\* d is c with the window thinned, the older page given up, or its synchronization superseded.
Calm(c, d) ==
  /\ d.gap = c.gap /\ d.owed = c.owed
  /\ d.older \in {c.older, NoRequest}
  /\ Thinned(c.win, d.win) /\ (c.win.prefer => d.win.prefer)
  /\ Running(d) = Running(c)
  /\ Running(c) =>
       /\ d.tail \in {c.tail, [c.tail EXCEPT !.stale = TRUE]}
       /\ d.win.prefer = c.win.prefer \/ d.tail.stale
       /\ d.tail # c.tail => d.win.prefer
       /\ Topped(c.win, d.win)

\* d is b with a synchronization that has just started.
Started(b, d) ==
  /\ Running(b) => b.win.prefer
  /\ d.older = NoRequest /\ d.owed = FALSE /\ d.gap = (b.gap /\ ~Due(b.win))
  /\ d.win = [b.win EXCEPT !.syncing = TRUE]
  /\ d.tail \in TailType
  /\ d.tail.at = "asked" /\ ~d.tail.stale /\ d.tail.prefers = b.win.prefer
  /\ d.tail.cold = (~Due(b.win) /\ b.win.newest = 0) /\ d.tail.replace = Due(b.win)
  /\ d.tail.baseline = b.win.msgs /\ d.tail.epoch = b.win.epoch /\ d.tail.until = 0
  /\ d.tail.after = IF Due(b.win) THEN 0 ELSE b.win.newest

\* d is what a step of the store makes of c when it may start a synchronization.
Moves(c, d) == \E b \in ClientType : Calm(c, b) /\ (d = b \/ Started(b, d))

\* A bottom part of a nonempty set is not empty.
LEMMA BottomIsThere ==
  ASSUME NEW S \in SUBSET Positions, S # {}, NEW n \in Nat \ {0}
  PROVE  BottomOf(S, n) # {}
<1>1. Min(S) \in S /\ \A y \in S : Min(S) <= y
  BY Ends
<1>2. {y \in S : y < Min(S)} = {}
  <2>1. PICK m \in S : m = Min(S) /\ \A y \in S : m <= y
    BY <1>1
  <2>2. S \subseteq Nat
    BY DEF Positions
  <2>3. \A y \in S : ~(y < m)
    BY <2>1, <2>2
  <2> QED
    BY <2>1, <2>3
<1>3. Min(S) \in BottomOf(S, n)
  BY <1>1, <1>2, FS_EmptySet DEF BottomOf
<1> QED
  BY <1>3

\* The trims of the store thin the window.
LEMMA Thins ==
  ASSUME NEW w \in WindowType
  PROVE  /\ Thinned(w, w) /\ Thinned(w, Unbound(w))
         /\ Thinned(w, DropOldest(w, TopOf(w.msgs, Visible)))
         /\ \A n \in Nat \ {0} : Thinned(w, DropNewest(w, BottomOf(w.msgs, n)))
         /\ Thinned(w, TrimReleased(w))
<1>1. Visible \in Nat \ {0} /\ History \in Nat \ {0}
  BY SizesAssumption
<1>2. \A n : TopOf(w.msgs, n) \in SUBSET Positions /\ TopOf(w.msgs, n) \subseteq w.msgs
             /\ BottomOf(w.msgs, n) \in SUBSET Positions /\ BottomOf(w.msgs, n) \subseteq w.msgs
  BY DEF TopOf, BottomOf, WindowType
<1>3. Thinned(w, w) /\ Thinned(w, Unbound(w))
  <2>1. w.oldest # 0 => w.oldest # 0 \/ w.msgs # {}
    OBVIOUS
  <2> QED
    BY <2>1 DEF Thinned, Topped, Unbound, WindowType
<1>4. Thinned(w, DropOldest(w, TopOf(w.msgs, Visible)))
  <2>1. PICK kept : kept = TopOf(w.msgs, Visible)
    OBVIOUS
  <2>2. kept \subseteq w.msgs /\ (w.msgs # {} => kept # {})
    BY <1>1, <1>2, <2>1, TopIsThere DEF WindowType
  <2>3. CASE kept = w.msgs
    BY <1>3, <2>1, <2>3 DEF DropOldest
  <2>4. CASE kept # w.msgs
    <3>1. kept # {}
      BY <2>2, <2>4
    <3>2. DropOldest(w, kept) = [w EXCEPT !.msgs = kept, !.hasMore = TRUE, !.oldest = Min(kept)]
      BY <2>4, <3>1 DEF DropOldest
    <3> QED
      BY <2>1, <2>2, <2>4, <3>1, <3>2 DEF Thinned, Topped, WindowType
  <2> QED
    BY <2>3, <2>4
<1>5. ASSUME NEW n \in Nat \ {0}
      PROVE  Thinned(w, DropNewest(w, BottomOf(w.msgs, n)))
  <2>1. PICK kept : kept = BottomOf(w.msgs, n)
    OBVIOUS
  <2>2. kept \subseteq w.msgs /\ (w.msgs # {} => kept # {})
    BY <1>2, <2>1, BottomIsThere DEF WindowType
  <2>3. CASE kept = w.msgs
    BY <1>3, <2>1, <2>3 DEF DropNewest
  <2>4. CASE kept # w.msgs
    <3>1. DropNewest(w, kept) = [w EXCEPT !.msgs = kept, !.reset = TRUE, !.newest = Largest(kept)]
      BY <2>4 DEF DropNewest
    <3> QED
      BY <2>1, <2>2, <2>4, <3>1 DEF Thinned, Topped, WindowType
  <2> QED
    BY <2>3, <2>4
<1>6. Thinned(w, TrimReleased(w))
  BY <1>1, <1>4, <1>5 DEF TrimReleased
<1> QED
  BY <1>3, <1>4, <1>5, <1>6

\* A request is there when it says so.
LEMMA Requests ==
  ASSUME NEW c \in ClientType
  PROVE  /\ c.win \in WindowType
         /\ (Running(c) => c.tail \in TailType) /\ (~Running(c) => c.tail = NoRequest)
         /\ (Loading(c) => c.older \in OlderType) /\ (~Loading(c) => c.older = NoRequest)
         /\ c.gap \in BOOLEAN /\ c.owed \in BOOLEAN /\ c.trailing \in BOOLEAN
BY DEF ClientType, Running, Loading, NoRequest, TailType, OlderType

\* Giving up the older page is calm.
LEMMA CalmGivesUp ==
  ASSUME NEW c \in ClientType, Running(c) => ~Loading(c)
  PROVE  Calm(c, GiveUpOlder(c))
<1>1. c.win \in WindowType /\ Thinned(c.win, c.win)
  BY Thins DEF ClientType
<1>2. PICK u : u = Unbound(c.win)
  OBVIOUS
<1>3. /\ u \in WindowType /\ u.prefer = c.win.prefer /\ Thinned(c.win, u) /\ u.msgs = c.win.msgs
      /\ u.reset = c.win.reset /\ u.epoch = c.win.epoch /\ u.newest = c.win.newest
      /\ u.oldest = c.win.oldest /\ u.hasMore = c.win.hasMore
  <2>1. u \in WindowType /\ u.prefer = c.win.prefer /\ Thinned(c.win, u)
    BY <1>1, <1>2, Unbinds, Thins
  <2> QED
    BY <1>1, <1>2, <2>1 DEF Unbound, WindowType
<1>4. PICK r : r = TrimReleased(u)
  OBVIOUS
<1>5. r.prefer = c.win.prefer /\ Thinned(u, r)
  BY <1>3, <1>4, Views, Thins DEF Keeps
<1>6. Thinned(c.win, r)
  BY <1>3, <1>5 DEF Thinned, Topped
<1>7. PICK g : g = GiveUpOlder(c)
  OBVIOUS
<1>8. g = [c EXCEPT !.older = NoRequest, !.win = IF Loading(c) /\ @.provisional THEN r ELSE @]
  BY <1>2, <1>4, <1>7, Zenon DEF GiveUpOlder
<1>9. CASE Loading(c) /\ c.win.provisional
  <2>1. g = [c EXCEPT !.older = NoRequest, !.win = r]
    BY <1>8, <1>9
  <2>2. g.win = r /\ g.older = NoRequest /\ g.tail = c.tail /\ g.gap = c.gap /\ g.owed = c.owed
    BY <2>1 DEF ClientType
  <2>3. Running(g) = Running(c) /\ ~Running(c)
    BY <1>9, <2>2 DEF Running
  <2> QED
    BY <1>5, <1>6, <1>7, <2>2, <2>3 DEF Calm
<1>10. CASE ~(Loading(c) /\ c.win.provisional)
  <2>1. g = [c EXCEPT !.older = NoRequest]
    BY <1>8, <1>10 DEF ClientType
  <2>2. g.win = c.win /\ g.older = NoRequest /\ g.tail = c.tail /\ g.gap = c.gap /\ g.owed = c.owed
    BY <2>1 DEF ClientType
  <2>3. Running(g) = Running(c)
    BY <2>2 DEF Running
  <2> QED
    BY <1>1, <1>7, <2>2, <2>3 DEF Calm, Topped
<1> QED
  BY <1>9, <1>10

\* What is calm before a client that differs in the queue only is calm.
LEMMA CalmQueue ==
  ASSUME NEW c \in ClientType, NEW f, f \in ClientType, NEW d, Calm(f, d),
         f.win = c.win, f.tail = c.tail, f.older = c.older, f.gap = c.gap, f.owed = c.owed
  PROVE  Calm(c, d)
BY DEF Calm, Running

\* Nothing is calm.
LEMMA CalmStays ==
  ASSUME NEW c \in ClientType, NEW d,
         d.win = c.win, d.tail = c.tail, d.older \in {c.older, NoRequest}, d.gap = c.gap, d.owed = c.owed
  PROVE  Calm(c, d)
<1>1. Thinned(c.win, c.win)
  BY Thins DEF ClientType
<1> QED
  BY <1>1 DEF Calm, Running, Topped

\* A synchronization starts after the older page is given up.
LEMMA CalmStarts ==
  ASSUME epoch \in Nat, NEW c \in ClientType, Bound(c), Anchored(c),
         Running(c) => ~Loading(c) /\ c.win.prefer, NEW s, s = StartTail(c)
  PROVE  \E b \in ClientType : Calm(c, b) /\ Started(b, s)
<1>1. PICK b : b = GiveUpOlder(c)
  OBVIOUS
<1>2. b \in ClientType /\ Bound(b) /\ Anchored(b) /\ b.older = NoRequest
  BY <1>1, GivesUp
<1>3. PICK w : w = b.win
  OBVIOUS
<1>4. PICK increment : increment = (w.newest # 0 /\ w.epoch # 0 /\ ~w.reset /\ ~w.prefer)
  OBVIOUS
<1>5. PICK cold : cold = (~w.reset /\ ~w.prefer /\ w.newest = 0)
  OBVIOUS
<1>6. PICK t : t = [at |-> "asked", stale |-> FALSE, prefers |-> w.prefer, cold |-> cold,
                    replace |-> w.reset \/ w.prefer, baseline |-> w.msgs,
                    after |-> IF increment THEN w.newest ELSE 0, until |-> 0,
                    epoch |-> w.epoch, limit |-> IF (w.prefer /\ ~w.reset) \/ cold THEN Initial ELSE Page,
                    page |-> NoPage]
  OBVIOUS
<1>7. s = [b EXCEPT !.win.syncing = TRUE, !.owed = FALSE, !.gap = @ /\ ~w.reset /\ ~w.prefer, !.tail = t]
  BY <1>1, <1>3, <1>4, <1>5, <1>6, Zenon DEF StartTail
<1>8. PICK v : v = [w EXCEPT !.syncing = TRUE]
  OBVIOUS
<1>9. PICK gap \in BOOLEAN : gap = (b.gap /\ ~w.reset /\ ~w.prefer)
  OBVIOUS
<1>10. s = [b EXCEPT !.win = v, !.owed = FALSE, !.gap = gap, !.tail = t]
  BY <1>2, <1>3, <1>7, <1>8, <1>9 DEF ClientType
<1>11. s.win = v /\ s.owed = FALSE /\ s.gap = gap /\ s.tail = t /\ s.older = NoRequest
  BY <1>2, <1>10 DEF ClientType
<1>12. t \in TailType
  <2>1. w \in WindowType /\ 0 \in Cursor /\ 0 \in Epoch
    BY <1>2, <1>3, BoundsAssumption DEF ClientType, Epoch, Cursor
  <2>2. NoPage \in PageType
    BY <2>1 DEF NoPage, PageType, Positions
  <2> QED
    BY <1>4, <1>5, <1>6, <2>1, <2>2 DEF TailType, WindowType
<1>13. Calm(c, b)
  BY <1>1, CalmGivesUp
<1>14. Running(b) => b.win.prefer
  BY <1>13 DEF Calm
<1>15. w.newest # 0 /\ ~w.reset => w.epoch # 0
  BY <1>2, <1>3 DEF Anchored
<1>16. t.after = IF Due(w) THEN 0 ELSE w.newest
  BY <1>4, <1>6, <1>15 DEF Due
<1>17. Started(b, s)
  BY <1>3, <1>5, <1>6, <1>8, <1>9, <1>11, <1>12, <1>14, <1>16 DEF Started, Due
<1> QED
  BY <1>2, <1>13, <1>17

\* So asking for one, and starting the one that is queued, moves.
LEMMA SyncMoves ==
  ASSUME epoch \in Nat, NEW c \in ClientType, Bound(c), Anchored(c), Running(c) => ~Loading(c),
         NEW after \in BOOLEAN, NEW s, s = Sync(c, after)
  PROVE  Moves(c, s)
<1>1. CASE ~Running(c)
  <2>1. s = StartTail(c)
    BY <1>1 DEF Sync
  <2> QED
    BY <1>1, <2>1, CalmStarts DEF Moves
<1>2. CASE Running(c) /\ c.win.prefer /\ c.tail.prefers
  <2>1. s = c
    BY <1>2 DEF Sync
  <2>2. Calm(c, c)
    BY CalmStays
  <2> QED
    BY <2>1, <2>2 DEF Moves
<1>3. CASE Running(c) /\ c.win.prefer /\ ~c.tail.prefers
  <2>1. PICK f : f = [c EXCEPT !.trailing = FALSE]
    OBVIOUS
  <2>2. s = StartTail(f)
    BY <1>3, <2>1 DEF Sync
  <2>3. /\ f \in ClientType /\ Bound(f) /\ Anchored(f) /\ f.win = c.win /\ f.tail = c.tail
        /\ f.older = c.older /\ f.gap = c.gap /\ f.owed = c.owed
    BY <2>1 DEF ClientType, Bound, Anchored, Loading
  <2>4. Running(f) => ~Loading(f) /\ f.win.prefer
    BY <1>3, <2>3 DEF Running, Loading
  <2>5. PICK b \in ClientType : Calm(f, b) /\ Started(b, s)
    BY <2>2, <2>3, <2>4, CalmStarts
  <2>6. Calm(c, b)
    BY <2>3, <2>5, CalmQueue
  <2> QED
    BY <2>5, <2>6 DEF Moves
<1>4. CASE Running(c) /\ ~c.win.prefer
  <2>1. PICK trailing \in BOOLEAN : trailing = (c.trailing \/ after)
    OBVIOUS
  <2>2. s = [c EXCEPT !.trailing = trailing]
    BY <1>4, <2>1 DEF Sync, ClientType
  <2>3. s \in ClientType /\ s.win = c.win /\ s.tail = c.tail /\ s.older = c.older /\ s.gap = c.gap /\ s.owed = c.owed
    BY <2>2 DEF ClientType
  <2> QED
    BY <2>3, CalmStays DEF Moves
<1> QED
  BY <1>1, <1>2, <1>3, <1>4

LEMMA QueueMoves ==
  ASSUME epoch \in Nat, NEW c \in ClientType, Bound(c), Anchored(c), NEW s, s = StartQueued(c)
  PROVE  Moves(c, s)
<1>1. CASE c.win.view = "tail" /\ c.trailing /\ ~Running(c)
  <2>1. PICK f : f = [c EXCEPT !.trailing = FALSE]
    OBVIOUS
  <2>2. s = StartTail(f)
    BY <1>1, <2>1 DEF StartQueued
  <2>3. /\ f \in ClientType /\ Bound(f) /\ Anchored(f) /\ f.win = c.win /\ f.tail = c.tail
        /\ f.older = c.older /\ f.gap = c.gap /\ f.owed = c.owed
    BY <2>1 DEF ClientType, Bound, Anchored, Loading
  <2>4. ~Running(f)
    BY <1>1, <2>3 DEF Running
  <2>5. PICK b \in ClientType : Calm(f, b) /\ Started(b, s)
    BY <2>2, <2>3, <2>4, CalmStarts
  <2>6. Calm(c, b)
    BY <2>3, <2>5, CalmQueue
  <2> QED
    BY <2>5, <2>6 DEF Moves
<1>2. CASE ~(c.win.view = "tail" /\ c.trailing /\ ~Running(c))
  <2>1. s = c
    BY <1>2 DEF StartQueued
  <2>2. Calm(c, c)
    BY CalmStays
  <2> QED
    BY <2>1, <2>2 DEF Moves
<1> QED
  BY <1>1, <1>2

\* Entering the tail is calm, and so is a change of the view.
LEMMA CalmEnters ==
  ASSUME NEW c \in ClientType
  PROVE  Calm(c, EnterTail(c))
<1>1. PICK w : w = [c.win EXCEPT !.view = "tail"]
  OBVIOUS
<1>2. PICK kept : kept = TopOf(c.win.msgs, Visible)
  OBVIOUS
<1>3. PICK trimmed : trimmed = DropOldest(w, kept)
  OBVIOUS
<1>4. PICK u : u = Unbound(trimmed)
  OBVIOUS
<1>5. PICK v : v = IF c.win.reset THEN [u EXCEPT !.epoch = 0, !.newest = 0] ELSE u
  OBVIOUS
<1>6. PICK older : older = IF Loading(c) /\ (kept # c.win.msgs \/ c.win.boundary # 0) THEN NoRequest ELSE c.older
  OBVIOUS
<1>7. PICK e : e = EnterTail(c)
  OBVIOUS
<1>8. e = [c EXCEPT !.win = v, !.older = older]
  BY <1>1, <1>2, <1>3, <1>4, <1>5, <1>6, <1>7 DEF EnterTail, ClientType
<1>9. /\ w \in WindowType /\ w.msgs = c.win.msgs /\ w.prefer = c.win.prefer
      /\ w.reset = c.win.reset /\ w.newest = c.win.newest /\ w.epoch = c.win.epoch
      /\ w.oldest = c.win.oldest /\ w.hasMore = c.win.hasMore
  BY <1>1 DEF ClientType, WindowType
<1>10. kept \subseteq w.msgs
  BY <1>2, <1>9 DEF TopOf
<1>11. /\ trimmed \in WindowType /\ Thinned(w, trimmed) /\ Keeps(trimmed, w) /\ Topped(w, trimmed)
       /\ trimmed.reset = w.reset /\ trimmed.newest = w.newest
  <2>1. trimmed \in WindowType /\ Keeps(trimmed, w)
    BY <1>3, <1>9, <1>10, Trims
  <2>2. Thinned(w, trimmed)
    BY <1>2, <1>3, <1>9, Thins
  <2>3. trimmed.reset = w.reset /\ trimmed.newest = w.newest
    BY <1>3, <1>9 DEF DropOldest, WindowType
  <2>4. Topped(w, trimmed)
    <3>1. CASE kept = w.msgs
      BY <1>3, <3>1 DEF DropOldest, Topped
    <3>2. CASE kept # w.msgs
      <4>1. kept # {}
        BY <1>2, <1>9, <1>10, <3>2, TopIsThere, SizesAssumption DEF WindowType
      <4>2. trimmed = [w EXCEPT !.msgs = kept, !.hasMore = TRUE, !.oldest = Min(kept)]
        BY <1>3, <3>2, <4>1 DEF DropOldest
      <4> QED
        BY <1>2, <1>9, <3>2, <4>2 DEF Topped, WindowType
    <3> QED
      BY <3>1, <3>2
  <2> QED
    BY <2>1, <2>2, <2>3, <2>4
<1>12. Thinned(c.win, trimmed)
  BY <1>9, <1>11 DEF Thinned, Topped
<1>13. /\ u \in WindowType /\ u.msgs = trimmed.msgs /\ u.prefer = c.win.prefer /\ u.reset = c.win.reset
       /\ u.newest = trimmed.newest /\ u.epoch = trimmed.epoch /\ u.oldest = trimmed.oldest
       /\ u.hasMore = trimmed.hasMore
  <2>1. u \in WindowType
    BY <1>4, <1>11, Unbinds
  <2> QED
    BY <1>4, <1>9, <1>11, <2>1 DEF Unbound, WindowType, Keeps
<1>14. /\ v.msgs = u.msgs /\ v.prefer = u.prefer /\ v.reset = u.reset /\ v.oldest = u.oldest /\ v.hasMore = u.hasMore
       /\ (~c.win.reset => v = u)
  BY <1>5, <1>13 DEF WindowType
<1>15. Thinned(c.win, v) /\ Topped(c.win, v)
  <2>1. Topped(c.win, v)
    BY <1>9, <1>11, <1>13, <1>14 DEF Topped
  <2> QED
    BY <1>9, <1>11, <1>12, <1>13, <1>14, <2>1 DEF Thinned
<1>16. e.win = v /\ e.older = older /\ e.tail = c.tail /\ e.gap = c.gap /\ e.owed = c.owed
  BY <1>8 DEF ClientType
<1>17. Running(e) = Running(c)
  BY <1>16 DEF Running
<1> QED
  BY <1>6, <1>7, <1>13, <1>14, <1>15, <1>16, <1>17 DEF Calm

\* Calm steps add up.
LEMMA ModeMoves ==
  ASSUME epoch \in Nat, NEW c \in ClientType, Sound(c), Running(c) => ~c.tail.stale,
         NEW mode \in {"tail", "history"}, NEW s, s = SetMode(c, mode)
  PROVE  \E e \in ClientType : Calm(c, e) /\ Sound(e) /\ Moves(e, s)
<1>1. CASE mode = "history"
  <2>1. PICK w : w = [c.win EXCEPT !.view = "history"]
    OBVIOUS
  <2>2. PICK d : d = [c EXCEPT !.win = w]
    OBVIOUS
  <2>3. d = [c EXCEPT !.win.view = "history"]
    BY <2>1, <2>2 DEF ClientType
  <2>4. /\ w \in WindowType /\ w.view = "history" /\ w.prefer = c.win.prefer /\ w.syncing = c.win.syncing
        /\ w.provisional = c.win.provisional /\ w.boundary = c.win.boundary /\ w.reset = c.win.reset
        /\ w.newest = c.win.newest /\ w.epoch = c.win.epoch
        /\ w.msgs = c.win.msgs /\ w.hasMore = c.win.hasMore /\ w.oldest = c.win.oldest
    BY <2>1 DEF ClientType, WindowType
  <2>5. d \in ClientType /\ d.win = w /\ d.tail = c.tail /\ d.older = c.older /\ d.gap = c.gap /\ d.owed = c.owed
    BY <2>2, <2>4 DEF ClientType
  <2>6. Sound(d)
    <3>1. Bound(d) /\ Anchored(d)
      BY <2>4, <2>5 DEF Sound, Bound, Anchored, Loading
    <3>2. Locks(d)
      BY <2>4, <2>5 DEF Sound, Locks, Running, Loading
    <3> QED
      BY <2>5, <3>1, <3>2 DEF Sound, Followed, Running
  <2>7. Thinned(c.win, c.win)
    BY Thins DEF ClientType
  <2>8. Calm(c, d)
    BY <2>4, <2>5, <2>7 DEF Calm, Thinned, Topped, Running
  <2>9. s = StartQueued(d)
    BY <1>1, <2>3 DEF SetMode
  <2>10. Moves(d, s)
    BY <2>5, <2>6, <2>9, QueueMoves DEF Sound
  <2> QED
    BY <2>5, <2>6, <2>8, <2>10
<1>2. CASE mode = "tail"
  <2>1. PICK e : e = IF c.win.view # "tail" \/ c.win.boundary # 0 THEN EnterTail(c) ELSE c
    OBVIOUS
  <2>2. s = StartQueued(e)
    BY <1>2, <2>1 DEF SetMode
  <2>3. e \in ClientType /\ Sound(e) /\ Calm(c, e)
    BY <2>1, Enters, CalmEnters, CalmStays
  <2>4. Moves(e, s)
    BY <2>2, <2>3, QueueMoves DEF Sound
  <2> QED
    BY <2>3, <2>4
<1> QED
  BY <1>1, <1>2

\* An activation is calm: what it supersedes, it marks.
LEMMA CalmActivates ==
  ASSUME epoch \in Nat, NEW c \in ClientType, Sound(c), Running(c) => ~c.tail.stale, NEW a, a = Activate(c)
  PROVE  Calm(c, a)
<1>1. PICK kept : kept = TopOf(c.win.msgs, Visible)
  OBVIOUS
<1>2. PICK prefer \in BOOLEAN : prefer = (c.win.newest # 0 /\ c.win.epoch # 0 /\ ~c.win.reset /\ kept # {})
  OBVIOUS
<1>3. PICK requested \in BOOLEAN : requested = (prefer /\ ~c.win.prefer)
  OBVIOUS
<1>4. PICK e : e = IF c.win.view = "tail" /\ kept = c.win.msgs /\ ~c.win.reset /\ c.win.boundary = 0
                   THEN c ELSE EnterTail(c)
  OBVIOUS
<1>5. e \in ClientType /\ Calm(c, e) /\ e.win.prefer = c.win.prefer /\ e.tail = c.tail
  BY <1>4, Enters, CalmEnters, CalmStays
<1>6. PICK w : w = [e.win EXCEPT !.prefer = prefer \/ @]
  OBVIOUS
<1>7. PICK tail : tail = IF requested /\ c.win.syncing /\ Running(c) THEN [c.tail EXCEPT !.stale = TRUE] ELSE c.tail
  OBVIOUS
<1>8. PICK trailing \in BOOLEAN : trailing = (e.trailing \/ (requested /\ Running(c)))
  OBVIOUS
<1>9. PICK older : older = IF requested /\ c.win.syncing THEN NoRequest ELSE e.older
  OBVIOUS
<1>10. a = [e EXCEPT !.win = w, !.older = older, !.tail = tail, !.trailing = trailing]
  BY <1>1, <1>2, <1>3, <1>4, <1>5, <1>6, <1>7, <1>8, <1>9 DEF Activate, ClientType
<1>11. a.win = w /\ a.older = older /\ a.tail = tail /\ a.gap = e.gap /\ a.owed = e.owed
  BY <1>5, <1>10 DEF ClientType
<1>12. /\ w.msgs = e.win.msgs /\ w.reset = e.win.reset /\ w.oldest = e.win.oldest /\ w.hasMore = e.win.hasMore
       /\ w.newest = e.win.newest /\ w.epoch = e.win.epoch /\ w.prefer = (prefer \/ c.win.prefer)
  BY <1>5, <1>6 DEF ClientType, WindowType
<1>13. Thinned(c.win, w) /\ (Running(c) => Topped(c.win, w))
  BY <1>5, <1>12 DEF Calm, Thinned, Topped
<1>14. Running(a) = Running(c)
  BY <1>7, <1>11, Requests DEF Running, TailType
<1>15. Running(c) => w.prefer = c.win.prefer \/ tail.stale
  <2>1. CASE requested /\ Running(c)
    <3>1. tail = [c.tail EXCEPT !.stale = TRUE] /\ c.tail \in TailType
      BY <1>7, <2>1, Requests DEF Sound, Locks
    <3> QED
      BY <3>1 DEF TailType
  <2>2. CASE ~requested
    BY <1>3, <1>12, <2>2, Requests DEF WindowType
  <2> QED
    BY <2>1, <2>2
<1>16. tail # c.tail => w.prefer
  BY <1>3, <1>7, <1>12
<1> QED
  BY <1>5, <1>7, <1>9, <1>11, <1>12, <1>13, <1>14, <1>15, <1>16 DEF Calm

\* A synchronization that ends leaves the window, and may be followed by the one that is queued.
LEMMA EndMoves ==
  ASSUME epoch \in Nat, NEW c \in ClientType, Bound(c), Anchored(c), ~Loading(c), NEW f, f = FinishTail(c)
  PROVE  \E d \in ClientType :
           /\ d.win = [c.win EXCEPT !.syncing = FALSE] /\ d.tail = NoRequest /\ d.older = NoRequest
           /\ d.gap = c.gap /\ d.owed = c.owed /\ Sound(d) /\ Moves(d, f)
<1>1. PICK w : w = [c.win EXCEPT !.syncing = FALSE]
  OBVIOUS
<1>2. PICK d : d = [c EXCEPT !.tail = NoRequest, !.win = w]
  OBVIOUS
<1>3. d = [c EXCEPT !.tail = NoRequest, !.win.syncing = FALSE]
  BY <1>1, <1>2 DEF ClientType
<1>4. w \in WindowType /\ ~w.syncing /\ w.provisional = c.win.provisional /\ w.boundary = c.win.boundary
      /\ w.reset = c.win.reset /\ w.newest = c.win.newest /\ w.epoch = c.win.epoch
  BY <1>1 DEF ClientType, WindowType
<1>5. d \in ClientType /\ d.win = w /\ d.tail = NoRequest /\ d.older = c.older /\ d.gap = c.gap /\ d.owed = c.owed
  BY <1>2, <1>4 DEF ClientType
<1>6. ~Running(d) /\ ~Loading(d) /\ c.older = NoRequest
  BY <1>5, Requests DEF Running, Loading, NoRequest
<1>7. Sound(d)
  BY <1>4, <1>5, <1>6 DEF Sound, Bound, Anchored, Locks, Followed, Loading
<1>8. f = StartQueued(d)
  BY <1>3 DEF FinishTail
<1>9. Moves(d, f)
  BY <1>5, <1>7, <1>8, QueueMoves DEF Sound
<1> QED
  BY <1>1, <1>5, <1>6, <1>7, <1>9

---------------------------------------------------------------------------
(* The stream.                                                             *)

\* It begins with the connection; messages and rewinds are of positions that were used, a message of
\* one that was new; and a message is in the thread unless a rewind follows that takes it away.
Ordered ==
  /\ \A i \in DOMAIN events : events[i].kind = "connected" => i = 1
  /\ \A i \in DOMAIN events : events[i].kind # "connected" => events[i].at <= last
  /\ \A i, j \in DOMAIN events :
       i < j /\ events[i].kind # "connected" /\ events[j].kind = "message" => events[i].at < events[j].at
  /\ \A i \in DOMAIN events : events[i].kind = "message" =>
       events[i].at \in thread
         \/ \E j \in DOMAIN events : i < j /\ events[j].kind = "rewind" /\ events[j].at <= events[i].at

LEMMA StreamStarts ==
  ASSUME Init
  PROVE  Ordered
BY DEF Init, Ordered

\* An event that is stored, or taken off, leaves it in order.
LEMMA StreamStores ==
  ASSUME IInv, Ordered, Store
  PROVE  Ordered'
<1>1. PICK s \in Seq(EventType) : s = events
  BY DEF IInv, TypeOK
<1>2. PICK e \in EventType : e = [kind |-> "message", at |-> last + 1]
  <2>1. last + 1 \in Positions
    BY BoundsAssumption DEF IInv, TypeOK, Store, Positions
  <2> QED
    BY <2>1 DEF EventType
<1>3. last \in Nat /\ last' = last + 1 /\ thread' = thread \cup {last + 1}
  BY BoundsAssumption DEF IInv, TypeOK, Store
<1>4. events' \in {s, Append(s, e)}
  BY <1>1, <1>2 DEF Store, Emit
<1>5. \A i \in DOMAIN s : s[i].at \in Nat
  <2>1. \A f \in EventType : f.at \in Nat
    BY DEF EventType, Positions
  <2> QED
    BY <2>1
<1>6. CASE events' = s
  BY <1>1, <1>3, <1>5, <1>6 DEF Ordered
<1>7. CASE events' = Append(s, e)
  <2>1. PICK t : t = Append(s, e)
    OBVIOUS
  <2>2. PICK n \in Nat : n = Len(s)
    OBVIOUS
  <2>3. DOMAIN s = 1..n /\ DOMAIN t = 1..(n + 1) /\ t[n + 1] = e /\ \A i \in 1..n : t[i] = s[i]
    BY <2>1, <2>2
  <2>4. e.kind = "message" /\ e.at = last + 1 /\ e.at \in thread'
    BY <1>2, <1>3
  <2>5. events' = t
    BY <1>7, <2>1
  <2>6. \A i \in DOMAIN t : t[i].kind = "connected" => i = 1
    BY <1>1, <2>3, <2>4 DEF Ordered
  <2>7. \A i \in DOMAIN t : t[i].kind # "connected" => t[i].at <= last'
    <3> SUFFICES ASSUME NEW i \in 1..(n + 1), t[i].kind # "connected"
                 PROVE  t[i].at <= last'
      BY <2>3
    <3>1. CASE i = n + 1
      BY <1>3, <2>3, <2>4, <3>1
    <3>2. CASE i # n + 1
      <4>1. i \in 1..n
        BY <3>2
      <4>2. t[i] = s[i] /\ s[i].at \in Nat
        BY <1>5, <2>3, <4>1
      <4>3. s[i].at <= last
        BY <1>1, <2>3, <4>1, <4>2 DEF Ordered
      <4> QED
        BY <1>3, <4>2, <4>3
    <3> QED
      BY <3>1, <3>2
  <2>8. \A i, j \in DOMAIN t : i < j /\ t[i].kind # "connected" /\ t[j].kind = "message" => t[i].at < t[j].at
    <3> SUFFICES ASSUME NEW i \in 1..(n + 1), NEW j \in 1..(n + 1), i < j, t[i].kind # "connected", t[j].kind = "message"
                 PROVE  t[i].at < t[j].at
      BY <2>3
    <3>1. i \in 1..n /\ t[i] = s[i]
      BY <2>3
    <3>2. CASE j = n + 1
      <4>1. s[i].at <= last /\ s[i].at \in Nat
        BY <1>1, <1>5, <2>3, <3>1 DEF Ordered
      <4> QED
        BY <1>3, <2>3, <2>4, <3>1, <3>2, <4>1
    <3>3. CASE j # n + 1
      <4>1. j \in 1..n /\ t[j] = s[j]
        BY <2>3, <3>3
      <4> QED
        BY <1>1, <2>3, <3>1, <4>1 DEF Ordered
    <3> QED
      BY <3>2, <3>3
  <2>9. \A i \in DOMAIN t : t[i].kind = "message" =>
          t[i].at \in thread' \/ \E j \in DOMAIN t : i < j /\ t[j].kind = "rewind" /\ t[j].at <= t[i].at
    <3> SUFFICES ASSUME NEW i \in 1..(n + 1), t[i].kind = "message", t[i].at \notin thread'
                 PROVE  \E j \in DOMAIN t : i < j /\ t[j].kind = "rewind" /\ t[j].at <= t[i].at
      BY <2>3
    <3>1. i \in 1..n /\ t[i] = s[i]
      BY <2>3, <2>4
    <3>2. PICK j \in 1..n : i < j /\ s[j].kind = "rewind" /\ s[j].at <= s[i].at
      BY <1>1, <1>3, <2>3, <3>1 DEF Ordered
    <3> QED
      BY <2>3, <3>1, <3>2
  <2> QED
    BY <2>5, <2>6, <2>7, <2>8, <2>9 DEF Ordered
<1> QED
  BY <1>4, <1>6, <1>7

LEMMA StreamRewinds ==
  ASSUME IInv, Ordered, NEW x \in thread, Rewind(x)
  PROVE  Ordered'
<1>1. PICK s \in Seq(EventType) : s = events
  BY DEF IInv, TypeOK
<1>2. last \in Nat /\ last' = last /\ thread' = {y \in thread : y < x} /\ x \in 1..last /\ thread \subseteq 1..last
  BY DEF IInv, TypeOK, Rewind
<1>3. PICK e \in EventType : e = [kind |-> "rewind", at |-> x]
  <2>1. x \in Positions
    BY <1>2, BoundsAssumption DEF IInv, TypeOK, Positions
  <2> QED
    BY <2>1 DEF EventType
<1>4. events' = IF live THEN Append(s, e) ELSE s
  BY <1>1, <1>3 DEF Rewind, Emit
<1>5. \A i \in DOMAIN s : s[i].at \in Nat
  <2>1. \A f \in EventType : f.at \in Nat
    BY DEF EventType, Positions
  <2> QED
    BY <2>1
<1>6. CASE ~live
  <2>1. s = <<>>
    BY <1>1, <1>6 DEF IInv, TypeOK
  <2> QED
    BY <1>4, <1>6, <2>1 DEF Ordered
<1>7. CASE live
  <2>1. PICK t : t = Append(s, e)
    OBVIOUS
  <2>2. PICK n \in Nat : n = Len(s)
    OBVIOUS
  <2>3. DOMAIN s = 1..n /\ DOMAIN t = 1..(n + 1) /\ t[n + 1] = e /\ \A i \in 1..n : t[i] = s[i]
    BY <2>1, <2>2
  <2>4. e.kind = "rewind" /\ e.at = x
    BY <1>3
  <2>5. events' = t
    BY <1>4, <1>7, <2>1
  <2>6. \A i \in DOMAIN t : t[i].kind = "connected" => i = 1
    BY <1>1, <2>3, <2>4 DEF Ordered
  <2>7. \A i \in DOMAIN t : t[i].kind # "connected" => t[i].at <= last'
    <3> SUFFICES ASSUME NEW i \in 1..(n + 1), t[i].kind # "connected"
                 PROVE  t[i].at <= last'
      BY <2>3
    <3>1. CASE i = n + 1
      BY <1>2, <2>3, <2>4, <3>1
    <3>2. CASE i # n + 1
      <4>1. i \in 1..n /\ t[i] = s[i]
        BY <2>3, <3>2
      <4> QED
        BY <1>1, <1>2, <2>3, <4>1 DEF Ordered
    <3> QED
      BY <3>1, <3>2
  <2>8. \A i, j \in DOMAIN t : i < j /\ t[i].kind # "connected" /\ t[j].kind = "message" => t[i].at < t[j].at
    <3> SUFFICES ASSUME NEW i \in 1..(n + 1), NEW j \in 1..(n + 1), i < j, t[i].kind # "connected", t[j].kind = "message"
                 PROVE  t[i].at < t[j].at
      BY <2>3
    <3>1. i \in 1..n /\ t[i] = s[i] /\ j \in 1..n /\ t[j] = s[j]
      BY <2>3, <2>4
    <3> QED
      BY <1>1, <2>3, <3>1 DEF Ordered
  <2>9. \A i \in DOMAIN t : t[i].kind = "message" =>
          t[i].at \in thread' \/ \E j \in DOMAIN t : i < j /\ t[j].kind = "rewind" /\ t[j].at <= t[i].at
    <3> SUFFICES ASSUME NEW i \in 1..(n + 1), t[i].kind = "message", t[i].at \notin thread'
                 PROVE  \E j \in DOMAIN t : i < j /\ t[j].kind = "rewind" /\ t[j].at <= t[i].at
      BY <2>3
    <3>1. i \in 1..n /\ t[i] = s[i] /\ s[i].at \in Nat
      BY <1>5, <2>3, <2>4
    <3>2. CASE s[i].at \in thread
      <4>1. x <= s[i].at
        BY <1>2, <3>1, <3>2
      <4> QED
        BY <2>3, <2>4, <3>1, <4>1
    <3>3. CASE s[i].at \notin thread
      <4>1. PICK j \in 1..n : i < j /\ s[j].kind = "rewind" /\ s[j].at <= s[i].at
        BY <1>1, <2>3, <3>1, <3>3 DEF Ordered
      <4> QED
        BY <2>3, <3>1, <4>1
    <3> QED
      BY <3>2, <3>3
  <2> QED
    BY <2>5, <2>6, <2>7, <2>8, <2>9 DEF Ordered
<1> QED
  BY <1>6, <1>7

LEMMA StreamHandles ==
  ASSUME IInv, Ordered, HandleEvent
  PROVE  Ordered'
<1>1. PICK s \in Seq(EventType) : s = events /\ s # <<>> /\ events' = Tail(s)
  BY DEF IInv, TypeOK, HandleEvent
<1>2. PICK t : t = Tail(s)
  OBVIOUS
<1>3. PICK n \in Nat : n = Len(t)
  BY <1>1, <1>2
<1>4. DOMAIN s = 1..(n + 1) /\ DOMAIN t = 1..n /\ \A i \in 1..n : t[i] = s[i + 1]
  BY <1>1, <1>2, <1>3
<1>5. thread' = thread /\ last' = last
  BY DEF HandleEvent, serverVars
<1>6. \A i \in 1..n : i + 1 \in 1..(n + 1)
  OBVIOUS
<1>7. \A i \in DOMAIN t : t[i].kind = "connected" => i = 1
  BY <1>1, <1>4, <1>6 DEF Ordered
<1>8. \A i \in DOMAIN t : t[i].kind # "connected" => t[i].at <= last'
  BY <1>1, <1>4, <1>5, <1>6 DEF Ordered
<1>9. \A i, j \in DOMAIN t : i < j /\ t[i].kind # "connected" /\ t[j].kind = "message" => t[i].at < t[j].at
  <2> SUFFICES ASSUME NEW i \in 1..n, NEW j \in 1..n, i < j, t[i].kind # "connected", t[j].kind = "message"
               PROVE  t[i].at < t[j].at
    BY <1>4
  <2>1. i + 1 \in DOMAIN s /\ j + 1 \in DOMAIN s /\ i + 1 < j + 1 /\ t[i] = s[i + 1] /\ t[j] = s[j + 1]
    BY <1>4, <1>6
  <2> QED
    BY <1>1, <2>1 DEF Ordered
<1>10. \A i \in DOMAIN t : t[i].kind = "message" =>
         t[i].at \in thread' \/ \E j \in DOMAIN t : i < j /\ t[j].kind = "rewind" /\ t[j].at <= t[i].at
  <2> SUFFICES ASSUME NEW i \in 1..n, t[i].kind = "message", t[i].at \notin thread
               PROVE  \E j \in DOMAIN t : i < j /\ t[j].kind = "rewind" /\ t[j].at <= t[i].at
    BY <1>4, <1>5
  <2>1. i + 1 \in DOMAIN s /\ t[i] = s[i + 1]
    BY <1>4, <1>6
  <2>2. PICK k \in DOMAIN s : i + 1 < k /\ s[k].kind = "rewind" /\ s[k].at <= s[i + 1].at
    BY <1>1, <2>1 DEF Ordered
  <2>3. k - 1 \in 1..n /\ i < k - 1 /\ t[k - 1] = s[k]
    <3>1. k \in 1..(n + 1)
      BY <1>4
    <3>2. k - 1 \in 1..n /\ i < k - 1
      BY <2>2, <3>1
    <3>3. t[k - 1] = s[(k - 1) + 1] /\ (k - 1) + 1 = k
      BY <1>4, <3>1, <3>2
    <3> QED
      BY <3>2, <3>3
  <2> QED
    BY <1>4, <2>1, <2>2, <2>3
<1> QED
  BY <1>1, <1>2, <1>7, <1>8, <1>9, <1>10 DEF Ordered

\* It is always in order.
LEMMA StreamSteps ==
  ASSUME IInv, Ordered, [Next]_vars
  PROVE  Ordered'
<1>1. CASE UNCHANGED <<thread, last, events>>
  BY <1>1 DEF Ordered
<1>2. CASE events' = <<>>
  BY <1>2 DEF Ordered
<1>3. CASE Connect
  <2>1. PICK e : e = [kind |-> "connected", at |-> 0]
    OBVIOUS
  <2>2. events' = <<e>> /\ DOMAIN <<e>> = {1} /\ <<e>>[1] = e /\ e.kind = "connected"
    BY <1>3, <2>1 DEF Connect
  <2>3. PICK t : t = <<e>>
    OBVIOUS
  <2>4. events' = t /\ DOMAIN t = {1} /\ t[1].kind = "connected"
    BY <2>2, <2>3
  <2> QED
    BY <2>4 DEF Ordered
<1>4. CASE UNCHANGED vars
  BY <1>1, <1>4 DEF vars, serverVars
<1>5. CASE ServeTail \/ ApplyTail \/ FailTail \/ ServeOlder \/ OlderReset \/ DropOlder \/ CancelOlder
  <2>1. UNCHANGED <<thread, last, events>>
    BY <1>5, Zenon DEF ServeTail, ApplyTail, FailTail, ServeOlder, OlderReset, DropOlder, CancelOlder, ClientStep,
       serverVars
  <2> QED
    BY <1>1, <2>1
<1>6. CASE Enter \/ Mounted
  BY <1>1, <1>6 DEF Enter, Mounted, serverVars
<1>7. CASE Leave \/ Cut
  BY <1>2, <1>7 DEF Leave, Cut
<1>8. ASSUME NEW mode \in {"tail", "history"}, SetView(mode)
      PROVE  UNCHANGED <<thread, last, events>>
  BY <1>8, Zenon DEF SetView, ClientStep, serverVars
<1>9. ASSUME NEW install \in BOOLEAN, LoadOlder(install)
      PROVE  UNCHANGED <<thread, last, events>>
  BY <1>9, Zenon DEF LoadOlder, ClientStep, serverVars
<1>10. ASSUME NEW open \in BOOLEAN, ApplyOlder(open)
       PROVE  UNCHANGED <<thread, last, events>>
  BY <1>10, Zenon DEF ApplyOlder, ClientStep, serverVars
<1> QED
  BY <1>1, <1>3, <1>4, <1>5, <1>6, <1>7, <1>8, <1>9, <1>10, StreamStores, StreamRewinds, StreamHandles DEF Next

\* What is taken off the stream, and what that leaves there.
LEMMA Pops ==
  ASSUME IInv, Ordered, HandleEvent, NEW e, e = Head(events)
  PROVE  /\ e \in EventType
         /\ OnStream("rewind")' \subseteq OnStream("rewind")
         /\ (e.kind # "rewind" => OnStream("rewind")' = OnStream("rewind"))
         /\ OnStream("connected")' = {}
         /\ (e.kind # "message" => OnStream("message")' = OnStream("message"))
         /\ (e.kind = "message" =>
               /\ OnStream("message") = OnStream("message")' \cup {e.at} /\ OnStream("connected") = {}
               /\ \A y \in OnStream("message")' : e.at < y
               /\ e.at <= last /\ e.at \in Positions
               /\ e.at \in thread \/ \E x \in OnStream("rewind")' : x <= e.at)
<1>1. PICK s \in Seq(EventType) : s = events /\ s # <<>> /\ events' = Tail(s)
  BY DEF IInv, TypeOK, HandleEvent
<1>2. PICK t : t = Tail(s)
  OBVIOUS
<1>3. PICK n \in Nat : n = Len(t)
  BY <1>1, <1>2
<1>4. DOMAIN s = 1..(n + 1) /\ DOMAIN t = 1..n /\ \A i \in 1..n : i + 1 \in 1..(n + 1) /\ t[i] = s[i + 1]
  BY <1>1, <1>2, <1>3
<1>5. e = s[1] /\ e \in EventType
  BY <1>1
<1> DEFINE On(q, kind) == {q[i].at : i \in {j \in DOMAIN q : q[j].kind = kind}}
<1>6. \A kind : On(s, kind) = OnStream(kind) /\ On(t, kind) = OnStream(kind)'
  BY <1>1, <1>2 DEF OnStream
<1>7. \A i \in 1..(n + 1) : i = 1 \/ (i - 1 \in 1..n /\ t[i - 1] = s[i])
  <2> SUFFICES ASSUME NEW i \in 1..(n + 1), i # 1
               PROVE  i - 1 \in 1..n /\ t[i - 1] = s[i]
    OBVIOUS
  <2>1. i - 1 \in 1..n /\ (i - 1) + 1 = i
    OBVIOUS
  <2> QED
    BY <1>4, <2>1
<1>8. \A kind : On(t, kind) \subseteq On(s, kind) /\ On(s, kind) \subseteq On(t, kind) \cup (IF e.kind = kind THEN {e.at} ELSE {})
  <2> SUFFICES ASSUME NEW kind
               PROVE  /\ On(t, kind) \subseteq On(s, kind)
                      /\ On(s, kind) \subseteq On(t, kind) \cup (IF e.kind = kind THEN {e.at} ELSE {})
    OBVIOUS
  <2>1. On(t, kind) \subseteq On(s, kind)
    BY <1>4
  <2>2. ASSUME NEW i \in 1..(n + 1), s[i].kind = kind
        PROVE  s[i].at \in On(t, kind) \cup (IF e.kind = kind THEN {e.at} ELSE {})
    <3>1. CASE i = 1
      BY <1>5, <2>2, <3>1
    <3>2. CASE i # 1
      <4>1. i - 1 \in DOMAIN t /\ t[i - 1].kind = kind /\ s[i].at = t[i - 1].at
        BY <1>4, <1>7, <2>2, <3>2
      <4> QED
        BY <4>1
    <3> QED
      BY <3>1, <3>2
  <2> QED
    BY <1>4, <2>1, <2>2
<1>9. e.kind # "rewind" => On(t, "rewind") = On(s, "rewind")
  BY <1>8
<1>10. e.kind # "message" => On(t, "message") = On(s, "message")
  BY <1>8
<1>11. On(t, "connected") = {}
  <2>1. \A i \in 1..n : s[i + 1].kind # "connected"
    <3> SUFFICES ASSUME NEW i \in 1..n
                 PROVE  s[i + 1].kind # "connected"
      OBVIOUS
    <3>1. i + 1 \in DOMAIN s /\ i + 1 # 1
      BY <1>4
    <3> QED
      BY <1>1, <3>1 DEF Ordered
  <2> QED
    BY <1>4, <2>1
<1>12. ASSUME e.kind = "message"
       PROVE  /\ On(s, "message") = On(t, "message") \cup {e.at} /\ On(s, "connected") = {}
              /\ \A y \in On(t, "message") : e.at < y
              /\ e.at <= last /\ e.at \in Positions
              /\ e.at \in thread \/ \E x \in On(t, "rewind") : x <= e.at
  <2>1. 1 \in DOMAIN s /\ s[1] = e
    BY <1>4, <1>5
  <2>2. e.at \in On(s, "message")
    BY <1>12, <2>1
  <2>3. On(s, "message") = On(t, "message") \cup {e.at}
    BY <1>8, <1>12, <2>2
  <2>4. On(s, "connected") = {}
    BY <1>8, <1>11, <1>12
  <2>5. \A y \in On(t, "message") : e.at < y
    <3> SUFFICES ASSUME NEW i \in 1..n, t[i].kind = "message"
                 PROVE  e.at < t[i].at
      BY <1>4
    <3>1. i + 1 \in DOMAIN s /\ 1 < i + 1 /\ t[i] = s[i + 1]
      BY <1>4
    <3> QED
      BY <1>1, <1>12, <2>1, <3>1 DEF Ordered
  <2>6. e.at <= last /\ e.at \in Positions
    BY <1>1, <1>5, <1>12, <2>1 DEF Ordered, EventType
  <2>7. e.at \in thread \/ \E x \in On(t, "rewind") : x <= e.at
    <3>1. CASE e.at \notin thread
      <4>1. PICK j \in DOMAIN s : 1 < j /\ s[j].kind = "rewind" /\ s[j].at <= e.at
        BY <1>1, <1>12, <2>1, <3>1 DEF Ordered
      <4>2. s[j].at \in On(t, "rewind")
        <5>1. j - 1 \in DOMAIN t /\ t[j - 1] = s[j]
          BY <1>4, <1>7, <4>1
        <5> QED
          BY <4>1, <5>1
      <4> QED
        BY <4>1, <4>2
    <3> QED
      BY <3>1
  <2> QED
    BY <2>3, <2>4, <2>5, <2>6, <2>7
<1> HIDE DEF On
<1>13. OnStream("rewind")' \subseteq OnStream("rewind") /\ (e.kind # "rewind" => OnStream("rewind")' = OnStream("rewind"))
  BY <1>6, <1>8, <1>9
<1>14. OnStream("connected")' = {} /\ (e.kind # "message" => OnStream("message")' = OnStream("message"))
  BY <1>6, <1>10, <1>11
<1> QED
  BY <1>5, <1>6, <1>12, <1>13, <1>14

===========================================================================
