---------------------------- MODULE ThreadWindow ----------------------------
(***************************************************************************)
(* The part of a session's thread that a web client holds                  *)
(* (web/src/lib/message-window-store.ts), the pages it is filled from      *)
(* (getMessagesPage in hub/src/sync/messageService.ts) and the live events *)
(* that extend it.  Tail syncs, older pages, live messages, rewinds, view  *)
(* changes and re-entries overlap; each request keeps the state it read    *)
(* when it was sent and is applied to the state that is there when it is   *)
(* answered.                                                               *)
(*                                                                         *)
(* A message is its position; a later message has a higher one.  Queued    *)
(* rows, optimistic rows, agent runs and reasoning snapshots have rules of *)
(* their own in the code and are left out, so are navigation leases.       *)
(***************************************************************************)
EXTENDS Naturals, Sequences, FiniteSets, FiniteSetsExt

CONSTANTS
    Initial,      \* INITIAL_PAGE_SIZE and CACHED_REENTRY_PAGE_SIZE
    Page,         \* PAGE_SIZE
    Visible,      \* VISIBLE_WINDOW_SIZE
    History,      \* HISTORY_WINDOW_SIZE
    Older,        \* OLDER_LOAD_WINDOW_SIZE
    MaxMessages,  \* bound: messages ever stored
    Stored,       \* messages in the thread at the start
    MaxCuts,      \* bound: event streams lost, the session left
    MaxRewinds,   \* bound
    MaxFailures,  \* bound: requests that fail
    MaxScrolls    \* bound: changes of the view mode

ASSUME SizesAssumption ==
    /\ {Initial, Page, Visible, History, Older} \subseteq Nat \ {0}
    /\ Initial <= Page /\ Page <= Visible /\ Visible <= History /\ History <= Older
ASSUME BoundsAssumption ==
    {MaxMessages, Stored, MaxCuts, MaxRewinds, MaxFailures, MaxScrolls} \subseteq Nat /\ Stored <= MaxMessages

VARIABLES
    thread,  \* positions in the messages table
    last,    \* the last position that was used
    epoch,   \* message_epochs, counted from 1; 0 is the client's null
    here,    \* the client shows this session: "no", "mounting" (between its layout effects and its effects), "yes"
    live,    \* its session event stream is connected
    events,  \* on the stream, not handled yet
    client,  \* the store's state of this session, see Client
    cuts, rewinds, failures, scrolls

serverVars == <<thread, last, epoch>>
vars == <<serverVars, here, live, events, client, cuts, rewinds, failures, scrolls>>

Largest(S) == IF S = {} THEN 0 ELSE Max(S)
Smallest(S) == IF S = {} THEN 0 ELSE Min(S)
Higher(a, b) == IF a > b THEN a ELSE b
TopOf(S, n) == {x \in S: Cardinality({y \in S: y > x}) < n}
BottomOf(S, n) == {x \in S: Cardinality({y \in S: y < x}) < n}

-----------------------------------------------------------------------------
(* Pages. *)

(* getLatestOrBeforeMessagesPage *)
LatestPage(before, limit, reset) ==
    LET rows == TopOf({x \in thread: before = 0 \/ x < before}, limit)
        oldest == Smallest(rows)
    IN  [direction |-> "latest", reset |-> reset, epoch |-> epoch, rows |-> rows, next |-> oldest,
         head |-> Largest(thread), hasMore |-> \E x \in thread: oldest # 0 /\ x < oldest]

(* getAfterMessagesPage, under a snapshot head that the first page of a loop fixes *)
AfterPage(after, until) ==
    LET head == IF until # 0 /\ (until < Largest(thread) \/ thread = {}) THEN until ELSE Largest(thread)
        rows == BottomOf({x \in thread: after < x /\ x <= head}, Page)
        next == IF head <= after THEN after ELSE IF rows = {} THEN head ELSE Max(rows)
    IN  [direction |-> "after", reset |-> FALSE, epoch |-> epoch, rows |-> rows, next |-> next,
         head |-> head, hasMore |-> rows # {} /\ next < head]

(* Mutant of PageFor: a cursor is taken for one of this epoch. *)
PageForAnyEpoch(request) ==
    IF request.after = 0 THEN LatestPage(0, request.limit, FALSE)
    ELSE AfterPage(request.after, request.until)

(* getMessagesPage: a cursor of another epoch is answered with the latest page. *)
PageFor(request) ==
    IF request.after = 0 THEN LatestPage(0, request.limit, FALSE)
    ELSE IF request.epoch # epoch THEN LatestPage(0, request.limit, TRUE)
    ELSE AfterPage(request.after, request.until)

-----------------------------------------------------------------------------
(* The store, as the functions it is made of: each takes and returns the client's state. *)

NoRequest == [at |-> "none"]
NoPage ==
    [direction |-> "latest", reset |-> FALSE, epoch |-> 0, rows |-> {}, next |-> 0, head |-> 0, hasMore |-> FALSE]
EmptyWindow ==
    [msgs |-> {}, hasMore |-> FALSE, oldest |-> 0, newest |-> 0, epoch |-> 0, view |-> "tail",
     boundary |-> 0, provisional |-> FALSE, reset |-> FALSE, prefer |-> FALSE, syncing |-> FALSE]

\* tail: the running synchronization of tailSyncControllers; it is stale when its generation has
\* passed.  older: the older-page request of the current generation.  owed and gap are history.
\* owed: events were lost and no synchronization has read its cursor since.  gap: one of the cases
\* the store has no answer to: a live message moved the cursor past events that were lost; rows above
\* its cursor were trimmed before an older page came; the outline closed under the first page of the
\* thread; a row was dropped under a synchronization that calls the window whole; the first page was
\* trimmed to rows that the stream had brought before it; a rewind was lost while rows were held that
\* the next page joins.  A replacing synchronization mends them.
EmptyClient ==
    [win |-> EmptyWindow, tail |-> NoRequest, trailing |-> FALSE, older |-> NoRequest,
     owed |-> FALSE, gap |-> FALSE]

Loading(c) == c.older.at # "none"
Running(c) == c.tail.at # "none"

(* Mutant of DropNewest: the rows go, the cursor stays. *)
DropNewestSilently(w, kept) == [w EXCEPT !.msgs = kept]

(* What a trim that dropped rows leaves of the cursors.  The oldest side can be paged in again; the *)
(* newest side needs a reset. *)
DropOldest(w, kept) ==
    IF kept = w.msgs THEN w
    ELSE [w EXCEPT !.msgs = kept, !.hasMore = TRUE, !.oldest = IF kept = {} THEN @ ELSE Min(kept)]
DropNewest(w, kept) ==
    IF kept = w.msgs THEN w
    ELSE [w EXCEPT !.msgs = kept, !.reset = TRUE, !.newest = Largest(kept)]

(* Mutant of Merge: live messages trim the window whatever the boundary. *)
MergeUnbounded(w, incoming, mode, limit, boundary) ==
    LET merged == [w EXCEPT !.msgs = @ \cup incoming]
    IN  IF mode = "append" THEN DropOldest(merged, TopOf(merged.msgs, limit))
        ELSE DropNewest(merged, BottomOf(merged.msgs, limit))

(* mergeIntoWindow *)
Merge(w, incoming, mode, limit, boundary) ==
    LET merged == [w EXCEPT !.msgs = @ \cup incoming] IN
    IF incoming = {} \/ (boundary # 0 /\ mode = "append") THEN merged
    ELSE IF boundary # 0
         THEN DropNewest(merged, BottomOf(merged.msgs, Higher(Higher(limit, Older), Cardinality(w.msgs))))
    ELSE IF mode = "append" THEN DropOldest(merged, TopOf(merged.msgs, limit))
    ELSE DropNewest(merged, BottomOf(merged.msgs, limit))

MergeInView(w, incoming) ==
    IF w.view = "history" THEN Merge(w, incoming, "prepend", History, w.boundary)
    ELSE Merge(w, incoming, "append", Visible, w.boundary)

(* trimReleasedProvisionalWindow *)
TrimReleased(w) ==
    IF w.view = "history" THEN DropNewest(w, BottomOf(w.msgs, History))
    ELSE DropOldest(w, TopOf(w.msgs, Visible))

Unbound(w) == [w EXCEPT !.boundary = 0, !.provisional = FALSE]

(* Mutant of GiveUpOlder: the request goes, its boundary stays. *)
GiveUpOlderOnly(c) == [c EXCEPT !.older = NoRequest]

(* beginTailSync and cancelOlderMessageLoad give up the older page, with the boundary it installed. *)
GiveUpOlder(c) ==
    [c EXCEPT !.older = NoRequest,
              !.win = IF Loading(c) /\ @.provisional THEN TrimReleased(Unbound(@)) ELSE @]

(* startTailSync: runTailSync up to its first request *)
StartTail(c) ==
    LET b == GiveUpOlder(c)
        w == b.win
        increment == w.newest # 0 /\ w.epoch # 0 /\ ~w.reset /\ ~w.prefer
        cold == ~w.reset /\ ~w.prefer /\ w.newest = 0
    IN  [b EXCEPT
            !.win.syncing = TRUE, !.owed = FALSE, !.gap = @ /\ ~w.reset /\ ~w.prefer,
            !.tail = [at |-> "asked", stale |-> FALSE, prefers |-> w.prefer, cold |-> cold,
                      replace |-> w.reset \/ w.prefer, baseline |-> w.msgs,
                      after |-> IF increment THEN w.newest ELSE 0, until |-> 0,
                      epoch |-> w.epoch, limit |-> IF (w.prefer /\ ~w.reset) \/ cold THEN Initial ELSE Page,
                      page |-> NoPage]]

(* syncTailMessages *)
Sync(c, ensureAfterCurrent) ==
    IF ~Running(c) THEN StartTail(c)
    ELSE IF c.win.prefer
         THEN IF c.tail.prefers THEN c ELSE StartTail([c EXCEPT !.trailing = FALSE])
    ELSE [c EXCEPT !.trailing = @ \/ ensureAfterCurrent]

(* startQueuedTailSyncIfReady *)
StartQueued(c) ==
    IF c.win.view = "tail" /\ c.trailing /\ ~Running(c) THEN StartTail([c EXCEPT !.trailing = FALSE])
    ELSE c

(* Mutant of FinishTail: isSyncingTail is not cleared. *)
FinishTailBusy(c) == StartQueued([c EXCEPT !.tail = NoRequest])

(* finishTailSync *)
FinishTail(c) == StartQueued([c EXCEPT !.tail = NoRequest, !.win.syncing = FALSE])

(* enterTailMode *)
EnterTail(c) ==
    LET w == c.win
        kept == TopOf(w.msgs, Visible)
        invalidate == Loading(c) /\ (kept # w.msgs \/ w.boundary # 0)
        trimmed == Unbound(DropOldest([w EXCEPT !.view = "tail"], kept))
    IN  [c EXCEPT !.win = IF w.reset THEN [trimmed EXCEPT !.epoch = 0, !.newest = 0] ELSE trimmed,
                  !.older = IF invalidate THEN NoRequest ELSE @]

(* setMessageViewMode *)
SetMode(c, mode) ==
    IF mode = "history" THEN StartQueued([c EXCEPT !.win.view = "history"])
    ELSE StartQueued(IF c.win.view # "tail" \/ c.win.boundary # 0 THEN EnterTail(c) ELSE c)

(* activateMessageWindow *)
Activate(c) ==
    LET w == c.win
        kept == TopOf(w.msgs, Visible)
        prefer == w.newest # 0 /\ w.epoch # 0 /\ ~w.reset /\ kept # {}
        requested == prefer /\ ~w.prefer
        invalidate == requested /\ w.syncing
        entered == IF w.view = "tail" /\ kept = w.msgs /\ ~w.reset /\ w.boundary = 0 THEN c ELSE EnterTail(c)
    IN  [entered EXCEPT
            !.win.prefer = prefer \/ @,
            !.older = IF invalidate THEN NoRequest ELSE @,
            !.tail = IF invalidate /\ Running(c) THEN [@ EXCEPT !.stale = TRUE] ELSE @,
            !.trailing = @ \/ (requested /\ Running(c))]

(* applyLatestResponse *)
ApplyLatest(c, page, replace) ==
    LET w == c.win
        preserved == IF replace THEN w.msgs \ c.tail.baseline ELSE w.msgs
        incoming == preserved \cup page.rows
        kept == TopOf(incoming, Visible)
        head == IF page.head # 0 THEN page.head ELSE Largest(page.rows)
        next == [w EXCEPT
            !.msgs = kept, !.epoch = page.epoch, !.reset = FALSE,
            !.hasMore = page.hasMore \/ (~replace /\ @) \/ kept # incoming,
            !.oldest = IF kept # incoming THEN Min(kept)
                       ELSE IF replace \/ page.next # 0 THEN page.next ELSE @,
            !.newest = Higher(head, Largest(kept))]
    IN  [c EXCEPT !.win = IF replace THEN Unbound(next) ELSE next,
                  !.older = IF replace THEN NoRequest ELSE @,
                  !.gap = @ \/ (\E x \in kept: x < page.next) \/ (replace /\ page.rows = {} /\ w.hasMore)]

(* fetchInitialContextPage: a cold page that shows only tool activity takes the page before it along. *)
AddContext(w, page) ==
    [Merge(w, page.rows, "prepend", Visible, w.boundary) EXCEPT !.hasMore = page.hasMore, !.oldest = page.next]

(* One page of the catch-up loop *)
ApplyAfter(w, page) ==
    LET merged == MergeInView(w, page.rows)
        next == [merged EXCEPT !.epoch = page.epoch]
    IN  IF merged.reset THEN next ELSE [next EXCEPT !.newest = Higher(page.next, @)]

(* clearMessageWindow, and markMessageWindowForLatestReset for a rewind to a message that is held *)
Cleared(c) == EmptyClient
Rewound(c, boundary) ==
    [EmptyClient EXCEPT
        !.win = [c.win EXCEPT !.msgs = {x \in @: x < boundary}, !.epoch = 0, !.oldest = 0, !.newest = 0,
                              !.reset = TRUE, !.prefer = FALSE, !.syncing = TRUE]]

-----------------------------------------------------------------------------
Init ==
    /\ thread = 1..Stored /\ last = Stored /\ epoch = 1
    /\ here = "no" /\ live = FALSE /\ events = <<>>
    /\ client = EmptyClient
    /\ cuts = 0 /\ rewinds = 0 /\ failures = 0 /\ scrolls = 0

(* The hub. *)

Emit(event) == events' = IF live THEN Append(events, event) ELSE events

(* The rows that the next latest page will join instead of replacing them *)
Unreplaced(c) ==
    IF Running(c) THEN IF c.tail.cold THEN c.win.msgs ELSE c.win.msgs \ c.tail.baseline
    ELSE IF c.win.newest = 0 /\ ~c.win.reset /\ ~c.win.prefer THEN c.win.msgs
    ELSE {}

(* A rewind that the client is not told of *)
RewindLost(c) == [c EXCEPT !.gap = @ \/ Unreplaced(c) # {}]

OnStream(kind) == {events[i].at: i \in {j \in DOMAIN events: events[j].kind = kind}}
EventsLost(c) == [c EXCEPT !.gap = @ \/ OnStream("rewind") # {}]

(* A message is stored and broadcast. *)
Store ==
    /\ last < MaxMessages
    /\ last' = last + 1
    /\ thread' = thread \cup {last + 1}
    /\ Emit([kind |-> "message", at |-> last + 1])
    /\ UNCHANGED <<epoch, here, live, client, cuts, rewinds, failures, scrolls>>

(* truncateMessagesFromLocalId, then messages-invalidated *)
Rewind(x) ==
    /\ x \in thread /\ rewinds < MaxRewinds
    /\ rewinds' = rewinds + 1
    /\ thread' = {y \in thread: y < x}
    /\ epoch' = epoch + 1
    /\ Emit([kind |-> "rewind", at |-> x])
    /\ client' = IF live THEN client ELSE RewindLost(client)
    /\ UNCHANGED <<last, here, live, cuts, failures, scrolls>>

(* The session stream connects; what was broadcast before is not on it.  onConnect comes first. *)
Connect ==
    /\ here = "yes" /\ ~live
    /\ live' = TRUE
    /\ events' = <<[kind |-> "connected", at |-> 0]>>
    /\ UNCHANGED <<serverVars, here, client, cuts, rewinds, failures, scrolls>>

Cut ==
    /\ live /\ cuts < MaxCuts
    /\ cuts' = cuts + 1
    /\ live' = FALSE /\ events' = <<>>
    /\ client' = EventsLost(client)
    /\ UNCHANGED <<serverVars, here, rewinds, failures, scrolls>>

(* The client handles events in order. *)

(* ingestIncomingMessages *)
Ingest(c, x) ==
    LET w == MergeInView(c.win, {x})
        next == IF w.epoch = 0 \/ w.reset THEN w ELSE [w EXCEPT !.newest = Higher(@, x)]
        came == {x} \cup Unreplaced(c)
        stray == x < c.win.oldest /\ x \in TopOf(c.win.msgs \cup {x}, Visible)
    IN  [c EXCEPT !.win = next, !.gap = @ \/ c.owed \/ stray \/ (Running(c) /\ next.reset /\ ~(came \subseteq next.msgs))]

(* handleSessionSseConnect without a resumed cursor: a synchronization after the current one *)
Connected(c) == Sync([c EXCEPT !.owed = TRUE], TRUE)

(* messages-invalidated *)
Invalidated(c, x) == Sync(IF x \in c.win.msgs THEN Rewound(c, x) ELSE Cleared(c), FALSE)

HandleEvent ==
    /\ events # <<>>
    /\ events' = Tail(events)
    /\ LET e == Head(events) IN
        \/ e.kind = "connected" /\ client' = Connected(client)
        \/ e.kind = "message" /\ client' = Ingest(client, e.at)
        \/ e.kind = "rewind" /\ client' = Invalidated(client, e.at)
    /\ UNCHANGED <<serverVars, here, live, cuts, rewinds, failures, scrolls>>

(* Requests are read by the hub and answered; the answer is applied later, or the request fails. *)

ClientStep(c) ==
    /\ client' = c
    /\ UNCHANGED <<serverVars, here, live, events, cuts, rewinds>>

ServeTail ==
    /\ client.tail.at = "asked"
    /\ ClientStep([client EXCEPT !.tail.at = "answered", !.tail.page = PageFor(client.tail)])
    /\ UNCHANGED <<failures, scrolls>>

(* runTailSync, from an answer to the next request or to the end *)
ApplyTail ==
    /\ client.tail.at = "answered"
    /\ LET t == client.tail
           page == t.page
           latest == ApplyLatest(client, page, t.after # 0 \/ t.replace \/ page.reset)
           context == LatestPage(page.next, Page, FALSE)
           applied == [client EXCEPT !.win = ApplyAfter(@, page)]
       IN
        \/ /\ t.stale
           /\ ClientStep(StartQueued([client EXCEPT !.tail = NoRequest]))
        \/ /\ ~t.stale /\ t.after = 0
           /\ \/ ClientStep(FinishTail([latest EXCEPT !.win.prefer = FALSE]))
              \/ /\ t.cold /\ page.hasMore /\ page.epoch = epoch
                 /\ ClientStep(FinishTail([latest EXCEPT
                    !.gap = @ \/ latest.win.oldest # page.next,
                    !.win = [AddContext(@, context) EXCEPT !.prefer = FALSE]]))
        \/ /\ ~t.stale /\ t.after # 0 /\ page.direction = "latest"
           /\ ClientStep(FinishTail(latest))
        \/ /\ ~t.stale /\ t.after # 0 /\ page.direction = "after"
           /\ ClientStep(
                IF applied.win.reset \/ applied.win.prefer \/ ~page.hasMore \/ page.next = 0
                THEN FinishTail(applied)
                ELSE [applied EXCEPT
                        !.tail = [t EXCEPT !.at = "asked", !.page = NoPage, !.after = page.next,
                                           !.baseline = applied.win.msgs,
                                           !.until = IF @ = 0 THEN page.head ELSE @]])
    /\ UNCHANGED <<failures, scrolls>>

FailTail ==
    /\ Running(client) /\ failures < MaxFailures
    /\ failures' = failures + 1
    /\ LET t == client.tail
           failed == FinishTail([client EXCEPT !.owed = TRUE,
                                               !.gap = @ \/ (~t.replace /\ client.win.newest > t.after)])
       IN  ClientStep(IF t.stale THEN StartQueued([client EXCEPT !.tail = NoRequest]) ELSE failed)
    /\ UNCHANGED scrolls

(* The user. *)

(* The session is opened: its layout effect activates the window, its effect synchronizes it. *)
Enter ==
    /\ here = "no"
    /\ here' = "mounting"
    /\ client' = Activate(client)
    /\ UNCHANGED <<serverVars, live, events, cuts, rewinds, failures, scrolls>>

Mounted ==
    /\ here = "mounting"
    /\ here' = "yes"
    /\ client' = Sync(client, FALSE)
    /\ UNCHANGED <<serverVars, live, events, cuts, rewinds, failures, scrolls>>

(* Mutant of Leave: the stream stays. *)
LeaveConnected ==
    /\ here = "yes" /\ cuts < MaxCuts
    /\ cuts' = cuts + 1
    /\ here' = "no"
    /\ client' = SetMode(GiveUpOlder(client), "tail")
    /\ UNCHANGED <<serverVars, live, events, rewinds, failures, scrolls>>

(* It is left: the stream of this session goes with it. *)
Leave ==
    /\ here = "yes" /\ cuts < MaxCuts
    /\ cuts' = cuts + 1
    /\ here' = "no" /\ live' = FALSE /\ events' = <<>>
    /\ client' = SetMode(GiveUpOlder(EventsLost(client)), "tail")
    /\ UNCHANGED <<serverVars, rewinds, failures, scrolls>>

(* setViewMode of useMessages: returning to the tail synchronizes it. *)
SetView(mode) ==
    /\ here = "yes" /\ scrolls < MaxScrolls
    /\ mode = "history" => client.win.view = "tail"
    /\ mode = "tail" => client.win.view = "history" \/ client.win.boundary # 0
    /\ scrolls' = scrolls + 1
    /\ LET c == SetMode(client, mode)
           queuedSyncStarted == ~client.win.syncing /\ c.win.syncing
       IN  ClientStep(IF mode = "tail" /\ client.win.view # "tail" /\ ~queuedSyncStarted THEN Sync(c, TRUE) ELSE c)
    /\ UNCHANGED failures

(* fetchOlderMessages: with the outline open, the boundary is installed before the request. *)
LoadOlder(install) ==
    /\ here = "yes"
    /\ ~client.win.syncing /\ ~Loading(client) /\ client.win.hasMore /\ client.win.oldest # 0
    /\ LET provisional == install /\ client.win.boundary = 0
           w == client.win IN
        ClientStep([client EXCEPT
            !.older = [at |-> "asked", before |-> w.oldest, epoch |-> w.epoch, install |-> install,
                       provisional |-> provisional, page |-> NoPage],
            !.win = IF provisional THEN [@ EXCEPT !.boundary = w.oldest, !.provisional = TRUE] ELSE @])
    /\ UNCHANGED <<failures, scrolls>>

ServeOlder ==
    /\ client.older.at = "asked"
    /\ ClientStep([client EXCEPT
            !.older.at = "answered", !.older.page = LatestPage(client.older.before, Page, FALSE)])
    /\ UNCHANGED <<failures, scrolls>>

(* An older page of another epoch: the cursors are worthless. *)
OlderReset ==
    LET o == client.older IN
    /\ o.at = "answered" /\ o.epoch # 0 /\ o.page.epoch # o.epoch
    /\ ClientStep(Sync([client EXCEPT !.older = NoRequest, !.win.epoch = 0, !.win.newest = 0, !.win.reset = TRUE],
                       TRUE))
    /\ UNCHANGED <<failures, scrolls>>

(* The page is merged.  open: the outline is open now. *)
ApplyOlder(open) ==
    LET o == client.older
        w == client.win
        boundary == IF w.boundary # 0 THEN w.boundary ELSE IF open THEN o.before ELSE 0
        merged == Merge(w, o.page.rows, IF w.view = "tail" /\ boundary # 0 THEN "append" ELSE "prepend",
                        Older, boundary)
        closed == ~open /\ o.provisional /\ w.view = "tail"
        trimmed == IF closed THEN TrimReleased(merged) ELSE merged
    IN
    /\ o.at = "answered" /\ (o.epoch = 0 \/ o.page.epoch = o.epoch)
    /\ ClientStep([client EXCEPT
            !.older = NoRequest,
            !.gap = @ \/ (trimmed # merged /\ ~o.page.hasMore) \/ w.oldest # o.before,
            !.win = [trimmed EXCEPT
                !.hasMore = o.page.hasMore, !.epoch = o.page.epoch,
                !.oldest = IF trimmed # merged THEN @ ELSE o.page.next,
                !.boundary = IF open THEN o.before ELSE IF o.install THEN 0 ELSE w.boundary,
                !.provisional = FALSE]])
    /\ UNCHANGED <<failures, scrolls>>

(* onBeforeApply refuses the page, or the request fails: the boundary it installed goes. *)
DropOlder ==
    /\ Loading(client) /\ failures < MaxFailures
    /\ failures' = failures + 1
    /\ ClientStep([client EXCEPT !.older = NoRequest,
                                 !.win = IF client.older.provisional THEN TrimReleased(Unbound(@)) ELSE @])
    /\ UNCHANGED scrolls

CancelOlder ==
    /\ here = "yes" /\ Loading(client)
    /\ ClientStep(GiveUpOlder(client))
    /\ UNCHANGED <<failures, scrolls>>

Next ==
    \/ Store \/ (\E x \in thread: Rewind(x)) \/ Connect \/ Cut
    \/ HandleEvent \/ ServeTail \/ ApplyTail \/ FailTail
    \/ Enter \/ Mounted \/ Leave \/ (\E mode \in {"tail", "history"}: SetView(mode))
    \/ (\E install \in BOOLEAN: LoadOlder(install)) \/ ServeOlder \/ OlderReset
    \/ (\E open \in BOOLEAN: ApplyOlder(open)) \/ DropOlder \/ CancelOlder

Spec == Init /\ [][Next]_vars
-----------------------------------------------------------------------------
(* Properties. *)

Positions == 1..MaxMessages
Cursor == 0..MaxMessages
Epoch == 0..epoch
PageType ==
    [direction: {"latest", "after"}, reset: BOOLEAN, epoch: Epoch, rows: SUBSET Positions, next: Cursor,
     head: Cursor, hasMore: BOOLEAN]
WindowType ==
    [msgs: SUBSET Positions, hasMore: BOOLEAN, oldest: Cursor, newest: Cursor, epoch: Epoch,
     view: {"tail", "history"}, boundary: Cursor, provisional: BOOLEAN, reset: BOOLEAN, prefer: BOOLEAN,
     syncing: BOOLEAN]
TailType ==
    [at: {"asked", "answered"}, stale: BOOLEAN, prefers: BOOLEAN, cold: BOOLEAN, replace: BOOLEAN,
     baseline: SUBSET Positions, after: Cursor, until: Cursor, epoch: Epoch, limit: {Initial, Page},
     page: PageType]
OlderType ==
    [at: {"asked", "answered"}, before: Cursor, epoch: Epoch, install: BOOLEAN, provisional: BOOLEAN,
     page: PageType]
ClientType ==
    [win: WindowType, tail: {NoRequest} \cup TailType, trailing: BOOLEAN, older: {NoRequest} \cup OlderType,
     owed: BOOLEAN, gap: BOOLEAN]
EventType == [kind: {"connected"}, at: {0}] \cup [kind: {"message", "rewind"}, at: Positions]

(* Positions, pages and request states stay in range, no cursor or page is of an epoch that is still *)
(* to come, and only a mounted session has a stream. *)
TypeOK ==
    /\ thread \subseteq 1..last /\ last \in 0..MaxMessages
    /\ epoch = rewinds + 1 /\ rewinds \in 0..MaxRewinds
    /\ cuts \in Nat /\ failures \in Nat /\ scrolls \in Nat
    /\ here \in {"no", "mounting", "yes"} /\ live \in BOOLEAN /\ (live => here = "yes")
    /\ events \in Seq(EventType) /\ (events # <<>> => live)
    /\ client \in ClientType

(* A synchronization will still read the cursor: one is running or wanted, or the stream has yet to *)
(* connect and ask for one. *)
SyncAhead == ~live \/ OnStream("connected") # {} \/ Running(client) \/ client.trailing \/ client.owed

(* The running synchronization will still bring x: the catch-up loop has it ahead, or the newest page *)
(* covers it. *)
InLoop(x) ==
    LET t == client.tail IN
    /\ Running(client) /\ ~t.stale
    /\ \/ /\ t.after # 0 /\ t.epoch = epoch /\ t.after < x
          /\ t.until = 0 \/ x <= t.until
          /\ t.at = "answered" => x \in t.page.rows \/ (t.page.hasMore /\ x > t.page.next)
       \/ /\ t.after = 0
          /\ t.at = "answered" => x <= t.page.head

Within(x) ==
    LET w == client.win IN
    \/ x \in w.msgs
    \/ w.hasMore /\ x < w.oldest
    \/ x > w.newest /\ SyncAhead
    \/ x \in OnStream("message")
    \/ InLoop(x)

(* The cursors speak about the thread there is, and the window is not about to be replaced. *)
Trusted ==
    client.win.epoch = epoch /\ ~client.win.reset /\ ~client.win.prefer /\ client.win.newest # 0

(* Whatever older pages, catch-up pages, live messages, trims and view changes do to the window in *)
(* whatever order, every message of the thread is shown or some cursor will still bring it (the cases *)
(* of gap apart): no hole opens between the rows and the two cursors. *)
NoHole == Trusted /\ ~client.gap => \A x \in thread: Within(x)

(* Rows that a rewind removed do not come back with a page, or a live message, of the epoch before. *)
NoGhost == Trusted /\ ~client.gap /\ OnStream("rewind") = {} => client.win.msgs \subseteq thread

(* The boundary that an older-page request installs before its page is there, and with it the *)
(* suspension of trimming, never outlives the request. *)
ProvisionalEnds == client.win.provisional => Loading(client) \/ client.win.reset

(* isSyncingTail, which refuses older pages, is never left set without a synchronization that will *)
(* clear it, whichever of the overlapping ones were superseded. *)
SyncingIsRunning == client.win.syncing => Running(client)

(* A full window of still older rows took x's place. *)
GaveWay(x) ==
    Cardinality(client'.win.msgs) >= Older /\ \A y \in client'.win.msgs: y < x

(* The window's first page was applied, which is trimmed whatever the boundary. *)
FirstPage == client.tail.at = "answered" /\ client.tail.cold /\ client'.tail # client.tail

(* While a boundary is held, no row that is loaded is evicted by what arrives or by what the user does, *)
(* except for a full window of older rows. *)
LoadedStays ==
    [][client.win.boundary # 0 /\ client'.win.boundary # 0 /\ client'.win.epoch # 0 =>
        \A x \in client.win.msgs: x \in client'.win.msgs \/ GaveWay(x) \/ FirstPage]_vars

(* "Run after connect": once the stream is connected, its events are handled and no synchronization is *)
(* running or wanted, the newest cursor has reached the end of the thread. *)
HeadReached ==
    Trusted /\ live /\ events = <<>> /\ ~Running(client) /\ ~client.trailing /\ failures = 0 =>
        Largest(thread) <= client.win.newest
=============================================================================
