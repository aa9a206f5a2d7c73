----------------------------- MODULE SseResume -----------------------------
(***************************************************************************)
(* The event stream from the hub to one web client: the replay buffer, the *)
(* verdict on a resume cursor and the queue of a connection that is still  *)
(* replaying (hub/src/sse/sseManager.ts, hub/src/web/routes/events.ts),    *)
(* and what the client does with it (web/src/hooks/useSSE.ts and the       *)
(* connect handlers of web/src/App.tsx): patch its caches, batch           *)
(* invalidations, move its cursor, refetch when it is told of a gap.       *)
(*                                                                         *)
(* What the client shows of a subscription has two parts.  An event on the *)
(* part "patched" carries the new value; an event on the part "fetched"    *)
(* only says that there is one, and the client fetches it.                 *)
(***************************************************************************)
EXTENDS Naturals, Sequences, FiniteSets, SequencesExt

CONSTANTS
    Key,           \* subscription keys: scope, session and machine of a useSSE
    First,         \* the one the client starts with
    None,          \* no subscription
    Capacity,      \* EVENT_BUFFER_CAPACITY
    MaxEvents,     \* bound: events
    MaxCuts        \* bound: connections cut, reopened for a new token or key, hub restarts

ASSUME KeyAssumption == None \notin Key /\ First \in Key
ASSUME CapacityAssumption == Capacity \in Nat \ {0}
ASSUME BoundsAssumption == MaxEvents \in Nat /\ MaxCuts \in Nat

VARIABLES
    truth,    \* what the hub has stored, per key and part
    epoch,    \* the hub process
    log,      \* every event of this epoch, in order; nextSeq is Len(log) + 1
    oldest,   \* first seq that is still in the replay buffer
    conn,     \* the hub's connection of the client
    wire,     \* written to the connection, not handled yet
    key,      \* the subscription the client is on
    link,     \* its EventSource: "down", "opening" (asked for), "up"
    cursor,   \* lastEventCursorRef
    cache,    \* what the client shows, per key and part
    dirty,    \* pending invalidations, with the 16 ms timer
    fetch,    \* the query of each key: idle, sent, or answered and not applied
    cuts,
    handled,  \* history: last seq of this connection the client has dealt with
    excused   \* history: why a key's cache may be behind

hubVars == <<truth, epoch, log, oldest, conn>>
clientVars == <<key, link, cursor, cache, dirty, fetch>>
vars == <<hubVars, wire, clientVars, cuts, handled, excused>>

Part == {"patched", "fetched"}
Event == [key: Key, part: Part, value: Nat]
NoCursor == [key |-> None, epoch |-> 0, seq |-> 0]

\* A set of numbers as a sequence, the lowest first.
Ascending(s) == \A i, j \in DOMAIN s : i < j => s[i] < s[j]
InOrder(S) == CHOOSE s \in [1..Cardinality(S) -> S] : Ascending(s) /\ Range(s) = S

\* What is written to a connection: a verdict, or an event with its id.
Packet == [kind: {"ok", "gap", "event"}, seq: Nat]
VerdictPacket(ok) == [kind |-> IF ok THEN "ok" ELSE "gap", seq |-> 0]
EventPacket(seq) == [kind |-> "event", seq |-> seq]

\* direct: pending is null, broadcasts are written at once.  todo is the replay, or the batch that
\* drainPending took out of pending.
Closed == [open |-> FALSE, key |-> None, direct |-> FALSE, todo |-> <<>>, pending |-> <<>>]
Idle == [state |-> "idle"]
Sent == [state |-> "sent"]
Answered(v) == [state |-> "answered", value |-> v]

TypeOK ==
    /\ truth \in [Key -> [Part -> Nat]]
    /\ epoch \in Nat
    /\ log \in Seq(Event)
    /\ oldest \in 1..(Len(log) + 1) /\ Len(log) - oldest < Capacity
    /\ conn \in [open: BOOLEAN, key: Key \cup {None}, direct: BOOLEAN, todo: Seq(1..Len(log)), pending: Seq(1..Len(log))]
    /\ wire \in Seq(Packet)
    /\ key \in Key
    /\ link \in {"down", "opening", "up"}
    /\ cursor \in [key: Key \cup {None}, epoch: Nat, seq: Nat]
    /\ cache \in [Key -> [Part -> Nat]]
    /\ dirty \in BOOLEAN
    /\ fetch \in [Key -> {Idle, Sent} \cup [state: {"answered"}, value: [Part -> Nat]]]
    /\ cuts \in 0..MaxCuts
    /\ handled \in Nat
    /\ excused \in [Key -> SUBSET {"overtaken", "cleared"}]

NothingStored == [k \in Key |-> [part \in Part |-> 0]]

Init ==
    /\ truth = NothingStored
    /\ epoch = 1
    /\ log = <<>>
    /\ oldest = 1
    /\ conn = Closed
    /\ wire = <<>>
    /\ key = First
    /\ link = "opening"
    /\ cursor = NoCursor
    /\ cache = NothingStored
    /\ dirty = FALSE
    /\ fetch = [k \in Key |-> Idle]
    /\ cuts = 0
    /\ handled = 0
    /\ excused = [k \in Key |-> {}]

----------------------------------------------------------------------------
(* The hub. *)

\* shouldSend
ShouldSend(k, seq) == log[seq].key = k

\* Mutant of CanResume: without the check of the buffer.
CanResumeEvicted(id) ==
    /\ id # NoCursor
    /\ id.epoch = epoch
    /\ id.seq \in 1..Len(log)

\* resolveResume: the cursor is of this hub process, of the past, and everything after it is still
\* in the buffer.
CanResume(id) ==
    /\ id # NoCursor
    /\ id.epoch = epoch
    /\ id.seq \in 1..Len(log)
    /\ id.seq >= oldest - 1

Replay(k, id) == InOrder({seq \in (id.seq + 1)..Len(log) : seq >= oldest /\ ShouldSend(k, seq)})

\* GET /events: subscribe, then the verdict as the first thing on the wire.
Subscribe ==
    /\ link = "opening"
    /\ LET id == IF cursor.key = key THEN cursor ELSE NoCursor
           ok == CanResume(id)
           replay == IF ok THEN Replay(key, id) ELSE <<>>
       IN  /\ conn' = [open |-> TRUE, key |-> key, direct |-> replay = <<>>,
                       todo |-> replay, pending |-> <<>>]
           /\ wire' = <<VerdictPacket(ok)>>
           /\ handled' = IF ok THEN id.seq ELSE Len(log)
    /\ link' = "up"
    /\ UNCHANGED <<truth, epoch, log, oldest, key, cursor, cache, dirty, fetch, cuts, excused>>

\* Mutant of Oldest: one event too many is kept.
OldestLate(n) == {first \in oldest..n : n - first <= Capacity}

\* recordEvent: the buffer keeps at most Capacity events, fewer when they are large, never none.
Oldest(n) == {first \in oldest..n : n - first < Capacity}

\* A handler changes what it stores and broadcasts the event.
Broadcast(k, part) ==
    /\ MapThenSumSet(LAMBDA at : truth[at[1]][at[2]], Key \X Part) < MaxEvents
    /\ truth' = [truth EXCEPT ![k][part] = @ + 1]
    /\ log' = Append(log, [key |-> k, part |-> part, value |-> truth[k][part] + 1])
    /\ oldest' \in Oldest(Len(log) + 1)
    /\ LET sent == conn.open /\ conn.key = k
           seq == Len(log) + 1
       IN  /\ conn' = IF sent /\ ~conn.direct THEN [conn EXCEPT !.pending = Append(@, seq)] ELSE conn
           /\ wire' = IF sent /\ conn.direct THEN Append(wire, EventPacket(seq)) ELSE wire
    /\ UNCHANGED <<epoch, clientVars, cuts, handled, excused>>

\* The next replayed or queued event is written.
Write ==
    /\ conn.todo # <<>>
    /\ wire' = Append(wire, EventPacket(Head(conn.todo)))
    /\ conn' = [conn EXCEPT !.todo = Tail(@)]
    /\ UNCHANGED <<truth, epoch, log, oldest, clientVars, cuts, handled, excused>>

\* Mutant of DrainPending: switches to direct delivery with the last batch still to write.
DrainPendingEarly ==
    /\ conn.open /\ ~conn.direct
    /\ conn.todo = <<>>
    /\ conn' = [conn EXCEPT !.direct = TRUE, !.todo = conn.pending, !.pending = <<>>]
    /\ UNCHANGED <<truth, epoch, log, oldest, wire, clientVars, cuts, handled, excused>>

\* drainPending: takes the next batch, or finds none and switches to direct delivery.
DrainPending ==
    /\ conn.open /\ ~conn.direct
    /\ conn.todo = <<>>
    /\ conn' = IF conn.pending = <<>> THEN [conn EXCEPT !.direct = TRUE]
                                      ELSE [conn EXCEPT !.todo = conn.pending, !.pending = <<>>]
    /\ UNCHANGED <<truth, epoch, log, oldest, wire, clientVars, cuts, handled, excused>>

\* The hub is restarted: the database stays, the buffer and the connections go.
Restart ==
    /\ cuts < MaxCuts
    /\ cuts' = cuts + 1
    /\ epoch' = epoch + 1
    /\ log' = <<>>
    /\ oldest' = 1
    /\ conn' = Closed
    /\ wire' = <<>>
    /\ handled' = 0
    /\ link' = IF link = "up" THEN "down" ELSE link
    /\ UNCHANGED <<truth, key, cursor, cache, dirty, fetch, excused>>

----------------------------------------------------------------------------
(* The client. *)

\* invalidateQueries: a running fetch of the query is cancelled and started again.
Refetch(k) ==
    /\ fetch' = [fetch EXCEPT ![k] = Sent]
    /\ excused' = [excused EXCEPT ![k] = {}]

\* onConnect: a resumed connection skips the resync.
HandleVerdict ==
    /\ wire # <<>> /\ Head(wire).kind # "event"
    /\ wire' = Tail(wire)
    /\ IF Head(wire).kind = "ok" THEN UNCHANGED <<fetch, excused>> ELSE Refetch(key)
    /\ UNCHANGED <<hubVars, key, link, cursor, cache, dirty, cuts, handled>>

\* handleSyncEvent, then the cursor.  A value is taken when it is newer (isNewerVersionedPatch);
\* an event without one queues an invalidation.
HandleEvent ==
    /\ wire # <<>> /\ Head(wire).kind = "event"
    /\ wire' = Tail(wire)
    /\ LET seq == Head(wire).seq
           event == log[seq]
       IN  /\ IF event.part = "patched"
                THEN /\ cache' = [cache EXCEPT ![key].patched = IF event.value > @ THEN event.value ELSE @]
                     /\ excused' = IF /\ fetch[key].state = "answered"
                                      /\ fetch[key].value.patched < event.value
                                     THEN [excused EXCEPT ![key] = @ \cup {"overtaken"}]
                                     ELSE excused
                     /\ UNCHANGED dirty
                ELSE dirty' = TRUE /\ UNCHANGED <<cache, excused>>
           /\ cursor' = [key |-> key, epoch |-> epoch, seq |-> seq]
           /\ handled' = seq
    /\ UNCHANGED <<hubVars, key, link, fetch, cuts>>

\* Mutant of Flush: a fetch that is already running is taken to be enough.
FlushUnlessFetching ==
    /\ dirty
    /\ dirty' = FALSE
    /\ IF fetch[key] = Idle THEN Refetch(key) ELSE UNCHANGED <<fetch, excused>>
    /\ UNCHANGED <<hubVars, wire, key, link, cursor, cache, cuts, handled>>

\* flushInvalidations, 16 ms after the first queued one.
Flush ==
    /\ dirty
    /\ dirty' = FALSE
    /\ Refetch(key)
    /\ UNCHANGED <<hubVars, wire, key, link, cursor, cache, cuts, handled>>

\* The hub answers a REST query, and the answer arrives, in its own time.
Answer(k) ==
    /\ fetch[k].state = "sent"
    /\ fetch' = [fetch EXCEPT ![k] = Answered(truth[k])]
    /\ UNCHANGED <<hubVars, wire, key, link, cursor, cache, dirty, cuts, handled, excused>>

Apply(k) ==
    /\ fetch[k].state = "answered"
    /\ cache' = [cache EXCEPT ![k] = fetch[k].value]
    /\ fetch' = [fetch EXCEPT ![k] = Idle]
    /\ UNCHANGED <<hubVars, wire, key, link, cursor, dirty, cuts, handled, excused>>

\* The transport fails or goes stale; requestReconnect schedules an attempt.
Cut ==
    /\ link = "up"
    /\ cuts < MaxCuts
    /\ cuts' = cuts + 1
    /\ link' = "down"
    /\ conn' = Closed
    /\ wire' = <<>>
    /\ handled' = 0
    /\ UNCHANGED <<truth, epoch, log, oldest, key, cursor, cache, dirty, fetch, excused>>

\* The cleanup of the effect: the timer and what it was to flush are dropped.
Cleanup ==
    /\ dirty' = FALSE
    /\ excused' = IF dirty THEN [excused EXCEPT ![key] = @ \cup {"cleared"}] ELSE excused

\* The reconnect nonce changes and the effect runs again.
Reconnect ==
    /\ link = "down"
    /\ link' = "opening"
    /\ Cleanup
    /\ UNCHANGED <<hubVars, wire, key, cursor, cache, fetch, cuts, handled>>

\* The effect runs again for a new token or another subscription.
Resubscribe(k) ==
    /\ cuts < MaxCuts
    /\ cuts' = cuts + 1
    /\ link' = "opening"
    /\ key' = k
    /\ conn' = Closed
    /\ wire' = <<>>
    /\ handled' = 0
    /\ Cleanup
    /\ UNCHANGED <<truth, epoch, log, oldest, cursor, cache, fetch>>

----------------------------------------------------------------------------
Next ==
    \/ Subscribe \/ Write \/ DrainPending \/ Restart
    \/ HandleVerdict \/ HandleEvent \/ Flush
    \/ Cut \/ Reconnect
    \/ \E k \in Key : Answer(k) \/ Apply(k) \/ Resubscribe(k)
    \/ \E k \in Key, part \in Part : Broadcast(k, part)

Spec == Init /\ [][Next]_vars

\* Connections are retried, what is written arrives, timers fire, queries are answered.
LiveSpec ==
    /\ Spec
    /\ WF_vars(Subscribe) /\ WF_vars(Write) /\ WF_vars(DrainPending) /\ WF_vars(Reconnect)
    /\ WF_vars(HandleVerdict) /\ WF_vars(HandleEvent) /\ WF_vars(Flush)
    /\ \A k \in Key : WF_vars(Answer(k)) /\ WF_vars(Apply(k))

----------------------------------------------------------------------------
(* Properties. *)

\* What is on its way to the client, in the order in which it will be handled; only the first packet
\* of a connection can be a verdict.
Written == IF wire # <<>> /\ Head(wire).kind # "event" THEN Tail(wire) ELSE wire
Pipeline == [i \in DOMAIN Written |-> Written[i].seq] \o conn.todo \o conn.pending

\* Between the hub's log and the client nothing is skipped, doubled or reordered: on an open
\* connection the pipeline is exactly the events of the subscription after the one handled last
\* (or, on a resumed connection, after the cursor), whatever broadcasts fell into the replay and
\* its drain (sseManager.ts:88-93 and 113-140).
NothingSkipped ==
    conn.open => Pipeline = InOrder({seq \in (handled + 1)..Len(log) : ShouldSend(conn.key, seq)})

\* Nothing is under way for the subscription the client is on.
Settled ==
    /\ link = "up" /\ wire = <<>> /\ conn.direct
    /\ ~dirty /\ fetch[key] = Idle

\* Then the client shows what the hub has stored, resumed or not, after any cuts, restarts,
\* evictions and changes of subscription.  Two things are excused: a query answered before and
\* applied after a newer patch, and invalidations the effect's cleanup dropped.
ViewCurrent == (Settled /\ excused[key] = {}) => cache[key] = truth[key]

\* Once the hub and the network come to rest, the client is current and stays so.
CatchesUp == <>[](cache[key] = truth[key] \/ excused[key] # {})
============================================================================
