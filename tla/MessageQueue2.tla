--------------------------- MODULE MessageQueue2 ---------------------------
(***************************************************************************)
(* The queue between a CLI's socket and its launcher loop                  *)
(* (cli/src/utils/MessageQueue2.ts), with its three kinds of callers:      *)
(*                                                                         *)
(*   the socket    pushes messages, cancels and retries them by localId;   *)
(*   the loop      waits for a batch and runs it as one turn of the agent; *)
(*   steer calls   take one waiting message out, offer it to the agent in  *)
(*                 the middle of a turn and settle the reservation when    *)
(*                 the agent's answer arrives, in any order.               *)
(*                                                                         *)
(* Every method of the class is synchronous: calls made without an await   *)
(* between them are one action.  An item is identified by its              *)
(* enqueueOrder, which no two items share.  Message texts are left out.    *)
(* close() is not modelled: no launcher calls it.                          *)
(***************************************************************************)
EXTENDS Integers, FiniteSets, SequencesExt

CONSTANTS Ids,            \* localIds
          Hashes,         \* mode hashes
          ConsumedLimit,  \* how many committed localIds are remembered (256)
          MaxPushes,      \* bound: items pushed
          MaxRequeues,    \* bound: items put back by a failed batch
          MaxTakes,       \* bound: reservation objects created
          MaxOpen         \* bound: steer calls that may still restore their item

ASSUME QueueAssumption ==
  /\ ConsumedLimit \in Nat \ {0}
  /\ MaxPushes \in Nat /\ MaxRequeues \in Nat /\ MaxTakes \in Nat /\ MaxOpen \in Nat

VARIABLES
  queue,                 \* the waiting items
  nextOrder, prevOrder,  \* nextEnqueueOrder, previousEnqueueOrder
  handles,               \* every reservation object made, in order of creation
  reservations,          \* localId -> its reservation's index in handles, or 0
  consumed,              \* consumedReservations, oldest first
  waiter,                \* a waiter is registered
  loop,                  \* the launcher loop, see Loop
  aborted,               \* the signal of the loop's current wait was aborted
  batch,                 \* the items of the running turn
  known,                 \* ids the socket has pushed (its filter drops repeats)
  delivered,             \* history: how often an item was collected or committed
  cancelled,             \* history: items a cancel answered true for
  discarded              \* history: items an abort or a clear dropped

queueVars == <<queue, nextOrder, prevOrder, handles, reservations, consumed>>
loopVars == <<waiter, loop, aborted, batch>>
history == <<delivered, cancelled, discarded>>
vars == <<queueVars, loopVars, known, history>>

Order == -MaxRequeues .. MaxPushes - 1
Item == [id : Ids, hash : Hashes, isolate : BOOLEAN, order : Order]

\* open: the steer call that owns the reservation has not settled it yet.
Handle == [item : Item, prev : SUBSET Item, next : SUBSET Item, origin : BOOLEAN,
           reason : {"none", "explicit", "queue-reset"},
           state : {"dispatching", "indeterminate", "cancelled"}, open : BOOLEAN]

\* "waiting": parked in waitForMessages; "woken" | "refused": that promise is
\* settled and its continuation has not run yet; "turn": the agent works, or
\* the loop is about to ask again; "over": the loop was left.
Loop == {"waiting", "woken", "refused", "turn", "over"}

Find(id) == SelectInSeq(queue, LAMBDA x : x.id = id)
OrdersOf(items) == {items[i].order : i \in DOMAIN items}

---------------------------------------------------------------------------
(* The socket.                                                             *)

\* Mutant of Wake: nobody tells the waiter.
WakeForgotten == UNCHANGED loopVars

\* A pushed or restored item resolves the waiter.
Wake ==
  /\ loop' = IF waiter THEN "woken" ELSE loop
  /\ waiter' = FALSE
  /\ UNCHANGED <<aborted, batch>>

NewItem(id, hash, isolate) ==
  [id |-> id, hash |-> hash, isolate |-> isolate, order |-> nextOrder]

\* push, pushImmediate and pushIsolated.
Push(id, hash, isolate) ==
  /\ nextOrder < MaxPushes /\ id \notin known
  /\ queue' = Append(queue, NewItem(id, hash, isolate))
  /\ nextOrder' = nextOrder + 1
  /\ known' = known \cup {id}
  /\ Wake
  /\ UNCHANGED <<prevOrder, handles, reservations, consumed, history>>

\* Mutant of Doomed: a clear leaves the reservations alone.
DoomedNone(preserve) == {}

\* What cancelReservations(preserveDispatching) cancels.
Doomed(preserve) ==
  {h \in DOMAIN handles : /\ reservations[handles[h].item.id] = h
                          /\ ~(preserve /\ handles[h].state \in {"dispatching", "indeterminate"})}

\* The reserved items a caller that preserves nothing wants gone.
Reserved(preserve) ==
  {handles[h].item.order : h \in {x \in DOMAIN handles :
     ~preserve /\ reservations[handles[x].item.id] = x}}

CancelReservations(preserve) ==
  LET doomed == Doomed(preserve)
  IN  /\ handles' = [h \in DOMAIN handles |->
           IF h \in doomed THEN [handles[h] EXCEPT !.reason = "queue-reset", !.state = "cancelled"]
                           ELSE handles[h]]
      /\ reservations' = [id \in Ids |-> IF reservations[id] \in doomed THEN 0 ELSE reservations[id]]
      /\ discarded' = discarded \cup OrdersOf(queue) \cup Reserved(preserve)

\* pushIsolateAndClear: a command that must run alone drops what waits and
\* what is reserved.
PushIsolateAndClear(id, hash) ==
  /\ nextOrder < MaxPushes /\ id \notin known
  /\ CancelReservations(FALSE)
  /\ queue' = <<NewItem(id, hash, TRUE)>>
  /\ nextOrder' = nextOrder + 1
  /\ known' = known \cup {id}
  /\ Wake
  /\ UNCHANGED <<prevOrder, consumed, delivered, cancelled>>

\* cancelByLocalId's answer ...
CancelAnswer(id) ==
  IF Find(id) > 0 THEN "true"
  ELSE IF reservations[id] = 0
       THEN IF \E i \in DOMAIN consumed : consumed[i] = id THEN "consumed" ELSE "false"
       ELSE IF handles[reservations[id]].state = "dispatching" THEN "in-flight" ELSE "true"

\* Mutant of Voided: the object is dropped from the map but not marked.
VoidedUnmarked(h) == [handles EXCEPT ![h].reason = "explicit"]

\* A reservation cancelled or replaced: its owner must not settle it any more.
Voided(h) == [handles EXCEPT ![h].reason = "explicit", ![h].state = "cancelled"]

\* ... and, where it removes something, its effect on the reservations and the
\* items it leaves waiting.
Waiting(id) == IF Find(id) > 0 THEN RemoveAt(queue, Find(id)) ELSE queue

Release(id) ==
  IF Find(id) = 0 /\ CancelAnswer(id) = "true"
  THEN LET h == reservations[id]
       IN  /\ handles' = Voided(h)
           /\ reservations' = [reservations EXCEPT ![id] = 0]
           /\ cancelled' = cancelled \cup {handles[h].item.order}
  ELSE /\ cancelled' = cancelled \cup {queue[i].order : i \in {Find(id)} \ {0}}
       /\ UNCHANGED <<handles, reservations>>

\* cancel-queued-message.
CancelByLocalId(id) ==
  /\ CancelAnswer(id) = "true"
  /\ queue' = Waiting(id)
  /\ Release(id)
  /\ UNCHANGED <<nextOrder, prevOrder, consumed, loopVars, known, delivered, discarded>>

\* retry-queued-message: cancel, and unless that found the message in flight
\* or consumed, push it again.
Retry(id, hash, isolate) ==
  /\ nextOrder < MaxPushes /\ id \in known
  /\ CancelAnswer(id) \in {"true", "false"}
  /\ queue' = Append(Waiting(id), NewItem(id, hash, isolate))
  /\ nextOrder' = nextOrder + 1
  /\ Release(id)
  /\ Wake
  /\ UNCHANGED <<prevOrder, consumed, known, delivered, discarded>>

---------------------------------------------------------------------------
(* The launcher loop.                                                      *)

\* The items collectBatch takes: an isolated one alone, else every item up to
\* one of another mode or an isolated one.
BatchSize(items) ==
  IF items[1].isolate THEN 1
  ELSE CHOOSE n \in DOMAIN items :
         /\ \A i \in 1 .. n : items[i].hash = items[1].hash /\ ~items[i].isolate
         /\ n < Len(items) => items[n + 1].hash # items[1].hash \/ items[n + 1].isolate

CollectBatch ==
  LET n == BatchSize(queue)
  IN  /\ queue # <<>>
      /\ batch' = SubSeq(queue, 1, n)
      /\ queue' = SubSeq(queue, n + 1, Len(queue))
      /\ delivered' = [o \in Order |->
           delivered[o] + IF o \in OrdersOf(SubSeq(queue, 1, n)) THEN 1 ELSE 0]
      /\ loop' = "turn"
      /\ UNCHANGED <<nextOrder, prevOrder, handles, reservations, consumed, waiter,
                     aborted, known, cancelled, discarded>>

\* The turn is over, the loop asks for the next batch under a fresh signal.
WaitForMessages ==
  /\ loop = "turn"
  /\ \/ CollectBatch
     \/ /\ queue = <<>>
        /\ loop' = "waiting" /\ waiter' = TRUE /\ aborted' = FALSE /\ batch' = <<>>
        /\ UNCHANGED <<queueVars, known, history>>

\* The continuation of the wait.  Without a batch the loop goes on only after
\* an abort.
Resume ==
  /\ loop \in {"woken", "refused"}
  /\ \/ loop = "woken" /\ CollectBatch
     \/ /\ loop = "refused" \/ queue = <<>>
        /\ loop' = IF aborted THEN "turn" ELSE "over"
        /\ UNCHANGED <<queueVars, waiter, aborted, batch, known, history>>

\* A failed attempt puts its batch back in front, item by item from the last.
Requeue ==
  LET n == Len(batch)
      back == [i \in 1 .. n |-> [batch[i] EXCEPT !.order = prevOrder - (n - i)]]
  IN  /\ loop = "turn" /\ n > 0
      /\ prevOrder - n >= -MaxRequeues - 1
      /\ queue' = back \o queue
      /\ prevOrder' = prevOrder - n
      /\ batch' = <<>>
      /\ UNCHANGED <<nextOrder, handles, reservations, consumed, waiter, loop,
                     aborted, known, history>>

\* handleAbort: reset() forgets the waiter without calling it, the abort signal
\* settles the wait.
Abort(preserve) ==
  /\ loop # "over"
  /\ CancelReservations(preserve)
  /\ queue' = <<>>
  /\ waiter' = FALSE
  /\ aborted' = TRUE
  /\ loop' = IF loop = "waiting" THEN "refused" ELSE loop
  /\ batch' = <<>>
  /\ UNCHANGED <<nextOrder, prevOrder, consumed, known, delivered, cancelled>>

---------------------------------------------------------------------------
(* Steer calls.                                                            *)

Turn(item) == batch # <<>> /\ ~item.isolate /\ item.hash = batch[1].hash

Live(h) == handles[h].open /\ handles[h].state = "dispatching"

\* Mutant of TakenAt: the dispatch is never begun.
TakenOnly(i) ==
  [item |-> queue[i], prev |-> {}, next |-> {}, origin |-> FALSE, reason |-> "none",
   state |-> "reserved", open |-> TRUE]

\* takeByLocalId on a waiting item: splice it out, remember its neighbours.
TakenAt(i) ==
  LET rest == RemoveAt(queue, i)
  IN  [item |-> queue[i],
       prev |-> {rest[j] : j \in {i - 1} \cap DOMAIN rest},
       next |-> {rest[j] : j \in {i} \cap DOMAIN rest},
       origin |-> FALSE, reason |-> "none", state |-> "dispatching", open |-> TRUE]

\* takeByLocalId and beginReservationDispatch on a waiting item.
SteerQueued(id) ==
  LET i == Find(id)
  IN  /\ loop = "turn" /\ Len(handles) < MaxTakes
      /\ Cardinality({h \in DOMAIN handles : Live(h)}) < MaxOpen
      /\ reservations[id] = 0 /\ i > 0 /\ Turn(queue[i])
      /\ handles' = Append(handles, TakenAt(i))
      /\ reservations' = [reservations EXCEPT ![id] = Len(handles) + 1]
      /\ queue' = RemoveAt(queue, i)
      /\ UNCHANGED <<nextOrder, prevOrder, consumed, loopVars, known, history>>

\* The same on a held reservation: a new object takes over, the old is void.
\* A control command or one of another mode is held on at once.
SteerHeld(id) ==
  LET h == reservations[id]
      retry == [handles[h] EXCEPT !.reason = "none", !.open = Turn(handles[h].item),
                  !.state = IF Turn(handles[h].item) THEN "dispatching" ELSE "indeterminate"]
  IN  /\ loop = "turn" /\ batch # <<>> /\ Len(handles) < MaxTakes
      /\ Cardinality({x \in DOMAIN handles : Live(x)}) < MaxOpen
      /\ h > 0 /\ handles[h].state = "indeterminate"
      /\ handles' = Append(Voided(h), retry)
      /\ reservations' = [reservations EXCEPT ![id] = Len(handles) + 1]
      /\ UNCHANGED <<queue, nextOrder, prevOrder, consumed, loopVars, known, history>>

\* Mutant of RestoreIndex: back to the end of the queue.
RestoreLast(items, taken) == Len(items) + 1

\* Where restoreReservation puts the item back.
RestoreIndex(items, taken) ==
  LET later == SelectInSeq(items, LAMBDA x : x.order > taken.item.order)
      next  == SelectInSeq(items, LAMBDA x : x \in taken.next)
      prev  == SelectInSeq(items, LAMBDA x : x \in taken.prev)
  IN  IF later > 0 THEN later
      ELSE IF next > 0 THEN next
      ELSE IF prev > 0 THEN prev + 1 ELSE Len(items) + 1

\* A steer call that finds a control command or another mode: taken and put
\* back in one step.
SteerRefused(id) ==
  LET i == Find(id)
      rest == RemoveAt(queue, i)
  IN  /\ loop = "turn" /\ batch # <<>>
      /\ reservations[id] = 0 /\ i > 0 /\ ~Turn(queue[i])
      /\ queue' = InsertAt(rest, RestoreIndex(rest, TakenAt(i)), queue[i])
      /\ Wake
      /\ UNCHANGED <<nextOrder, prevOrder, handles, reservations, consumed, known, history>>

\* Mutant of HeldOn: the state of this attempt instead of the message's past.
HeldOnState(taken) == taken.state = "indeterminate"

HeldOn(taken) == taken.origin

\* Mutant of Restored: the reservation stays in the map.
RestoredKept(id) == reservations

Restored(id) == [reservations EXCEPT ![id] = 0]

\* The agent rejected the prompt.  A message that ever was indeterminate is
\* held on, any other waits again.
RestoreReservation(h) ==
  LET taken == handles[h]
  IN  /\ Live(h)
      /\ \/ /\ HeldOn(taken)
            /\ handles' = [handles EXCEPT ![h].state = "indeterminate", ![h].open = FALSE]
            /\ UNCHANGED <<queue, reservations, loopVars>>
         \/ /\ ~HeldOn(taken) /\ reservations[taken.item.id] = h
            /\ handles' = [handles EXCEPT ![h].open = FALSE]
            /\ reservations' = Restored(taken.item.id)
            /\ queue' = InsertAt(queue, RestoreIndex(queue, taken), taken.item)
            /\ Wake
      /\ UNCHANGED <<nextOrder, prevOrder, consumed, known, history>>

\* Nobody knows whether the agent has the prompt: hold it.  The call may still
\* commit when the outcome is reconciled.
MarkReservationIndeterminate(h) ==
  /\ Live(h) /\ reservations[handles[h].item.id] = h
  /\ handles' = [handles EXCEPT ![h].state = "indeterminate", ![h].origin = TRUE]
  /\ UNCHANGED <<queue, nextOrder, prevOrder, reservations, consumed, loopVars, known, history>>

RememberConsumed(id) ==
  LET kept == RemoveFirst(consumed, id)
  IN  IF Len(kept) < ConsumedLimit THEN Append(kept, id) ELSE Append(Tail(kept), id)

\* Mutants of Commits: every acceptance counts; only a replaced reservation
\* does not count.
CommitsAlways(h) == TRUE
CommitsUnlessReplaced(h) == reservations[handles[h].item.id] \in {0, h}

\* commitReservation's result: a reservation that was cancelled or replaced is
\* not committed, one that only a reset dropped is.
Commits(h) ==
  \/ handles[h].reason = "queue-reset"
  \/ handles[h].state # "cancelled" /\ reservations[handles[h].item.id] = h

\* The agent has the prompt.
CommitReservation(h) ==
  LET item == handles[h].item
  IN  /\ handles[h].open
      /\ handles' = [handles EXCEPT ![h].open = FALSE]
      /\ \/ /\ Commits(h)
            /\ reservations' = [reservations EXCEPT ![item.id] = IF @ = h THEN 0 ELSE @]
            /\ consumed' = RememberConsumed(item.id)
            /\ delivered' = [delivered EXCEPT ![item.order] = @ + 1]
         \/ ~Commits(h) /\ UNCHANGED <<reservations, consumed, delivered>>
      /\ UNCHANGED <<queue, nextOrder, prevOrder, loopVars, known, cancelled, discarded>>

---------------------------------------------------------------------------
Init ==
  /\ queue = <<>>
  /\ nextOrder = 0 /\ prevOrder = -1
  /\ handles = <<>>
  /\ reservations = [id \in Ids |-> 0]
  /\ consumed = <<>>
  /\ waiter = FALSE /\ loop = "turn" /\ aborted = FALSE /\ batch = <<>>
  /\ known = {}
  /\ delivered = [o \in Order |-> 0]
  /\ cancelled = {} /\ discarded = {}

Next ==
  \/ \E id \in Ids, hash \in Hashes, isolate \in BOOLEAN :
       Push(id, hash, isolate) \/ Retry(id, hash, isolate)
  \/ \E id \in Ids, hash \in Hashes : PushIsolateAndClear(id, hash)
  \/ \E id \in Ids : \/ CancelByLocalId(id)
                     \/ SteerQueued(id) \/ SteerHeld(id) \/ SteerRefused(id)
  \/ \E h \in DOMAIN handles : \/ RestoreReservation(h) \/ CommitReservation(h)
                               \/ MarkReservationIndeterminate(h)
  \/ WaitForMessages \/ Resume \/ Requeue
  \/ \E preserve \in BOOLEAN : Abort(preserve)

Spec == Init /\ [][Next]_vars

---------------------------------------------------------------------------
TypeOK ==
  /\ queue \in Seq(Item)
  /\ nextOrder \in 0 .. MaxPushes /\ prevOrder \in -MaxRequeues - 1 .. -1
  /\ handles \in Seq(Handle)
  /\ reservations \in [Ids -> 0 .. Len(handles)]
  /\ consumed \in Seq(Ids)
  /\ waiter \in BOOLEAN /\ loop \in Loop /\ aborted \in BOOLEAN
  /\ batch \in Seq(Item)
  /\ known \in SUBSET Ids
  /\ delivered \in [Order -> Nat]
  /\ cancelled \in SUBSET Order /\ discarded \in SUBSET Order

\* No item waits twice, or waits while a reservation still holds it: whatever
\* is restored, retried and requeued, a prompt is never doubled.
ItemInOnePlace ==
  /\ \A i, j \in DOMAIN queue : queue[i].order = queue[j].order => i = j
  /\ \A id \in Ids : reservations[id] > 0 =>
       handles[reservations[id]].item.order \notin OrdersOf(queue)

\* A reservation some call may still settle is the one its localId finds, so a
\* cancel always learns that the message is in flight.
LiveHandleIsMapped ==
  \A h \in DOMAIN handles :
    handles[h].open /\ handles[h].state # "cancelled" => reservations[handles[h].item.id] = h

\* A prompt whose outcome was ever unknown never waits in the queue again.
HeldNeverReplayed ==
  \A h \in DOMAIN handles : handles[h].origin => handles[h].item.order \notin OrdersOf(queue)

\* An item is collected or committed at most once, never both.
DeliveredOnce == \A o \in Order : delivered[o] <= 1

\* Once a cancel answered true, the item is never delivered: not by the loop,
\* and not by a steer call that settles late.
CancelledNeverDelivered == \A o \in cancelled : delivered[o] = 0

\* What an abort or a clear dropped never comes back from a reservation.
DiscardedNeverQueued == discarded \cap OrdersOf(queue) = {}

\* The loop sleeps only while nothing waits, and something will wake it.
WaiterNotStranded == loop = "waiting" => waiter /\ queue = <<>>

\* The queue is in FIFO order, restored items included.
Fifo == \A i, j \in DOMAIN queue : i < j => queue[i].order < queue[j].order
===========================================================================
