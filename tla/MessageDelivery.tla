------------------------- MODULE MessageDelivery --------------------------
(***************************************************************************)
(* One session's user messages on their way from the hub to the agent.     *)
(*                                                                         *)
(*   hub   the durable rows (MessageStore), the MessageService operations  *)
(*         that wait for a CLI answer (cancel, retry), the session-alive   *)
(*         replay, the 5 s tick and the handlers of the CLI's events       *)
(*         (hub/src/sync/messageService.ts,                                *)
(*          hub/src/socket/handlers/cli/sessionHandlers.ts);               *)
(*   net   one Socket.IO connection per CLI process: ordered while it is   *)
(*         up, whatever is in flight is lost when it drops;                *)
(*   CLI   ApiSessionClient (cli/src/api/apiSession.ts) in front of the    *)
(*         launcher's MessageQueue2 and the per-message steer handler of   *)
(*         the Cursor ACP launcher.                                        *)
(*                                                                         *)
(* The queue is abstracted to a status per message; its order, batches and *)
(* reservation objects are the subject of module MessageQueue2.            *)
(***************************************************************************)
EXTENDS MessageStore, SequencesExt

CONSTANTS Procs,        \* CLI processes of the session, one after the other
          MaxDrops,     \* bound: connections lost while the CLI lives
          MaxOps,       \* bound: cancel / retry requests of the web client
          MaxSteers,    \* bound: steer requests of the web client
          MaxResends,   \* bound: repeated POSTs of a stored localId
          MaxAborts     \* bound: aborts of the running turn

ASSUME BoundsAssumption ==
  /\ MaxDrops \in Nat /\ MaxOps \in Nat /\ MaxSteers \in Nat
  /\ MaxResends \in Nat /\ MaxAborts \in Nat

VARIABLES
  row, timing, seq,     \* the messages table
  ops,                  \* cancel and retry requests, in order of arrival
  conn,                 \* conn[p]: p's socket is in the session's room
  toCli, toHub,         \* packets in flight (toHub also buffers while down)
  proc,                 \* proc[p]: "new" | "up" | "gone"
  seen, cursor,         \* IncomingMessageFilter: ids and lastSeenSeq (0: null)
  held,                 \* held[p][m]: where p's queue has m
  retrying,             \* retrying[p][m]: reservation.originIndeterminate
  attempt,              \* attempt[p][m]: the steer handler owning m's acks
  backfill,             \* the reconnect backfill of p
  drops, steers, resends, aborts,
  taken,                \* history: how often p's launcher delivered m
  unproven,             \* history: steered into an agent, outcome not known
  swept,                \* history: stamped by the session-end sweep
  released              \* history: the requests p answered 'removed'

hubVars == <<row, timing, seq, ops>>
netVars == <<conn, toCli, toHub>>
cliVars == <<proc, seen, cursor, held, retrying, attempt, backfill>>
bounds  == <<drops, steers, resends, aborts>>
history == <<taken, unproven, swept, released>>
vars == <<hubVars, netVars, cliVars, bounds, history>>

---------------------------------------------------------------------------
(* Packets.  id names the request an answer belongs to.                    *)

Answer == {"removed", "in-flight", "consumed", "not-found", "accepted", "refused"}
SteerState == {"queued", "dispatching"}

Packet(types, states) == [t : types, ms : SUBSET Messages, id : Nat, st : states]
DownPacket ==
  Packet({"new", "cancel", "retry"}, {"nil"}) \cup Packet({"steerOk", "steerNo"}, SteerState)
UpPacket ==
  Packet({"alive", "consumed", "indeterminate", "end"}, {"nil"})
    \cup Packet({"steerState"}, SteerState) \cup Packet({"cancelAck", "retryAck"}, Answer)

Pkt(t, ms, id, st) == [t |-> t, ms |-> ms, id |-> id, st |-> st]

\* In a steer handler's hands: cancelByLocalId answers 'in-flight'.
Dispatching == {"persisting", "native", "restoring"}
\* "none": not in this queue; "pending": in it; "indeterminate": reservation
\* held for an explicit retry; "committed": in consumedReservations.
Held == Dispatching \cup {"none", "pending", "indeterminate", "committed"}

Listening(p) == conn[p] /\ proc[p] = "up"
Room == {p \in Procs : conn[p]}

\* io.to(`session:...`).emit: lost on a socket nobody reads any more.
Broadcast(pkts) ==
  [p \in Procs |-> IF Listening(p) THEN toCli[p] \o pkts ELSE toCli[p]]

NewMessages(ms) == IF ms = {} THEN <<>> ELSE <<Pkt("new", ms, 0, "nil")>>

---------------------------------------------------------------------------
(* Cancel and retry requests waiting for the CLI's answers.                *)

OpStage == {"ask", "offer", "done"}
Op == [kind : {"cancel", "retry"}, m : Messages, stage : OpStage,
       at : RowState, need : SUBSET Procs, got : SUBSET Answer,
       ans : {"none", "cancelled", "busy", "invoked", "retried", "unavailable"}]

\* requestCliCancelAck's priority among the answers of a room.
CancelResult(got, complete) ==
  CASE "consumed" \in got  -> "consumed"
    [] "consumed" \notin got /\ "in-flight" \in got -> "in-flight"
    [] got \cap {"consumed", "in-flight"} = {} /\ "removed" \in got -> "removed"
    [] OTHER -> IF complete THEN "not-found" ELSE "timeout"

\* Mutant of Settled: the row's own state reaches the web client.
SettledRaw(r) == IF r = "invoked" THEN "invoked" ELSE r

\* How cancelQueuedMessage reports a row it no longer changed.
Settled(r) == CASE r = "invoked" -> "invoked"
                [] r \in Uninvoked -> "busy"
                [] OTHER -> "cancelled"

Finish(op, ans) ==
  [op EXCEPT !.stage = "done", !.ans = ans, !.need = {}, !.got = {}]

\* Hold the row as unknown unless it settled meanwhile.
HoldUnknown(m) == SetMessagesDeliveryState(row, {m}, "indeterminate")

\* The rows after cancelQueuedMessage has its answer ...
CancelRow(op, res) ==
  CASE res = "consumed" -> MarkMessagesInvoked(row, {op.m})
    [] res # "consumed" /\ op.at = "dispatching" -> HoldUnknown(op.m)
    [] res \in {"removed", "not-found"} /\ op.at = "indeterminate"
         -> DeleteQueuedMessageById(row, op.m)
    [] res = "removed" /\ op.at = "queued" -> DeleteQueuedMessageById(row, op.m)
    [] res \in {"not-found", "timeout"} /\ op.at = "queued" -> HoldUnknown(op.m)
    [] OTHER -> row

\* Mutant of CancelAnswer: a queued row is taken to be gone after any answer.
CancelAnswerHasty(op, res) ==
  IF op.at = "queued" /\ res # "consumed" THEN "cancelled"
  ELSE Settled(CancelRow(op, res)[op.m])

\* ... and what it tells the web client.  Only the removal of a queued row is
\* answered without reading the row again.
CancelAnswer(op, res) ==
  IF op.at = "queued" /\ res = "removed" THEN "cancelled"
  ELSE IF op.at # "dispatching" /\ res = "in-flight" THEN "busy"
  ELSE IF op.at = "indeterminate" /\ res = "timeout" THEN "busy"
  ELSE Settled(CancelRow(op, res)[op.m])

\* retryIndeterminateMessage after its probe: claim the row, then offer it.
Claimable(op, res) ==
  /\ res \in {"removed", "not-found"}
  /\ row[op.m] \in {"dispatching", "indeterminate"}

\* got is what the room answered, complete whether everyone in it did.
ResolveAsk(i, got, complete) ==
  LET op  == ops[i]
      res == CancelResult(got, complete)
  IN  \/ /\ op.kind = "cancel"
         /\ row' = CancelRow(op, res)
         /\ ops' = [ops EXCEPT ![i] = Finish(op, CancelAnswer(op, res))]
         /\ UNCHANGED toCli
      \/ /\ op.kind = "retry" /\ Claimable(op, res)
         /\ row' = ClaimIndeterminateMessage(HoldUnknown(op.m), op.m)
         /\ toCli' = Broadcast(<<Pkt("retry", {op.m}, i, "nil")>>)
         /\ ops' = [ops EXCEPT ![i] = [op EXCEPT !.stage = "offer",
                                        !.need = Room, !.got = {}]]
      \/ /\ op.kind = "retry" /\ ~Claimable(op, res)
         /\ row' = IF res = "consumed" THEN MarkMessagesInvoked(row, {op.m})
                                       ELSE row
         /\ ops' = [ops EXCEPT ![i] = Finish(op, "unavailable")]
         /\ UNCHANGED toCli

\* The offer is requeued when some CLI accepted it, else unknown again.
ResolveOffer(i, got) ==
  LET m == ops[i].m
      state == IF "accepted" \in got THEN "queued" ELSE "indeterminate"
  IN  /\ row' = SetMessagesDeliveryState(row, {m}, state)
      /\ ops' = [ops EXCEPT ![i] = Finish(ops[i],
                   IF state = "queued" /\ StateChanges(row, {m}, state) # {}
                   THEN "retried" ELSE "unavailable")]
      /\ UNCHANGED toCli

Resolve(i, got, complete) ==
  IF ops[i].stage = "ask" THEN ResolveAsk(i, got, complete)
                          ELSE ResolveOffer(i, got)

---------------------------------------------------------------------------
(* The hub.                                                                *)

\* sendMessage: insert, and emit unless it is scheduled for later.
SendMessage(m, when) ==
  /\ row[m] = "none"
  /\ \E n \in 1 .. Cardinality(Messages) + 1 :
       /\ IsNextSeq(row, seq, n)
       /\ seq' = [seq EXCEPT ![m] = n]
  /\ row' = [row EXCEPT ![m] = "queued"]
  /\ timing' = [timing EXCEPT ![m] = when]
  /\ toCli' = IF when = "future" THEN toCli ELSE Broadcast(NewMessages({m}))
  /\ UNCHANGED <<ops, conn, toHub, cliVars, bounds, history>>

\* sendMessage again with a stored localId: nothing is inserted, the stored
\* row is emitted once more unless it is indeterminate or still in the future.
ResendMessage(m) ==
  /\ resends < MaxResends /\ Exists(row, m)
  /\ row[m] # "indeterminate" /\ timing[m] # "future"
  /\ toCli' = Broadcast(NewMessages({m}))
  /\ resends' = resends + 1
  /\ UNCHANGED <<hubVars, conn, toHub, cliVars, drops, steers, aborts, history>>

\* scheduled_at passes.
Mature(m) ==
  /\ timing[m] = "future"
  /\ timing' = [timing EXCEPT ![m] = "mature"]
  /\ UNCHANGED <<row, seq, ops, netVars, cliVars, bounds, history>>

\* releaseMatureScheduledMessages, on the 5 s tick.  A tick that finds its
\* last emission still in flight adds nothing new and is left out.
ReleaseMature ==
  LET due == MatureScheduled(row, timing)
  IN  /\ due # {}
      /\ \E p \in Procs :
           /\ Listening(p)
           /\ \A i \in DOMAIN toCli[p] :
                ~(toCli[p][i].t = "new" /\ due \subseteq toCli[p][i].ms)
      /\ toCli' = Broadcast(NewMessages(due))
      /\ UNCHANGED <<hubVars, conn, toHub, cliVars, bounds, history>>

\* cancelQueuedMessage up to its first await.  A row the CLI never got, or
\* that nobody can be asked about, is deleted at once.
Cancel(m) ==
  /\ Len(ops) < MaxOps /\ row[m] \in Uninvoked
  /\ LET op == [kind |-> "cancel", m |-> m, stage |-> "ask", at |-> row[m],
                need |-> Room, got |-> {}, ans |-> "none"]
         future == row[m] = "queued" /\ timing[m] = "future"
     IN  \/ /\ future \/ (Room = {} /\ row[m] # "dispatching")
            /\ row' = DeleteQueuedMessageById(row, m)
            /\ ops' = Append(ops, Finish(op, "cancelled"))
            /\ UNCHANGED toCli
         \/ /\ Room = {} /\ row[m] = "dispatching"
            /\ row' = HoldUnknown(m)
            /\ ops' = Append(ops, Finish(op, "busy"))
            /\ UNCHANGED toCli
         \/ /\ Room # {} /\ ~future
            /\ ops' = Append(ops, op)
            /\ toCli' = Broadcast(<<Pkt("cancel", {m}, Len(ops) + 1, "nil")>>)
            /\ UNCHANGED row
  /\ UNCHANGED <<timing, seq, conn, toHub, cliVars, bounds, history>>

\* retryIndeterminateMessage up to its probe; one retry per message, and only
\* with exactly one CLI socket in the room.
Retry(m) ==
  /\ Len(ops) < MaxOps /\ row[m] \in {"dispatching", "indeterminate"}
  /\ Cardinality(Room) = 1
  /\ \A i \in DOMAIN ops :
       ops[i].kind = "retry" /\ ops[i].m = m => ops[i].stage = "done"
  /\ ops' = Append(ops, [kind |-> "retry", m |-> m, stage |-> "ask",
                         at |-> row[m], need |-> Room, got |-> {}, ans |-> "none"])
  /\ toCli' = Broadcast(<<Pkt("cancel", {m}, Len(ops) + 1, "nil")>>)
  /\ UNCHANGED <<row, timing, seq, conn, toHub, cliVars, bounds, history>>

\* Mutant of OpTimeout: the timer gives up only on a partly answered request.
OpTimeoutPartial(i) ==
  /\ ops[i].stage # "done" /\ ops[i].got # {}
  /\ Resolve(i, ops[i].got, FALSE)
  /\ UNCHANGED <<timing, seq, conn, toHub, cliVars, bounds, history>>

\* The 500 ms are over before everybody asked has answered.
OpTimeout(i) ==
  /\ ops[i].stage # "done"
  /\ Resolve(i, ops[i].got, FALSE)
  /\ UNCHANGED <<timing, seq, conn, toHub, cliVars, bounds, history>>

\* An acknowledgement; the last one expected resolves the request at once.
\* One that comes after the timeout finds no request.
HandleAck(p, pkt) ==
  LET i == pkt.id
      live == /\ i \in DOMAIN ops /\ p \in ops[i].need
              /\ pkt.t = IF ops[i].stage = "ask" THEN "cancelAck" ELSE "retryAck"
      op == [ops[i] EXCEPT !.need = @ \ {p}, !.got = @ \cup {pkt.st}]
  IN  \/ ~live /\ UNCHANGED <<row, ops, toCli>>
      \/ live /\ op.need = {} /\ Resolve(i, op.got, TRUE)
      \/ live /\ op.need # {} /\ ops' = [ops EXCEPT ![i] = op] /\ UNCHANGED <<row, toCli>>

\* messages-steer-state: change the row and tell the CLI whether it changed.
HandleSteerState(p, pkt) ==
  LET ok == StateChanges(row, pkt.ms, pkt.st) # {}
      reply == Pkt(IF ok THEN "steerOk" ELSE "steerNo", pkt.ms, pkt.id, pkt.st)
  IN  /\ row' = SetMessagesDeliveryState(row, pkt.ms, pkt.st)
      /\ toCli' = IF Listening(p) THEN [toCli EXCEPT ![p] = Append(@, reply)]
                                  ELSE toCli
      /\ UNCHANGED ops

\* The hub handles the next event of p's socket.
HubReceive(p) ==
  /\ conn[p] /\ toHub[p] # <<>>
  /\ toHub' = [toHub EXCEPT ![p] = Tail(@)]
  /\ LET pkt == Head(toHub[p])
         queued == ImmediateQueued(row, timing)
     IN  /\ \/ /\ pkt.t = "alive"
               /\ toCli' = Broadcast(NewMessages(queued))
               /\ UNCHANGED <<row, ops>>
            \/ /\ pkt.t = "consumed"
               /\ row' = MarkMessagesInvoked(row, pkt.ms)
               /\ UNCHANGED <<ops, toCli>>
            \/ /\ pkt.t = "indeterminate"
               /\ row' = SetMessagesDeliveryState(row, pkt.ms, "indeterminate")
               /\ UNCHANGED <<ops, toCli>>
            \/ pkt.t = "steerState" /\ HandleSteerState(p, pkt)
            \/ pkt.t \in {"cancelAck", "retryAck"} /\ HandleAck(p, pkt)
            \/ /\ pkt.t = "end"
               /\ row' = MarkMessagesInvoked(row, queued)
               /\ UNCHANGED <<ops, toCli>>
         /\ swept' = IF pkt.t = "end" THEN swept \cup queued ELSE swept
  /\ UNCHANGED <<timing, seq, conn, cliVars, bounds, taken, unproven, released>>

---------------------------------------------------------------------------
(* The CLI process.                                                        *)

\* socket.emit: buffered by the client while the connection is down.
Emit(p, pkt) == toHub' = [toHub EXCEPT ![p] = Append(@, pkt)]

\* Mutant of Accept: messages are told apart by their sequence number.
AcceptAboveCursor(p, ms) ==
  LET fresh == {m \in ms : seq[m] > cursor[p]}
  IN  /\ seen' = [seen EXCEPT ![p] = @ \cup fresh]
      /\ cursor' = [cursor EXCEPT ![p] =
           CHOOSE k \in {seq[m] : m \in fresh} \cup {@} :
             \A m \in fresh : seq[m] <= k]
      /\ held' = [held EXCEPT ![p] =
           [m \in Messages |-> IF m \in fresh THEN "pending" ELSE @[m]]]

\* Mutant of Accept: nothing remembers what was pushed before.
AcceptAgain(p, ms) ==
  /\ seen' = [seen EXCEPT ![p] = @ \cup ms]
  /\ held' = [held EXCEPT ![p] =
       [m \in Messages |-> IF m \in ms THEN "pending" ELSE @[m]]]
  /\ UNCHANGED cursor

\* Everything IncomingMessageFilter does with the messages ms, and the pushes
\* for those it accepts.
Accept(p, ms) ==
  LET fresh == ms \ seen[p]
      seqs  == {seq[m] : m \in fresh} \cup {cursor[p]}
  IN  /\ seen' = [seen EXCEPT ![p] = @ \cup ms]
      /\ \E k \in seqs : /\ \A j \in seqs : j <= k
                       /\ cursor' = [cursor EXCEPT ![p] = k]
      /\ held' = [held EXCEPT ![p] =
                    [m \in Messages |-> IF m \in fresh THEN "pending" ELSE @[m]]]

\* Mutant of CancelByLocalId: a dispatch under way counts as a delivery.
CancelByLocalIdHasty(h) ==
  CASE h \in {"pending", "indeterminate"} -> "removed"
    [] h \in Dispatching \cup {"committed"} -> "consumed"
    [] OTHER -> "not-found"

\* cancelByLocalId: its answer, and what it leaves in the queue.
CancelByLocalId(h) ==
  CASE h \in {"pending", "indeterminate"} -> "removed"
    [] h \in Dispatching -> "in-flight"
    [] h = "committed" -> "consumed"
    [] OTHER -> "not-found"

HandleCancel(p, pkt, m) ==
  LET res == CancelByLocalId(held[p][m])
  IN  /\ held' = IF res = "removed" THEN [held EXCEPT ![p][m] = "none"] ELSE held
      /\ Emit(p, Pkt("cancelAck", {m}, pkt.id, res))
      /\ released' = [released EXCEPT ![p] = IF res = "removed" THEN @ \cup {pkt.id} ELSE @]
      /\ UNCHANGED <<seen, cursor, retrying, unproven>>

\* retry-queued-message: cancel what is held, then push past the filter.
HandleRetry(p, pkt, m) ==
  LET accepted == CancelByLocalId(held[p][m]) \in {"removed", "not-found"}
  IN  /\ IF accepted
         THEN /\ seen' = [seen EXCEPT ![p] = @ \cup {m}]
              /\ cursor' = IF m \notin seen[p] /\ seq[m] > cursor[p]
                           THEN [cursor EXCEPT ![p] = seq[m]] ELSE cursor
              /\ held' = [held EXCEPT ![p][m] = "pending"]
              /\ unproven' = unproven \ {m}
         ELSE UNCHANGED <<seen, cursor, held, unproven>>
      /\ Emit(p, Pkt("retryAck", {m}, pkt.id,
                     IF accepted THEN "accepted" ELSE "refused"))
      /\ UNCHANGED <<retrying, released>>

\* markReservationIndeterminate and emitSteerIndeterminate.
Hold(p, m) ==
  /\ held' = [held EXCEPT ![p][m] = "indeterminate"]
  /\ retrying' = [retrying EXCEPT ![p][m] = TRUE]
  /\ Emit(p, Pkt("indeterminate", {m}, 0, "nil"))

\* restoreQueuedReservation: a reservation that was ever indeterminate goes
\* back to being held, without telling the hub; any other is requeued once the
\* hub has recorded it.
RestoreQueued(p, m) ==
  IF retrying[p][m]
  THEN held' = [held EXCEPT ![p][m] = "indeterminate"] /\ UNCHANGED toHub
  ELSE /\ held' = [held EXCEPT ![p][m] = "restoring"]
       /\ Emit(p, Pkt("steerState", {m}, attempt[p][m], "queued"))

\* The answer to setSteerDeliveryState, if its handler still waits for it.
\* Once the dispatch is recorded the turn is checked again: it may have ended,
\* else the prompt goes to the agent.
HandleSteerAnswer(p, pkt, m) ==
  LET waits == /\ attempt[p][m] = pkt.id
               /\ held[p][m] = IF pkt.st = "queued" THEN "restoring" ELSE "persisting"
  IN  /\ \/ ~waits /\ UNCHANGED <<held, retrying, toHub, unproven>>
         \/ waits /\ pkt.t = "steerNo" /\ Hold(p, m) /\ UNCHANGED unproven
         \/ /\ waits /\ pkt.t = "steerOk" /\ pkt.st = "queued"
            /\ held' = [held EXCEPT ![p][m] = "pending"]
            /\ UNCHANGED <<retrying, toHub, unproven>>
         \/ /\ waits /\ pkt.t = "steerOk" /\ pkt.st = "dispatching"
            /\ \/ RestoreQueued(p, m) /\ UNCHANGED unproven
               \/ /\ held' = [held EXCEPT ![p][m] = "native"]
                  /\ unproven' = unproven \cup {m}
                  /\ UNCHANGED toHub
            /\ UNCHANGED retrying
      /\ UNCHANGED <<seen, cursor, released>>

CliReceive(p) ==
  /\ Listening(p) /\ toCli[p] # <<>>
  /\ toCli' = [toCli EXCEPT ![p] = Tail(@)]
  /\ LET pkt == Head(toCli[p])
     IN  \/ /\ pkt.t = "new" /\ Accept(p, pkt.ms)
            /\ UNCHANGED <<toHub, retrying, unproven, released>>
         \/ \E m \in pkt.ms :
              \/ pkt.t = "cancel" /\ HandleCancel(p, pkt, m)
              \/ pkt.t = "retry" /\ HandleRetry(p, pkt, m)
              \/ pkt.t \in {"steerOk", "steerNo"} /\ HandleSteerAnswer(p, pkt, m)
  /\ UNCHANGED <<hubVars, conn, proc, attempt, backfill, bounds, taken, swept>>

\* collectBatch and onBatchConsumed: the launcher takes pending messages, the
\* queue forgets them and reports them consumed.
Collect(p, ms) ==
  /\ proc[p] = "up" /\ ms # {}
  /\ \A m \in ms : held[p][m] = "pending"
  /\ held' = [held EXCEPT ![p] =
                [m \in Messages |-> IF m \in ms THEN "none" ELSE @[m]]]
  /\ taken' = [taken EXCEPT ![p] =
                [m \in Messages |-> IF m \in ms THEN @[m] + 1 ELSE @[m]]]
  /\ Emit(p, Pkt("consumed", ms, 0, "nil"))
  /\ UNCHANGED <<hubVars, conn, toCli, proc, seen, cursor, retrying, attempt,
                 backfill, bounds, unproven, swept, released>>

\* The SteerQueuedMessage RPC: take the item (or the held reservation: an
\* explicit new attempt), begin its dispatch, ask the hub to record it.
Steer(p, m) ==
  /\ steers < MaxSteers /\ Listening(p)
  /\ held[p][m] \in {"pending", "indeterminate"}
  /\ held' = [held EXCEPT ![p][m] = "persisting"]
  /\ retrying' = [retrying EXCEPT ![p][m] = held[p][m] = "indeterminate"]
  /\ attempt' = [attempt EXCEPT ![p][m] = steers + 1]
  /\ unproven' = IF held[p][m] = "indeterminate" THEN unproven \ {m} ELSE unproven
  /\ Emit(p, Pkt("steerState", {m}, steers + 1, "dispatching"))
  /\ steers' = steers + 1
  /\ UNCHANGED <<hubVars, conn, toCli, proc, seen, cursor, backfill,
                 drops, resends, aborts, taken, swept, released>>

\* What a request that timed out leaves in the client's buffer: socket.io takes
\* back the one that is still waiting for a connection.
Withdraw(p, id) ==
  LET buffered == {i \in DOMAIN toHub[p] : toHub[p][i].t = "steerState" /\ toHub[p][i].id = id}
  IN  IF conn[p] \/ buffered = {} THEN toHub[p]
      ELSE RemoveAt(toHub[p], CHOOSE i \in buffered : TRUE)

\* Mutant of SteerTimeout: the hub is not told.
SteerTimeoutSilent(p, m) ==
  /\ proc[p] = "up" /\ held[p][m] \in {"persisting", "restoring"}
  /\ held' = [held EXCEPT ![p][m] = "indeterminate"]
  /\ retrying' = [retrying EXCEPT ![p][m] = TRUE]
  /\ UNCHANGED <<hubVars, netVars, proc, seen, cursor, attempt, backfill,
                 bounds, history>>

\* 5 s without an answer to setSteerDeliveryState.
SteerTimeout(p, m) ==
  /\ proc[p] = "up" /\ held[p][m] \in {"persisting", "restoring"}
  /\ held' = [held EXCEPT ![p][m] = "indeterminate"]
  /\ retrying' = [retrying EXCEPT ![p][m] = TRUE]
  /\ toHub' = [toHub EXCEPT ![p] =
                 Append(Withdraw(p, attempt[p][m]), Pkt("indeterminate", {m}, 0, "nil"))]
  /\ UNCHANGED <<hubVars, conn, toCli, proc, seen, cursor, attempt, backfill,
                 bounds, history>>

\* The agent accepted the prompt.
SteerCompleted(p, m) ==
  /\ proc[p] = "up" /\ held[p][m] = "native"
  /\ held' = [held EXCEPT ![p][m] = "committed"]
  /\ taken' = [taken EXCEPT ![p][m] = @ + 1]
  /\ unproven' = unproven \ {m}
  /\ Emit(p, Pkt("consumed", {m}, 0, "nil"))
  /\ UNCHANGED <<hubVars, conn, toCli, proc, seen, cursor, retrying, attempt,
                 backfill, bounds, swept, released>>

\* The agent rejected it explicitly.
SteerRejected(p, m) ==
  /\ proc[p] = "up" /\ held[p][m] = "native"
  /\ RestoreQueued(p, m)
  /\ unproven' = unproven \ {m}
  /\ UNCHANGED <<hubVars, conn, toCli, proc, seen, cursor, retrying, attempt,
                 backfill, bounds, taken, swept, released>>

\* The transport failed, nobody knows whether the agent has the prompt.
SteerUnknown(p, m) ==
  /\ proc[p] = "up" /\ held[p][m] = "native"
  /\ Hold(p, m)
  /\ UNCHANGED <<hubVars, conn, toCli, proc, seen, cursor, attempt, backfill,
                 bounds, history>>

\* handleAbort: the queue is reset, dispatched reservations are preserved.
Abort(p) ==
  /\ aborts < MaxAborts /\ proc[p] = "up"
  /\ \E m \in Messages : held[p][m] = "pending"
  /\ held' = [held EXCEPT ![p] =
                [m \in Messages |-> IF @[m] = "pending" THEN "none" ELSE @[m]]]
  /\ aborts' = aborts + 1
  /\ UNCHANGED <<hubVars, netVars, proc, seen, cursor, retrying, attempt,
                 backfill, drops, steers, resends, history>>

---------------------------------------------------------------------------
(* Connections and processes.                                              *)

\* The next process of the session starts when the one before is gone and
\* what it still had on the wire has arrived or is lost.
Start(p) ==
  /\ proc[p] = "new"
  /\ \A q \in Procs \ {p} : proc[q] # "up" /\ toHub[q] = <<>>
  /\ proc' = [proc EXCEPT ![p] = "up"]
  /\ UNCHANGED <<hubVars, netVars, seen, cursor, held, retrying, attempt,
                 backfill, bounds, history>>

\* 'connect': buffered events first, then session-alive; a reconnect owes a
\* backfill unless one is still running.
Connect(p) ==
  /\ proc[p] = "up" /\ ~conn[p]
  /\ conn' = [conn EXCEPT ![p] = TRUE]
  /\ Emit(p, Pkt("alive", {}, 0, "nil"))
  /\ backfill' = [backfill EXCEPT ![p].st =
                    CASE @ = "fresh" -> "idle" [] @ = "idle" -> "due" [] OTHER -> @]
  /\ UNCHANGED <<hubVars, toCli, proc, seen, cursor, held, retrying, attempt,
                 bounds, history>>

\* The keep-alive; one with a replay or another one in flight is left out.
KeepAlive(p) ==
  /\ Listening(p)
  /\ \A i \in DOMAIN toHub[p] : toHub[p][i].t # "alive"
  /\ \A i \in DOMAIN toCli[p] : toCli[p][i].t # "new"
  /\ Emit(p, Pkt("alive", {}, 0, "nil"))
  /\ UNCHANGED <<hubVars, conn, toCli, cliVars, bounds, history>>

\* GET /cli/sessions/:id/messages?afterSeq=..., answered over HTTP: skipped
\* without a cursor, and it may fail.
FetchBackfill(p) ==
  /\ proc[p] = "up" /\ backfill[p].st = "due"
  /\ \/ /\ cursor[p] > 0
        /\ backfill' = [backfill EXCEPT ![p] =
             [st |-> "got", ms |-> DeliverableAfter(row, timing, seq, cursor[p])]]
     \/ backfill' = [backfill EXCEPT ![p].st = "idle"]
  /\ UNCHANGED <<hubVars, netVars, proc, seen, cursor, held, retrying, attempt,
                 bounds, history>>

\* The response arrives and goes through the filter.
ApplyBackfill(p) ==
  /\ proc[p] = "up" /\ backfill[p].st = "got"
  /\ Accept(p, backfill[p].ms)
  /\ backfill' = [backfill EXCEPT ![p] = [st |-> "idle", ms |-> {}]]
  /\ UNCHANGED <<hubVars, netVars, proc, retrying, attempt, bounds, history>>

\* The connection drops and takes what is in flight with it.
Drop(p) ==
  /\ drops < MaxDrops /\ Listening(p)
  /\ conn' = [conn EXCEPT ![p] = FALSE]
  /\ toCli' = [toCli EXCEPT ![p] = <<>>]
  /\ toHub' = [toHub EXCEPT ![p] = <<>>]
  /\ drops' = drops + 1
  /\ UNCHANGED <<hubVars, cliVars, steers, resends, aborts, history>>

\* The process and its queue are gone.
Forget(p) ==
  /\ proc' = [proc EXCEPT ![p] = "gone"]
  /\ held' = [held EXCEPT ![p] = [m \in Messages |-> "none"]]
  /\ backfill' = [backfill EXCEPT ![p] = [st |-> "idle", ms |-> {}]]
  /\ toCli' = [toCli EXCEPT ![p] = <<>>]
  /\ UNCHANGED <<hubVars, conn, seen, cursor, retrying, attempt, bounds, history>>

\* A crash: the hub keeps the socket in the room until it notices.
Crash(p) ==
  /\ proc[p] = "up"
  /\ toHub' = IF conn[p] THEN toHub ELSE [toHub EXCEPT ![p] = <<>>]
  /\ Forget(p)

\* An orderly exit: session-end is the last event of the process.
End(p) ==
  /\ Listening(p)
  /\ Emit(p, Pkt("end", {}, 0, "nil"))
  /\ Forget(p)

\* The hub notices that the peer is gone.
HubDisconnect(p) ==
  /\ conn[p] /\ proc[p] = "gone"
  /\ conn' = [conn EXCEPT ![p] = FALSE]
  /\ toHub' = [toHub EXCEPT ![p] = <<>>]
  /\ UNCHANGED <<hubVars, toCli, cliVars, bounds, history>>

---------------------------------------------------------------------------
Init ==
  /\ row = [m \in Messages |-> "none"]
  /\ timing = [m \in Messages |-> "immediate"]
  /\ seq = [m \in Messages |-> 0]
  /\ ops = <<>>
  /\ conn = [p \in Procs |-> FALSE]
  /\ toCli = [p \in Procs |-> <<>>]
  /\ toHub = [p \in Procs |-> <<>>]
  /\ proc = [p \in Procs |-> "new"]
  /\ seen = [p \in Procs |-> {}]
  /\ cursor = [p \in Procs |-> 0]
  /\ held = [p \in Procs |-> [m \in Messages |-> "none"]]
  /\ retrying = [p \in Procs |-> [m \in Messages |-> FALSE]]
  /\ attempt = [p \in Procs |-> [m \in Messages |-> 0]]
  /\ backfill = [p \in Procs |-> [st |-> "fresh", ms |-> {}]]
  /\ drops = 0 /\ steers = 0 /\ resends = 0 /\ aborts = 0
  /\ taken = [p \in Procs |-> [m \in Messages |-> 0]]
  /\ unproven = {}
  /\ swept = {}
  /\ released = [p \in Procs |-> {}]

HubNext ==
  \/ \E m \in Messages, when \in {"immediate", "future"} : SendMessage(m, when)
  \/ \E m \in Messages : ResendMessage(m) \/ Mature(m) \/ Cancel(m) \/ Retry(m)
  \/ ReleaseMature
  \/ \E i \in DOMAIN ops : OpTimeout(i)
  \/ \E p \in Procs : HubReceive(p)

CliNext(p) ==
  \/ CliReceive(p) \/ Abort(p) \/ KeepAlive(p)
  \/ FetchBackfill(p) \/ ApplyBackfill(p)
  \/ \E ms \in SUBSET Messages : Collect(p, ms)
  \/ \E m \in Messages : \/ Steer(p, m) \/ SteerTimeout(p, m)
                         \/ SteerCompleted(p, m) \/ SteerRejected(p, m)
                         \/ SteerUnknown(p, m)

LinkNext(p) ==
  Start(p) \/ Connect(p) \/ Drop(p) \/ Crash(p) \/ End(p) \/ HubDisconnect(p)

Next == HubNext \/ \E p \in Procs : CliNext(p) \/ LinkNext(p)

Spec == Init /\ [][Next]_vars

\* A connected socket delivers and a disconnected client reconnects, turns end
\* and the launcher's loop takes what waits in its queue, the keep-alive, the
\* hub's tick and the timers fire.  Nothing is assumed of the user, of crashes,
\* of the backfill or of the outcome of a steer.
Fairness ==
  /\ \A i \in 1 .. MaxOps : WF_vars(i \in DOMAIN ops /\ OpTimeout(i))
  /\ WF_vars(ReleaseMature)
  /\ \A p \in Procs :
       /\ WF_vars(HubReceive(p)) /\ WF_vars(CliReceive(p))
       /\ WF_vars(Connect(p)) /\ WF_vars(KeepAlive(p))
       /\ \A m \in Messages :
            /\ WF_vars(\E ms \in SUBSET Messages : m \in ms /\ Collect(p, ms))
            /\ WF_vars(SteerTimeout(p, m))

LiveSpec == Spec /\ Fairness

---------------------------------------------------------------------------
HubTypeOK ==
  /\ row \in [Messages -> RowState]
  /\ timing \in [Messages -> Timing]
  /\ seq \in [Messages -> Nat]
  /\ ops \in Seq(Op)

NetTypeOK ==
  /\ conn \in [Procs -> BOOLEAN]
  /\ toCli \in [Procs -> Seq(DownPacket)]
  /\ toHub \in [Procs -> Seq(UpPacket)]

CliTypeOK ==
  /\ proc \in [Procs -> {"new", "up", "gone"}]
  /\ seen \in [Procs -> SUBSET Messages]
  /\ cursor \in [Procs -> Nat]
  /\ held \in [Procs -> [Messages -> Held]]
  /\ retrying \in [Procs -> [Messages -> BOOLEAN]]
  /\ attempt \in [Procs -> [Messages -> Nat]]
  /\ backfill \in [Procs -> [st : {"fresh", "idle", "due", "got"}, ms : SUBSET Messages]]

BoundsTypeOK == drops \in Nat /\ steers \in Nat /\ resends \in Nat /\ aborts \in Nat

HistoryTypeOK ==
  /\ taken \in [Procs -> [Messages -> Nat]]
  /\ unproven \in SUBSET Messages
  /\ swept \in SUBSET Messages
  /\ released \in [Procs -> SUBSET Nat]

\* Every variable of the hub, the network and the CLI processes has its type.
TypeOK == HubTypeOK /\ NetTypeOK /\ CliTypeOK /\ BoundsTypeOK /\ HistoryTypeOK

\* A stamped row was delivered by a launcher or swept at a session's end: no
\* timeout, lost answer or late event may claim a delivery that never was.
InvokedWasTaken ==
  \A m \in Messages :
    row[m] = "invoked" => m \in swept \/ \E p \in Procs : taken[p][m] > 0

\* A prompt whose steer reached an agent with unknown outcome is in no queue:
\* neither a replay nor a restarted process can deliver it a second time.  Only
\* a sender that repeats its POST can bring it back, and a backfill once the row
\* is stamped because another process delivered it, see InvokedNeverQueued.
UnprovenNotQueued ==
  resends = 0 =>
    \A m \in unproven, p \in Procs :
      held[p][m] = "pending" => \E q \in Procs : taken[q][m] > 0

\* The request with this number was answered 'removed' by one process, and
\* another one, that was not asked or did not answer, took the message.
TakenElsewhere(i) ==
  /\ \E p \in Procs : i \in released[p]
  /\ \E p \in Procs : i \notin released[p] /\ taken[p][ops[i].m] > 0

\* A confirmed cancel never covers a delivery by the process that confirmed it:
\* whatever the CLIs of the room answered, and however late, only the session-end
\* sweep, a retry the user asked for as well or another process of the session
\* can lead to the stamp on a row cancelQueuedMessage called cancelled.
CancelledNotDelivered ==
  \A i \in DOMAIN ops : ops[i].ans = "cancelled" =>
    \/ row[ops[i].m] = "deleted" \/ ops[i].m \in swept
    \/ \E j \in DOMAIN ops : ops[j].kind = "retry" /\ ops[j].m = ops[i].m
    \/ TakenElsewhere(i)

\* A process delivers a message twice only after an explicit retry of it.
TakenOncePerProcess ==
  \A p \in Procs, m \in Messages :
    taken[p][m] <= 1 + Cardinality({i \in DOMAIN ops : ops[i].kind = "retry" /\ ops[i].m = m})

\* No process queues a message the hub already records as invoked: a delivered
\* prompt is not offered to the agent again.
InvokedNeverQueued ==
  [][\A p \in Procs, m \in Messages :
       row[m] = "invoked" /\ held[p][m] # "pending" => held'[p][m] # "pending"]_vars

\* While a process runs, a prompt does not wait for ever: it is taken, held as
\* unknown for the user, or cancelled.
QueuedSettles ==
  \A m \in Messages :
    (row[m] = "queued" /\ timing[m] = "immediate")
      ~> (row[m] # "queued" \/ \A p \in Procs : proc[p] # "up")

\* Whatever connections drop, a prompt that is due reaches every process that
\* keeps running, unless it is settled first.
PromptReachesProcess ==
  \A m \in Messages, p \in Procs :
    (row[m] = "queued" /\ timing[m] # "future" /\ proc[p] = "up")
      ~> (row[m] # "queued" \/ m \in seen[p] \/ proc[p] # "up")

\* Every cancel and retry request is answered.
OpsAnswered ==
  \A i \in 1 .. MaxOps :
    (i \in DOMAIN ops) ~> (i \in DOMAIN ops /\ ops[i].stage = "done")
===========================================================================
