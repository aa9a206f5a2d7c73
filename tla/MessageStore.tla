--------------------------- MODULE MessageStore ---------------------------
(***************************************************************************)
(* The delivery columns of the hub's `messages` table                      *)
(* (hub/src/store/messages.ts): one row per user message with a localId.   *)
(* A row is abstracted to its delivery state -- the pair invoked_at and    *)
(* delivery_state -- and each statement of the store becomes an operator   *)
(* from the rows before it to the rows after it.  better-sqlite3 / bun's   *)
(* sqlite are synchronous: a statement is one step of the hub.             *)
(*                                                                         *)
(*   "none"           not inserted yet                                     *)
(*   "queued"         invoked_at IS NULL, delivery_state = 'queued'        *)
(*   "dispatching"    invoked_at IS NULL, delivery_state = 'dispatching'   *)
(*   "indeterminate"  invoked_at IS NULL, delivery_state = 'indeterminate' *)
(*   "invoked"        invoked_at set; the stamp resets delivery_state      *)
(*   "deleted"        removed by an explicit cancel                        *)
(***************************************************************************)
EXTENDS Integers, FiniteSets

CONSTANT Messages

ASSUME MessagesAssumption == IsFiniteSet(Messages)

Uninvoked == {"queued", "dispatching", "indeterminate"}
RowState == Uninvoked \cup {"none", "invoked", "deleted"}

\* scheduled_at IS NULL | scheduled_at > now | scheduled_at <= now
Timing == {"immediate", "future", "mature"}

Exists(row, m) == row[m] \in Uninvoked \cup {"invoked"}

\* markMessagesInvoked: first write wins, a stamped row is not stamped again.
MarkMessagesInvoked(row, ms) ==
  [m \in Messages |-> IF m \in ms /\ row[m] \in Uninvoked THEN "invoked" ELSE row[m]]

\* The rows setMessagesDeliveryState would change: every other uninvoked state.
StateChanges(row, ms, state) == {m \in ms : row[m] \in Uninvoked \ {state}}

SetMessagesDeliveryState(row, ms, state) ==
  [m \in Messages |-> IF m \in StateChanges(row, ms, state) THEN state ELSE row[m]]

\* deleteQueuedMessageById is guarded by invoked_at IS NULL alone.
DeleteQueuedMessageById(row, m) ==
  [row EXCEPT ![m] = IF @ \in Uninvoked THEN "deleted" ELSE @]

\* claimIndeterminateMessage: an explicit retry takes an indeterminate row.
ClaimIndeterminateMessage(row, m) ==
  [row EXCEPT ![m] = IF @ = "indeterminate" THEN "dispatching" ELSE @]

\* MAX(seq) + 1 over the rows still in the table: deleting the newest row
\* hands its number to the next message.
IsNextSeq(row, seq, n) ==
  LET used == {0} \cup {seq[m] : m \in {x \in Messages : Exists(row, x)}}
  IN  n - 1 \in used /\ \A k \in used : k < n

\* Mutant of ImmediateQueued: the delivery_state filter is missing.
ImmediateUninvoked(row, timing) ==
  {m \in Messages : row[m] \in Uninvoked /\ timing[m] = "immediate"}

\* getImmediateQueuedLocalMessages: replayed on attach, swept at session end.
ImmediateQueued(row, timing) ==
  {m \in Messages : row[m] = "queued" /\ timing[m] = "immediate"}

\* getMatureScheduledMessages: re-emitted by the hub tick until acknowledged.
MatureScheduled(row, timing) ==
  {m \in Messages : row[m] = "queued" /\ timing[m] = "mature"}

\* getDeliverableMessagesAfter: the reconnect backfill.  It filters on
\* delivery_state and the schedule, not on invoked_at, so a stamped row
\* above the cursor is returned too.
DeliverableAfter(row, timing, seq, cursor) ==
  {m \in Messages : /\ row[m] \in {"queued", "invoked"}
                    /\ timing[m] # "future"
                    /\ seq[m] > cursor}
===========================================================================
