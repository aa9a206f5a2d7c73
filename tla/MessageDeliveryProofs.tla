---------------------- MODULE MessageDeliveryProofs ------------------------
(***************************************************************************)
(* Proofs about MessageDelivery, for any set of messages and processes and *)
(* any bounds: type correctness, and that a row the hub records as invoked *)
(* was delivered or swept (InvokedWasTaken).  One lemma per action, named  *)
(* after it; the lemmas before them say what the shared operators keep.    *)
(***************************************************************************)
EXTENDS MessageDelivery, FiniteSetTheorems, TLAPS

---------------------------------------------------------------------------
(* Type correctness.                                                       *)

\* Packets a CLI builds are packets of the upward link.
LEMMA UpPktType ==
  ASSUME NEW ms \in SUBSET Messages, NEW id \in Nat
  PROVE  /\ \A t \in {"alive", "consumed", "indeterminate", "end"} : Pkt(t, ms, id, "nil") \in UpPacket
         /\ \A st \in SteerState : Pkt("steerState", ms, id, st) \in UpPacket
         /\ \A t \in {"cancelAck", "retryAck"}, st \in Answer : Pkt(t, ms, id, st) \in UpPacket
BY DEF UpPacket, Packet, Pkt

\* Packets the hub builds are packets of the downward link.
LEMMA DownPktType ==
  ASSUME NEW ms \in SUBSET Messages, NEW id \in Nat
  PROVE  /\ \A t \in {"new", "cancel", "retry"} : Pkt(t, ms, id, "nil") \in DownPacket
         /\ \A t \in {"steerOk", "steerNo"}, st \in SteerState : Pkt(t, ms, id, st) \in DownPacket
BY DEF DownPacket, Packet, Pkt

\* A group of variables a step leaves alone keeps its type.
LEMMA TypeUnchanged ==
  ASSUME TypeOK
  PROVE  /\ UNCHANGED hubVars => HubTypeOK'
         /\ UNCHANGED netVars => NetTypeOK'
         /\ UNCHANGED cliVars => CliTypeOK'
         /\ UNCHANGED bounds => BoundsTypeOK'
         /\ UNCHANGED history => HistoryTypeOK'
<1>1. UNCHANGED hubVars => HubTypeOK'
  BY DEF TypeOK, hubVars, HubTypeOK
<1>2. UNCHANGED netVars => NetTypeOK'
  BY DEF TypeOK, netVars, NetTypeOK
<1>3. UNCHANGED cliVars => CliTypeOK'
  BY DEF TypeOK, cliVars, CliTypeOK
<1>4. UNCHANGED bounds => BoundsTypeOK'
  BY DEF TypeOK, bounds, BoundsTypeOK
<1>5. UNCHANGED history => HistoryTypeOK'
  BY DEF TypeOK, history, HistoryTypeOK
<1> QED
  BY <1>1, <1>2, <1>3, <1>4, <1>5

\* Emitting a packet keeps the upward links well typed.
LEMMA EmitType ==
  ASSUME NetTypeOK, NEW p \in Procs, NEW k \in UpPacket, Emit(p, k)
  PROVE  toHub' \in [Procs -> Seq(UpPacket)]
BY DEF NetTypeOK, Emit

\* Broadcasting packets to the room keeps the downward links well typed.
LEMMA BroadcastType ==
  ASSUME NetTypeOK, NEW ks \in Seq(DownPacket)
  PROVE  Broadcast(ks) \in [Procs -> Seq(DownPacket)]
BY DEF NetTypeOK, Broadcast

\* The same for a single packet.
LEMMA BroadcastOneType ==
  ASSUME NetTypeOK, NEW k \in DownPacket
  PROVE  Broadcast(<<k>>) \in [Procs -> Seq(DownPacket)]
<1>1. <<k>> \in Seq(DownPacket)
  OBVIOUS
<1> QED
  BY <1>1, BroadcastType

\* The same for a replay, which is empty when nothing is due.
LEMMA NewMessagesType ==
  ASSUME NEW ms \in SUBSET Messages
  PROVE  NewMessages(ms) \in Seq(DownPacket)
<1>1. Pkt("new", ms, 0, "nil") \in DownPacket
  BY DownPktType
<1>2. <<Pkt("new", ms, 0, "nil")>> \in Seq(DownPacket)
  BY <1>1
<1>3. <<>> \in Seq(DownPacket)
  OBVIOUS
<1> QED
  BY <1>2, <1>3, Zenon DEF NewMessages

\* Taking a timed-out request back from the buffer keeps it a packet sequence.
LEMMA WithdrawType ==
  ASSUME NetTypeOK, NEW p \in Procs, NEW id
  PROVE  Withdraw(p, id) \in Seq(UpPacket)
BY DEF NetTypeOK, Withdraw, RemoveAt

\* The store's statements map rows to rows.
LEMMA StoreType ==
  ASSUME NEW r \in [Messages -> RowState], NEW ms \in SUBSET Messages, NEW m \in Messages,
         NEW state \in Uninvoked
  PROVE  /\ MarkMessagesInvoked(r, ms) \in [Messages -> RowState]
         /\ SetMessagesDeliveryState(r, ms, state) \in [Messages -> RowState]
         /\ DeleteQueuedMessageById(r, m) \in [Messages -> RowState]
         /\ ClaimIndeterminateMessage(r, m) \in [Messages -> RowState]
BY DEF MarkMessagesInvoked, SetMessagesDeliveryState, StateChanges,
       DeleteQueuedMessageById, ClaimIndeterminateMessage, RowState, Uninvoked

\* SendMessage keeps the state well typed.
LEMMA TypeSendMessage ==
  ASSUME TypeOK, NEW m \in Messages, NEW when \in {"immediate", "future"},
         SendMessage(m, when)
  PROVE  TypeOK'
<1>1. Cardinality(Messages) \in Nat
  BY MessagesAssumption, FS_CardinalityType
<1>2. PICK n \in 1 .. Cardinality(Messages) + 1 :
               IsNextSeq(row, seq, n) /\ seq' = [seq EXCEPT ![m] = n]
  BY Zenon DEF SendMessage
<1>3. seq' \in [Messages -> Nat]
  BY <1>1, <1>2 DEF TypeOK, HubTypeOK
<1>4. toCli' \in [Procs -> Seq(DownPacket)]
  BY NewMessagesType, BroadcastType DEF TypeOK, NetTypeOK, SendMessage
<1>5. HubTypeOK'
  BY <1>3 DEF TypeOK, HubTypeOK, SendMessage, RowState, Uninvoked, Timing
<1>6. NetTypeOK'
  BY <1>4 DEF TypeOK, NetTypeOK, SendMessage
<1> QED
  BY <1>5, <1>6, TypeUnchanged DEF TypeOK, SendMessage

\* ResendMessage keeps the state well typed.
LEMMA TypeResendMessage ==
  ASSUME TypeOK, NEW m \in Messages, ResendMessage(m)
  PROVE  TypeOK'
<1>1. toCli' \in [Procs -> Seq(DownPacket)]
  BY NewMessagesType, BroadcastType DEF TypeOK, ResendMessage
<1>2. NetTypeOK'
  BY <1>1 DEF TypeOK, NetTypeOK, ResendMessage
<1>3. BoundsTypeOK'
  BY DEF TypeOK, BoundsTypeOK, ResendMessage
<1> QED
  BY <1>2, <1>3, TypeUnchanged DEF TypeOK, ResendMessage

\* Mature keeps the state well typed.
LEMMA TypeMature ==
  ASSUME TypeOK, NEW m \in Messages, Mature(m)
  PROVE  TypeOK'
<1>1. HubTypeOK'
  BY DEF TypeOK, HubTypeOK, Mature, Timing
<1> QED
  BY <1>1, TypeUnchanged DEF TypeOK, Mature

\* ReleaseMature keeps the state well typed.
LEMMA TypeReleaseMature ==
  ASSUME TypeOK, ReleaseMature
  PROVE  TypeOK'
<1>1. MatureScheduled(row, timing) \in SUBSET Messages
  BY DEF MatureScheduled
<1>2. toCli' \in [Procs -> Seq(DownPacket)]
  BY <1>1, NewMessagesType, BroadcastType DEF TypeOK, ReleaseMature
<1>3. NetTypeOK'
  BY <1>2 DEF TypeOK, NetTypeOK, ReleaseMature
<1> QED
  BY <1>3, TypeUnchanged DEF TypeOK, ReleaseMature

\* A cancel leaves the rows well typed.
LEMMA CancelRowType ==
  ASSUME HubTypeOK, NEW op \in Op, NEW res
  PROVE  CancelRow(op, res) \in [Messages -> RowState]
<1>1. op.m \in Messages /\ {op.m} \in SUBSET Messages
  BY DEF Op
<1>2. "indeterminate" \in Uninvoked
  BY DEF Uninvoked
<1> QED
  BY <1>1, <1>2, StoreType DEF CancelRow, HoldUnknown, HubTypeOK

\* Replacing one request by another keeps their sequence well typed.
LEMMA OpsUpdateType ==
  ASSUME HubTypeOK, NEW i \in DOMAIN ops, NEW op \in Op
  PROVE  [ops EXCEPT ![i] = op] \in Seq(Op)
BY DEF HubTypeOK

\* A finished request is a request.
LEMMA FinishType ==
  ASSUME NEW op \in Op,
         NEW ans \in {"none", "cancelled", "busy", "invoked", "retried", "unavailable"}
  PROVE  Finish(op, ans) \in Op
BY DEF Finish, Op, OpStage

\* A cancel answers the web client with one of the known answers.
LEMMA CancelAnswerType ==
  ASSUME NEW op, NEW res
  PROVE  CancelAnswer(op, res) \in {"cancelled", "busy", "invoked"}
BY DEF CancelAnswer, Settled

\* A request that gets its answer, by the last acknowledgement or by the
\* timeout, leaves rows, requests and packets well typed.
LEMMA ResolveType ==
  ASSUME TypeOK, NEW i \in DOMAIN ops, NEW got \in SUBSET Answer,
         NEW complete \in BOOLEAN, Resolve(i, got, complete)
  PROVE  /\ row' \in [Messages -> RowState]
         /\ ops' \in Seq(Op)
         /\ toCli' \in [Procs -> Seq(DownPacket)]
<1>1. /\ ops \in Seq(Op) /\ ops[i] \in Op /\ i \in Nat
      /\ ops[i].m \in Messages /\ {ops[i].m} \in SUBSET Messages
  <2>1. ops \in Seq(Op) /\ ops[i] \in Op /\ i \in Nat
    BY DEF TypeOK, HubTypeOK
  <2> QED
    BY <2>1 DEF Op
<1>2. /\ row \in [Messages -> RowState]
      /\ toCli \in [Procs -> Seq(DownPacket)]
  BY DEF TypeOK, HubTypeOK, NetTypeOK
<1>3. {"queued", "indeterminate"} \subseteq Uninvoked
  BY DEF Uninvoked
<1>4. CASE ops[i].stage = "ask"
  <2> DEFINE res == CancelResult(got, complete)
  <2>1. ResolveAsk(i, got, complete)
    BY <1>4 DEF Resolve
  <2>2. CASE /\ row' = CancelRow(ops[i], res)
             /\ ops' = [ops EXCEPT ![i] = Finish(ops[i], CancelAnswer(ops[i], res))]
             /\ UNCHANGED toCli
    <3>1. Finish(ops[i], CancelAnswer(ops[i], res)) \in Op
      BY <1>1, FinishType, CancelAnswerType
    <3>2. row' \in [Messages -> RowState]
      BY <1>1, <2>2, CancelRowType DEF TypeOK
    <3>3. ops' \in Seq(Op)
      BY <2>2, <3>1, OpsUpdateType DEF TypeOK
    <3> QED
      BY <1>2, <2>2, <3>2, <3>3
  <2>3. CASE /\ row' = ClaimIndeterminateMessage(HoldUnknown(ops[i].m), ops[i].m)
             /\ toCli' = Broadcast(<<Pkt("retry", {ops[i].m}, i, "nil")>>)
             /\ ops' = [ops EXCEPT ![i] = [ops[i] EXCEPT !.stage = "offer",
                                             !.need = Room, !.got = {}]]
    <3>1. row' \in [Messages -> RowState]
      BY <1>1, <1>2, <1>3, <2>3, StoreType DEF HoldUnknown
    <3>2. Pkt("retry", {ops[i].m}, i, "nil") \in DownPacket
      BY <1>1, DownPktType
    <3>3. toCli' \in [Procs -> Seq(DownPacket)]
      BY <2>3, <3>2, BroadcastOneType DEF TypeOK
    <3>4. [ops[i] EXCEPT !.stage = "offer", !.need = Room, !.got = {}] \in Op
      BY <1>1 DEF Op, OpStage, Room
    <3>5. ops' \in Seq(Op)
      BY <2>3, <3>4, OpsUpdateType DEF TypeOK
    <3> QED
      BY <3>1, <3>3, <3>5
  <2>4. CASE /\ row' = IF res = "consumed" THEN MarkMessagesInvoked(row, {ops[i].m})
                                            ELSE row
             /\ ops' = [ops EXCEPT ![i] = Finish(ops[i], "unavailable")]
             /\ UNCHANGED toCli
    <3>1. Finish(ops[i], "unavailable") \in Op
      BY <1>1, FinishType
    <3>2. row' \in [Messages -> RowState]
      BY <1>1, <1>2, <2>4, <1>3, StoreType
    <3>3. ops' \in Seq(Op)
      BY <2>4, <3>1, OpsUpdateType DEF TypeOK
    <3> QED
      BY <1>2, <2>4, <3>2, <3>3
  <2> QED
    BY <2>1, <2>2, <2>3, <2>4 DEF ResolveAsk
<1>5. CASE ops[i].stage # "ask"
  <2> DEFINE m == ops[i].m
             state == IF "accepted" \in got THEN "queued" ELSE "indeterminate"
             ans == IF state = "queued" /\ StateChanges(row, {m}, state) # {}
                    THEN "retried" ELSE "unavailable"
  <2>1. /\ row' = SetMessagesDeliveryState(row, {m}, state)
        /\ ops' = [ops EXCEPT ![i] = Finish(ops[i], ans)]
        /\ UNCHANGED toCli
    BY <1>5, Zenon DEF Resolve, ResolveOffer
  <2>2. Finish(ops[i], ans) \in Op
    BY <1>1, FinishType
  <2>3. row' \in [Messages -> RowState]
    BY <1>1, <1>2, <1>3, <2>1, StoreType
  <2>4. ops' \in Seq(Op)
    BY <2>1, <2>2, OpsUpdateType DEF TypeOK
  <2> QED
    BY <1>2, <2>1, <2>3, <2>4
<1> QED
  BY <1>4, <1>5

\* Cancel keeps the state well typed.
LEMMA TypeCancel ==
  ASSUME TypeOK, NEW m \in Messages, Cancel(m)
  PROVE  TypeOK'
<1> DEFINE op == [kind |-> "cancel", m |-> m, stage |-> "ask", at |-> row[m],
                  need |-> Room, got |-> {}, ans |-> "none"]
<1>1. op \in Op /\ {m} \in SUBSET Messages /\ Len(ops) + 1 \in Nat
  BY DEF TypeOK, HubTypeOK, Op, OpStage, Room
<1>2. /\ Finish(op, "cancelled") \in Op /\ Finish(op, "busy") \in Op
  BY <1>1, FinishType
<1>3. Pkt("cancel", {m}, Len(ops) + 1, "nil") \in DownPacket
  BY <1>1, DownPktType
<1>4. row' \in [Messages -> RowState]
  <2>1. \/ row' = DeleteQueuedMessageById(row, m)
        \/ row' = HoldUnknown(m)
        \/ row' = row
    BY DEF Cancel
  <2>2. row \in [Messages -> RowState] /\ "indeterminate" \in Uninvoked
    BY DEF TypeOK, HubTypeOK, Uninvoked
  <2>3. DeleteQueuedMessageById(row, m) \in [Messages -> RowState]
    BY <2>2, StoreType
  <2>4. HoldUnknown(m) \in [Messages -> RowState]
    BY <1>1, <2>2, StoreType DEF HoldUnknown
  <2> QED
    BY <2>1, <2>2, <2>3, <2>4
<1>5. ops' \in Seq(Op)
  <2>1. \/ ops' = Append(ops, Finish(op, "cancelled"))
        \/ ops' = Append(ops, Finish(op, "busy"))
        \/ ops' = Append(ops, op)
    BY Zenon DEF Cancel
  <2>2. ops \in Seq(Op)
    BY DEF TypeOK, HubTypeOK
  <2> HIDE DEF op
  <2> QED
    BY <1>1, <1>2, <2>1, <2>2
<1>6. toCli' \in [Procs -> Seq(DownPacket)]
  <2>1. \/ toCli' = toCli
        \/ toCli' = Broadcast(<<Pkt("cancel", {m}, Len(ops) + 1, "nil")>>)
    BY DEF Cancel
  <2>2. Broadcast(<<Pkt("cancel", {m}, Len(ops) + 1, "nil")>>) \in [Procs -> Seq(DownPacket)]
    BY <1>3, BroadcastOneType DEF TypeOK
  <2> QED
    BY <2>1, <2>2 DEF TypeOK, NetTypeOK
<1>7. UNCHANGED <<timing, seq, conn, toHub>>
  BY DEF Cancel
<1>8. HubTypeOK'
  BY <1>4, <1>5, <1>7 DEF TypeOK, HubTypeOK
<1>9. NetTypeOK'
  BY <1>6, <1>7 DEF TypeOK, NetTypeOK
<1> QED
  BY <1>8, <1>9, TypeUnchanged DEF TypeOK, Cancel

\* Retry keeps the state well typed.
LEMMA TypeRetry ==
  ASSUME TypeOK, NEW m \in Messages, Retry(m)
  PROVE  TypeOK'
<1> DEFINE op == [kind |-> "retry", m |-> m, stage |-> "ask", at |-> row[m],
                  need |-> Room, got |-> {}, ans |-> "none"]
<1>1. op \in Op /\ {m} \in SUBSET Messages /\ Len(ops) + 1 \in Nat
  BY DEF TypeOK, HubTypeOK, Op, OpStage, Room
<1>2. Pkt("cancel", {m}, Len(ops) + 1, "nil") \in DownPacket
  BY <1>1, DownPktType
<1>3. HubTypeOK'
  BY <1>1 DEF TypeOK, HubTypeOK, Retry
<1>4. toCli' \in [Procs -> Seq(DownPacket)]
  BY <1>2, BroadcastOneType DEF TypeOK, Retry
<1>5. NetTypeOK'
  BY <1>4 DEF TypeOK, NetTypeOK, Retry
<1> QED
  BY <1>3, <1>5, TypeUnchanged DEF TypeOK, Retry

\* OpTimeout keeps the state well typed.
LEMMA TypeOpTimeout ==
  ASSUME TypeOK, NEW i \in DOMAIN ops, OpTimeout(i)
  PROVE  TypeOK'
<1>1. ops[i].got \in SUBSET Answer
  <2>1. ops[i] \in Op
    BY DEF TypeOK, HubTypeOK
  <2> QED
    BY <2>1 DEF Op
<1>2. /\ row' \in [Messages -> RowState]
      /\ ops' \in Seq(Op)
      /\ toCli' \in [Procs -> Seq(DownPacket)]
  BY <1>1, ResolveType DEF OpTimeout
<1>3. HubTypeOK'
  BY <1>2 DEF TypeOK, HubTypeOK, OpTimeout
<1>4. NetTypeOK'
  BY <1>2 DEF TypeOK, NetTypeOK, OpTimeout
<1> QED
  BY <1>3, <1>4, TypeUnchanged DEF TypeOK, OpTimeout

\* What a received packet may change at the hub.
HubHandled ==
  /\ row' \in [Messages -> RowState]
  /\ ops' \in Seq(Op)
  /\ toCli' \in [Procs -> Seq(DownPacket)]

\* An acknowledgement of a CLI keeps the hub's variables well typed.
LEMMA HandleAckType ==
  ASSUME TypeOK, NEW p \in Procs, NEW pkt \in UpPacket, pkt.st \in Answer,
         HandleAck(p, pkt)
  PROVE  HubHandled
<1> DEFINE i == pkt.id
           op == [ops[i] EXCEPT !.need = @ \ {p}, !.got = @ \cup {pkt.st}]
<1>1. CASE UNCHANGED <<row, ops, toCli>>
  BY <1>1 DEF TypeOK, HubTypeOK, NetTypeOK, HubHandled
<1>2. ASSUME i \in DOMAIN ops
      PROVE  op \in Op /\ op.got \in SUBSET Answer
  <2>1. ops[i] \in Op
    BY <1>2 DEF TypeOK, HubTypeOK
  <2> QED
    BY <2>1 DEF Op
<1>3. CASE i \in DOMAIN ops /\ Resolve(i, op.got, TRUE)
  BY <1>2, <1>3, ResolveType DEF HubHandled
<1>4. CASE i \in DOMAIN ops /\ ops' = [ops EXCEPT ![i] = op] /\ UNCHANGED <<row, toCli>>
  <2>1. ops' \in Seq(Op)
    BY <1>2, <1>4, OpsUpdateType DEF TypeOK
  <2> QED
    BY <1>4, <2>1 DEF TypeOK, HubTypeOK, NetTypeOK, HubHandled
<1> QED
  BY <1>1, <1>3, <1>4 DEF HandleAck

\* So does a recorded steer state and its reply.
LEMMA HandleSteerStateType ==
  ASSUME TypeOK, NEW p \in Procs, NEW pkt \in UpPacket, pkt.st \in SteerState,
         HandleSteerState(p, pkt)
  PROVE  HubHandled
<1> DEFINE ok == StateChanges(row, pkt.ms, pkt.st) # {}
           reply == Pkt(IF ok THEN "steerOk" ELSE "steerNo", pkt.ms, pkt.id, pkt.st)
<1>1. pkt.ms \in SUBSET Messages /\ pkt.id \in Nat /\ pkt.st \in Uninvoked
  BY DEF UpPacket, Packet, SteerState, Uninvoked
<1>2. reply \in DownPacket
  BY <1>1, DownPktType
<1>3. toCli' \in [Procs -> Seq(DownPacket)]
  BY <1>2 DEF TypeOK, NetTypeOK, HandleSteerState
<1>4. row' \in [Messages -> RowState]
  BY <1>1 DEF TypeOK, HubTypeOK, HandleSteerState, SetMessagesDeliveryState, StateChanges,
              RowState
<1> QED
  BY <1>3, <1>4 DEF TypeOK, HubTypeOK, HandleSteerState, HubHandled

\* HubReceive keeps the state well typed.
LEMMA TypeHubReceive ==
  ASSUME TypeOK, NEW p \in Procs, HubReceive(p)
  PROVE  TypeOK'
<1> DEFINE pkt == Head(toHub[p])
           queued == ImmediateQueued(row, timing)
<1>1. toHub[p] \in Seq(UpPacket) /\ toHub[p] # <<>>
  BY DEF TypeOK, NetTypeOK, HubReceive
<1>2. pkt \in UpPacket /\ Tail(toHub[p]) \in Seq(UpPacket)
  BY <1>1
<1>3. queued \in SUBSET Messages
  BY DEF ImmediateQueued
<1>4. pkt.ms \in SUBSET Messages
  BY <1>2 DEF UpPacket, Packet
<1>5. row \in [Messages -> RowState] /\ ops \in Seq(Op) /\ toCli \in [Procs -> Seq(DownPacket)]
  BY DEF TypeOK, HubTypeOK, NetTypeOK
<1>6. HubHandled
  <2>1. CASE toCli' = Broadcast(NewMessages(queued)) /\ UNCHANGED <<row, ops>>
    BY <1>3, <1>5, <2>1, NewMessagesType, BroadcastType DEF TypeOK, HubHandled
  <2>2. CASE row' = MarkMessagesInvoked(row, pkt.ms) /\ UNCHANGED <<ops, toCli>>
    <3>1. MarkMessagesInvoked(row, pkt.ms) \in [Messages -> RowState]
      BY <1>4, <1>5 DEF MarkMessagesInvoked, RowState
    <3> QED
      BY <1>5, <2>2, <3>1 DEF HubHandled
  <2>3. CASE /\ row' = SetMessagesDeliveryState(row, pkt.ms, "indeterminate")
             /\ UNCHANGED <<ops, toCli>>
    <3>1. SetMessagesDeliveryState(row, pkt.ms, "indeterminate") \in [Messages -> RowState]
      BY <1>4, <1>5 DEF SetMessagesDeliveryState, RowState, Uninvoked
    <3> QED
      BY <1>5, <2>3, <3>1 DEF HubHandled
  <2>4. CASE pkt.t = "steerState" /\ HandleSteerState(p, pkt)
    <3>1. pkt.st \in SteerState
      BY <1>2, <2>4 DEF UpPacket, Packet
    <3> QED
      BY <1>2, <2>4, <3>1, HandleSteerStateType
  <2>5. CASE pkt.t \in {"cancelAck", "retryAck"} /\ HandleAck(p, pkt)
    <3>1. pkt.st \in Answer
      BY <1>2, <2>5 DEF UpPacket, Packet
    <3> QED
      BY <1>2, <2>5, <3>1, HandleAckType
  <2>6. CASE row' = MarkMessagesInvoked(row, queued) /\ UNCHANGED <<ops, toCli>>
    <3>1. MarkMessagesInvoked(row, queued) \in [Messages -> RowState]
      BY <1>3, <1>5 DEF MarkMessagesInvoked, RowState
    <3> QED
      BY <1>5, <2>6, <3>1 DEF HubHandled
  <2> QED
    BY <2>1, <2>2, <2>3, <2>4, <2>5, <2>6 DEF HubReceive
<1>7. HubTypeOK'
  BY <1>6 DEF TypeOK, HubTypeOK, HubHandled, HubReceive
<1>8. NetTypeOK'
  <2>1. toHub' \in [Procs -> Seq(UpPacket)]
    BY <1>2 DEF TypeOK, NetTypeOK, HubReceive
  <2> QED
    BY <1>6, <2>1 DEF TypeOK, NetTypeOK, HubHandled, HubReceive
<1>9. HistoryTypeOK'
  BY <1>3 DEF TypeOK, HistoryTypeOK, HubReceive
<1> QED
  BY <1>7, <1>8, <1>9, TypeUnchanged DEF TypeOK, HubReceive

\* The incoming filter and the pushes keep the CLI well typed.
LEMMA AcceptType ==
  ASSUME TypeOK, NEW p \in Procs, NEW ms \in SUBSET Messages, Accept(p, ms)
  PROVE  /\ seen' \in [Procs -> SUBSET Messages]
         /\ cursor' \in [Procs -> Nat]
         /\ held' \in [Procs -> [Messages -> Held]]
<1> DEFINE seqs == {seq[m] : m \in ms \ seen[p]} \cup {cursor[p]}
<1>1. PICK k \in seqs : cursor' = [cursor EXCEPT ![p] = k]
  BY DEF Accept
<1>2. k \in Nat
  BY DEF TypeOK, HubTypeOK, CliTypeOK
<1>3. cursor' \in [Procs -> Nat]
  BY <1>1, <1>2 DEF TypeOK, CliTypeOK
<1>4. seen' \in [Procs -> SUBSET Messages]
  BY DEF TypeOK, CliTypeOK, Accept
<1>5. held' \in [Procs -> [Messages -> Held]]
  BY DEF TypeOK, CliTypeOK, Accept, Held
<1> QED
  BY <1>3, <1>4, <1>5

\* What a received packet may change at a CLI process.
CliHandled ==
  /\ seen' \in [Procs -> SUBSET Messages]
  /\ cursor' \in [Procs -> Nat]
  /\ held' \in [Procs -> [Messages -> Held]]
  /\ retrying' \in [Procs -> [Messages -> BOOLEAN]]
  /\ toHub' \in [Procs -> Seq(UpPacket)]
  /\ unproven' \in SUBSET Messages

\* A cancel received by a CLI keeps its variables well typed.
LEMMA HandleCancelType ==
  ASSUME TypeOK, NEW p \in Procs, NEW pkt \in DownPacket, NEW m \in Messages,
         HandleCancel(p, pkt, m)
  PROVE  CliHandled
<1> DEFINE res == CancelByLocalId(held[p][m])
<1>1. {m} \in SUBSET Messages /\ pkt.id \in Nat /\ res \in Answer
  BY DEF DownPacket, Packet, CancelByLocalId, Answer
<1>2. Pkt("cancelAck", {m}, pkt.id, res) \in UpPacket
  BY <1>1, UpPktType
<1>3. toHub' \in [Procs -> Seq(UpPacket)]
  BY <1>2, EmitType DEF TypeOK, HandleCancel
<1>4. held' \in [Procs -> [Messages -> Held]]
  BY DEF TypeOK, CliTypeOK, HandleCancel, Held
<1> QED
  BY <1>3, <1>4 DEF TypeOK, CliTypeOK, HistoryTypeOK, HandleCancel, CliHandled

\* So does a retry ...
LEMMA HandleRetryType ==
  ASSUME TypeOK, NEW p \in Procs, NEW pkt \in DownPacket, NEW m \in Messages,
         HandleRetry(p, pkt, m)
  PROVE  CliHandled
<1> DEFINE accepted == CancelByLocalId(held[p][m]) \in {"removed", "not-found"}
           answer == IF accepted THEN "accepted" ELSE "refused"
<1>1. {m} \in SUBSET Messages /\ pkt.id \in Nat /\ answer \in Answer
  BY DEF DownPacket, Packet, Answer
<1>2. Pkt("retryAck", {m}, pkt.id, answer) \in UpPacket
  BY <1>1, UpPktType
<1>3. toHub' \in [Procs -> Seq(UpPacket)]
  BY <1>2, EmitType DEF TypeOK, HandleRetry
<1>4. /\ seen \in [Procs -> SUBSET Messages] /\ cursor \in [Procs -> Nat]
      /\ held \in [Procs -> [Messages -> Held]]
      /\ retrying' \in [Procs -> [Messages -> BOOLEAN]]
      /\ unproven \in SUBSET Messages /\ seq[m] \in Nat
  BY DEF TypeOK, HubTypeOK, CliTypeOK, HistoryTypeOK, HandleRetry
<1>5. CASE ~accepted
  BY <1>3, <1>4, <1>5 DEF HandleRetry, CliHandled
<1>6. CASE accepted
  <2>1. /\ seen' = [seen EXCEPT ![p] = @ \cup {m}]
        /\ cursor' = [cursor EXCEPT ![p] = seq[m]] \/ cursor' = cursor
        /\ held' = [held EXCEPT ![p][m] = "pending"]
        /\ unproven' = unproven \ {m}
    BY <1>6 DEF HandleRetry
  <2>2. cursor' \in [Procs -> Nat]
    BY <1>4, <2>1
  <2>3. held' \in [Procs -> [Messages -> Held]]
    BY <1>4, <2>1 DEF Held
  <2> QED
    BY <1>3, <1>4, <2>1, <2>2, <2>3 DEF CliHandled
<1> QED
  BY <1>5, <1>6

\* ... holding a reservation as indeterminate ...
LEMMA HoldType ==
  ASSUME TypeOK, NEW p \in Procs, NEW m \in Messages, Hold(p, m)
  PROVE  /\ held' \in [Procs -> [Messages -> Held]]
         /\ retrying' \in [Procs -> [Messages -> BOOLEAN]]
         /\ toHub' \in [Procs -> Seq(UpPacket)]
<1>1. Pkt("indeterminate", {m}, 0, "nil") \in UpPacket
  BY UpPktType
<1>2. toHub' \in [Procs -> Seq(UpPacket)]
  BY <1>1, EmitType DEF TypeOK, Hold
<1> QED
  BY <1>2 DEF TypeOK, CliTypeOK, Hold, Held

\* ... putting one back ...
LEMMA RestoreQueuedType ==
  ASSUME TypeOK, NEW p \in Procs, NEW m \in Messages, RestoreQueued(p, m)
  PROVE  /\ held' \in [Procs -> [Messages -> Held]]
         /\ toHub' \in [Procs -> Seq(UpPacket)]
<1>1. attempt[p][m] \in Nat /\ "queued" \in SteerState
  BY DEF TypeOK, CliTypeOK, SteerState
<1>2. Pkt("steerState", {m}, attempt[p][m], "queued") \in UpPacket
  BY <1>1, UpPktType
<1>3. held \in [Procs -> [Messages -> Held]] /\ toHub \in [Procs -> Seq(UpPacket)]
  BY DEF TypeOK, CliTypeOK, NetTypeOK
<1>4. CASE /\ held' = [held EXCEPT ![p][m] = "indeterminate"]
           /\ UNCHANGED toHub
  BY <1>3, <1>4 DEF Held
<1>5. CASE /\ held' = [held EXCEPT ![p][m] = "restoring"]
           /\ Emit(p, Pkt("steerState", {m}, attempt[p][m], "queued"))
  <2>1. toHub' \in [Procs -> Seq(UpPacket)]
    BY <1>2, <1>5, EmitType DEF TypeOK
  <2> QED
    BY <1>3, <1>5, <2>1 DEF Held, Dispatching
<1> QED
  BY <1>4, <1>5 DEF RestoreQueued

\* ... and the hub's answer to a steer state.
LEMMA HandleSteerAnswerType ==
  ASSUME TypeOK, NEW p \in Procs, NEW pkt \in DownPacket, NEW m \in Messages,
         HandleSteerAnswer(p, pkt, m)
  PROVE  CliHandled
<1>1. /\ held \in [Procs -> [Messages -> Held]]
      /\ retrying \in [Procs -> [Messages -> BOOLEAN]]
      /\ toHub \in [Procs -> Seq(UpPacket)]
      /\ unproven \in SUBSET Messages
  BY DEF TypeOK, CliTypeOK, NetTypeOK, HistoryTypeOK
<1>2. seen' \in [Procs -> SUBSET Messages] /\ cursor' \in [Procs -> Nat]
  BY DEF TypeOK, CliTypeOK, HandleSteerAnswer
<1>3. CASE UNCHANGED <<held, retrying, toHub, unproven>>
  BY <1>1, <1>2, <1>3 DEF CliHandled
<1>4. CASE Hold(p, m) /\ UNCHANGED unproven
  BY <1>1, <1>2, <1>4, HoldType DEF CliHandled
<1>5. CASE held' = [held EXCEPT ![p][m] = "pending"] /\ UNCHANGED <<retrying, toHub, unproven>>
  BY <1>1, <1>2, <1>5 DEF CliHandled, Held
<1>6. CASE RestoreQueued(p, m) /\ UNCHANGED unproven /\ UNCHANGED retrying
  BY <1>1, <1>2, <1>6, RestoreQueuedType DEF CliHandled
<1>7. CASE /\ held' = [held EXCEPT ![p][m] = "native"] /\ unproven' = unproven \cup {m}
           /\ UNCHANGED toHub /\ UNCHANGED retrying
  BY <1>1, <1>2, <1>7 DEF CliHandled, Held, Dispatching
<1> QED
  BY <1>3, <1>4, <1>5, <1>6, <1>7 DEF HandleSteerAnswer

\* CliReceive keeps the state well typed.
LEMMA TypeCliReceive ==
  ASSUME TypeOK, NEW p \in Procs, CliReceive(p)
  PROVE  TypeOK'
<1> DEFINE pkt == Head(toCli[p])
<1>1. toCli[p] \in Seq(DownPacket) /\ toCli[p] # <<>>
  BY DEF TypeOK, NetTypeOK, CliReceive
<1>2. pkt \in DownPacket /\ Tail(toCli[p]) \in Seq(DownPacket)
  BY <1>1
<1>3. pkt.ms \in SUBSET Messages
  BY <1>2 DEF DownPacket, Packet
<1>4. CliHandled
  <2>1. CASE Accept(p, pkt.ms) /\ UNCHANGED <<toHub, retrying, unproven>>
    BY <1>3, <2>1, AcceptType DEF TypeOK, NetTypeOK, CliTypeOK, HistoryTypeOK, CliHandled
  <2>2. CASE \E m \in pkt.ms : HandleCancel(p, pkt, m)
    BY <1>2, <1>3, <2>2, HandleCancelType
  <2>3. CASE \E m \in pkt.ms : HandleRetry(p, pkt, m)
    BY <1>2, <1>3, <2>3, HandleRetryType
  <2>4. CASE \E m \in pkt.ms : HandleSteerAnswer(p, pkt, m)
    BY <1>2, <1>3, <2>4, HandleSteerAnswerType
  <2> QED
    BY <2>1, <2>2, <2>3, <2>4 DEF CliReceive
<1>5. toCli' \in [Procs -> Seq(DownPacket)]
  BY <1>2 DEF TypeOK, NetTypeOK, CliReceive
<1>6. HubTypeOK' /\ BoundsTypeOK'
  BY TypeUnchanged DEF CliReceive
<1>7. NetTypeOK'
  BY <1>4, <1>5 DEF TypeOK, NetTypeOK, CliHandled, CliReceive
<1>8. CliTypeOK'
  BY <1>4 DEF TypeOK, CliTypeOK, CliHandled, CliReceive
<1>9. released' \in [Procs -> SUBSET Nat]
  <2>1. pkt.id \in Nat
    BY <1>2 DEF DownPacket, Packet
  <2>2. \/ UNCHANGED released
        \/ \E b \in BOOLEAN :
             released' = [released EXCEPT ![p] = IF b THEN @ \cup {pkt.id} ELSE @]
    BY DEF CliReceive, HandleCancel, HandleRetry, HandleSteerAnswer
  <2> QED
    BY <2>1, <2>2 DEF TypeOK, HistoryTypeOK
<1>10. HistoryTypeOK'
  BY <1>4, <1>9 DEF TypeOK, HistoryTypeOK, CliHandled, CliReceive
<1> QED
  BY <1>6, <1>7, <1>8, <1>10 DEF TypeOK

\* Collect keeps the state well typed.
LEMMA TypeCollect ==
  ASSUME TypeOK, NEW p \in Procs, NEW ms \in SUBSET Messages, Collect(p, ms)
  PROVE  TypeOK'
<1>1. Pkt("consumed", ms, 0, "nil") \in UpPacket
  BY UpPktType
<1>2. toHub' \in [Procs -> Seq(UpPacket)]
  BY <1>1, EmitType DEF TypeOK, Collect
<1>3. HubTypeOK' /\ BoundsTypeOK'
  BY TypeUnchanged DEF Collect
<1>4. NetTypeOK'
  BY <1>2 DEF TypeOK, NetTypeOK, Collect
<1>5. CliTypeOK'
  <2>1. held' \in [Procs -> [Messages -> Held]]
    BY DEF TypeOK, CliTypeOK, Collect, Held
  <2> QED
    BY <2>1 DEF TypeOK, CliTypeOK, Collect
<1>6. HistoryTypeOK'
  BY DEF TypeOK, HistoryTypeOK, Collect
<1> QED
  BY <1>3, <1>4, <1>5, <1>6 DEF TypeOK

\* Steer keeps the state well typed.
LEMMA TypeSteer ==
  ASSUME TypeOK, NEW p \in Procs, NEW m \in Messages, Steer(p, m)
  PROVE  TypeOK'
<1>1. steers + 1 \in Nat /\ {m} \in SUBSET Messages /\ "dispatching" \in SteerState
  BY DEF TypeOK, BoundsTypeOK, SteerState
<1>2. Pkt("steerState", {m}, steers + 1, "dispatching") \in UpPacket
  BY <1>1, UpPktType
<1>3. toHub' \in [Procs -> Seq(UpPacket)]
  BY <1>2, EmitType DEF TypeOK, Steer
<1>4. HubTypeOK'
  BY TypeUnchanged DEF Steer
<1>5. NetTypeOK'
  BY <1>3 DEF TypeOK, NetTypeOK, Steer
<1>6. CliTypeOK'
  <2>1. held' \in [Procs -> [Messages -> Held]]
    BY DEF TypeOK, CliTypeOK, Steer, Held, Dispatching
  <2>2. retrying' \in [Procs -> [Messages -> BOOLEAN]]
    BY DEF TypeOK, CliTypeOK, Steer
  <2>3. attempt' \in [Procs -> [Messages -> Nat]]
    BY <1>1 DEF TypeOK, CliTypeOK, Steer
  <2> QED
    BY <2>1, <2>2, <2>3 DEF TypeOK, CliTypeOK, Steer
<1>7. BoundsTypeOK'
  BY DEF TypeOK, BoundsTypeOK, Steer
<1>8. HistoryTypeOK'
  BY DEF TypeOK, HistoryTypeOK, Steer
<1> QED
  BY <1>4, <1>5, <1>6, <1>7, <1>8 DEF TypeOK

\* SteerTimeout keeps the state well typed.
LEMMA TypeSteerTimeout ==
  ASSUME TypeOK, NEW p \in Procs, NEW m \in Messages, SteerTimeout(p, m)
  PROVE  TypeOK'
<1>1. Pkt("indeterminate", {m}, 0, "nil") \in UpPacket
  BY UpPktType
<1>2. Withdraw(p, attempt[p][m]) \in Seq(UpPacket)
  BY WithdrawType DEF TypeOK
<1>3. toHub' \in [Procs -> Seq(UpPacket)]
  BY <1>1, <1>2 DEF TypeOK, NetTypeOK, SteerTimeout
<1>4. HubTypeOK' /\ BoundsTypeOK' /\ HistoryTypeOK'
  BY TypeUnchanged DEF SteerTimeout
<1>5. NetTypeOK'
  BY <1>3 DEF TypeOK, NetTypeOK, SteerTimeout
<1>6. CliTypeOK'
  BY DEF TypeOK, CliTypeOK, SteerTimeout, Held
<1> QED
  BY <1>4, <1>5, <1>6 DEF TypeOK

\* SteerCompleted keeps the state well typed.
LEMMA TypeSteerCompleted ==
  ASSUME TypeOK, NEW p \in Procs, NEW m \in Messages, SteerCompleted(p, m)
  PROVE  TypeOK'
<1>1. Pkt("consumed", {m}, 0, "nil") \in UpPacket
  BY UpPktType
<1>2. toHub' \in [Procs -> Seq(UpPacket)]
  BY <1>1, EmitType DEF TypeOK, SteerCompleted
<1>3. HubTypeOK' /\ BoundsTypeOK'
  BY TypeUnchanged DEF SteerCompleted
<1>4. NetTypeOK'
  BY <1>2 DEF TypeOK, NetTypeOK, SteerCompleted
<1>5. CliTypeOK'
  BY DEF TypeOK, CliTypeOK, SteerCompleted, Held
<1>6. HistoryTypeOK'
  BY DEF TypeOK, HistoryTypeOK, SteerCompleted
<1> QED
  BY <1>3, <1>4, <1>5, <1>6 DEF TypeOK

\* SteerRejected keeps the state well typed.
LEMMA TypeSteerRejected ==
  ASSUME TypeOK, NEW p \in Procs, NEW m \in Messages, SteerRejected(p, m)
  PROVE  TypeOK'
<1>1. HubTypeOK' /\ BoundsTypeOK'
  BY TypeUnchanged DEF SteerRejected
<1>2. held' \in [Procs -> [Messages -> Held]] /\ toHub' \in [Procs -> Seq(UpPacket)]
  BY RestoreQueuedType DEF SteerRejected
<1>3. NetTypeOK'
  BY <1>2 DEF TypeOK, NetTypeOK, SteerRejected
<1>4. CliTypeOK'
  BY <1>2 DEF TypeOK, CliTypeOK, SteerRejected
<1>5. HistoryTypeOK'
  BY DEF TypeOK, HistoryTypeOK, SteerRejected
<1> QED
  BY <1>1, <1>3, <1>4, <1>5 DEF TypeOK

\* SteerUnknown keeps the state well typed.
LEMMA TypeSteerUnknown ==
  ASSUME TypeOK, NEW p \in Procs, NEW m \in Messages, SteerUnknown(p, m)
  PROVE  TypeOK'
<1>1. HubTypeOK' /\ BoundsTypeOK' /\ HistoryTypeOK'
  BY TypeUnchanged DEF SteerUnknown
<1>2. /\ held' \in [Procs -> [Messages -> Held]]
      /\ retrying' \in [Procs -> [Messages -> BOOLEAN]]
      /\ toHub' \in [Procs -> Seq(UpPacket)]
  BY HoldType DEF SteerUnknown
<1>3. NetTypeOK'
  BY <1>2 DEF TypeOK, NetTypeOK, SteerUnknown
<1>4. CliTypeOK'
  BY <1>2 DEF TypeOK, CliTypeOK, SteerUnknown
<1> QED
  BY <1>1, <1>3, <1>4 DEF TypeOK

\* Abort keeps the state well typed.
LEMMA TypeAbort ==
  ASSUME TypeOK, NEW p \in Procs, Abort(p)
  PROVE  TypeOK'
<1>1. HubTypeOK' /\ NetTypeOK' /\ HistoryTypeOK'
  BY TypeUnchanged DEF Abort
<1>2. CliTypeOK'
  BY DEF TypeOK, CliTypeOK, Abort, Held
<1>3. BoundsTypeOK'
  BY DEF TypeOK, BoundsTypeOK, Abort
<1> QED
  BY <1>1, <1>2, <1>3 DEF TypeOK

\* Start keeps the state well typed.
LEMMA TypeStart ==
  ASSUME TypeOK, NEW p \in Procs, Start(p)
  PROVE  TypeOK'
<1>1. HubTypeOK' /\ NetTypeOK' /\ BoundsTypeOK' /\ HistoryTypeOK'
  BY TypeUnchanged DEF Start
<1>2. CliTypeOK'
  BY DEF TypeOK, CliTypeOK, Start
<1> QED
  BY <1>1, <1>2 DEF TypeOK

\* The two actions that announce the process.
LEMMA AliveType ==
  ASSUME TypeOK, NEW p \in Procs, Emit(p, Pkt("alive", {}, 0, "nil"))
  PROVE  toHub' \in [Procs -> Seq(UpPacket)]
<1>1. Pkt("alive", {}, 0, "nil") \in UpPacket
  BY UpPktType
<1> QED
  BY <1>1, EmitType DEF TypeOK

\* Connect keeps the state well typed.
LEMMA TypeConnect ==
  ASSUME TypeOK, NEW p \in Procs, Connect(p)
  PROVE  TypeOK'
<1>1. HubTypeOK' /\ BoundsTypeOK' /\ HistoryTypeOK'
  BY TypeUnchanged DEF Connect
<1>2. NetTypeOK'
  BY AliveType DEF TypeOK, NetTypeOK, Connect
<1>3. backfill' \in [Procs -> [st : {"fresh", "idle", "due", "got"}, ms : SUBSET Messages]]
  BY DEF TypeOK, CliTypeOK, Connect
<1>4. CliTypeOK'
  BY <1>3 DEF TypeOK, CliTypeOK, Connect
<1> QED
  BY <1>1, <1>2, <1>4 DEF TypeOK

\* KeepAlive keeps the state well typed.
LEMMA TypeKeepAlive ==
  ASSUME TypeOK, NEW p \in Procs, KeepAlive(p)
  PROVE  TypeOK'
<1>1. HubTypeOK' /\ CliTypeOK' /\ BoundsTypeOK' /\ HistoryTypeOK'
  BY TypeUnchanged DEF KeepAlive
<1>2. NetTypeOK'
  BY AliveType DEF TypeOK, NetTypeOK, KeepAlive
<1> QED
  BY <1>1, <1>2 DEF TypeOK

\* FetchBackfill keeps the state well typed.
LEMMA TypeFetchBackfill ==
  ASSUME TypeOK, NEW p \in Procs, FetchBackfill(p)
  PROVE  TypeOK'
<1>1. HubTypeOK' /\ NetTypeOK' /\ BoundsTypeOK' /\ HistoryTypeOK'
  BY TypeUnchanged DEF FetchBackfill
<1>2. DeliverableAfter(row, timing, seq, cursor[p]) \in SUBSET Messages
  BY DEF DeliverableAfter
<1>3. backfill' \in [Procs -> [st : {"fresh", "idle", "due", "got"}, ms : SUBSET Messages]]
  <2>1. \/ backfill' = [backfill EXCEPT ![p] =
              [st |-> "got", ms |-> DeliverableAfter(row, timing, seq, cursor[p])]]
        \/ backfill' = [backfill EXCEPT ![p].st = "idle"]
    BY DEF FetchBackfill
  <2>2. backfill \in [Procs -> [st : {"fresh", "idle", "due", "got"}, ms : SUBSET Messages]]
    BY DEF TypeOK, CliTypeOK
  <2> QED
    BY <1>2, <2>1, <2>2
<1>4. CliTypeOK'
  BY <1>3 DEF TypeOK, CliTypeOK, FetchBackfill
<1> QED
  BY <1>1, <1>4 DEF TypeOK

\* ApplyBackfill keeps the state well typed.
LEMMA TypeApplyBackfill ==
  ASSUME TypeOK, NEW p \in Procs, ApplyBackfill(p)
  PROVE  TypeOK'
<1>1. HubTypeOK' /\ NetTypeOK' /\ BoundsTypeOK' /\ HistoryTypeOK'
  BY TypeUnchanged DEF ApplyBackfill
<1>2. backfill[p].ms \in SUBSET Messages
  BY DEF TypeOK, CliTypeOK
<1>3. /\ seen' \in [Procs -> SUBSET Messages]
      /\ cursor' \in [Procs -> Nat]
      /\ held' \in [Procs -> [Messages -> Held]]
  BY <1>2, AcceptType DEF ApplyBackfill
<1>4. CliTypeOK'
  BY <1>3 DEF TypeOK, CliTypeOK, ApplyBackfill
<1> QED
  BY <1>1, <1>4 DEF TypeOK

\* Drop keeps the state well typed.
LEMMA TypeDrop ==
  ASSUME TypeOK, NEW p \in Procs, Drop(p)
  PROVE  TypeOK'
<1>1. HubTypeOK' /\ CliTypeOK' /\ HistoryTypeOK'
  BY TypeUnchanged DEF Drop
<1>2. NetTypeOK'
  BY DEF TypeOK, NetTypeOK, Drop
<1>3. BoundsTypeOK'
  BY DEF TypeOK, BoundsTypeOK, Drop
<1> QED
  BY <1>1, <1>2, <1>3 DEF TypeOK

\* A process that ends, whatever it still sends.
LEMMA TypeForget ==
  ASSUME TypeOK, NEW p \in Procs, Forget(p), toHub' \in [Procs -> Seq(UpPacket)]
  PROVE  TypeOK'
<1>1. HubTypeOK' /\ BoundsTypeOK' /\ HistoryTypeOK'
  BY TypeUnchanged DEF Forget
<1>2. NetTypeOK'
  <2>1. toCli' = [toCli EXCEPT ![p] = <<>>] /\ UNCHANGED conn
    BY DEF Forget
  <2> QED
    BY <2>1 DEF TypeOK, NetTypeOK
<1>3. CliTypeOK'
  <2>1. held' \in [Procs -> [Messages -> Held]]
    BY DEF TypeOK, CliTypeOK, Forget, Held
  <2> QED
    BY <2>1 DEF TypeOK, CliTypeOK, Forget
<1> QED
  BY <1>1, <1>2, <1>3 DEF TypeOK

\* Crash keeps the state well typed.
LEMMA TypeCrash ==
  ASSUME TypeOK, NEW p \in Procs, Crash(p)
  PROVE  TypeOK'
<1>1. toHub' \in [Procs -> Seq(UpPacket)]
  BY DEF TypeOK, NetTypeOK, Crash
<1> QED
  BY <1>1, TypeForget DEF Crash

\* End keeps the state well typed.
LEMMA TypeEnd ==
  ASSUME TypeOK, NEW p \in Procs, End(p)
  PROVE  TypeOK'
<1>1. Pkt("end", {}, 0, "nil") \in UpPacket
  BY UpPktType
<1>2. toHub' \in [Procs -> Seq(UpPacket)]
  BY <1>1, EmitType DEF TypeOK, End
<1> QED
  BY <1>2, TypeForget DEF End

\* HubDisconnect keeps the state well typed.
LEMMA TypeHubDisconnect ==
  ASSUME TypeOK, NEW p \in Procs, HubDisconnect(p)
  PROVE  TypeOK'
<1>1. HubTypeOK' /\ CliTypeOK' /\ BoundsTypeOK' /\ HistoryTypeOK'
  BY TypeUnchanged DEF HubDisconnect
<1>2. NetTypeOK'
  BY DEF TypeOK, NetTypeOK, HubDisconnect
<1> QED
  BY <1>1, <1>2 DEF TypeOK

\* The initial state is well typed.
LEMMA TypeInit == Init => TypeOK
<1> SUFFICES ASSUME Init PROVE TypeOK
  OBVIOUS
<1>1. HubTypeOK
  BY DEF Init, HubTypeOK, RowState, Timing
<1>2. NetTypeOK
  BY DEF Init, NetTypeOK
<1>3. CliTypeOK
  BY DEF Init, CliTypeOK, Held
<1>4. BoundsTypeOK
  BY DEF Init, BoundsTypeOK
<1>5. HistoryTypeOK
  BY DEF Init, HistoryTypeOK
<1> QED
  BY <1>1, <1>2, <1>3, <1>4, <1>5 DEF TypeOK

\* Every step keeps the state well typed.
LEMMA TypeStep ==
  ASSUME TypeOK, [Next]_vars
  PROVE  TypeOK'
<1>1. CASE HubNext
  BY <1>1, TypeSendMessage, TypeResendMessage, TypeMature, TypeCancel, TypeRetry,
     TypeReleaseMature, TypeOpTimeout, TypeHubReceive DEF HubNext
<1>2. ASSUME NEW p \in Procs, CliNext(p)
      PROVE  TypeOK'
  BY <1>2, TypeCliReceive, TypeAbort, TypeKeepAlive, TypeFetchBackfill, TypeApplyBackfill,
     TypeCollect, TypeSteer, TypeSteerTimeout, TypeSteerCompleted, TypeSteerRejected,
     TypeSteerUnknown DEF CliNext
<1>3. ASSUME NEW p \in Procs, LinkNext(p)
      PROVE  TypeOK'
  BY <1>3, TypeStart, TypeConnect, TypeDrop, TypeCrash, TypeEnd, TypeHubDisconnect DEF LinkNext
<1>4. CASE UNCHANGED vars
  BY <1>4, TypeUnchanged DEF vars, TypeOK
<1> QED
  BY <1>1, <1>2, <1>3, <1>4 DEF Next

\* Every reachable state is well typed: no handler of the hub or the CLI, in any
\* interleaving, writes a value the other side does not expect.
THEOREM TypeCorrect == Spec => []TypeOK
<1>1. TypeOK /\ [Next]_vars => TypeOK'
  BY TypeStep
<1> QED
  BY TypeInit, <1>1, PTL DEF Spec

---------------------------------------------------------------------------
(* InvokedWasTaken is not inductive: a row is stamped because of a packet, *)
(* an answer or a reservation that itself must rest on a delivery.         *)

Delivered(m) == m \in swept \/ \E p \in Procs : taken[p][m] > 0

\* What the CLI says about a delivery is true ...
UpGood(k) ==
  /\ k.t = "consumed" => \A m \in k.ms : Delivered(m)
  /\ k.t = "cancelAck" => /\ k.id \in DOMAIN ops
                          /\ k.st = "consumed" => Delivered(ops[k.id].m)

\* ... because what it is asked about is the message of the request.
DownGood(k) == k.t = "cancel" => k.id \in DOMAIN ops /\ k.ms = {ops[k.id].m}

UpTruthful == \A p \in Procs : \A k \in Range(toHub[p]) : UpGood(k)
DownTruthful == \A p \in Procs : \A k \in Range(toCli[p]) : DownGood(k)
OpsTruthful ==
  \A i \in DOMAIN ops :
    ops[i].stage = "ask" /\ "consumed" \in ops[i].got => Delivered(ops[i].m)
HeldTruthful ==
  \A p \in Procs, m \in Messages : held[p][m] = "committed" => Delivered(m)

Truthful ==
  InvokedWasTaken /\ UpTruthful /\ DownTruthful /\ OpsTruthful /\ HeldTruthful
DeliveryInv == TypeOK /\ Truthful

\* Deliveries are never taken back and a request keeps its message.
Monotone ==
  /\ \A m \in Messages : Delivered(m) => Delivered(m)'
  /\ DOMAIN ops \subseteq DOMAIN ops'
  /\ \A i \in DOMAIN ops : ops'[i].m = ops[i].m

\* What a packet says stays true while deliveries only grow.
LEMMA GoodMonotone ==
  ASSUME TypeOK, Monotone
  PROVE  /\ \A k \in UpPacket : UpGood(k) => UpGood(k)'
         /\ \A k \in DownPacket : DownGood(k) => DownGood(k)'
<1>1. \A i \in DOMAIN ops : ops[i].m \in Messages
  <2>1. \A i \in DOMAIN ops : ops[i] \in Op
    BY DEF TypeOK, HubTypeOK
  <2> QED
    BY <2>1 DEF Op
<1>2. \A k \in UpPacket : k.ms \in SUBSET Messages
  BY DEF UpPacket, Packet
<1> QED
  BY <1>1, <1>2 DEF Monotone, UpGood, DownGood

\* Packets already on their way stay good; a link that only loses packets, or
\* gains good ones, stays truthful.
LEMMA UpKept ==
  ASSUME TypeOK, Monotone, UpTruthful,
         \A p \in Procs : \A k \in Range(toHub'[p]) :
            k \in Range(toHub[p]) \/ UpGood(k)'
  PROVE  UpTruthful'
<1>1. \A p \in Procs : Range(toHub[p]) \subseteq UpPacket
  BY DEF TypeOK, NetTypeOK, Range
<1> QED
  BY <1>1, GoodMonotone DEF UpTruthful

\* The same for the downward links.
LEMMA DownKept ==
  ASSUME TypeOK, Monotone, DownTruthful,
         \A p \in Procs : \A k \in Range(toCli'[p]) :
            k \in Range(toCli[p]) \/ DownGood(k)'
  PROVE  DownTruthful'
<1>1. \A p \in Procs : Range(toCli[p]) \subseteq DownPacket
  BY DEF TypeOK, NetTypeOK, Range
<1> QED
  BY <1>1, GoodMonotone DEF DownTruthful

\* Emitting a good packet.
LEMMA EmitGood ==
  ASSUME TypeOK, Monotone, UpTruthful, NEW p \in Procs, NEW k, Emit(p, k), UpGood(k)'
  PROVE  UpTruthful'
<1>1. \A q \in Procs : Range(toHub'[q]) \subseteq Range(toHub[q]) \cup {k}
  BY DEF TypeOK, NetTypeOK, Emit, Range
<1> QED
  BY <1>1, UpKept

\* Broadcasting a good packet.
LEMMA BroadcastGood ==
  ASSUME TypeOK, Monotone, DownTruthful, NEW k, toCli' = Broadcast(<<k>>), DownGood(k)'
  PROVE  DownTruthful'
<1>1. \A q \in Procs : Range(toCli'[q]) \subseteq Range(toCli[q]) \cup {k}
  BY DEF TypeOK, NetTypeOK, Broadcast, Range
<1> QED
  BY <1>1, DownKept

\* New-message packets claim nothing.
LEMMA BroadcastNewGood ==
  ASSUME TypeOK, Monotone, DownTruthful, NEW ms, toCli' = Broadcast(NewMessages(ms))
  PROVE  DownTruthful'
<1>1. DownGood(Pkt("new", ms, 0, "nil"))'
  BY DEF DownGood, Pkt
<1>2. CASE ms = {}
  <2>1. \A q \in Procs : Range(toCli'[q]) = Range(toCli[q])
    BY <1>2 DEF TypeOK, NetTypeOK, Broadcast, NewMessages, Range
  <2> QED
    BY <2>1, DownKept
<1>3. CASE ms # {}
  <2>1. NewMessages(ms) = <<Pkt("new", ms, 0, "nil")>>
    BY <1>3, Zenon DEF NewMessages
  <2> QED
    BY <1>1, <2>1, BroadcastGood
<1> QED
  BY <1>2, <1>3

\* Deliveries are monotone when the counters and the sweep are.
LEMMA DeliveredMonotone ==
  ASSUME TypeOK, swept \subseteq swept',
         \A p \in Procs, m \in Messages : taken[p][m] > 0 => taken'[p][m] > 0
  PROVE  \A m \in Messages : Delivered(m) => Delivered(m)'
BY DEF Delivered

\* Monotone for a step that leaves the requests alone ...
LEMMA OpsUnchanged ==
  ASSUME \A m \in Messages : Delivered(m) => Delivered(m)', UNCHANGED ops
  PROVE  Monotone
BY DEF Monotone

\* ... appends one ...
LEMMA OpsAppended ==
  ASSUME TypeOK, \A m \in Messages : Delivered(m) => Delivered(m)',
         NEW op, ops' = Append(ops, op)
  PROVE  Monotone /\ DOMAIN ops' = DOMAIN ops \cup {Len(ops) + 1} /\ ops'[Len(ops) + 1] = op
BY DEF TypeOK, HubTypeOK, Monotone

\* ... or updates one about the same message.
LEMMA OpsUpdated ==
  ASSUME TypeOK, \A m \in Messages : Delivered(m) => Delivered(m)',
         NEW i \in DOMAIN ops, NEW op, op.m = ops[i].m, ops' = [ops EXCEPT ![i] = op]
  PROVE  Monotone
BY DEF TypeOK, HubTypeOK, Monotone

\* The conjuncts an action leaves alone.
LEMMA RowKept ==
  ASSUME TypeOK, Monotone, InvokedWasTaken,
         \A m \in Messages : row'[m] = "invoked" => row[m] = "invoked" \/ Delivered(m)'
  PROVE  InvokedWasTaken'
BY DEF InvokedWasTaken, Monotone, Delivered

\* No request learns of a delivery when none changes.
LEMMA OpsKept ==
  ASSUME TypeOK, Monotone, OpsTruthful, UNCHANGED ops
  PROVE  OpsTruthful'
<1>1. \A i \in DOMAIN ops : ops[i].m \in Messages
  <2>1. \A i \in DOMAIN ops : ops[i] \in Op
    BY DEF TypeOK, HubTypeOK
  <2> QED
    BY <2>1 DEF Op
<1> QED
  BY <1>1 DEF OpsTruthful, Monotone

\* A reservation becomes committed only with a delivery.
LEMMA HeldKept ==
  ASSUME TypeOK, Monotone, HeldTruthful,
         \A p \in Procs, m \in Messages :
            held'[p][m] = "committed" => held[p][m] = "committed" \/ Delivered(m)'
  PROVE  HeldTruthful'
BY DEF HeldTruthful, Monotone

\* A finished request keeps its message and has no answers left.
LEMMA FinishFields ==
  ASSUME NEW op \in Op, NEW ans
  PROVE  /\ Finish(op, ans).m = op.m
         /\ Finish(op, ans).got = {}
         /\ Finish(op, ans).stage = "done"
BY DEF Finish, Op

\* A cancel stamps a row only on the answer 'consumed'.
LEMMA CancelRowInvoked ==
  ASSUME TypeOK, NEW op \in Op, NEW res, NEW m \in Messages, CancelRow(op, res)[m] = "invoked"
  PROVE  row[m] = "invoked" \/ (m = op.m /\ res = "consumed")
<1> USE DEF TypeOK, HubTypeOK
<1>1. CASE res = "consumed"
  BY <1>1 DEF CancelRow, MarkMessagesInvoked
<1>2. CASE CancelRow(op, res) = HoldUnknown(op.m)
  BY <1>2 DEF HoldUnknown, SetMessagesDeliveryState
<1>3. CASE CancelRow(op, res) = DeleteQueuedMessageById(row, op.m)
  BY <1>3 DEF DeleteQueuedMessageById
<1>4. CASE CancelRow(op, res) = row
  BY <1>4
<1> QED
  BY <1>1, <1>2, <1>3, <1>4 DEF CancelRow

\* A request is answered from what the room reported.
LEMMA ResolveGood ==
  ASSUME TypeOK, InvokedWasTaken, DownTruthful, OpsTruthful,
         NEW i \in DOMAIN ops, NEW got \in SUBSET Answer, NEW complete \in BOOLEAN,
         ops[i].stage = "ask" /\ "consumed" \in got => Delivered(ops[i].m),
         Resolve(i, got, complete), UNCHANGED <<taken, swept>>
  PROVE  Monotone /\ InvokedWasTaken' /\ DownTruthful' /\ OpsTruthful'
<1>1. ops[i] \in Op /\ ops[i].m \in Messages
  <2>1. ops[i] \in Op
    BY DEF TypeOK, HubTypeOK
  <2> QED
    BY <2>1 DEF Op
<1>2. \A m \in Messages : Delivered(m) <=> Delivered(m)'
  BY DEF Delivered
<1>3. PICK op : /\ ops' = [ops EXCEPT ![i] = op]
               /\ op.m = ops[i].m /\ op.got = {}
  <2>1. \A ans : Finish(ops[i], ans).m = ops[i].m /\ Finish(ops[i], ans).got = {}
    BY <1>1, FinishFields
  <2>2. LET x == [ops[i] EXCEPT !.stage = "offer", !.need = Room, !.got = {}]
        IN  x.m = ops[i].m /\ x.got = {}
    BY <1>1 DEF Op
  <2>3. \/ \E ans : ops' = [ops EXCEPT ![i] = Finish(ops[i], ans)]
        \/ ops' = [ops EXCEPT ![i] =
                     [ops[i] EXCEPT !.stage = "offer", !.need = Room, !.got = {}]]
    BY DEF Resolve, ResolveAsk, ResolveOffer
  <2> QED
    BY <2>1, <2>2, <2>3
<1>4. Monotone
  BY <1>2, <1>3, OpsUpdated
<1>5. OpsTruthful'
  <2>1. \A j \in DOMAIN ops : j = i \/ ops'[j] = ops[j]
    BY <1>3 DEF TypeOK, HubTypeOK
  <2>2. DOMAIN ops' = DOMAIN ops /\ ops'[i] = op
    BY <1>3 DEF TypeOK, HubTypeOK
  <2>3. \A j \in DOMAIN ops : ops[j].m \in Messages
    <3>1. \A j \in DOMAIN ops : ops[j] \in Op
      BY DEF TypeOK, HubTypeOK
    <3> QED
      BY <3>1 DEF Op
  <2> QED
    BY <1>2, <1>3, <2>1, <2>2, <2>3 DEF OpsTruthful
<1>6. DownTruthful'
  <2>1. CASE UNCHANGED toCli
    BY <1>4, <2>1, DownKept
  <2>2. CASE toCli' = Broadcast(<<Pkt("retry", {ops[i].m}, i, "nil")>>)
    <3>1. PICK k : k = Pkt("retry", {ops[i].m}, i, "nil")
      OBVIOUS
    <3>2. k.t = "retry"
      BY <3>1 DEF Pkt
    <3>3. DownGood(k)'
      BY <3>2 DEF DownGood
    <3> QED
      BY <1>4, <2>2, <3>1, <3>3, BroadcastGood
  <2> QED
    BY <2>1, <2>2 DEF Resolve, ResolveAsk, ResolveOffer
<1>7. InvokedWasTaken'
  <2>1. SUFFICES ASSUME NEW m \in Messages, row'[m] = "invoked"
                 PROVE  row[m] = "invoked" \/ Delivered(m)
    BY <1>2, <1>4, RowKept
  <2> DEFINE res == CancelResult(got, complete)
  <2>2. res = "consumed" => "consumed" \in got
    BY DEF CancelResult
  <2>3. CASE ops[i].stage = "ask" /\ row' = CancelRow(ops[i], res)
    BY <1>1, <2>1, <2>2, <2>3, CancelRowInvoked
  <2>4. CASE row' = ClaimIndeterminateMessage(HoldUnknown(ops[i].m), ops[i].m)
    BY <2>1, <2>4 DEF ClaimIndeterminateMessage, HoldUnknown, SetMessagesDeliveryState,
                      TypeOK, HubTypeOK
  <2>5. CASE /\ ops[i].stage = "ask"
             /\ row' = IF res = "consumed" THEN MarkMessagesInvoked(row, {ops[i].m}) ELSE row
    BY <2>1, <2>2, <2>5 DEF MarkMessagesInvoked, TypeOK, HubTypeOK
  <2>6. CASE \E state \in {"queued", "indeterminate"} :
               row' = SetMessagesDeliveryState(row, {ops[i].m}, state)
    BY <2>1, <2>6 DEF SetMessagesDeliveryState, TypeOK, HubTypeOK
  <2> QED
    BY <2>3, <2>4, <2>5, <2>6 DEF Resolve, ResolveAsk, ResolveOffer
<1> QED
  BY <1>4, <1>5, <1>6, <1>7

\* Steps of the CLI and of the link leave the rows and the requests alone.
LEMMA QuietStep ==
  ASSUME DeliveryInv, UNCHANGED <<row, ops, swept>>,
         \A p \in Procs, m \in Messages : taken[p][m] > 0 => taken'[p][m] > 0,
         \A p \in Procs : \A k \in Range(toHub'[p]) : k \in Range(toHub[p]) \/ UpGood(k)',
         \A p \in Procs : \A k \in Range(toCli'[p]) : k \in Range(toCli[p]),
         \A p \in Procs, m \in Messages :
            held'[p][m] = "committed" => held[p][m] = "committed" \/ Delivered(m)'
  PROVE  Truthful'
<1>1. \A m \in Messages : Delivered(m) => Delivered(m)'
  BY DeliveredMonotone DEF DeliveryInv
<1>2. Monotone
  BY <1>1, OpsUnchanged
<1>3. InvokedWasTaken'
  BY <1>2, RowKept DEF DeliveryInv, Truthful
<1>4. UpTruthful'
  BY <1>2, UpKept DEF DeliveryInv, Truthful
<1>5. DownTruthful'
  BY <1>2, DownKept DEF DeliveryInv, Truthful
<1>6. OpsTruthful'
  BY <1>2, OpsKept DEF DeliveryInv, Truthful
<1>7. HeldTruthful'
  BY <1>2, HeldKept DEF DeliveryInv, Truthful
<1> QED
  BY <1>3, <1>4, <1>5, <1>6, <1>7 DEF Truthful

\* What a link holds after an emit.
LEMMA EmitRange ==
  ASSUME TypeOK, NEW p \in Procs, NEW k, Emit(p, k)
  PROVE  \A q \in Procs : Range(toHub'[q]) \subseteq Range(toHub[q]) \cup {k}
BY DEF TypeOK, NetTypeOK, Emit, Range

\* Packets that claim nothing about a delivery.
LEMMA PlainEmit ==
  ASSUME TypeOK, NEW p \in Procs,
         NEW t \in {"alive", "indeterminate", "steerState", "retryAck", "end"},
         NEW ms, NEW id, NEW st, Emit(p, Pkt(t, ms, id, st))
  PROVE  \A q \in Procs : \A k \in Range(toHub'[q]) : k \in Range(toHub[q]) \/ UpGood(k)'
<1>1. \A k : k.t = t => UpGood(k)'
  BY DEF UpGood
<1>2. Pkt(t, ms, id, st).t = t
  BY DEF Pkt
<1> QED
  BY <1>1, <1>2, EmitRange

\* Removing an element adds none.
LEMMA RemoveAtRange ==
  ASSUME NEW S, NEW s \in Seq(S), NEW i \in DOMAIN s
  PROVE  Range(RemoveAt(s, i)) \subseteq Range(s)
<1> DEFINE front == SubSeq(s, 1, i - 1)
           back == SubSeq(s, i + 1, Len(s))
<1>1. /\ front \in Seq(S) /\ Len(front) = i - 1
      /\ \A j \in 1 .. i - 1 : front[j] = s[j]
  OBVIOUS
<1>2. /\ back \in Seq(S) /\ Len(back) = Len(s) - i
      /\ \A j \in 1 .. Len(s) - i : back[j] = s[i + j]
  OBVIOUS
<1> HIDE DEF front, back
<1>3. \A j \in DOMAIN (front \o back) :
        (front \o back)[j] = IF j < i THEN s[j] ELSE s[j + 1]
  BY <1>1, <1>2
<1>4. \A j \in DOMAIN (front \o back) : j \in 1 .. Len(s) - 1
  BY <1>1, <1>2
<1>5. \A j \in DOMAIN (front \o back) : \E n \in DOMAIN s : (front \o back)[j] = s[n]
  BY <1>3, <1>4
<1> QED
  BY <1>5 DEF RemoveAt, Range, front, back

\* Nor does taking back a request.
LEMMA WithdrawRange ==
  ASSUME TypeOK, NEW p \in Procs, NEW id
  PROVE  Range(Withdraw(p, id)) \subseteq Range(toHub[p])
<1>1. toHub[p] \in Seq(UpPacket)
  BY DEF TypeOK, NetTypeOK
<1>2. \/ Withdraw(p, id) = toHub[p]
      \/ \E i \in DOMAIN toHub[p] : Withdraw(p, id) = RemoveAt(toHub[p], i)
  BY DEF Withdraw
<1> QED
  BY <1>1, <1>2, RemoveAtRange

\* SendMessage preserves the delivery invariant.
LEMMA InvSendMessage ==
  ASSUME DeliveryInv, NEW m \in Messages, NEW when \in {"immediate", "future"},
         SendMessage(m, when)
  PROVE  Truthful'
<1>1. Monotone
  <2>1. UNCHANGED <<ops, taken, swept>>
    BY DEF SendMessage, history
  <2> QED
    BY <2>1, DeliveredMonotone, OpsUnchanged DEF DeliveryInv
<1>2. row' = [row EXCEPT ![m] = "queued"] /\ UNCHANGED <<ops, toHub, held>>
  BY DEF SendMessage, cliVars
<1>3. InvokedWasTaken'
  BY <1>1, <1>2, RowKept DEF DeliveryInv, Truthful, TypeOK, HubTypeOK
<1>4. UpTruthful' /\ OpsTruthful' /\ HeldTruthful'
  BY <1>1, <1>2, UpKept, OpsKept, HeldKept DEF DeliveryInv, Truthful
<1>5. DownTruthful'
  <2>1. toCli' = toCli \/ toCli' = Broadcast(NewMessages({m}))
    BY DEF SendMessage
  <2> QED
    BY <1>1, <2>1, DownKept, BroadcastNewGood DEF DeliveryInv, Truthful
<1> QED
  BY <1>3, <1>4, <1>5 DEF Truthful

\* Emitting stored rows again.
LEMMA InvReplay ==
  ASSUME DeliveryInv, NEW ms, toCli' = Broadcast(NewMessages(ms)),
         UNCHANGED <<row, ops, toHub, held, taken, swept>>
  PROVE  Truthful'
<1>1. Monotone
  BY DeliveredMonotone, OpsUnchanged DEF DeliveryInv
<1>2. InvokedWasTaken' /\ UpTruthful' /\ OpsTruthful' /\ HeldTruthful'
  BY <1>1, RowKept, UpKept, OpsKept, HeldKept DEF DeliveryInv, Truthful
<1>3. DownTruthful'
  BY <1>1, BroadcastNewGood DEF DeliveryInv, Truthful
<1> QED
  BY <1>2, <1>3 DEF Truthful

\* Registering a cancel or retry request and asking the room about its message.
LEMMA InvAsk ==
  ASSUME DeliveryInv, NEW m \in Messages, NEW op, op.m = m, op.got = {},
         ops' = Append(ops, op),
         \/ UNCHANGED toCli
         \/ toCli' = Broadcast(<<Pkt("cancel", {m}, Len(ops) + 1, "nil")>>),
         \A x \in Messages : row'[x] = "invoked" => row[x] = "invoked",
         UNCHANGED <<toHub, held, taken, swept>>
  PROVE  Truthful'
<1>1. /\ Monotone
      /\ DOMAIN ops' = DOMAIN ops \cup {Len(ops) + 1} /\ ops'[Len(ops) + 1] = op
  BY DeliveredMonotone, OpsAppended DEF DeliveryInv
<1>2. InvokedWasTaken' /\ UpTruthful' /\ HeldTruthful'
  BY <1>1, RowKept, UpKept, HeldKept DEF DeliveryInv, Truthful
<1>3. OpsTruthful'
  <2>1. \A j \in DOMAIN ops : ops'[j] = ops[j] /\ ops[j].m \in Messages
    <3>1. \A j \in DOMAIN ops : ops[j] \in Op /\ ops'[j] = ops[j]
      BY DEF DeliveryInv, TypeOK, HubTypeOK
    <3> QED
      BY <3>1 DEF Op
  <2> QED
    BY <1>1, <2>1 DEF DeliveryInv, Truthful, OpsTruthful, Monotone
<1>4. DownTruthful'
  <2>1. CASE UNCHANGED toCli
    BY <1>1, <2>1, DownKept DEF DeliveryInv, Truthful
  <2>2. CASE toCli' = Broadcast(<<Pkt("cancel", {m}, Len(ops) + 1, "nil")>>)
    <3>1. PICK k : k = Pkt("cancel", {m}, Len(ops) + 1, "nil")
      OBVIOUS
    <3>2. k.id = Len(ops) + 1 /\ k.ms = {m}
      BY <3>1 DEF Pkt
    <3>3. DownGood(k)'
      BY <1>1, <3>2 DEF DownGood
    <3> QED
      BY <1>1, <2>2, <3>1, <3>3, BroadcastGood DEF DeliveryInv, Truthful
  <2> QED
    BY <2>1, <2>2
<1> QED
  BY <1>2, <1>3, <1>4 DEF Truthful

\* Cancel preserves the delivery invariant.
LEMMA InvCancel ==
  ASSUME DeliveryInv, NEW m \in Messages, Cancel(m)
  PROVE  Truthful'
<1> DEFINE op == [kind |-> "cancel", m |-> m, stage |-> "ask", at |-> row[m],
                  need |-> Room, got |-> {}, ans |-> "none"]
<1>1. UNCHANGED <<toHub, held, taken, swept>>
  BY DEF Cancel, cliVars, history
<1>2. \A x \in Messages : row'[x] = "invoked" => row[x] = "invoked"
  <2>1. row' = DeleteQueuedMessageById(row, m) \/ row' = HoldUnknown(m) \/ row' = row
    BY DEF Cancel
  <2> QED
    BY <2>1 DEF DeleteQueuedMessageById, HoldUnknown, SetMessagesDeliveryState,
                DeliveryInv, TypeOK, HubTypeOK
<1>3. \/ UNCHANGED toCli
      \/ toCli' = Broadcast(<<Pkt("cancel", {m}, Len(ops) + 1, "nil")>>)
  BY DEF Cancel
<1>4. PICK x : ops' = Append(ops, x) /\ x.m = m /\ x.got = {}
  <2>1. /\ op.m = m /\ op.got = {}
        /\ \A ans : Finish(op, ans).m = m /\ Finish(op, ans).got = {}
    BY DEF Finish
  <2>2. \/ ops' = Append(ops, Finish(op, "cancelled"))
        \/ ops' = Append(ops, Finish(op, "busy"))
        \/ ops' = Append(ops, op)
    BY Zenon DEF Cancel
  <2> HIDE DEF op
  <2> QED
    BY <2>1, <2>2
<1> QED
  BY <1>1, <1>2, <1>3, <1>4, InvAsk

\* Retry preserves the delivery invariant.
LEMMA InvRetry ==
  ASSUME DeliveryInv, NEW m \in Messages, Retry(m)
  PROVE  Truthful'
<1>1. PICK x : ops' = Append(ops, x) /\ x.m = m /\ x.got = {}
  BY DEF Retry
<1>2. UNCHANGED <<row, toHub, held, taken, swept>>
  BY DEF Retry, cliVars, history
<1>3. toCli' = Broadcast(<<Pkt("cancel", {m}, Len(ops) + 1, "nil")>>)
  BY DEF Retry
<1> QED
  BY <1>1, <1>2, <1>3, InvAsk

\* OpTimeout preserves the delivery invariant.
LEMMA InvOpTimeout ==
  ASSUME DeliveryInv, NEW i \in DOMAIN ops, OpTimeout(i)
  PROVE  Truthful'
<1>1. UNCHANGED <<toHub, held, taken, swept>>
  BY DEF OpTimeout, cliVars, history
<1>2. ops[i].got \in SUBSET Answer
  <2>1. ops[i] \in Op
    BY DEF DeliveryInv, TypeOK, HubTypeOK
  <2> QED
    BY <2>1 DEF Op
<1>3. Monotone /\ InvokedWasTaken' /\ DownTruthful' /\ OpsTruthful'
  BY <1>1, <1>2, ResolveGood DEF DeliveryInv, Truthful, OpsTruthful, OpTimeout
<1>4. UpTruthful' /\ HeldTruthful'
  BY <1>1, <1>3, UpKept, HeldKept DEF DeliveryInv, Truthful
<1> QED
  BY <1>3, <1>4 DEF Truthful

\* An acknowledgement that arrives with p's packet.
LEMMA InvHandleAck ==
  ASSUME DeliveryInv, NEW p \in Procs, NEW pkt \in UpPacket, UpGood(pkt),
         pkt.t \in {"cancelAck", "retryAck"}, pkt.st \in Answer,
         HandleAck(p, pkt), UNCHANGED <<taken, swept>>
  PROVE  Monotone /\ InvokedWasTaken' /\ DownTruthful' /\ OpsTruthful'
<1> DEFINE i == pkt.id
           op == [ops[i] EXCEPT !.need = @ \ {p}, !.got = @ \cup {pkt.st}]
           live == /\ i \in DOMAIN ops /\ p \in ops[i].need
                   /\ pkt.t = IF ops[i].stage = "ask" THEN "cancelAck" ELSE "retryAck"
<1>1. \A m \in Messages : Delivered(m) => Delivered(m)'
  BY DEF Delivered
<1>2. CASE UNCHANGED <<row, ops, toCli>>
  BY <1>1, <1>2, OpsUnchanged, RowKept, DownKept, OpsKept DEF DeliveryInv, Truthful
<1>3. ASSUME live
      PROVE  /\ op.m = ops[i].m /\ op.got = ops[i].got \cup {pkt.st} /\ op.stage = ops[i].stage
             /\ op.got \in SUBSET Answer
             /\ ops[i].stage = "ask" /\ "consumed" \in op.got => Delivered(ops[i].m)
  <2>1. ops[i] \in Op
    BY <1>3 DEF DeliveryInv, TypeOK, HubTypeOK
  <2>2. /\ op.m = ops[i].m /\ op.got = ops[i].got \cup {pkt.st}
        /\ op.stage = ops[i].stage /\ op.got \in SUBSET Answer
    BY <2>1 DEF Op
  <2>3. ASSUME ops[i].stage = "ask", "consumed" \in op.got
        PROVE  Delivered(ops[i].m)
    <3>1. CASE "consumed" \in ops[i].got
      BY <1>3, <2>3, <3>1 DEF DeliveryInv, Truthful, OpsTruthful
    <3>2. CASE pkt.st = "consumed"
      BY <1>3, <2>3, <3>2 DEF UpGood
    <3> QED
      BY <2>2, <2>3, <3>1, <3>2
  <2> QED
    BY <2>2, <2>3
<1>4. CASE live /\ Resolve(i, op.got, TRUE)
  <2> HIDE DEF op
  <2> QED
    BY <1>3, <1>4, ResolveGood DEF DeliveryInv, Truthful
<1>5. CASE live /\ ops' = [ops EXCEPT ![i] = op] /\ UNCHANGED <<row, toCli>>
  <2> HIDE DEF op
  <2>1. Monotone
    BY <1>1, <1>3, <1>5, OpsUpdated DEF DeliveryInv
  <2>2. InvokedWasTaken' /\ DownTruthful'
    BY <1>5, <2>1, RowKept, DownKept DEF DeliveryInv, Truthful
  <2>3. OpsTruthful'
    <3>1. /\ DOMAIN ops' = DOMAIN ops /\ ops'[i] = op
          /\ \A j \in DOMAIN ops : j = i \/ ops'[j] = ops[j]
      BY <1>5 DEF DeliveryInv, TypeOK, HubTypeOK
    <3>2. \A j \in DOMAIN ops : ops[j].m \in Messages
      <4>1. \A j \in DOMAIN ops : ops[j] \in Op
        BY DEF DeliveryInv, TypeOK, HubTypeOK
      <4> QED
        BY <4>1 DEF Op
    <3> QED
      BY <1>1, <1>3, <1>5, <3>1, <3>2 DEF DeliveryInv, Truthful, OpsTruthful
  <2> QED
    BY <2>1, <2>2, <2>3
<1> QED
  BY <1>2, <1>4, <1>5 DEF HandleAck

\* HubReceive preserves the delivery invariant.
LEMMA InvHubReceive ==
  ASSUME DeliveryInv, NEW p \in Procs, HubReceive(p)
  PROVE  Truthful'
<1>1. PICK pkt : pkt = Head(toHub[p])
  OBVIOUS
<1>2. PICK queued : queued = ImmediateQueued(row, timing)
  OBVIOUS
<1>3. /\ pkt \in UpPacket /\ UpGood(pkt)
      /\ \A q \in Procs : Range(toHub'[q]) \subseteq Range(toHub[q])
  <2>1. toHub[p] \in Seq(UpPacket) /\ toHub[p] # <<>>
    BY DEF DeliveryInv, TypeOK, NetTypeOK, HubReceive
  <2>2. pkt \in UpPacket /\ pkt \in Range(toHub[p])
    BY <1>1, <2>1 DEF Range
  <2>3. Range(Tail(toHub[p])) \subseteq Range(toHub[p])
    BY <2>1 DEF Range
  <2>4. toHub' = [toHub EXCEPT ![p] = Tail(@)]
    BY DEF HubReceive
  <2>5. \A q \in Procs : Range(toHub'[q]) \subseteq Range(toHub[q])
    BY <2>3, <2>4 DEF DeliveryInv, TypeOK, NetTypeOK
  <2> QED
    BY <2>2, <2>5 DEF DeliveryInv, Truthful, UpTruthful
<1>4. /\ UNCHANGED <<held, taken>>
      /\ swept' = IF pkt.t = "end" THEN swept \cup queued ELSE swept
  BY <1>1, <1>2 DEF HubReceive, cliVars
<1>5. \A m \in Messages : Delivered(m) => Delivered(m)'
  BY <1>4, DeliveredMonotone DEF DeliveryInv
<1>6. Monotone /\ InvokedWasTaken' /\ DownTruthful' /\ OpsTruthful'
  <2>1. ASSUME UNCHANGED ops
        PROVE  Monotone /\ OpsTruthful'
    BY <1>5, <2>1, OpsUnchanged, OpsKept DEF DeliveryInv, Truthful
  <2>2. ASSUME UNCHANGED <<ops, toCli>>
        PROVE  DownTruthful'
    BY <2>1, <2>2, DownKept DEF DeliveryInv, Truthful
  <2>3. CASE toCli' = Broadcast(NewMessages(queued)) /\ UNCHANGED <<row, ops>>
    <3>1. Monotone /\ OpsTruthful'
      BY <2>1, <2>3
    <3>2. InvokedWasTaken' /\ DownTruthful'
      BY <2>3, <3>1, RowKept, BroadcastNewGood DEF DeliveryInv, Truthful
    <3> QED
      BY <3>1, <3>2
  <2>4. CASE /\ pkt.t = "consumed" /\ row' = MarkMessagesInvoked(row, pkt.ms)
             /\ UNCHANGED <<ops, toCli>>
    <3>1. \A m \in Messages : row'[m] = "invoked" => row[m] = "invoked" \/ Delivered(m)'
      BY <1>3, <1>5, <2>4 DEF UpGood, MarkMessagesInvoked, DeliveryInv, TypeOK, HubTypeOK
    <3> QED
      BY <2>1, <2>2, <2>4, <3>1, RowKept DEF DeliveryInv, Truthful
  <2>5. CASE /\ row' = SetMessagesDeliveryState(row, pkt.ms, "indeterminate")
             /\ UNCHANGED <<ops, toCli>>
    <3>1. \A m \in Messages : row'[m] = "invoked" => row[m] = "invoked"
      BY <2>5 DEF SetMessagesDeliveryState, DeliveryInv, TypeOK, HubTypeOK
    <3> QED
      BY <2>1, <2>2, <2>5, <3>1, RowKept DEF DeliveryInv, Truthful
  <2>6. CASE pkt.t = "steerState" /\ HandleSteerState(p, pkt)
    <3>1. UNCHANGED ops /\ row' = SetMessagesDeliveryState(row, pkt.ms, pkt.st)
      BY <2>6 DEF HandleSteerState
    <3>2. pkt.st # "invoked"
      BY <1>3, <2>6 DEF UpPacket, Packet, SteerState
    <3>3. \A m \in Messages : row'[m] = "invoked" => row[m] = "invoked"
      BY <3>1, <3>2 DEF SetMessagesDeliveryState, DeliveryInv, TypeOK, HubTypeOK
    <3>4. Monotone /\ OpsTruthful' /\ InvokedWasTaken'
      BY <2>1, <3>1, <3>3, RowKept DEF DeliveryInv, Truthful
    <3>5. PICK k : k = Pkt(IF StateChanges(row, pkt.ms, pkt.st) # {} THEN "steerOk" ELSE "steerNo",
                           pkt.ms, pkt.id, pkt.st)
      OBVIOUS
    <3>6. k.t # "cancel"
      BY <3>5 DEF Pkt
    <3>7. DownGood(k)'
      BY <3>6 DEF DownGood
    <3>8. toCli' = [toCli EXCEPT ![p] = Append(@, k)] \/ toCli' = toCli
      BY <2>6, <3>5 DEF HandleSteerState
    <3>9. \A q \in Procs : Range(toCli'[q]) \subseteq Range(toCli[q]) \cup {k}
      <4>1. toCli \in [Procs -> Seq(DownPacket)]
        BY DEF DeliveryInv, TypeOK, NetTypeOK
      <4>2. \A q \in Procs : toCli'[q] = toCli[q] \/ toCli'[q] = Append(toCli[q], k)
        BY <3>8, <4>1
      <4>3. \A q \in Procs : Range(Append(toCli[q], k)) \subseteq Range(toCli[q]) \cup {k}
        BY <4>1 DEF Range
      <4> QED
        BY <4>2, <4>3
    <3> QED
      BY <3>4, <3>7, <3>9, DownKept DEF DeliveryInv, Truthful
  <2>7. CASE pkt.t \in {"cancelAck", "retryAck"} /\ HandleAck(p, pkt)
    <3>1. pkt.st \in Answer
      BY <1>3, <2>7 DEF UpPacket, Packet
    <3>2. UNCHANGED swept
      BY <1>4, <2>7
    <3> QED
      BY <1>3, <1>4, <2>7, <3>1, <3>2, InvHandleAck
  <2>8. CASE /\ pkt.t = "end" /\ row' = MarkMessagesInvoked(row, queued)
             /\ UNCHANGED <<ops, toCli>>
    <3>1. \A m \in Messages : row'[m] = "invoked" => row[m] = "invoked" \/ Delivered(m)'
      BY <1>4, <2>8 DEF Delivered, MarkMessagesInvoked, DeliveryInv, TypeOK, HubTypeOK
    <3> QED
      BY <2>1, <2>2, <2>8, <3>1, RowKept DEF DeliveryInv, Truthful
  <2> QED
    BY <1>1, <1>2, <2>3, <2>4, <2>5, <2>6, <2>7, <2>8 DEF HubReceive
<1>7. UpTruthful' /\ HeldTruthful'
  BY <1>3, <1>4, <1>6, UpKept, HeldKept DEF DeliveryInv, Truthful
<1> QED
  BY <1>6, <1>7 DEF Truthful

\* Setting one status to anything but committed.
LEMMA HeldUpdated ==
  ASSUME TypeOK, NEW p \in Procs, NEW m \in Messages, NEW h \in Held \ {"committed"},
         held' = [held EXCEPT ![p][m] = h]
  PROVE  \A q \in Procs, x \in Messages : held'[q][x] = "committed" => held[q][x] = "committed"
<1>1. held \in [Procs -> [Messages -> Held]]
  BY DEF TypeOK, CliTypeOK
<1>2. ASSUME NEW q \in Procs, NEW x \in Messages, held'[q][x] = "committed"
      PROVE  held[q][x] = "committed"
  BY <1>1, <1>2
<1> QED
  BY <1>2

\* CliReceive preserves the delivery invariant.
LEMMA InvCliReceive ==
  ASSUME DeliveryInv, NEW p \in Procs, CliReceive(p)
  PROVE  Truthful'
<1>1. PICK pkt : pkt = Head(toCli[p])
  OBVIOUS
<1>2. /\ pkt \in DownPacket /\ DownGood(pkt)
      /\ \A q \in Procs : \A k \in Range(toCli'[q]) : k \in Range(toCli[q])
  <2>1. toCli[p] \in Seq(DownPacket) /\ toCli[p] # <<>>
    BY DEF DeliveryInv, TypeOK, NetTypeOK, CliReceive
  <2>2. pkt \in DownPacket /\ pkt \in Range(toCli[p])
    BY <1>1, <2>1 DEF Range
  <2>3. Range(Tail(toCli[p])) \subseteq Range(toCli[p])
    BY <2>1 DEF Range
  <2>4. toCli' = [toCli EXCEPT ![p] = Tail(@)]
    BY DEF CliReceive
  <2>5. \A q \in Procs : \A k \in Range(toCli'[q]) : k \in Range(toCli[q])
    BY <2>3, <2>4 DEF DeliveryInv, TypeOK, NetTypeOK
  <2> QED
    BY <2>2, <2>5 DEF DeliveryInv, Truthful, DownTruthful
<1>3. UNCHANGED <<row, ops, swept, taken>>
  BY DEF CliReceive, hubVars
<1>4. pkt.ms \in SUBSET Messages
  BY <1>2 DEF DownPacket, Packet
<1> DEFINE UpOK == \A q \in Procs : \A k \in Range(toHub'[q]) : k \in Range(toHub[q]) \/ UpGood(k)'
           HeldOK == \A q \in Procs, m \in Messages :
                       held'[q][m] = "committed" => held[q][m] = "committed" \/ Delivered(m)'
<1>5. UpOK /\ HeldOK
  <2>1. CASE Accept(p, pkt.ms) /\ UNCHANGED toHub
    <3>1. held \in [Procs -> [Messages -> Held]]
      BY DEF DeliveryInv, TypeOK, CliTypeOK
    <3>2. HeldOK
      BY <2>1, <3>1 DEF Accept
    <3> QED
      BY <2>1, <3>2
  <2>2. ASSUME NEW m \in pkt.ms, pkt.t = "cancel", HandleCancel(p, pkt, m)
        PROVE  UpOK /\ HeldOK
    <3>1. PICK res : res = CancelByLocalId(held[p][m])
      OBVIOUS
    <3>2. PICK k : k = Pkt("cancelAck", {m}, pkt.id, res)
      OBVIOUS
    <3>3. k.t = "cancelAck" /\ k.id = pkt.id /\ k.st = res
      BY <3>2 DEF Pkt
    <3>4. m \in Messages /\ pkt.id \in DOMAIN ops /\ m = ops[pkt.id].m
      BY <1>2, <1>4, <2>2 DEF DownGood
    <3>5. res = "consumed" => Delivered(m)
      <4>1. res = "consumed" => held[p][m] = "committed"
        BY <3>1 DEF CancelByLocalId
      <4> QED
        BY <3>4, <4>1 DEF DeliveryInv, Truthful, HeldTruthful
    <3>6. res = "consumed" => Delivered(m)'
      BY <1>3, <3>5 DEF Delivered
    <3>7. UpGood(k)'
      BY <1>3, <3>3, <3>4, <3>6 DEF UpGood
    <3>8. Emit(p, k)
      BY <2>2, <3>1, <3>2 DEF HandleCancel
    <3>9. UpOK
      BY <3>7, <3>8, EmitRange DEF DeliveryInv
    <3>10. held' = held \/ held' = [held EXCEPT ![p][m] = "none"]
      BY <2>2, Zenon DEF HandleCancel
    <3>11. HeldOK
      BY <3>4, <3>10, HeldUpdated DEF DeliveryInv, Held
    <3> QED
      BY <3>9, <3>11
  <2>3. ASSUME NEW m \in pkt.ms, HandleRetry(p, pkt, m)
        PROVE  UpOK /\ HeldOK
    <3>1. UpOK
      BY <2>3, PlainEmit DEF HandleRetry, DeliveryInv
    <3>2. held' = [held EXCEPT ![p][m] = "pending"] \/ held' = held
      BY <2>3 DEF HandleRetry
    <3>3. HeldOK
      BY <1>4, <3>2, HeldUpdated DEF DeliveryInv, Held
    <3> QED
      BY <3>1, <3>3
  <2>4. ASSUME NEW m \in pkt.ms, HandleSteerAnswer(p, pkt, m)
        PROVE  UpOK /\ HeldOK
    <3>1. UNCHANGED toHub \/ Hold(p, m) \/ RestoreQueued(p, m)
      BY <2>4 DEF HandleSteerAnswer
    <3>2. Hold(p, m) => UpOK
      BY PlainEmit DEF Hold, DeliveryInv
    <3>3. RestoreQueued(p, m) => UpOK
      BY PlainEmit DEF RestoreQueued, DeliveryInv
    <3>4. \/ held' = held
          \/ \E h \in Held \ {"committed"} : held' = [held EXCEPT ![p][m] = h]
      BY <2>4 DEF HandleSteerAnswer, Hold, RestoreQueued, Held, Dispatching
    <3>5. HeldOK
      BY <1>4, <3>4, HeldUpdated DEF DeliveryInv
    <3> QED
      BY <3>1, <3>2, <3>3, <3>5
  <2> QED
    BY <1>1, <2>1, <2>2, <2>3, <2>4 DEF CliReceive
<1> QED
  BY <1>2, <1>3, <1>5, QuietStep

\* Collect preserves the delivery invariant.
LEMMA InvCollect ==
  ASSUME DeliveryInv, NEW p \in Procs, NEW ms \in SUBSET Messages, Collect(p, ms)
  PROVE  Truthful'
<1>1. UNCHANGED <<row, ops, swept, toCli>>
  BY DEF Collect, hubVars
<1>2. /\ held \in [Procs -> [Messages -> Held]]
      /\ taken \in [Procs -> [Messages -> Nat]]
  BY DEF DeliveryInv, TypeOK, CliTypeOK, HistoryTypeOK
<1>3. \A q \in Procs, m \in Messages :
        /\ held'[q][m] = "committed" => held[q][m] = "committed"
        /\ taken[q][m] > 0 => taken'[q][m] > 0
  BY <1>2 DEF Collect
<1>4. \A m \in ms : taken'[p][m] > 0
  BY <1>2 DEF Collect
<1>5. PICK k : k = Pkt("consumed", ms, 0, "nil")
  OBVIOUS
<1>6. UpGood(k)'
  <2>1. k.t = "consumed" /\ k.ms = ms
    BY <1>5 DEF Pkt
  <2>2. \A m \in ms : Delivered(m)'
    BY <1>4 DEF Delivered
  <2> QED
    BY <2>1, <2>2 DEF UpGood
<1>7. Emit(p, k)
  BY <1>5 DEF Collect
<1>8. \A q \in Procs : \A x \in Range(toHub'[q]) : x \in Range(toHub[q]) \/ UpGood(x)'
  BY <1>6, <1>7, EmitRange DEF DeliveryInv
<1> QED
  BY <1>1, <1>3, <1>8, QuietStep

\* Steer preserves the delivery invariant.
LEMMA InvSteer ==
  ASSUME DeliveryInv, NEW p \in Procs, NEW m \in Messages, Steer(p, m)
  PROVE  Truthful'
<1>1. UNCHANGED <<row, ops, swept, taken, toCli>>
  BY DEF Steer, hubVars
<1>2. \A q \in Procs : \A x \in Range(toHub'[q]) : x \in Range(toHub[q]) \/ UpGood(x)'
  BY PlainEmit DEF Steer, DeliveryInv
<1>3. \A q \in Procs, x \in Messages : held'[q][x] = "committed" => held[q][x] = "committed"
  BY HeldUpdated DEF Steer, DeliveryInv, Held, Dispatching
<1> QED
  BY <1>1, <1>2, <1>3, QuietStep

\* SteerTimeout preserves the delivery invariant.
LEMMA InvSteerTimeout ==
  ASSUME DeliveryInv, NEW p \in Procs, NEW m \in Messages, SteerTimeout(p, m)
  PROVE  Truthful'
<1>1. UNCHANGED <<row, ops, swept, taken, toCli>>
  BY DEF SteerTimeout, hubVars, history
<1>2. \A q \in Procs, x \in Messages : held'[q][x] = "committed" => held[q][x] = "committed"
  BY HeldUpdated DEF SteerTimeout, DeliveryInv, Held
<1>3. PICK k : k = Pkt("indeterminate", {m}, 0, "nil")
  OBVIOUS
<1>4. UpGood(k)'
  BY <1>3 DEF Pkt, UpGood
<1>5. toHub \in [Procs -> Seq(UpPacket)]
  BY DEF DeliveryInv, TypeOK, NetTypeOK
<1>6. PICK s : s = Withdraw(p, attempt[p][m])
  OBVIOUS
<1>7. s \in Seq(UpPacket) /\ Range(s) \subseteq Range(toHub[p])
  <2>1. Withdraw(p, attempt[p][m]) \in Seq(UpPacket)
    BY WithdrawType DEF DeliveryInv, TypeOK
  <2>2. Range(Withdraw(p, attempt[p][m])) \subseteq Range(toHub[p])
    BY WithdrawRange DEF DeliveryInv
  <2> QED
    BY <1>6, <2>1, <2>2
<1>8. toHub' = [toHub EXCEPT ![p] = Append(s, k)]
  BY <1>3, <1>6 DEF SteerTimeout
<1>9. Range(Append(s, k)) \subseteq Range(s) \cup {k}
  BY <1>7 DEF Range
<1>10. \A q \in Procs : \A x \in Range(toHub'[q]) : x \in Range(toHub[q]) \/ UpGood(x)'
  BY <1>4, <1>5, <1>7, <1>8, <1>9
<1> QED
  BY <1>1, <1>2, <1>10, QuietStep

\* SteerCompleted preserves the delivery invariant.
LEMMA InvSteerCompleted ==
  ASSUME DeliveryInv, NEW p \in Procs, NEW m \in Messages, SteerCompleted(p, m)
  PROVE  Truthful'
<1>1. UNCHANGED <<row, ops, swept, toCli>>
  BY DEF SteerCompleted, hubVars
<1>2. /\ held \in [Procs -> [Messages -> Held]]
      /\ taken \in [Procs -> [Messages -> Nat]]
  BY DEF DeliveryInv, TypeOK, CliTypeOK, HistoryTypeOK
<1>3. taken'[p][m] > 0 /\ Delivered(m)'
  BY <1>2 DEF SteerCompleted, Delivered
<1>4. \A q \in Procs, x \in Messages : taken[q][x] > 0 => taken'[q][x] > 0
  BY <1>2 DEF SteerCompleted
<1>5. \A q \in Procs, x \in Messages :
        held'[q][x] = "committed" => held[q][x] = "committed" \/ Delivered(x)'
  <2>1. held' = [held EXCEPT ![p][m] = "committed"]
    BY DEF SteerCompleted
  <2>2. \A q \in Procs, x \in Messages : x # m => held'[q][x] = held[q][x]
    BY <1>2, <2>1
  <2>3. \A q \in Procs, x \in Messages : x = m => Delivered(x)'
    BY <1>3
  <2> QED
    BY <2>2, <2>3
<1>6. PICK k : k = Pkt("consumed", {m}, 0, "nil")
  OBVIOUS
<1>7. UpGood(k)'
  <2>1. k.t = "consumed" /\ k.ms = {m}
    BY <1>6 DEF Pkt
  <2> QED
    BY <1>3, <2>1 DEF UpGood
<1>8. Emit(p, k)
  BY <1>6 DEF SteerCompleted
<1>9. \A q \in Procs : \A x \in Range(toHub'[q]) : x \in Range(toHub[q]) \/ UpGood(x)'
  BY <1>7, <1>8, EmitRange DEF DeliveryInv
<1> QED
  BY <1>1, <1>4, <1>5, <1>9, QuietStep

\* A rejected steer goes back to the queue, a lost one is held as unknown.
LEMMA InvSteerUndone ==
  ASSUME DeliveryInv, NEW p \in Procs, NEW m \in Messages, RestoreQueued(p, m) \/ Hold(p, m),
         UNCHANGED <<row, ops, swept, taken, toCli>>
  PROVE  Truthful'
<1>1. UNCHANGED toHub \/ \E t \in {"indeterminate", "steerState"} : \E ms, id, st : Emit(p, Pkt(t, ms, id, st))
  BY DEF RestoreQueued, Hold
<1>2. \A q \in Procs : \A x \in Range(toHub'[q]) : x \in Range(toHub[q]) \/ UpGood(x)'
  BY <1>1, PlainEmit DEF DeliveryInv
<1>3. \E h \in Held \ {"committed"} : held' = [held EXCEPT ![p][m] = h]
  BY DEF RestoreQueued, Hold, Held, Dispatching
<1>4. \A q \in Procs, x \in Messages : held'[q][x] = "committed" => held[q][x] = "committed"
  BY <1>3, HeldUpdated DEF DeliveryInv
<1> QED
  BY <1>2, <1>4, QuietStep

\* Steps of the link and of the process: packets and reservations only get lost,
\* or an event is emitted that claims nothing.
LEMMA InvLink ==
  ASSUME DeliveryInv, NEW p \in Procs, UNCHANGED <<row, ops, swept, taken>>,
         \/ UNCHANGED toHub
         \/ toHub' = [toHub EXCEPT ![p] = <<>>]
         \/ \E t \in {"alive", "end"} : Emit(p, Pkt(t, {}, 0, "nil")),
         UNCHANGED toCli \/ toCli' = [toCli EXCEPT ![p] = <<>>],
         \A q \in Procs, m \in Messages : held'[q][m] = "committed" => held[q][m] = "committed"
  PROVE  Truthful'
<1>1. toHub \in [Procs -> Seq(UpPacket)] /\ toCli \in [Procs -> Seq(DownPacket)]
  BY DEF DeliveryInv, TypeOK, NetTypeOK
<1>2. Range(<<>>) = {}
  BY DEF Range
<1>3. \A q \in Procs : \A k \in Range(toHub'[q]) : k \in Range(toHub[q]) \/ UpGood(k)'
  <2>1. CASE UNCHANGED toHub \/ toHub' = [toHub EXCEPT ![p] = <<>>]
    BY <1>1, <1>2, <2>1
  <2>2. CASE \E t \in {"alive", "end"} : Emit(p, Pkt(t, {}, 0, "nil"))
    BY <2>2, PlainEmit DEF DeliveryInv
  <2> QED
    BY <2>1, <2>2
<1>4. \A q \in Procs : \A k \in Range(toCli'[q]) : k \in Range(toCli[q])
  BY <1>1, <1>2
<1> QED
  BY <1>3, <1>4, QuietStep

\* Every step preserves the delivery invariant.
LEMMA InvStep ==
  ASSUME DeliveryInv, [Next]_vars
  PROVE  Truthful'
<1> USE DEF hubVars, netVars, cliVars, bounds, history
<1>1. CASE HubNext
  <2>1. ASSUME NEW m \in Messages, ResendMessage(m)
        PROVE  Truthful'
    BY <2>1, InvReplay DEF ResendMessage
  <2>2. ASSUME NEW m \in Messages, Mature(m)
        PROVE  Truthful'
    BY <2>2, QuietStep DEF Mature
  <2>3. ASSUME ReleaseMature
        PROVE  Truthful'
    BY <2>3, InvReplay DEF ReleaseMature
  <2> QED
    BY <1>1, <2>1, <2>2, <2>3, InvSendMessage, InvCancel, InvRetry, InvOpTimeout,
       InvHubReceive DEF HubNext
<1>2. ASSUME NEW p \in Procs, CliNext(p)
      PROVE  Truthful'
  <2> USE <1>2
  <2>1. CASE Abort(p)
    <3>1. held \in [Procs -> [Messages -> Held]]
      BY DEF DeliveryInv, TypeOK, CliTypeOK
    <3>2. \A q \in Procs, m \in Messages : held'[q][m] = "committed" => held[q][m] = "committed"
      BY <2>1, <3>1 DEF Abort
    <3> QED
      BY <2>1, <3>2, InvLink DEF Abort
  <2>2. CASE KeepAlive(p)
    BY <2>2, InvLink DEF KeepAlive
  <2>3. CASE FetchBackfill(p)
    BY <2>3, InvLink DEF FetchBackfill
  <2>4. CASE ApplyBackfill(p)
    <3>1. held \in [Procs -> [Messages -> Held]]
      BY DEF DeliveryInv, TypeOK, CliTypeOK
    <3>2. \A q \in Procs, m \in Messages : held'[q][m] = "committed" => held[q][m] = "committed"
      BY <2>4, <3>1 DEF ApplyBackfill, Accept
    <3> QED
      BY <2>4, <3>2, InvLink DEF ApplyBackfill
  <2>5. ASSUME NEW m \in Messages, SteerRejected(p, m) \/ SteerUnknown(p, m)
        PROVE  Truthful'
    BY <2>5, InvSteerUndone DEF SteerRejected, SteerUnknown
  <2> QED
    BY <2>1, <2>2, <2>3, <2>4, <2>5, InvCliReceive, InvCollect, InvSteer, InvSteerTimeout,
       InvSteerCompleted DEF CliNext
<1>3. ASSUME NEW p \in Procs, LinkNext(p)
      PROVE  Truthful'
  <2>1. CASE Start(p)
    BY <2>1, InvLink DEF Start
  <2>2. CASE Connect(p)
    BY <2>2, InvLink DEF Connect
  <2>3. CASE Drop(p)
    BY <2>3, InvLink DEF Drop
  <2>4. CASE Crash(p) \/ End(p)
    <3>1. \A q \in Procs, m \in Messages : held'[q][m] = "committed" => held[q][m] = "committed"
      <4>1. held' = [held EXCEPT ![p] = [m \in Messages |-> "none"]]
        BY <2>4 DEF Crash, End, Forget
      <4>2. held \in [Procs -> [Messages -> Held]]
        BY DEF DeliveryInv, TypeOK, CliTypeOK
      <4> QED
        BY <4>1, <4>2
    <3>2. \/ UNCHANGED toHub
          \/ toHub' = [toHub EXCEPT ![p] = <<>>]
          \/ Emit(p, Pkt("end", {}, 0, "nil"))
      BY <2>4 DEF Crash, End
    <3>3. toCli' = [toCli EXCEPT ![p] = <<>>] /\ UNCHANGED <<row, ops, swept, taken>>
      BY <2>4 DEF Crash, End, Forget
    <3> QED
      BY <3>1, <3>2, <3>3, InvLink
  <2>5. CASE HubDisconnect(p)
    BY <2>5, InvLink DEF HubDisconnect
  <2> QED
    BY <1>3, <2>1, <2>2, <2>3, <2>4, <2>5 DEF LinkNext
<1>4. CASE UNCHANGED vars
  BY <1>4, QuietStep DEF vars
<1> QED
  BY <1>1, <1>2, <1>3, <1>4 DEF Next

\* It holds initially.
LEMMA InvInit == Init => Truthful
<1> SUFFICES ASSUME Init PROVE Truthful
  OBVIOUS
<1>1. \A p \in Procs : Range(toHub[p]) = {} /\ Range(toCli[p]) = {}
  BY DEF Init, Range
<1> QED
  BY <1>1 DEF Init, Truthful, InvokedWasTaken, UpTruthful, DownTruthful, OpsTruthful, HeldTruthful

\* No row is ever stamped invoked without a delivery by some launcher or the
\* sweep at a session's end, for any number of messages, processes, requests,
\* lost connections, restarts, repeated sends and aborts.
THEOREM DeliveryTruthful == Spec => []InvokedWasTaken
<1>1. Init => DeliveryInv
  BY TypeInit, InvInit DEF DeliveryInv
<1>2. DeliveryInv /\ [Next]_vars => DeliveryInv'
  BY TypeStep, InvStep DEF DeliveryInv
<1>3. DeliveryInv => InvokedWasTaken
  BY DEF DeliveryInv, Truthful
<1> QED
  BY <1>1, <1>2, <1>3, PTL DEF Spec
============================================================================
