--------------------- MODULE PermissionRequestsProofs ---------------------
(***************************************************************************)
(* Proofs about PermissionRequests, for any set of requests and processes  *)
(* and any bounds: its invariants, and that it implements PermissionLife.  *)
(***************************************************************************)
EXTENDS PermissionRequests, TLAPS

---------------------------------------------------------------------------
(* The inductive invariant.                                                *)

Calls == {NoCall, [at |-> "sent"]} \cup [at: {"buffered"}, state: State]
Records(r) == {Record(r, s): s \in {"approved", "denied"}} \cup {AutoRecord(r, s): s \in {"approved", "canceled"}}
InQueue(p, updates) == \E i \in DOMAIN queue[p]: queue[p][i] \in updates

\* The types, with sequences as sequences.
Types ==
    /\ row \in State /\ open \subseteq 1..lastSock /\ registered \in open \cup {0}
    /\ uplink \subseteq [sock: open, state: State]
    /\ phase \in [Proc -> {"idle", "up", "down"}] /\ mirror \in [Proc -> State]
    /\ sock \in [Proc -> open \cup {0}] /\ \A p \in Proc: phase[p] # "up" => sock[p] = 0
    /\ downlink \in [Proc -> Seq(Packets)] /\ queue \in [Proc -> Seq(Update)] /\ call \in [Proc -> Calls]
    /\ asked \in [Req -> Proc \cup {None}]
    /\ waiting \in [Proc -> SUBSET Req] /\ pending \in [Proc -> SUBSET Req] /\ aborting \in [Proc -> SUBSET Req]
    /\ lastSock \in Nat /\ cuts \in 0..MaxCuts /\ cancels \in 0..MaxCancels
    /\ told \in [Req -> {"allow", "reject", "cancelled", None}] /\ contested \in BOOLEAN

\* A process that is not up has nothing; a socket belongs to one process; an uncontested session
\* has one process up, which its method is registered to.
Connections ==
    /\ \A p \in Proc: /\ phase[p] # "up" => queue[p] = <<>> /\ call[p] = NoCall
                      /\ phase[p] # "up" => waiting[p] = {} /\ pending[p] = {} /\ aborting[p] = {}
                      /\ sock[p] = 0 => downlink[p] = <<>>
                      /\ \A q \in Proc: sock[p] = sock[q] /\ sock[p] # 0 => p = q
    /\ ~contested => \A p, q \in Proc: phase[p] = "up" /\ phase[q] = "up" => p = q
    /\ AnswersReachTheProcess

\* A state that left the hub is the row's if it has its version.
Current(state) == state.version <= row.version /\ (state.version = row.version => state = row)
Mirrors ==
    \A p \in Proc: /\ Current(mirror[p])
                   /\ \A i \in DOMAIN downlink[p]: downlink[p][i].kind # "answer" => Current(downlink[p][i].state)

\* A process has at most one update under way, on its way to the hub or answered.
Acks(p) == {i \in DOMAIN downlink[p]: downlink[p][i].kind \in {"success", "mismatch"}}
Sent(p) == {m \in uplink: m.sock = sock[p]}
OneCall(p) ==
    /\ call[p].at # "sent" => Acks(p) = {} /\ Sent(p) = {}
    /\ Sent(p) # {} => Acks(p) = {}
    /\ \A i, j \in Acks(p): i = j
    /\ \A m, n \in Sent(p): m = n
    /\ call[p].at # "none" => queue[p] # <<>>
OneCalls == \A p \in Proc: OneCall(p)

Owns(p, u) == u.kind # "cancel" => asked[u.id] = p
Succeeded(p) == \E i \in DOMAIN downlink[p]: downlink[p][i].kind = "success"

\* A state on its way to the hub that will be stored is an update applied to the row, the first
\* in the queue of its process if that is still up.
LifeOf(state, r) == IF r \in state.requests THEN "asked"
                    ELSE IF state.completed[r] = None THEN "new" ELSE state.completed[r]
LiveStep(r, old, new) ==
    \/ new = old
    \/ old = "new" /\ new = "asked"
    \/ old \in {"new", "asked"} /\ new = "approved" /\ told[r] = "allow"
    \/ old = "new" /\ new = "canceled" /\ told[r] = "cancelled"
    \/ old = "asked" /\ new = "canceled"
    \/ old \in {"asked", "canceled"} /\ new = "denied" /\ told[r] \in {"reject", "cancelled"}
Write(q, u, state) ==
    /\ Owns(q, u) /\ state = Apply(u, row)
    /\ phase[q] # "idle"
    /\ phase[q] = "up" => queue[q] # <<>> /\ u = Head(queue[q]) /\ ~Succeeded(q)
    /\ ~contested => /\ \A r \in Req: LiveStep(r, LifeOf(row, r), LifeOf(state, r))
                     /\ phase[q] # "up" => \A r \in row.requests: phase[asked[r]] # "up"
Stores(q, u, state) ==
    /\ state.version <= row.version
    /\ state.version = row.version => Write(q, u, state)
Writes ==
    /\ \A m \in uplink: \E q \in Proc, u \in Update: Stores(q, u, m.state)
    /\ \A p \in Proc: /\ \A m \in Sent(p): Stores(p, Head(queue[p]), m.state)
                      /\ call[p].at = "buffered" => Stores(p, Head(queue[p]), call[p].state)

\* The row shows an update that succeeded and is not off the queue yet.
Absorbed(p, u) ==
    /\ u.kind \in {"record", "auto"} => u.id \notin row.requests /\ row.completed[u.id] = u.status
    /\ u.kind = "ask" => u.id \in row.requests \/ (contested /\ row.completed[u.id] = "canceled")
    /\ u.kind = "cancel" => \A r \in row.requests: asked[r] # p
Acknowledged == \A p \in Proc: Succeeded(p) => Absorbed(p, Head(queue[p]))

\* What a process has in its queue is about its own requests: a request is asked once, and recorded
\* after it is asked.  What its agent was told automatically was never asked.
Queue(p) ==
    /\ \A i \in DOMAIN queue[p]: Owns(p, queue[p][i])
    /\ \A i, j \in DOMAIN queue[p], r \in Req:
          queue[p][i] = Ask(r) /\ queue[p][j] \in {Ask(r)} \cup Records(r) => i <= j
    /\ \A i \in DOMAIN queue[p], r \in Req:
          queue[p][i] = Ask(r) /\ i # 1 => r \notin row.requests /\ row.completed[r] = None
    /\ \A i, j \in DOMAIN queue[p], r \in Req, s \in Status:
          queue[p][i] = AutoRecord(r, s) => /\ r \notin row.requests
                                            /\ queue[p][j].kind \in {"ask", "record"} => queue[p][j].id # r
Queues == \A p \in Proc: Queue(p)

\* A request that was not asked yet.
Unasked(r) == asked[r] = None => r \notin row.requests /\ row.completed[r] = None /\ told[r] = None

\* A request that was asked and whose agent was not told.
Untold(p, r) ==
    asked[r] = p /\ told[r] = None =>
        /\ ~InQueue(p, Records(r))
        /\ r \in row.requests \/ InQueue(p, {Ask(r)}) \/ row.completed[r] = "canceled"
        /\ row.completed[r] \in {None, "canceled"}

\* A request whose agent was told: what is queued, or on record, agrees with it.
Fit(status, outcome) ==
    \/ outcome = "allow" /\ status = "approved"
    \/ outcome = "reject" /\ status = "denied"
    \/ outcome = "cancelled" /\ status \in {"denied", "canceled"}
Told(p, r) ==
    asked[r] = p /\ told[r] # None =>
        /\ \A i \in DOMAIN queue[p]: queue[p][i] \in Records(r) => Fit(queue[p][i].status, told[r])
        /\ \A j \in DOMAIN queue[p]: queue[p][j] = Ask(r) =>
              \E i \in DOMAIN queue[p]:
                 i > j /\ (queue[p][i] \in Records(r) \/ (told[r] = "cancelled" /\ queue[p][i] = CancelRequests))
        /\ ~InQueue(p, {Ask(r)}) =>
              \/ InQueue(p, Records(r))
              \/ r \notin row.requests /\ Fit(row.completed[r], told[r])
              \/ /\ told[r] = "cancelled" /\ InQueue(p, {CancelRequests})
                 /\ r \in row.requests \/ Fit(row.completed[r], told[r])

Requests ==
    /\ \A r \in Req: Unasked(r)
    /\ \A p \in Proc, r \in Req: /\ phase[p] = "up" => Untold(p, r) /\ Told(p, r)
                                 /\ asked[r] = p => phase[p] # "idle"
    /\ \A p \in Proc: /\ \A r \in pending[p] \cup aborting[p]: asked[r] = p /\ told[r] = None
                      /\ waiting[p] \subseteq pending[p] \cup aborting[p] /\ pending[p] \cap aborting[p] = {}

\* While one process runs the session: a request the user can still answer is shown or about to be,
\* with no cancellation behind it, and what is queued for a request continues its life.
Uncontested(p, r) ==
    /\ InQueue(p, {Ask(r)}) => row.completed[r] = None
    /\ r \in pending[p] =>
          \/ \E i \in DOMAIN queue[p]: /\ queue[p][i] = Ask(r)
                                       /\ \A j \in DOMAIN queue[p]: j > i => queue[p][j] # CancelRequests
          \/ r \in row.requests /\ ~InQueue(p, {CancelRequests})
    /\ \A k \in DOMAIN queue[p]:
          /\ queue[p][k] = Record(r, "approved") =>
                \/ \E i \in 1..k - 1: /\ queue[p][i] = Ask(r)
                                      /\ \A j \in i..k: queue[p][j] # CancelRequests
                \/ r \in row.requests /\ \A j \in 1..k: queue[p][j] # CancelRequests
                \/ r \notin row.requests /\ row.completed[r] = "approved"
          /\ queue[p][k] = Record(r, "denied") =>
                \/ \E i \in 1..k - 1: queue[p][i] = Ask(r)
                \/ r \in row.requests
                \/ row.completed[r] \in {"canceled", "denied"}
          /\ \A s \in Status: queue[p][k] = AutoRecord(r, s) => row.completed[r] \in {None, s}
Lives == ~contested => \A p \in Proc, r \in Req: phase[p] = "up" /\ asked[r] = p => Uncontested(p, r)

IInv == /\ Types /\ Connections /\ Mirrors /\ OneCalls /\ Writes /\ Acknowledged /\ Queues /\ Requests /\ Lives

---------------------------------------------------------------------------
(* Updates.                                                                *)

\* The four kinds of updates.
LEMMA Kinds ==
  ASSUME NEW u \in Update
  PROVE  /\ u.kind \in {"ask", "record", "auto", "cancel"}
         /\ u.kind = "ask" => u.id \in Req /\ u = Ask(u.id)
         /\ u.kind = "record" => u.id \in Req /\ u.status \in {"approved", "denied"} /\ u = Record(u.id, u.status)
         /\ u.kind = "auto" => u.id \in Req /\ u.status \in {"approved", "canceled"} /\ u = AutoRecord(u.id, u.status)
         /\ u.kind = "cancel" => u = CancelRequests
BY DEF Update, Ask, Record, AutoRecord, CancelRequests

\* What the constructors make.
LEMMA Fields ==
  ASSUME NEW r, NEW s
  PROVE  /\ Ask(r).kind = "ask" /\ Ask(r).id = r
         /\ Record(r, s).kind = "record" /\ Record(r, s).id = r /\ Record(r, s).status = s
         /\ AutoRecord(r, s).kind = "auto" /\ AutoRecord(r, s).id = r /\ AutoRecord(r, s).status = s
         /\ CancelRequests.kind = "cancel" /\ CancelRequests.status = "canceled"
BY DEF Ask, Record, AutoRecord, CancelRequests

\* What a process enqueues.
LEMMA Made ==
  ASSUME NEW r \in Req
  PROVE  /\ Ask(r) \in Update /\ CancelRequests \in Update
         /\ \A s \in {"approved", "denied"}: Record(r, s) \in Update
         /\ \A s \in {"approved", "canceled"}: AutoRecord(r, s) \in Update
BY DEF Update

\* A cancellation needs no request.
LEMMA CancelMade == CancelRequests \in Update /\ <<CancelRequests>> \in Seq(Update)
<1>1. CancelRequests \in Update
  BY DEF Update
<1> QED
  BY <1>1

\* The same as sequences.
LEMMA MadeSeqs ==
  ASSUME NEW r \in Req
  PROVE  /\ <<Ask(r)>> \in Seq(Update) /\ <<CancelRequests>> \in Seq(Update)
         /\ \A s \in {"approved", "denied"}: /\ <<Record(r, s)>> \in Seq(Update)
                                             /\ <<CancelRequests, Record(r, s)>> \in Seq(Update)
         /\ \A s \in {"approved", "canceled"}: <<AutoRecord(r, s)>> \in Seq(Update)
BY Made

\* The records of a request.
LEMMA RecordsAre ==
  ASSUME NEW u \in Update, NEW r \in Req
  PROVE  u \in Records(r) <=> u.kind \in {"record", "auto"} /\ u.id = r
BY Kinds, Fields DEF Records

\* An update changes the requests and what is on record of them.
LEMMA Applied ==
  ASSUME NEW u \in Update, NEW state \in State
  PROVE  /\ Apply(u, state) \in State /\ Apply(u, state).version = state.version
         /\ Apply(u, state).requests = IF u.kind = "ask" THEN state.requests \cup {u.id}
                                       ELSE IF u.kind = "record" THEN state.requests \ {u.id}
                                       ELSE IF u.kind = "auto" THEN state.requests ELSE {}
         /\ \A r \in Req: Apply(u, state).completed[r] =
                             IF \/ u.kind \in {"record", "auto"} /\ r = u.id
                                \/ u.kind = "cancel" /\ r \in state.requests
                             THEN u.status ELSE state.completed[r]
<1> DEFINE requests == CASE u.kind = "ask" -> state.requests \cup {u.id}
                         [] u.kind = "record" -> state.requests \ {u.id}
                         [] u.kind = "auto" -> state.requests
                         [] u.kind = "cancel" -> {}
           completed == [r \in Req |->
                           IF \/ u.kind \in {"record", "auto"} /\ r = u.id
                              \/ u.kind = "cancel" /\ r \in state.requests
                           THEN u.status ELSE state.completed[r]]
<1>1. requests = IF u.kind = "ask" THEN state.requests \cup {u.id}
                 ELSE IF u.kind = "record" THEN state.requests \ {u.id}
                 ELSE IF u.kind = "auto" THEN state.requests ELSE {}
  BY Kinds
<1>2. requests \in SUBSET Req
  BY <1>1, Kinds DEF State
<1>3. completed \in [Req -> Status \cup {None}]
  BY Kinds, Fields DEF State, Status
<1>4. Apply(u, state) = [state EXCEPT !.requests = requests, !.completed = completed]
  BY DEF Apply, State
<1> HIDE DEF requests
<1>5. /\ Apply(u, state).completed = completed /\ Apply(u, state).requests = requests
      /\ Apply(u, state) \in State /\ Apply(u, state).version = state.version
  <2> HIDE DEF completed
  <2> QED
    BY <1>2, <1>3, <1>4 DEF State
<1> QED
  BY <1>1, <1>5

---------------------------------------------------------------------------
(* Steps and types.                                                        *)

\* The steps, by what they are about.
NetStep == \E p \in Proc: Start(p) \/ Stop(p) \/ Connect(p) \/ Cut(p)
StateStep == \/ \E s \in open: HubDrop(s)
             \/ \E m \in uplink: HubUpdate(m)
             \/ \E p \in Proc: Emit(p) \/ TakeAck(p) \/ TakeUpdate(p)
AgentStep == \/ \E p \in Proc: TakeAnswer(p) \/ CancelAll(p)
             \/ \E p \in Proc, r \in Req: AgentAsks(p, r) \/ AutoApprove(p, r) \/ AbortSettles(p, r)
             \/ \E r \in Req, answer \in {"approve", "deny", "abort"}: AnswerFromWeb(r, answer)

\* Packets the hub sends.
LEMMA PacketsMade ==
  ASSUME NEW state \in State, NEW r \in Req, NEW answer \in {"approve", "deny", "abort"}
  PROVE  /\ [kind |-> "success", state |-> state] \in Packets
         /\ [kind |-> "mismatch", state |-> state] \in Packets
         /\ [kind |-> "update", state |-> state] \in Packets
         /\ [kind |-> "answer", id |-> r, answer |-> answer] \in Packets
BY DEF Packets

\* What a packet carries.
LEMMA PacketsAre ==
  ASSUME NEW k \in Packets
  PROVE  /\ k.kind \in {"success", "mismatch", "update", "answer"}
         /\ k.kind # "answer" => k.state \in State
         /\ k.kind = "answer" => k.id \in Req /\ k.answer \in {"approve", "deny", "abort"}
BY DEF Packets

\* What a call can be.
LEMMA CallsMade ==
  ASSUME NEW state \in State
  PROVE  /\ NoCall \in Calls /\ [at |-> "sent"] \in Calls /\ [at |-> "buffered", state |-> state] \in Calls
         /\ \A c \in Calls: /\ c.at \in {"none", "sent", "buffered"}
                            /\ c.at = "buffered" => c.state \in State
BY DEF Calls, NoCall

\* Compare and set makes a state.
LEMMA CasType ==
  ASSUME row \in State, NEW state \in State
  PROVE  Cas(state.version, state) \in State
BY DEF Cas, State

\* The first packet, and what is behind it.
LEMMA FirstPacket ==
  ASSUME Types, NEW p \in Proc, downlink[p] # <<>>
  PROVE  /\ Head(downlink[p]) \in Packets /\ Tail(downlink[p]) \in Seq(Packets)
         /\ [downlink EXCEPT ![p] = Tail(@)] \in [Proc -> Seq(Packets)]
BY DEF Types

\* Enqueued updates.
LEMMA EnqueueType ==
  ASSUME Types, NEW p \in Proc, NEW us \in Seq(Update), Enqueue(p, us)
  PROVE  queue' \in [Proc -> Seq(Update)]
BY DEF Types, Enqueue

\* Agents that are told.
LEMMA TellType ==
  ASSUME Types, NEW R, NEW outcome \in {"allow", "reject", "cancelled"}, Tell(R, outcome)
  PROVE  told' \in [Req -> {"allow", "reject", "cancelled", None}]
BY DEF Types, Tell

\* A set of requests of a process with one more or one less.
LEMMA SetsType ==
  ASSUME NEW f \in [Proc -> SUBSET Req], NEW p \in Proc, NEW r \in Req
  PROVE  /\ [f EXCEPT ![p] = @ \ {r}] \in [Proc -> SUBSET Req]
         /\ [f EXCEPT ![p] = @ \cup {r}] \in [Proc -> SUBSET Req]
<1>1. f[p] \ {r} \in SUBSET Req /\ f[p] \cup {r} \in SUBSET Req
  OBVIOUS
<1> QED
  BY <1>1

\* The connections and processes.
LEMMA TypesNet ==
  ASSUME Types, NetStep
  PROVE  Types'
<1> SUFFICES ASSUME NEW p \in Proc, Start(p) \/ Stop(p) \/ Connect(p) \/ Cut(p)
             PROVE  Types'
  BY DEF NetStep
<1> USE DEF Types, hubVars, netVars, cliVars, agentVars
<1>1. CASE Start(p)
  BY <1>1 DEF Start
<1>2. CASE Stop(p)
  <2>1. NoCall \in Calls /\ <<>> \in Seq(Packets) /\ <<>> \in Seq(Update)
    BY DEF Calls
  <2> QED
    BY <1>2, <2>1 DEF Stop
<1>3. CASE Connect(p)
  <2>1. open' \subseteq 1..lastSock' /\ lastSock' \in Nat /\ lastSock' \in open' /\ open \subseteq open'
    BY <1>3 DEF Connect
  <2>2. sock' \in [Proc -> open' \cup {0}] /\ registered' \in open' \cup {0}
    BY <1>3, <2>1 DEF Connect
  <2>3. call' \in [Proc -> Calls] /\ uplink' \subseteq [sock: open', state: State]
    <3>1. call[p] \in Calls
      OBVIOUS
    <3>2. CASE call[p].at = "buffered"
      <4>1. /\ uplink' = uplink \cup {[sock |-> lastSock + 1, state |-> call[p].state]}
            /\ call' = [call EXCEPT ![p] = [at |-> "sent"]]
        BY <1>3, <3>2 DEF Connect
      <4>2. call[p].state \in State /\ [at |-> "sent"] \in Calls
        BY <3>1, <3>2, CallsMade
      <4>3. call' \in [Proc -> Calls]
        BY <4>1, <4>2
      <4>4. lastSock + 1 \in open'
        BY <1>3 DEF Connect
      <4>5. [sock |-> lastSock + 1, state |-> call[p].state] \in [sock: open', state: State]
        BY <4>2, <4>4
      <4>6. uplink \subseteq [sock: open', state: State]
        BY <2>1
      <4> QED
        BY <4>1, <4>3, <4>5, <4>6
    <3>3. CASE call[p].at # "buffered"
      <4>1. uplink' = uplink /\ call' = call
        BY <1>3, <3>3 DEF Connect
      <4> QED
        BY <2>1, <4>1
    <3> QED
      BY <3>2, <3>3
  <2> QED
    BY <1>3, <2>1, <2>2, <2>3 DEF Connect
<1>4. CASE Cut(p)
  <2>1. NoCall \in Calls /\ <<>> \in Seq(Packets) /\ cuts + 1 \in 0..MaxCuts
    BY <1>4, BoundsAssumption DEF Calls, Cut
  <2> QED
    BY <1>4, <2>1 DEF Cut
<1> QED
  BY <1>1, <1>2, <1>3, <1>4

\* The versioned state.
LEMMA TypesState ==
  ASSUME Types, StateStep
  PROVE  Types'
<1>1. CASE \E s \in open: HubDrop(s)
  <2>1. PICK s \in open: HubDrop(s)
    BY <1>1
  <2>2. \A p \in Proc: sock[p] # s
    BY <2>1 DEF HubDrop, Procs, Types
  <2> QED
    BY <2>1, <2>2 DEF HubDrop, Types, netVars, cliVars, agentVars
<1>2. CASE \E m \in uplink: HubUpdate(m)
  <2>1. PICK m \in uplink: HubUpdate(m)
    BY <1>2
  <2>2. row' \in State /\ row' = Cas(m.state.version, m.state)
    BY <2>1, CasType DEF HubUpdate, Types
  <2> DEFINE success == row.version = m.state.version
             To(p) == IF sock[p] = m.sock
                      THEN <<[kind |-> IF success THEN "success" ELSE "mismatch", state |-> row']>>
                      ELSE IF success THEN <<[kind |-> "update", state |-> row']>> ELSE <<>>
  <2>3. downlink' = [p \in Proc |-> IF Connected(p) THEN downlink[p] \o To(p) ELSE downlink[p]]
    BY <2>1, <2>2 DEF HubUpdate
  <2>4. \A p \in Proc: To(p) \in Seq(Packets)
    <3>1. /\ <<[kind |-> "success", state |-> row']>> \in Seq(Packets)
          /\ <<[kind |-> "mismatch", state |-> row']>> \in Seq(Packets)
          /\ <<[kind |-> "update", state |-> row']>> \in Seq(Packets)
          /\ <<>> \in Seq(Packets)
      BY <2>2 DEF Packets
    <3> QED
      BY <3>1
  <2> HIDE DEF To
  <2>5. downlink' \in [Proc -> Seq(Packets)]
    BY <2>3, <2>4 DEF Types
  <2> QED
    BY <2>1, <2>2, <2>5 DEF HubUpdate, Types, cliVars, agentVars
<1>3. ASSUME NEW p \in Proc, Emit(p)
      PROVE  Types'
  <2>1. Head(queue[p]) \in Update
    BY <1>3 DEF Types, Emit
  <2>2. Apply(Head(queue[p]), mirror[p]) \in State
    BY <2>1, Applied DEF Types
  <2>3. call' \in [Proc -> Calls]
    BY <1>3, <2>2, CallsMade DEF Emit, Types
  <2>4. uplink' \subseteq [sock: open, state: State]
    BY <1>3, <2>2 DEF Emit, Types, Connected
  <2> QED
    BY <1>3, <2>3, <2>4 DEF Emit, Types, netVars, agentVars
<1>4. ASSUME NEW p \in Proc, TakeAck(p)
      PROVE  Types'
  <2>1. Head(downlink[p]).state \in State /\ NoCall \in Calls
    BY <1>4, FirstPacket, PacketsAre DEF TakeAck, Calls
  <2>2. queue' \in [Proc -> Seq(Update)]
    <3>1. queue[p] # <<>> => Tail(queue[p]) \in Seq(Update)
      BY DEF Types
    <3>2. Tail(<<>>) = <<>>
      OBVIOUS
    <3> QED
      BY <1>4, <3>1, <3>2 DEF TakeAck, Types
  <2>3. downlink' \in [Proc -> Seq(Packets)]
    BY <1>4, FirstPacket DEF TakeAck
  <2> QED
    BY <1>4, <2>1, <2>2, <2>3 DEF TakeAck, Types, hubVars, agentVars
<1>5. ASSUME NEW p \in Proc, TakeUpdate(p)
      PROVE  Types'
  <2>1. Head(downlink[p]).state \in State /\ downlink' \in [Proc -> Seq(Packets)]
    BY <1>5, FirstPacket, PacketsAre DEF TakeUpdate
  <2> QED
    BY <1>5, <2>1 DEF TakeUpdate, Newer, Types, hubVars, agentVars
<1> QED
  BY <1>1, <1>2, <1>3, <1>4, <1>5 DEF StateStep

\* The agent, the adapter and the web.
LEMMA TypesAgent ==
  ASSUME Types, AgentStep
  PROVE  Types'
<1>1. ASSUME NEW p \in Proc, TakeAnswer(p)
      PROVE  Types'
  <2>1. Head(downlink[p]).id \in Req /\ downlink' \in [Proc -> Seq(Packets)]
    BY <1>1, FirstPacket, PacketsAre DEF TakeAnswer
  <2>2. queue' \in [Proc -> Seq(Update)]
    BY <1>1, <2>1, EnqueueType, MadeSeqs DEF TakeAnswer, Types
  <2>3. told' \in [Req -> {"allow", "reject", "cancelled", None}]
    BY <1>1, TellType DEF TakeAnswer, Types
  <2>4. /\ waiting' \in [Proc -> SUBSET Req] /\ pending' \in [Proc -> SUBSET Req]
        /\ aborting' \in [Proc -> SUBSET Req]
    <3> DEFINE id == Head(downlink[p]).id
    <3>1. /\ waiting' = waiting \/ waiting' = [waiting EXCEPT ![p] = @ \ {id}]
          /\ pending' = pending \/ pending' = [pending EXCEPT ![p] = @ \ {id}]
          /\ aborting' = aborting \/ aborting' = [aborting EXCEPT ![p] = @ \cup {id}]
      BY <1>1 DEF TakeAnswer
    <3>2. /\ id \in Req /\ waiting \in [Proc -> SUBSET Req] /\ pending \in [Proc -> SUBSET Req]
          /\ aborting \in [Proc -> SUBSET Req]
      BY <2>1 DEF Types
    <3> HIDE DEF id
    <3>3. waiting' \in [Proc -> SUBSET Req]
      BY <3>1, <3>2, SetsType
    <3>4. pending' \in [Proc -> SUBSET Req]
      BY <3>1, <3>2, SetsType
    <3>5. aborting' \in [Proc -> SUBSET Req]
      BY <3>1, <3>2, SetsType
    <3> QED
      BY <3>3, <3>4, <3>5
  <2> QED
    BY <1>1, <2>1, <2>2, <2>3, <2>4 DEF TakeAnswer, Types, hubVars
<1>2. ASSUME NEW p \in Proc, CancelAll(p)
      PROVE  Types'
  <2>1. queue' \in [Proc -> Seq(Update)]
    BY <1>2, EnqueueType, CancelMade DEF CancelAll
  <2>2. told' \in [Req -> {"allow", "reject", "cancelled", None}]
    BY <1>2, TellType DEF CancelAll
  <2>3. cancels' \in 0..MaxCancels
    BY <1>2, BoundsAssumption DEF CancelAll, Types
  <2> QED
    BY <1>2, <2>1, <2>2, <2>3 DEF CancelAll, Types, hubVars, netVars
<1>3. ASSUME NEW p \in Proc, NEW r \in Req, AgentAsks(p, r)
      PROVE  Types'
  <2>1. queue' \in [Proc -> Seq(Update)]
    BY <1>3, EnqueueType, MadeSeqs DEF AgentAsks
  <2> QED
    BY <1>3, <2>1 DEF AgentAsks, Types, hubVars, netVars
<1>4. ASSUME NEW p \in Proc, NEW r \in Req, AutoApprove(p, r)
      PROVE  Types'
  <2>1. PICK allowed \in BOOLEAN:
          /\ Tell({r}, IF allowed THEN "allow" ELSE "cancelled")
          /\ Enqueue(p, <<AutoRecord(r, IF allowed THEN "approved" ELSE "canceled")>>)
    BY <1>4 DEF AutoApprove
  <2>2. <<AutoRecord(r, IF allowed THEN "approved" ELSE "canceled")>> \in Seq(Update)
    BY MadeSeqs
  <2>3. queue' \in [Proc -> Seq(Update)]
    BY <2>1, <2>2, EnqueueType
  <2>4. told' \in [Req -> {"allow", "reject", "cancelled", None}]
    BY <2>1, TellType
  <2> QED
    BY <1>4, <2>3, <2>4 DEF AutoApprove, Types, hubVars, netVars
<1>5. ASSUME NEW p \in Proc, NEW r \in Req, AbortSettles(p, r)
      PROVE  Types'
  <2>1. <<CancelRequests, Record(r, "denied")>> \in Seq(Update)
    BY MadeSeqs
  <2>2. queue' \in [Proc -> Seq(Update)]
    BY <1>5, <2>1, EnqueueType DEF AbortSettles
  <2>3. told' \in [Req -> {"allow", "reject", "cancelled", None}]
    BY <1>5, TellType DEF AbortSettles
  <2> QED
    BY <1>5, <2>2, <2>3 DEF AbortSettles, Types, hubVars, netVars
<1>6. ASSUME NEW r \in Req, NEW answer \in {"approve", "deny", "abort"}, AnswerFromWeb(r, answer)
      PROVE  Types'
  <2>1. [kind |-> "answer", id |-> r, answer |-> answer] \in Packets
    BY DEF Packets
  <2>2. downlink' \in [Proc -> Seq(Packets)]
    BY <1>6, <2>1 DEF AnswerFromWeb, Types
  <2> QED
    BY <1>6, <2>2 DEF AnswerFromWeb, Types, hubVars, cliVars, agentVars
<1> QED
  BY <1>1, <1>2, <1>3, <1>4, <1>5, <1>6 DEF AgentStep

\* Every step is one of them.
LEMMA Steps ==
  ASSUME Next
  PROVE  NetStep \/ StateStep \/ AgentStep
BY DEF Next, NetStep, StateStep, AgentStep

\* Every step keeps the types.
LEMMA TypesNext ==
  ASSUME Types, [Next]_vars
  PROVE  Types'
<1>1. CASE UNCHANGED vars
  BY <1>1 DEF Types, vars, hubVars, netVars, cliVars, agentVars
<1>2. CASE NetStep
  BY <1>2, TypesNet
<1>3. CASE StateStep
  BY <1>3, TypesState
<1>4. CASE AgentStep
  BY <1>4, TypesAgent
<1> QED
  BY <1>1, <1>2, <1>3, <1>4, Steps

---------------------------------------------------------------------------
(* What the steps do to packets and connections.                           *)

\* What is behind the first packet was behind it before.
LEMMA Behind ==
  ASSUME Types, NEW p \in Proc, downlink[p] # <<>>, downlink' = [downlink EXCEPT ![p] = Tail(@)]
  PROVE  /\ 1 \in DOMAIN downlink[p] /\ Head(downlink[p]) = downlink[p][1]
         /\ \A i \in DOMAIN downlink'[p]: /\ i \in Nat /\ i >= 1 /\ i + 1 \in DOMAIN downlink[p]
                                          /\ downlink'[p][i] = downlink[p][i + 1]
         /\ \A q \in Proc: q # p => downlink'[q] = downlink[q]
<1>1. downlink[p] \in Seq(Packets) /\ downlink'[p] = Tail(downlink[p])
  BY DEF Types
<1>2. Len(Tail(downlink[p])) = Len(downlink[p]) - 1
  BY <1>1
<1> QED
  BY <1>1, <1>2 DEF Types

\* The hub's answer to update-state and its broadcast: one packet behind the others, with the row.
LEMMA Broadcast ==
  ASSUME Types, NEW m \in uplink, HubUpdate(m)
  PROVE  /\ m.sock \in open /\ m.state \in State
         /\ row.version = m.state.version => row' = [m.state EXCEPT !.version = row.version + 1]
         /\ row.version # m.state.version => row' = row
         /\ \A p \in Proc: \A i \in DOMAIN downlink[p]: i \in DOMAIN downlink'[p] /\ downlink'[p][i] = downlink[p][i]
         /\ \A p \in Proc: \A i \in DOMAIN downlink'[p] \ DOMAIN downlink[p]:
               /\ sock[p] # 0 /\ i = Len(downlink[p]) + 1
               /\ downlink'[p][i].kind \in {"success", "mismatch", "update"} /\ downlink'[p][i].state = row'
               /\ downlink'[p][i].kind # "update" => sock[p] = m.sock
               /\ downlink'[p][i].kind = "success" => row.version = m.state.version
<1> DEFINE success == row.version = m.state.version
           To(p) == IF sock[p] = m.sock
                    THEN <<[kind |-> IF success THEN "success" ELSE "mismatch", state |-> row']>>
                    ELSE IF success THEN <<[kind |-> "update", state |-> row']>> ELSE <<>>
<1>1. row' = Cas(m.state.version, m.state) /\ m.sock \in open /\ m.state \in State
  BY DEF HubUpdate, Types
<1>2. downlink' = [p \in Proc |-> IF Connected(p) THEN downlink[p] \o To(p) ELSE downlink[p]]
  BY <1>1 DEF HubUpdate
<1>3. ASSUME NEW p \in Proc
      PROVE  /\ \A i \in DOMAIN downlink[p]: i \in DOMAIN downlink'[p] /\ downlink'[p][i] = downlink[p][i]
             /\ \A i \in DOMAIN downlink'[p] \ DOMAIN downlink[p]:
                   /\ sock[p] # 0 /\ i = Len(downlink[p]) + 1
                   /\ downlink'[p][i].kind \in {"success", "mismatch", "update"} /\ downlink'[p][i].state = row'
                   /\ downlink'[p][i].kind # "update" => sock[p] = m.sock
                   /\ downlink'[p][i].kind = "success" => row.version = m.state.version
  <2> DEFINE s == downlink[p]
             Appends(k) == downlink'[p] = s \o <<k>>
  <2>1. s \in Seq(Packets)
    BY DEF Types
  <2>2. \/ downlink'[p] = s \/ downlink'[p] = s \o <<>>
        \/ sock[p] # 0 /\ sock[p] = m.sock /\ success /\ Appends([kind |-> "success", state |-> row'])
        \/ sock[p] # 0 /\ sock[p] = m.sock /\ Appends([kind |-> "mismatch", state |-> row'])
        \/ sock[p] # 0 /\ Appends([kind |-> "update", state |-> row'])
    BY <1>2 DEF Connected
  <2> HIDE DEF s
  <2>3. s \o <<>> = s
    BY <2>1
  <2>4. ASSUME NEW k \in Packets, Appends(k)
        PROVE  /\ \A i \in DOMAIN s: i \in DOMAIN downlink'[p] /\ downlink'[p][i] = s[i]
               /\ \A i \in DOMAIN downlink'[p] \ DOMAIN s: i = Len(s) + 1 /\ downlink'[p][i] = k
    BY <2>1, <2>4
  <2>5. \A t \in {"success", "mismatch", "update"}: [kind |-> t, state |-> row'] \in Packets
    BY <1>1, CasType DEF Types, Packets
  <2> HIDE DEF success, Appends
  <2>6. CASE downlink'[p] = s
    BY <2>6 DEF s
  <2>7. CASE sock[p] # 0 /\ sock[p] = m.sock /\ success /\ Appends([kind |-> "success", state |-> row'])
    BY <2>4, <2>5, <2>7 DEF s, success
  <2>8. CASE sock[p] # 0 /\ sock[p] = m.sock /\ Appends([kind |-> "mismatch", state |-> row'])
    BY <2>4, <2>5, <2>8 DEF s
  <2>9. CASE sock[p] # 0 /\ Appends([kind |-> "update", state |-> row'])
    BY <2>4, <2>5, <2>9 DEF s
  <2> QED
    BY <2>2, <2>3, <2>6, <2>7, <2>8, <2>9
<1> QED
  BY <1>1, <1>3 DEF Cas

\* An answer from the web: one packet behind the others.
LEMMA Forwarded ==
  ASSUME Types, NEW r \in Req, NEW answer \in {"approve", "deny", "abort"}, AnswerFromWeb(r, answer)
  PROVE  \A p \in Proc:
            /\ \A i \in DOMAIN downlink[p]: i \in DOMAIN downlink'[p] /\ downlink'[p][i] = downlink[p][i]
            /\ \A i \in DOMAIN downlink'[p] \ DOMAIN downlink[p]:
                  sock[p] # 0 /\ downlink'[p][i].kind = "answer" /\ downlink'[p][i].id = r
<1> SUFFICES ASSUME NEW p \in Proc
             PROVE  /\ \A i \in DOMAIN downlink[p]: i \in DOMAIN downlink'[p] /\ downlink'[p][i] = downlink[p][i]
                    /\ \A i \in DOMAIN downlink'[p] \ DOMAIN downlink[p]:
                          sock[p] # 0 /\ downlink'[p][i].kind = "answer" /\ downlink'[p][i].id = r
  OBVIOUS
<1> DEFINE k == [kind |-> "answer", id |-> r, answer |-> answer]
<1>1. downlink[p] \in Seq(Packets) /\ k \in Packets
  BY PacketsMade DEF Types, Packets
<1>2. \/ downlink'[p] = downlink[p]
      \/ sock[p] # 0 /\ downlink'[p] = Append(downlink[p], k)
  BY DEF AnswerFromWeb, Procs
<1>3. k.kind = "answer" /\ k.id = r
  OBVIOUS
<1> HIDE DEF k
<1> QED
  BY <1>1, <1>2, <1>3

\* What the steps of the agents leave alone.
LEMMA AgentsKeep ==
  ASSUME Types, AgentStep
  PROVE  /\ UNCHANGED <<hubVars, sock, lastSock, cuts, phase, mirror, call, contested>>
         /\ \A p \in Proc: phase[p] # "up" => sock[p] = 0
BY DEF AgentStep, TakeAnswer, CancelAll, AgentAsks, AutoApprove, AbortSettles, AnswerFromWeb, Types,
   hubVars, netVars, cliVars, agentVars

\* Steps of connections and processes keep sockets apart, and the last one registered.
LEMMA ConnectionsNet ==
  ASSUME Types, Connections, NetStep
  PROVE  Connections'
<1> SUFFICES ASSUME NEW p \in Proc, Start(p) \/ Stop(p) \/ Connect(p) \/ Cut(p)
             PROVE  Connections'
  BY DEF NetStep
<1> USE DEF Types, Connections, AnswersReachTheProcess, Connected, hubVars, netVars, cliVars, agentVars
<1>1. CASE Start(p)
  BY <1>1 DEF Start
<1>2. CASE Stop(p)
  BY <1>2 DEF Stop
<1>3. CASE Connect(p)
  <2>1. /\ lastSock' = lastSock + 1 /\ sock' = [sock EXCEPT ![p] = lastSock'] /\ registered' = lastSock'
        /\ phase' = phase /\ contested' = contested /\ downlink' = downlink /\ queue' = queue
        /\ waiting' = waiting /\ pending' = pending /\ aborting' = aborting /\ phase[p] = "up"
    BY <1>3 DEF Connect
  <2>2. \A q \in Proc: sock[q] # lastSock + 1 /\ (q # p => call'[q] = call[q])
    BY <1>3 DEF Connect
  <2> QED
    BY <2>1, <2>2
<1>4. CASE Cut(p)
  BY <1>4 DEF Cut
<1> QED
  BY <1>1, <1>2, <1>3, <1>4

\* Steps of the versioned state: a socket that is dropped is nobody's.
LEMMA ConnectionsState ==
  ASSUME Types, Connections, StateStep
  PROVE  Connections'
<1> USE DEF Types, Connections, AnswersReachTheProcess, Connected, hubVars, netVars, cliVars, agentVars
<1>1. ASSUME NEW s \in open, HubDrop(s)
      PROVE  Connections'
  BY <1>1 DEF HubDrop, Procs
<1>2. ASSUME NEW m \in uplink, HubUpdate(m)
      PROVE  Connections'
  <2>1. \A p \in Proc: sock[p] = 0 => downlink'[p] = downlink[p]
    BY <1>2 DEF HubUpdate
  <2> QED
    BY <1>2, <2>1 DEF HubUpdate
<1>3. ASSUME NEW p \in Proc, Emit(p)
      PROVE  Connections'
  BY <1>3 DEF Emit
<1>4. ASSUME NEW p \in Proc, TakeAck(p)
      PROVE  Connections'
  <2>1. sock[p] # 0 /\ phase[p] = "up"
    BY <1>4 DEF TakeAck
  <2> QED
    BY <1>4, <2>1 DEF TakeAck
<1>5. ASSUME NEW p \in Proc, TakeUpdate(p)
      PROVE  Connections'
  <2>1. sock[p] # 0 /\ phase[p] = "up"
    BY <1>5 DEF TakeUpdate
  <2> QED
    BY <1>5, <2>1 DEF TakeUpdate
<1> QED
  BY <1>1, <1>2, <1>3, <1>4, <1>5 DEF StateStep

\* Steps of agents are steps of processes that are up.
LEMMA ConnectionsAgent ==
  ASSUME Types, Connections, AgentStep
  PROVE  Connections'
<1>1. /\ UNCHANGED <<hubVars, sock, lastSock, cuts, phase, mirror, call, contested>>
      /\ \A p \in Proc: phase[p] # "up" => sock[p] = 0
  BY AgentsKeep
<1>2. \A p \in Proc: sock[p] = 0 => downlink'[p] = downlink[p]
  <2>1. ASSUME NEW p \in Proc, TakeAnswer(p)
        PROVE  \A q \in Proc: sock[q] = 0 => downlink'[q] = downlink[q]
    BY <2>1 DEF TakeAnswer, Connections, Types
  <2>2. ASSUME NEW r \in Req, NEW answer \in {"approve", "deny", "abort"}, AnswerFromWeb(r, answer)
        PROVE  \A q \in Proc: sock[q] = 0 => downlink'[q] = downlink[q]
    BY <2>2 DEF AnswerFromWeb, Procs, Types
  <2> QED
    BY <2>1, <2>2 DEF AgentStep, CancelAll, AgentAsks, AutoApprove, AbortSettles, netVars, Types
<1>3. \A p \in Proc: phase[p] # "up" => /\ queue'[p] = queue[p] /\ waiting'[p] = waiting[p]
                                        /\ pending'[p] = pending[p] /\ aborting'[p] = aborting[p]
  <2> USE DEF Types, Connections, Enqueue, agentVars, cliVars
  <2>1. ASSUME NEW p \in Proc, NEW q \in Proc, phase[q] # "up", TakeAnswer(p)
        PROVE  /\ queue'[q] = queue[q] /\ waiting'[q] = waiting[q]
               /\ pending'[q] = pending[q] /\ aborting'[q] = aborting[q]
    <3>1. q # p
      BY <1>1, <2>1 DEF TakeAnswer
    <3> QED
      BY <2>1, <3>1 DEF TakeAnswer
  <2>2. ASSUME NEW p \in Proc, NEW r \in Req, NEW q \in Proc, phase[q] # "up", AbortSettles(p, r)
        PROVE  /\ queue'[q] = queue[q] /\ waiting'[q] = waiting[q]
               /\ pending'[q] = pending[q] /\ aborting'[q] = aborting[q]
    <3>1. q # p
      BY <2>2 DEF AbortSettles
    <3> QED
      BY <2>2, <3>1 DEF AbortSettles
  <2>3. ASSUME NEW p \in Proc, NEW r \in Req, NEW q \in Proc, phase[q] # "up",
               CancelAll(p) \/ AgentAsks(p, r) \/ AutoApprove(p, r)
        PROVE  /\ queue'[q] = queue[q] /\ waiting'[q] = waiting[q]
               /\ pending'[q] = pending[q] /\ aborting'[q] = aborting[q]
    BY <2>3 DEF CancelAll, AgentAsks, AutoApprove
  <2>4. ASSUME NEW p \in Proc, NEW q \in Proc, phase[q] # "up", CancelAll(p)
        PROVE  /\ queue'[q] = queue[q] /\ waiting'[q] = waiting[q]
               /\ pending'[q] = pending[q] /\ aborting'[q] = aborting[q]
    BY <2>4 DEF CancelAll
  <2>5. ASSUME NEW r \in Req, NEW answer \in {"approve", "deny", "abort"}, AnswerFromWeb(r, answer)
        PROVE  UNCHANGED <<queue, waiting, pending, aborting>>
    BY <2>5 DEF AnswerFromWeb
  <2> QED
    BY <2>1, <2>2, <2>3, <2>4, <2>5 DEF AgentStep
<1> QED
  BY <1>1, <1>2, <1>3 DEF Connections, AnswersReachTheProcess, Connected, hubVars

\* Every step keeps the connections.
LEMMA ConnectionsNext ==
  ASSUME Types, Connections, [Next]_vars
  PROVE  Connections'
<1>1. CASE UNCHANGED vars
  BY <1>1 DEF Connections, AnswersReachTheProcess, Connected, vars, hubVars, netVars, cliVars, agentVars
<1> QED
  BY <1>1, ConnectionsNet, ConnectionsState, ConnectionsAgent, Steps

---------------------------------------------------------------------------
(* Versions.                                                               *)

\* What is newer than the row makes every state before it old.
LEMMA CurrentStays ==
  ASSUME Types, NEW state \in State, Current(state), row' \in State,
         row' = row \/ row'.version = row.version + 1
  PROVE  Current(state)'
BY DEF Types, State, Current

\* The hub's row moves only to a next version.
LEMMA RowMoves ==
  ASSUME Types, [Next]_vars
  PROVE  \/ row' = row
         \/ \E m \in uplink: /\ HubUpdate(m) /\ m.state.version = row.version
                             /\ row' = [m.state EXCEPT !.version = row.version + 1]
<1>1. CASE UNCHANGED vars \/ NetStep
  BY <1>1 DEF vars, hubVars, NetStep, Start, Stop, Connect, Cut
<1>2. CASE AgentStep
  BY <1>2, AgentsKeep DEF hubVars
<1>3. CASE StateStep
  <2>1. ASSUME NEW m \in uplink, HubUpdate(m)
        PROVE  \/ row' = row
               \/ m.state.version = row.version /\ row' = [m.state EXCEPT !.version = row.version + 1]
    BY <2>1, Broadcast
  <2> QED
    BY <1>3, <2>1 DEF StateStep, HubDrop, Emit, TakeAck, TakeUpdate, hubVars
<1> QED
  BY <1>1, <1>2, <1>3, Steps

\* The same, without who wrote it.
LEMMA RowVersion ==
  ASSUME Types, [Next]_vars
  PROVE  row' \in State /\ (row' = row \/ row'.version = row.version + 1)
<1>1. row' \in State
  BY TypesNext DEF Types
<1>2. ASSUME NEW m \in uplink, row' = [m.state EXCEPT !.version = row.version + 1]
      PROVE  row'.version = row.version + 1
  BY <1>2 DEF Types, State
<1> QED
  BY <1>1, <1>2, RowMoves

\* A packet's state is one the hub had stored, or the row it has just stored.
LEMMA PacketsNext ==
  ASSUME Types, Mirrors, [Next]_vars, NEW p \in Proc, NEW i \in DOMAIN downlink'[p],
         downlink'[p][i].kind # "answer"
  PROVE  \/ downlink'[p][i].state = row'
         \/ downlink'[p][i].state \in State /\ Current(downlink'[p][i].state)
<1> DEFINE Good(k) == k \in Packets /\ (k.kind # "answer" => Current(k.state))
           Result == \/ downlink'[p][i].state = row'
                     \/ downlink'[p][i].state \in State /\ Current(downlink'[p][i].state)
<1>1. \A j \in DOMAIN downlink[p]: Good(downlink[p][j])
  BY DEF Types, Mirrors
<1>2. \A k: k.kind # "answer" /\ Good(k) => k.state \in State /\ Current(k.state)
  BY PacketsAre
<1> HIDE DEF Good
<1>3. CASE i \in DOMAIN downlink[p] /\ downlink'[p][i] = downlink[p][i]
  BY <1>1, <1>2, <1>3
<1>4. ASSUME NEW q \in Proc, downlink[q] # <<>>, downlink' = [downlink EXCEPT ![q] = Tail(@)]
      PROVE  Result
  <2>1. CASE q = p
    BY <1>1, <1>2, <1>4, <2>1, Behind
  <2>2. CASE q # p
    BY <1>3, <1>4, <2>2, Behind
  <2> QED
    BY <2>1, <2>2
<1>5. CASE UNCHANGED vars
  BY <1>3, <1>5 DEF vars, netVars
<1>6. CASE NetStep
  <2>1. downlink'[p] = downlink[p] \/ downlink'[p] = <<>>
    BY <1>6 DEF NetStep, Start, Stop, Connect, Cut, netVars, Types
  <2> QED
    BY <1>3, <2>1
<1>7. CASE StateStep
  <2>1. ASSUME NEW m \in uplink, HubUpdate(m)
        PROVE  Result
    <3>1. i \in DOMAIN downlink[p] => downlink'[p][i] = downlink[p][i]
      BY <2>1, Broadcast
    <3>2. i \notin DOMAIN downlink[p] => downlink'[p][i].state = row'
      BY <2>1, Broadcast
    <3> QED
      BY <1>3, <3>1, <3>2
  <2>2. CASE \E s \in open: HubDrop(s)
    BY <1>3, <2>2 DEF HubDrop, netVars
  <2>3. ASSUME NEW q \in Proc, Emit(q) \/ TakeAck(q) \/ TakeUpdate(q)
        PROVE  Result
    BY <1>3, <1>4, <2>3 DEF Emit, TakeAck, TakeUpdate, netVars
  <2> QED
    BY <1>7, <2>1, <2>2, <2>3 DEF StateStep
<1>8. CASE AgentStep
  <2>1. ASSUME NEW r \in Req, NEW answer \in {"approve", "deny", "abort"}, AnswerFromWeb(r, answer)
        PROVE  Result
    <3>1. i \in DOMAIN downlink[p]
      BY <2>1, Forwarded
    <3>2. downlink'[p][i] = downlink[p][i]
      BY <2>1, <3>1, Forwarded
    <3> QED
      BY <1>3, <3>1, <3>2
  <2>2. ASSUME NEW q \in Proc, TakeAnswer(q)
        PROVE  Result
    BY <1>4, <2>2 DEF TakeAnswer
  <2> QED
    BY <1>3, <1>8, <2>1, <2>2 DEF AgentStep, CancelAll, AgentAsks, AutoApprove, AbortSettles, netVars
<1> QED
  BY <1>5, <1>6, <1>7, <1>8, Steps

\* A mirror is taken from the row or from a packet.
LEMMA MirrorNext ==
  ASSUME Types, Mirrors, [Next]_vars, NEW p \in Proc
  PROVE  mirror'[p] \in State /\ Current(mirror'[p])
<1>0. mirror'[p] \in State
  BY TypesNext DEF Types
<1>1. CASE mirror'[p] = mirror[p]
  BY <1>1, <1>0 DEF Mirrors
<1>2. CASE mirror'[p] = row
  BY <1>2 DEF Current, Types, State
<1>3. CASE downlink[p] # <<>> /\ Head(downlink[p]).kind # "answer" /\ mirror'[p] = Head(downlink[p]).state
  <2>1. 1 \in DOMAIN downlink[p] /\ Head(downlink[p]) = downlink[p][1]
    BY <1>3 DEF Types
  <2> QED
    BY <1>0, <1>3, <2>1 DEF Mirrors
<1>4. CASE UNCHANGED vars \/ AgentStep
  BY <1>1, <1>4, AgentsKeep DEF vars, cliVars
<1>5. CASE NetStep
  BY <1>1, <1>2, <1>5 DEF NetStep, Start, Stop, Connect, Cut, Types
<1>6. CASE StateStep
  <2>1. ASSUME NEW q \in Proc, TakeAck(q) \/ TakeUpdate(q)
        PROVE  \/ mirror'[p] = mirror[p]
               \/ downlink[p] # <<>> /\ Head(downlink[p]).kind # "answer" /\ mirror'[p] = Head(downlink[p]).state
    BY <2>1 DEF TakeAck, TakeUpdate, Newer, Types
  <2>2. \/ mirror' = mirror
        \/ \E q \in Proc: TakeAck(q) \/ TakeUpdate(q)
    BY <1>6 DEF StateStep, HubDrop, HubUpdate, Emit, cliVars
  <2> QED
    BY <1>1, <1>3, <2>1, <2>2
<1> QED
  BY <1>4, <1>5, <1>6, Steps

\* Every step keeps the mirrors.
LEMMA MirrorsNext ==
  ASSUME Types, Mirrors, [Next]_vars
  PROVE  Mirrors'
<1>1. row' \in State /\ (row' = row \/ row'.version = row.version + 1)
  BY RowVersion
<1>2. ASSUME NEW p \in Proc
      PROVE  Current(mirror[p])'
  <2>1. mirror'[p] \in State /\ Current(mirror'[p])
    BY MirrorNext
  <2> QED
    BY <1>1, <2>1 DEF Current, Types, State
<1>3. ASSUME NEW p \in Proc, NEW i \in DOMAIN downlink'[p], downlink'[p][i].kind # "answer"
      PROVE  Current(downlink[p][i].state)'
  <2>1. CASE downlink'[p][i].state = row'
    BY <1>1, <2>1 DEF Current, State
  <2>2. CASE downlink'[p][i].state \in State /\ Current(downlink'[p][i].state)
    BY <1>1, <2>2 DEF Current, Types, State
  <2> QED
    BY <1>3, <2>1, <2>2, PacketsNext
<1> QED
  BY <1>2, <1>3 DEF Mirrors

---------------------------------------------------------------------------
(* One update under way.                                                   *)

\* A step that sends and answers nothing for a process keeps its call.
LEMMA OneCallKept ==
  ASSUME Types, NEW p \in Proc, OneCall(p), call'[p] = call[p], Sent(p)' \subseteq Sent(p),
         NEW d \in {0, 1}, \A i \in Acks(p)': i \in Nat /\ i + d \in Acks(p),
         queue[p] # <<>> => queue'[p] # <<>>
  PROVE  OneCall(p)'
<1>1. Acks(p) = {} => Acks(p)' = {}
  OBVIOUS
<1>2. \A i, j \in Acks(p)': i = j
  BY DEF OneCall
<1> QED
  BY <1>1, <1>2 DEF OneCall

\* A socket that is not connected has sent nothing.
LEMMA NotSent ==
  ASSUME Types, NEW p \in Proc, sock[p] = 0
  PROVE  Sent(p) = {}
BY DEF Types, Sent

\* Nor does a process without a connection and a call have one under way.
LEMMA NoCallAtAll ==
  ASSUME Types', NEW p \in Proc, call'[p] = NoCall, sock'[p] = 0, downlink'[p] = <<>>
  PROVE  OneCall(p)'
BY DEF Types, Sent, Acks, OneCall, NoCall

\* A process takes the first packet, when that is not an answer to its call.
LEMMA OneCallTail ==
  ASSUME Types, OneCalls, NEW p \in Proc, downlink[p] # <<>>,
         downlink' = [downlink EXCEPT ![p] = Tail(@)],
         UNCHANGED <<call, uplink, sock>>, \A q \in Proc: queue[q] # <<>> => queue'[q] # <<>>
  PROVE  OneCalls'
<1> SUFFICES ASSUME NEW q \in Proc
             PROVE  OneCall(q)'
  BY DEF OneCalls
<1>1. OneCall(q) /\ call'[q] = call[q] /\ Sent(q)' \subseteq Sent(q) /\ (queue[q] # <<>> => queue'[q] # <<>>)
  BY DEF OneCalls, Sent
<1>2. CASE q = p
  <2>1. \A i \in Acks(q)': i \in Nat /\ i + 1 \in Acks(q)
    BY <1>2, Behind DEF Acks
  <2> QED
    BY <1>1, <2>1, OneCallKept
<1>3. CASE q # p
  <2>1. \A i \in Acks(q)': i \in Nat /\ i + 0 \in Acks(q)
    BY <1>3, Behind DEF Acks, Types
  <2> QED
    BY <1>1, <2>1, OneCallKept
<1> QED
  BY <1>2, <1>3

\* Connections.
LEMMA OneCallsNet ==
  ASSUME Types, Types', Connections, OneCalls, NetStep
  PROVE  OneCalls'
<1> SUFFICES ASSUME NEW p \in Proc, NEW q \in Proc, Start(p) \/ Stop(p) \/ Connect(p) \/ Cut(p)
             PROVE  OneCall(q)'
  BY DEF NetStep, OneCalls
<1>0. OneCall(q)
  BY DEF OneCalls
<1>1. ASSUME call'[q] = call[q], sock'[q] = sock[q], downlink'[q] = downlink[q], queue'[q] = queue[q],
             Sent(q)' \subseteq Sent(q)
      PROVE  OneCall(q)'
  <2>1. \A i \in Acks(q)': i \in Nat /\ i + 0 \in Acks(q)
    BY <1>1 DEF Acks, Types
  <2> QED
    BY <1>0, <1>1, <2>1, OneCallKept
<1>2. CASE Start(p)
  BY <1>1, <1>2 DEF Start, hubVars, netVars, Sent
<1>3. CASE Stop(p)
  <2>1. CASE p = q
    BY <1>3, <2>1, NoCallAtAll DEF Stop, Types
  <2>2. CASE p # q
    BY <1>1, <1>3, <2>2 DEF Stop, hubVars, Sent, Types
  <2> QED
    BY <2>1, <2>2
<1>4. CASE Cut(p)
  <2>1. CASE p = q
    BY <1>4, <2>1, NoCallAtAll DEF Cut, Types
  <2>2. CASE p # q
    BY <1>1, <1>4, <2>2 DEF Cut, hubVars, Sent, Types
  <2> QED
    BY <2>1, <2>2
<1>5. CASE Connect(p)
  <2>1. /\ sock[p] = 0 /\ sock' = [sock EXCEPT ![p] = lastSock + 1]
        /\ downlink' = downlink /\ queue' = queue
        /\ \/ /\ call[p].at = "buffered" /\ call' = [call EXCEPT ![p] = [at |-> "sent"]]
              /\ uplink' = uplink \cup {[sock |-> lastSock + 1, state |-> call[p].state]}
           \/ call[p].at # "buffered" /\ call' = call /\ uplink' = uplink
    BY <1>5 DEF Connect, Connected
  <2>2. \A m \in uplink: m.sock # lastSock + 1
    BY DEF Types
  <2>3. CASE p = q
    <3>1. Acks(q)' = {}
      BY <2>1, <2>3 DEF Connections, Acks
    <3>2. \A m, n \in Sent(q)': m = n
      <4>1. sock'[q] = lastSock + 1
        BY <2>1, <2>3 DEF Types
      <4>2. \A m \in uplink': m.sock = lastSock + 1 => m = [sock |-> lastSock + 1, state |-> call[p].state]
        BY <2>1, <2>2
      <4> QED
        BY <4>1, <4>2 DEF Sent
    <3>3. call'[q].at # "sent" => call[q].at = call'[q].at /\ uplink' = uplink
      BY <2>1, <2>3 DEF Types
    <3>4. call'[q].at # "sent" => Sent(q)' = {}
      BY <2>1, <2>2, <2>3, <3>3 DEF Sent, Types
    <3>5. call'[q].at # "none" => queue'[q] # <<>>
      BY <1>0, <2>1, <2>3 DEF OneCall, Types
    <3> QED
      BY <3>1, <3>2, <3>4, <3>5 DEF OneCall
  <2>4. CASE p # q
    <3>1. /\ sock'[q] = sock[q] /\ call'[q] = call[q] /\ downlink'[q] = downlink[q] /\ queue'[q] = queue[q]
          /\ sock[q] # lastSock + 1
      <4>1. sock[q] \in open \cup {0} /\ open \subseteq 1..lastSock /\ lastSock \in Nat
        BY DEF Types
      <4>2. sock \in [Proc -> open \cup {0}] /\ call \in [Proc -> Calls]
        BY DEF Types
      <4>3. sock'[q] = sock[q] /\ call'[q] = call[q]
        BY <2>1, <2>4, <4>2
      <4> QED
        BY <2>1, <4>1, <4>3
    <3>2. Sent(q)' \subseteq Sent(q)
      BY <2>1, <3>1 DEF Sent
    <3> QED
      BY <1>1, <3>1, <3>2
  <2> QED
    BY <2>3, <2>4
<1> QED
  BY <1>2, <1>3, <1>4, <1>5

\* The versioned state.
LEMMA OneCallsState ==
  ASSUME Types, Types', Connections, OneCalls, StateStep
  PROVE  OneCalls'
<1>1. ASSUME NEW s \in open, HubDrop(s)
      PROVE  OneCalls'
  <2>1. UNCHANGED <<call, sock, downlink, queue>> /\ uplink' \subseteq uplink
    BY <1>1 DEF HubDrop, netVars, cliVars
  <2>2. ASSUME NEW q \in Proc
        PROVE  OneCall(q)'
    <3>1. \A i \in Acks(q)': i \in Nat /\ i + 0 \in Acks(q)
      BY <2>1 DEF Acks, Types
    <3> QED
      BY <2>1, <3>1, OneCallKept DEF Sent, OneCalls
  <2> QED
    BY <2>2 DEF OneCalls
<1>2. ASSUME NEW m \in uplink, HubUpdate(m)
      PROVE  OneCalls'
  <2> SUFFICES ASSUME NEW q \in Proc
               PROVE  OneCall(q)'
    BY DEF OneCalls
  <2>1. UNCHANGED <<call, sock, queue>> /\ uplink' = uplink \ {m} /\ OneCall(q)
    BY <1>2 DEF HubUpdate, cliVars, OneCalls
  <2>2. \A i \in Acks(q)': /\ i \in Nat
                           /\ i \in Acks(q) \/ (i = Len(downlink[q]) + 1 /\ sock[q] = m.sock)
    <3>1. ASSUME NEW i \in Acks(q)'
          PROVE  i \in Nat /\ (i \in Acks(q) \/ (i = Len(downlink[q]) + 1 /\ sock[q] = m.sock))
      <4>1. i \in DOMAIN downlink'[q] /\ downlink'[q][i].kind \in {"success", "mismatch"} /\ i \in Nat
        BY DEF Acks, Types
      <4>2. CASE i \in DOMAIN downlink[q]
        BY <1>2, <4>1, <4>2, Broadcast DEF Acks
      <4>3. CASE i \notin DOMAIN downlink[q]
        BY <1>2, <4>1, <4>3, Broadcast
      <4> QED
        BY <4>1, <4>2, <4>3
    <3> QED
      BY <3>1
  <2>3. CASE sock[q] = m.sock
    <3>1. m \in Sent(q)
      BY <2>3 DEF Sent
    <3>2. Acks(q) = {} /\ Sent(q)' = {} /\ call[q].at = "sent"
      BY <2>1, <3>1 DEF OneCall, Sent
    <3> QED
      BY <2>1, <2>2, <3>2 DEF OneCall
  <2>4. CASE sock[q] # m.sock
    <3>1. \A i \in Acks(q)': i \in Nat /\ i + 0 \in Acks(q)
      BY <2>2, <2>4
    <3> QED
      BY <2>1, <3>1, OneCallKept DEF Sent
  <2> QED
    BY <2>3, <2>4
<1>3. ASSUME NEW p \in Proc, Emit(p)
      PROVE  OneCalls'
  <2> SUFFICES ASSUME NEW q \in Proc
               PROVE  OneCall(q)'
    BY DEF OneCalls
  <2> DEFINE state == Apply(Head(queue[p]), mirror[p])
  <2>1. /\ UNCHANGED <<sock, downlink, queue>> /\ queue[p] # <<>> /\ call[p].at = "none" /\ OneCall(q) /\ OneCall(p)
        /\ \/ /\ sock[p] # 0 /\ call' = [call EXCEPT ![p] = [at |-> "sent"]]
              /\ uplink' = uplink \cup {[sock |-> sock[p], state |-> state]}
           \/ /\ uplink' = uplink /\ call' = [call EXCEPT ![p] = [at |-> "buffered", state |-> state]]
    BY <1>3 DEF Emit, Connected, netVars, OneCalls
  <2> HIDE DEF state
  <2>2. CASE p = q
    <3>1. Acks(q)' = {} /\ Sent(q) = {}
      BY <2>1, <2>2 DEF OneCall, Acks
    <3>2. \A k, n \in Sent(q)': k = n
      BY <2>1, <2>2, <3>1 DEF Sent
    <3>3. call'[q].at # "sent" => Sent(q)' = {}
      BY <2>1, <2>2, <3>1 DEF Sent, Types
    <3> QED
      BY <2>1, <2>2, <3>1, <3>2, <3>3 DEF OneCall
  <2>3. CASE p # q
    <3>1. \A i \in Acks(q)': i \in Nat /\ i + 0 \in Acks(q)
      BY <2>1 DEF Acks, Types
    <3>2. Sent(q)' \subseteq Sent(q) /\ call'[q] = call[q]
      BY <2>1, <2>3 DEF Sent, Connections, Types
    <3> QED
      BY <2>1, <3>1, <3>2, OneCallKept
  <2> QED
    BY <2>2, <2>3
<1>4. ASSUME NEW p \in Proc, TakeAck(p)
      PROVE  OneCalls'
  <2> SUFFICES ASSUME NEW q \in Proc
               PROVE  OneCall(q)'
    BY DEF OneCalls
  <2>1. /\ downlink' = [downlink EXCEPT ![p] = Tail(@)] /\ downlink[p] # <<>> /\ UNCHANGED <<sock, uplink>>
        /\ call' = [call EXCEPT ![p] = NoCall] /\ Head(downlink[p]).kind \in {"success", "mismatch"}
        /\ \A k \in Proc: k # p => queue'[k] = queue[k]
        /\ OneCall(q)
    BY <1>4 DEF TakeAck, hubVars, OneCalls, Types
  <2>2. CASE p = q
    <3>1. 1 \in Acks(q)
      BY <2>1, <2>2, Behind DEF Acks
    <3>2. Acks(q)' = {}
      <4>1. ASSUME NEW i \in Acks(q)'
            PROVE  i \in Nat /\ i >= 1 /\ i + 1 \in Acks(q)
        BY <2>1, <2>2, Behind DEF Acks
      <4>2. \A i, j \in Acks(q): i = j
        BY <2>1 DEF OneCall
      <4>3. ASSUME NEW i \in Acks(q)'
            PROVE  FALSE
        <5>1. i + 1 = 1
          BY <3>1, <4>1, <4>2
        <5> QED
          BY <4>1, <5>1
      <4> QED
        BY <4>3
    <3>3. Sent(q)' = {} /\ call'[q] = NoCall
      BY <2>1, <2>2, <3>1 DEF OneCall, Sent, Types
    <3> QED
      BY <3>2, <3>3 DEF OneCall, NoCall
  <2>3. CASE p # q
    <3>1. \A i \in Acks(q)': i \in Nat /\ i + 0 \in Acks(q)
      BY SMTT(30), <2>1, <2>3, Behind DEF Acks, Types
    <3> QED
      BY <2>1, <2>3, <3>1, OneCallKept DEF Sent, Types
  <2> QED
    BY <2>2, <2>3
<1>5. ASSUME NEW p \in Proc, TakeUpdate(p)
      PROVE  OneCalls'
  BY <1>5, OneCallTail DEF TakeUpdate, hubVars
<1> QED
  BY <1>1, <1>2, <1>3, <1>4, <1>5 DEF StateStep

\* The agent's steps only add to the queues.
LEMMA OneCallsAgent ==
  ASSUME Types, Types', OneCalls, AgentStep
  PROVE  OneCalls'
<1>1. UNCHANGED <<hubVars, sock, lastSock, cuts, phase, mirror, call, contested>>
  BY AgentsKeep
<1>2. ASSUME NEW p \in Proc, NEW us \in Seq(Update), Enqueue(p, us)
      PROVE  \A q \in Proc: queue[q] # <<>> => queue'[q] # <<>>
  BY <1>2 DEF Enqueue, Types
<1>3. ASSUME downlink' = downlink, \A q \in Proc: queue[q] # <<>> => queue'[q] # <<>>
      PROVE  OneCalls'
  <2>1. ASSUME NEW q \in Proc
        PROVE  OneCall(q)'
    <3>1. \A i \in Acks(q)': i \in Nat /\ i + 0 \in Acks(q)
      BY <1>3 DEF Acks, Types
    <3> QED
      BY <1>1, <1>3, <3>1, OneCallKept DEF Sent, OneCalls, hubVars
  <2> QED
    BY <2>1 DEF OneCalls
<1>4. ASSUME NEW p \in Proc, TakeAnswer(p)
      PROVE  OneCalls'
  <2>1. downlink[p] # <<>> /\ downlink' = [downlink EXCEPT ![p] = Tail(@)] /\ Head(downlink[p]).id \in Req
    BY <1>4, FirstPacket, PacketsAre DEF TakeAnswer
  <2>2. \/ queue' = queue
        \/ \E status \in {"approved", "denied"}: Enqueue(p, <<Record(Head(downlink[p]).id, status)>>)
    BY <1>4 DEF TakeAnswer
  <2>3. \A q \in Proc: queue[q] # <<>> => queue'[q] # <<>>
    BY <1>2, <2>1, <2>2, MadeSeqs
  <2> QED
    BY <1>1, <2>1, <2>3, OneCallTail DEF hubVars
<1>5. ASSUME NEW r \in Req, NEW answer \in {"approve", "deny", "abort"}, AnswerFromWeb(r, answer)
      PROVE  OneCalls'
  <2>0. queue' = queue
    BY <1>5 DEF AnswerFromWeb, cliVars
  <2>1. ASSUME NEW q \in Proc
        PROVE  OneCall(q)'
    <3>1. \A i \in Acks(q)': i \in Nat /\ i + 0 \in Acks(q)
      BY SMTT(30), <1>5, Forwarded DEF Acks, Types
    <3> QED
      BY <1>1, <2>0, <3>1, OneCallKept DEF Sent, OneCalls, hubVars
  <2> QED
    BY <2>1 DEF OneCalls
<1>6. ASSUME NEW p \in Proc, CancelAll(p)
      PROVE  OneCalls'
  BY <1>2, <1>3, <1>6, CancelMade DEF CancelAll, netVars
<1>7. ASSUME NEW p \in Proc, NEW r \in Req, AgentAsks(p, r) \/ AbortSettles(p, r)
      PROVE  OneCalls'
  BY <1>2, <1>3, <1>7, MadeSeqs DEF AgentAsks, AbortSettles, netVars
<1>8. ASSUME NEW p \in Proc, NEW r \in Req, AutoApprove(p, r)
      PROVE  OneCalls'
  <2>1. \E status \in {"approved", "canceled"}: Enqueue(p, <<AutoRecord(r, status)>>)
    BY <1>8 DEF AutoApprove
  <2> QED
    BY <1>2, <1>3, <1>8, <2>1, MadeSeqs DEF AutoApprove, netVars
<1> QED
  BY <1>4, <1>5, <1>6, <1>7, <1>8 DEF AgentStep

\* Every step keeps the calls.
LEMMA OneCallsNext ==
  ASSUME Types, Connections, OneCalls, [Next]_vars
  PROVE  OneCalls'
<1>1. Types'
  BY TypesNext
<1>2. CASE UNCHANGED vars
  BY <1>2 DEF OneCalls, OneCall, Acks, Sent, vars, hubVars, netVars, cliVars
<1> QED
  BY <1>1, <1>2, OneCallsNet, OneCallsState, OneCallsAgent, Steps

---------------------------------------------------------------------------
(* What the steps do to the row, the queues and the requests.              *)

Quiet == UNCHANGED <<row, queue, phase, asked, waiting, pending, aborting, told, contested>>

\* The hub stores an update.
Stored(q, u) ==
    /\ \E m \in uplink: HubUpdate(m) /\ m.state.version = row.version /\ Write(q, u, m.state)
    /\ row' \in State /\ row'.version = row.version + 1
    /\ row'.requests = Apply(u, row).requests /\ row'.completed = Apply(u, row).completed
    /\ UNCHANGED <<queue, phase, asked, waiting, pending, aborting, told, contested>>

\* A process learns that its update succeeded.
Acked(p) ==
    /\ Succeeded(p) /\ queue[p] # <<>> /\ queue' = [queue EXCEPT ![p] = Tail(@)] /\ call'[p] = NoCall
    /\ UNCHANGED <<row, phase, asked, waiting, pending, aborting, told, contested>>

\* The user's answer reaches the adapter: an outcome, or an abort.
Answered(p, r, outcome, status) ==
    /\ phase[p] = "up" /\ r \in pending[p]
    /\ \/ outcome = "allow" /\ status = "approved"
       \/ outcome = "reject" /\ status = "denied"
    /\ pending' = [pending EXCEPT ![p] = @ \ {r}]
    /\ waiting' = [waiting EXCEPT ![p] = @ \ {r}]
    /\ Tell({r}, outcome) /\ Enqueue(p, <<Record(r, status)>>)
    /\ UNCHANGED <<row, phase, asked, aborting, contested>>
Aborted(p, r) ==
    /\ phase[p] = "up" /\ r \in pending[p]
    /\ pending' = [pending EXCEPT ![p] = @ \ {r}]
    /\ aborting' = [aborting EXCEPT ![p] = @ \cup {r}]
    /\ UNCHANGED <<row, phase, queue, waiting, asked, told, contested>>
AgentEffect ==
    \/ \E p \in Proc, r \in Req:
         \/ AgentAsks(p, r) \/ AbortSettles(p, r) \/ Aborted(p, r)
         \/ AutoApprove(p, r)
         \/ \E outcome \in {"allow", "reject"}, status \in {"approved", "denied"}: Answered(p, r, outcome, status)
    \/ \E p \in Proc: CancelAll(p)

\* A state that is stored is the update of the process that wrote it.
LEMMA StoredBy ==
  ASSUME Types, NEW m \in uplink, HubUpdate(m), m.state.version = row.version,
         NEW q \in Proc, NEW u \in Update, Write(q, u, m.state)
  PROVE  Stored(q, u)
<1>1. row \in State /\ m.state \in State /\ m.state = Apply(u, row)
  BY DEF Write, Types
<1>2. row' = [m.state EXCEPT !.version = row.version + 1]
  BY Broadcast
<1>3. row' \in State /\ row'.version = row.version + 1
  BY <1>1, <1>2 DEF State
<1>4. row'.requests = m.state.requests /\ row'.completed = m.state.completed
  BY <1>1, <1>2 DEF State
<1> QED
  BY <1>1, <1>3, <1>4 DEF Stored, HubUpdate, cliVars, agentVars

\* Every step has one of these effects.
LEMMA Effects ==
  ASSUME Types, Connections, OneCalls, Writes, [Next]_vars
  PROVE  \/ Quiet
         \/ \E p \in Proc: Start(p) \/ Stop(p) \/ Acked(p)
         \/ \E q \in Proc, u \in Update: Stored(q, u)
         \/ AgentEffect
<1> DEFINE Effect == \/ Quiet
                     \/ \E p \in Proc: Start(p) \/ Stop(p) \/ Acked(p)
                     \/ \E q \in Proc, u \in Update: Stored(q, u)
                     \/ AgentEffect
<1>1. CASE UNCHANGED vars
  BY <1>1 DEF vars, hubVars, netVars, cliVars, agentVars, Quiet
<1>2. CASE NetStep
  BY <1>2 DEF NetStep, Connect, Cut, hubVars, agentVars, Quiet
<1>3. CASE StateStep
  <2>1. ASSUME NEW m \in uplink, HubUpdate(m)
        PROVE  Effect
    <3>1. CASE m.state.version = row.version
      <4>1. PICK q \in Proc, u \in Update: Write(q, u, m.state)
        BY <3>1 DEF Writes, Stores
      <4> QED
        BY <2>1, <3>1, <4>1, StoredBy
    <3>2. CASE m.state.version # row.version
      BY <2>1, <3>2, Broadcast DEF HubUpdate, cliVars, agentVars, Quiet
    <3> QED
      BY <3>1, <3>2
  <2>2. ASSUME NEW p \in Proc, TakeAck(p)
        PROVE  Effect
    <3>1. CASE Head(downlink[p]).kind = "success"
      <4>1. 1 \in DOMAIN downlink[p] /\ Head(downlink[p]) = downlink[p][1]
        BY <2>2 DEF TakeAck, Types
      <4>2. Succeeded(p) /\ 1 \in Acks(p)
        BY <3>1, <4>1 DEF Succeeded, Acks
      <4>3. call[p].at = "sent" /\ queue[p] # <<>>
        BY <4>2 DEF OneCalls, OneCall
      <4>4. queue' = [queue EXCEPT ![p] = Tail(@)] /\ call'[p] = NoCall
        BY <2>2, <3>1 DEF TakeAck, Types
      <4> QED
        BY <2>2, <4>2, <4>3, <4>4 DEF TakeAck, hubVars, agentVars, Acked
    <3>2. CASE Head(downlink[p]).kind # "success"
      <4>1. queue' = queue
        BY <2>2, <3>2 DEF TakeAck, Types
      <4> QED
        BY <2>2, <4>1 DEF TakeAck, hubVars, agentVars, Quiet
    <3> QED
      BY <3>1, <3>2
  <2>3. ASSUME NEW p \in Proc, Emit(p) \/ TakeUpdate(p)
        PROVE  Effect
    BY <2>3 DEF Emit, TakeUpdate, hubVars, netVars, agentVars, Quiet
  <2>4. ASSUME NEW s \in open, HubDrop(s)
        PROVE  Effect
    BY <2>4 DEF HubDrop, cliVars, agentVars, Quiet
  <2> QED
    BY <1>3, <2>1, <2>2, <2>3, <2>4 DEF StateStep
<1>4. CASE AgentStep
  <2>1. ASSUME NEW p \in Proc, TakeAnswer(p)
        PROVE  Effect
    <3> DEFINE r == Head(downlink[p]).id
    <3>1. r \in Req /\ Head(downlink[p]).answer \in {"approve", "deny", "abort"}
      BY <2>1, FirstPacket, PacketsAre DEF TakeAnswer
    <3>2. phase[p] = "up"
      BY <2>1 DEF TakeAnswer, Connections, Types
    <3>3. UNCHANGED <<row, phase, asked, contested>>
      BY <2>1 DEF TakeAnswer, hubVars
    <3>4. CASE UNCHANGED <<queue, waiting, pending, aborting, told>>
      BY <3>3, <3>4 DEF Quiet
    <3>5. CASE /\ r \in pending[p] /\ Head(downlink[p]).answer # "abort"
               /\ pending' = [pending EXCEPT ![p] = @ \ {r}]
               /\ waiting' = [waiting EXCEPT ![p] = @ \ {r}]
               /\ Tell({r}, IF Head(downlink[p]).answer = "approve" THEN "allow" ELSE "reject")
               /\ Enqueue(p, <<Record(r, IF Head(downlink[p]).answer = "approve" THEN "approved" ELSE "denied")>>)
               /\ UNCHANGED aborting
      <4> HIDE DEF r
      <4>1. CASE Head(downlink[p]).answer = "approve"
        <5>1. Answered(p, r, "allow", "approved")
          BY <3>2, <3>3, <3>5, <4>1 DEF Answered
        <5> QED
          BY <3>1, <5>1 DEF AgentEffect
      <4>2. CASE Head(downlink[p]).answer # "approve"
        <5>1. Answered(p, r, "reject", "denied")
          BY <3>2, <3>3, <3>5, <4>2 DEF Answered
        <5> QED
          BY <3>1, <5>1 DEF AgentEffect
      <4> QED
        BY <4>1, <4>2
    <3>6. CASE /\ r \in pending[p]
               /\ pending' = [pending EXCEPT ![p] = @ \ {r}]
               /\ aborting' = [aborting EXCEPT ![p] = @ \cup {r}]
               /\ UNCHANGED <<queue, waiting, told>>
      <4>1. Aborted(p, r)
        BY <3>2, <3>3, <3>6 DEF Aborted
      <4> HIDE DEF r
      <4> QED
        BY <3>1, <4>1 DEF AgentEffect
    <3> HIDE DEF Effect
    <3> QED
      BY <2>1, <3>4, <3>5, <3>6 DEF TakeAnswer
  <2>2. ASSUME NEW r \in Req, NEW answer \in {"approve", "deny", "abort"}, AnswerFromWeb(r, answer)
        PROVE  Effect
    BY <2>2 DEF AnswerFromWeb, hubVars, cliVars, agentVars, Quiet
  <2> QED
    BY <1>4, <2>1, <2>2 DEF AgentStep, AgentEffect
<1> QED
  BY <1>1, <1>2, <1>3, <1>4, Steps

---------------------------------------------------------------------------
(* Queues, requests and their lives: steps of processes.                   *)

Content == Queues /\ Requests /\ Lives

\* Nothing of it changes.
LEMMA QuietContent ==
  ASSUME Content, Quiet
  PROVE  Content'
<1>1. Queues'
  BY DEF Content, Quiet, Queues, Queue, Owns, Records
<1>2. Requests'
  BY DEF Content, Quiet, Requests, Unasked, Untold, Told, InQueue, Records
<1>3. Lives'
  BY DEF Content, Quiet, Lives, Uncontested, InQueue
<1> QED
  BY <1>1, <1>2, <1>3 DEF Content

\* A process that starts has no requests; two make the session contested.
LEMMA StartContent ==
  ASSUME Types, Connections, Content, NEW p \in Proc, Start(p)
  PROVE  Content'
<1>1. /\ UNCHANGED <<row, queue, asked, waiting, pending, aborting, told>>
      /\ phase[p] = "idle" /\ phase' = [phase EXCEPT ![p] = "up"]
      /\ contested' = (contested \/ \E q \in Proc: phase[q] = "up")
  BY DEF Start, hubVars, agentVars
<1>2. \A r \in Req: asked[r] # p
  BY <1>1 DEF Content, Requests
<1>3. Queues'
  BY <1>1 DEF Content, Queues, Queue, Owns, Records
<1>4. Requests'
  <2>1. \A r \in Req: Unasked(r)'
    BY <1>1 DEF Content, Requests, Unasked
  <2>2. ASSUME NEW q \in Proc, NEW r \in Req
        PROVE  /\ phase'[q] = "up" => Untold(q, r)' /\ Told(q, r)'
               /\ asked'[r] = q => phase'[q] # "idle"
    <3>1. CASE q = p
      BY <1>1, <1>2, <3>1 DEF Untold, Told
    <3>2. CASE q # p
      <4>1. phase'[q] = phase[q]
        BY <1>1, <3>2 DEF Types
      <4> QED
        BY <1>1, <4>1 DEF Content, Requests, Untold, Told, InQueue, Records
    <3> QED
      BY <3>1, <3>2
  <2>3. \A q \in Proc: /\ \A r \in pending'[q] \cup aborting'[q]: asked'[r] = q /\ told'[r] = None
                       /\ waiting'[q] \subseteq pending'[q] \cup aborting'[q] /\ pending'[q] \cap aborting'[q] = {}
    BY <1>1 DEF Content, Requests
  <2> QED
    BY <2>1, <2>2, <2>3 DEF Requests
<1>5. Lives'
  <2>1. ASSUME ~contested', NEW q \in Proc, NEW r \in Req, phase'[q] = "up", asked'[r] = q
        PROVE  FALSE
    <3>1. q # p /\ phase[q] # "up"
      BY <1>1, <1>2, <2>1
    <3> QED
      BY <1>1, <2>1, <3>1 DEF Types
  <2> QED
    BY <2>1 DEF Lives
<1> QED
  BY <1>3, <1>4, <1>5 DEF Content

\* A process that ends leaves nothing.
LEMMA StopContent ==
  ASSUME Types, Connections, Content, NEW p \in Proc, Stop(p)
  PROVE  Content'
<1>1. /\ UNCHANGED <<row, asked, told, contested>>
      /\ phase[p] = "up" /\ phase' = [phase EXCEPT ![p] = "down"]
      /\ queue' = [queue EXCEPT ![p] = <<>>] /\ waiting' = [waiting EXCEPT ![p] = {}]
      /\ pending' = [pending EXCEPT ![p] = {}] /\ aborting' = [aborting EXCEPT ![p] = {}]
  BY DEF Stop, hubVars
<1>2. /\ phase'[p] = "down" /\ queue'[p] = <<>> /\ waiting'[p] = {} /\ pending'[p] = {} /\ aborting'[p] = {}
      /\ \A q \in Proc: q # p => /\ phase'[q] = phase[q] /\ queue'[q] = queue[q] /\ waiting'[q] = waiting[q]
                                 /\ pending'[q] = pending[q] /\ aborting'[q] = aborting[q]
  BY <1>1 DEF Types
<1>3. Queues'
  <2>1. ASSUME NEW q \in Proc
        PROVE  Queue(q)'
    <3>1. CASE q = p
      BY <1>2, <3>1 DEF Queue
    <3>2. CASE q # p
      BY <1>1, <1>2, <3>2 DEF Content, Queues, Queue, Owns, Records
    <3> QED
      BY <3>1, <3>2
  <2> QED
    BY <2>1 DEF Queues
<1>4. Requests'
  <2>1. \A r \in Req: Unasked(r)'
    BY <1>1 DEF Content, Requests, Unasked
  <2>2. ASSUME NEW q \in Proc, NEW r \in Req
        PROVE  /\ phase'[q] = "up" => Untold(q, r)' /\ Told(q, r)'
               /\ asked'[r] = q => phase'[q] # "idle"
    <3>1. CASE q = p
      BY <1>2, <3>1
    <3>2. CASE q # p
      BY <1>1, <1>2, <3>2 DEF Content, Requests, Untold, Told, InQueue, Records
    <3> QED
      BY <3>1, <3>2
  <2>3. \A q \in Proc: /\ \A r \in pending'[q] \cup aborting'[q]: asked'[r] = q /\ told'[r] = None
                       /\ waiting'[q] \subseteq pending'[q] \cup aborting'[q] /\ pending'[q] \cap aborting'[q] = {}
    BY <1>1, <1>2 DEF Content, Requests
  <2> QED
    BY <2>1, <2>2, <2>3 DEF Requests
<1>5. Lives'
  <2>1. ASSUME ~contested', NEW q \in Proc, NEW r \in Req, phase'[q] = "up", asked'[r] = q
        PROVE  FALSE
    <3>1. q # p /\ phase[q] = "up"
      BY <1>2, <2>1
    <3> QED
      BY <1>1, <2>1, <3>1 DEF Connections
  <2> QED
    BY <2>1 DEF Lives
<1> QED
  BY <1>3, <1>4, <1>5 DEF Content

\* An abort under way.
LEMMA AbortedContent ==
  ASSUME Types, Content, NEW p \in Proc, NEW r \in Req, Aborted(p, r)
  PROVE  Content'
<1>1. /\ UNCHANGED <<row, phase, queue, waiting, asked, told, contested>>
      /\ r \in pending[p] /\ pending'[p] = pending[p] \ {r} /\ aborting'[p] = aborting[p] \cup {r}
      /\ \A q \in Proc: q # p => pending'[q] = pending[q] /\ aborting'[q] = aborting[q]
  BY DEF Aborted, Types
<1>2. Queues'
  BY <1>1 DEF Content, Queues, Queue, Owns, Records
<1>3. \A q \in Proc: pending'[q] \subseteq pending[q]
  BY <1>1
<1>4. Requests'
  <2>1. \A q \in Req: Unasked(q)'
    BY <1>1 DEF Content, Requests, Unasked
  <2>2. ASSUME NEW q \in Proc, NEW k \in Req
        PROVE  /\ phase'[q] = "up" => Untold(q, k)' /\ Told(q, k)'
               /\ asked'[k] = q => phase'[q] # "idle"
    BY <1>1 DEF Content, Requests, Untold, Told, InQueue, Records
  <2>3. ASSUME NEW q \in Proc
        PROVE  /\ \A k \in pending'[q] \cup aborting'[q]: asked'[k] = q /\ told'[k] = None
               /\ waiting'[q] \subseteq pending'[q] \cup aborting'[q] /\ pending'[q] \cap aborting'[q] = {}
    <3>1. /\ \A k \in pending[q] \cup aborting[q]: asked[k] = q /\ told[k] = None
          /\ waiting[q] \subseteq pending[q] \cup aborting[q] /\ pending[q] \cap aborting[q] = {}
      BY DEF Content, Requests
    <3>2. CASE q = p
      BY <1>1, <3>1, <3>2
    <3>3. CASE q # p
      BY <1>1, <3>1, <3>3
    <3> QED
      BY <3>2, <3>3
  <2> QED
    BY <2>1, <2>2, <2>3 DEF Requests
<1>5. Lives'
  <2>1. ASSUME NEW q \in Proc, NEW k \in Req, Uncontested(q, k)
        PROVE  Uncontested(q, k)'
    BY <1>1, <1>3, <2>1 DEF Uncontested, InQueue
  <2> QED
    BY <1>1, <2>1 DEF Content, Lives
<1> QED
  BY <1>2, <1>4, <1>5 DEF Content

---------------------------------------------------------------------------
(* Queues, requests and their lives: an update is stored.                  *)

Unaffected(r) == (r \in row'.requests <=> r \in row.requests) /\ row'.completed[r] = row.completed[r]
Canceled(r) == r \in row.requests /\ r \notin row'.requests /\ row'.completed[r] = "canceled"
Written(r, u) ==
    \/ u = Ask(r) /\ r \in row'.requests /\ row'.completed[r] = row.completed[r]
    \/ /\ u \in Records(r) /\ u.kind = "record" /\ u = Record(r, u.status) /\ u.status \in {"approved", "denied"}
       /\ r \notin row'.requests /\ row'.completed[r] = u.status
    \/ /\ u \in Records(r) /\ u.kind = "auto" /\ u = AutoRecord(r, u.status) /\ u.status \in {"approved", "canceled"}
       /\ (r \in row'.requests <=> r \in row.requests) /\ row'.completed[r] = u.status

\* What a stored update does to a request.
LEMMA StoredDoes ==
  ASSUME Types, NEW q \in Proc, NEW u \in Update, Stored(q, u), NEW r \in Req
  PROVE  \/ Unaffected(r)
         \/ u = CancelRequests /\ Canceled(r)
         \/ u.kind # "cancel" /\ asked[r] = q /\ Written(r, u)
<1>1. row \in State /\ row'.requests = Apply(u, row).requests /\ row'.completed = Apply(u, row).completed
  BY DEF Stored, Types
<1>2. Owns(q, u)
  BY DEF Stored, Write
<1>3. /\ row'.requests = IF u.kind = "ask" THEN row.requests \cup {u.id}
                         ELSE IF u.kind = "record" THEN row.requests \ {u.id}
                         ELSE IF u.kind = "auto" THEN row.requests ELSE {}
      /\ row'.completed[r] = IF \/ u.kind \in {"record", "auto"} /\ r = u.id
                                \/ u.kind = "cancel" /\ r \in row.requests
                             THEN u.status ELSE row.completed[r]
  BY SMTT(30), <1>1, Applied
<1>4. CASE u.kind = "cancel"
  BY <1>3, <1>4, Kinds, Fields DEF Unaffected, Canceled
<1>5. CASE u.kind # "cancel" /\ u.id # r
  BY <1>3, <1>5, Kinds DEF Unaffected
<1>6. CASE u.kind # "cancel" /\ u.id = r
  <2>1. asked[r] = q
    BY <1>2, <1>6 DEF Owns
  <2>2. CASE u.kind = "ask"
    BY <1>3, <1>6, <2>1, <2>2, Kinds DEF Written
  <2>3. CASE u.kind = "record"
    BY <1>3, <1>6, <2>1, <2>3, Kinds, RecordsAre DEF Written
  <2>4. CASE u.kind = "auto"
    BY <1>3, <1>6, <2>1, <2>4, Kinds, RecordsAre DEF Written
  <2> QED
    BY <1>6, <2>2, <2>3, <2>4, Kinds
<1> QED
  BY <1>4, <1>5, <1>6

\* An update of a process that is up is the first in its queue; in an uncontested session, one of
\* a process that is not up changes nothing for those that are.
LEMMA StoredFirst ==
  ASSUME Types, Connections, NEW q \in Proc, NEW u \in Update, Stored(q, u)
  PROVE  /\ phase[q] = "up" => queue[q] # <<>> /\ 1 \in DOMAIN queue[q] /\ u = queue[q][1] /\ u = Head(queue[q])
         /\ ~contested => \A r \in row.requests: phase[asked[r]] = "up" => asked[r] = q \/ asked[r] \notin Proc
<1>1. PICK m \in uplink: Write(q, u, m.state)
  BY DEF Stored
<1>2. phase[q] = "up" => queue[q] # <<>> /\ u = Head(queue[q])
  BY <1>1 DEF Write
<1>3. queue[q] # <<>> => 1 \in DOMAIN queue[q] /\ Head(queue[q]) = queue[q][1]
  BY DEF Types
<1>4. ASSUME ~contested, NEW r \in row.requests, phase[asked[r]] = "up"
      PROVE  asked[r] = q \/ asked[r] \notin Proc
  <2>1. phase[q] = "up"
    BY <1>1, <1>4 DEF Write
  <2> QED
    BY <1>4, <2>1 DEF Connections
<1> QED
  BY <1>2, <1>3, <1>4

\* Queues: what is first is not behind.
LEMMA StoredQueues ==
  ASSUME Types, Connections, Content, NEW q \in Proc, NEW u \in Update, Stored(q, u)
  PROVE  Queues'
<1> SUFFICES ASSUME NEW p \in Proc
             PROVE  Queue(p)'
  BY DEF Queues
<1>1. UNCHANGED <<queue, phase, asked, waiting, pending, aborting, told, contested>>
  BY DEF Stored
<1>2. Queue(p)
  BY DEF Content, Queues
<1>3. ASSUME NEW i \in DOMAIN queue[p], NEW r \in Req, asked[r] = p
      PROVE  /\ \/ Unaffected(r) \/ Canceled(r)
                \/ 1 \in DOMAIN queue[p] /\ Written(r, queue[p][1])
  <2>1. phase[p] = "up"
    BY DEF Connections
  <2> QED
    BY <1>3, <2>1, StoredDoes, StoredFirst
<1>4. ASSUME NEW i \in DOMAIN queue[p], NEW r \in Req, queue[p][i] = Ask(r), i # 1
      PROVE  r \notin row'.requests /\ row'.completed[r] = None
  <2>1. asked[r] = p /\ r \notin row.requests /\ row.completed[r] = None
    <3>1. Owns(p, Ask(r)) /\ r \notin row.requests /\ row.completed[r] = None
      BY <1>2, <1>4 DEF Queue
    <3> QED
      BY <3>1, Fields DEF Owns
  <2>2. i \in Nat /\ i > 1
    BY <1>4 DEF Types
  <2>3. ~(1 \in DOMAIN queue[p] /\ queue[p][1] \in {Ask(r)} \cup Records(r))
    BY <1>2, <1>4, <2>2 DEF Queue
  <2> QED
    BY <1>3, <2>1, <2>3 DEF Unaffected, Canceled, Written
<1>5. ASSUME NEW i \in DOMAIN queue[p], NEW r \in Req, NEW s \in Status, queue[p][i] = AutoRecord(r, s)
      PROVE  r \notin row'.requests
  <2>1. asked[r] = p /\ r \notin row.requests
    BY <1>2, <1>5, Fields DEF Queue, Owns
  <2>2. 1 \in DOMAIN queue[p] => queue[p][1] # Ask(r)
    BY <1>2, <1>5, Fields DEF Queue
  <2> QED
    BY <1>3, <2>1, <2>2 DEF Unaffected, Canceled, Written
<1> QED
  BY <1>1, <1>2, <1>4, <1>5 DEF Queue, Owns, Records

\* Requests: a record is written by who told the agent.
LEMMA StoredRequests ==
  ASSUME Types, Connections, Content, NEW q \in Proc, NEW u \in Update, Stored(q, u)
  PROVE  Requests'
<1>1. UNCHANGED <<queue, phase, asked, waiting, pending, aborting, told, contested>>
  BY DEF Stored
<1>2. ASSUME NEW r \in Req
      PROVE  Unasked(r)'
  BY <1>1, StoredDoes, NoneAssumption DEF Content, Requests, Unasked, Unaffected, Canceled
<1>3. ASSUME NEW p \in Proc, NEW r \in Req, phase[p] = "up", asked[r] = p
      PROVE  Untold(p, r)' /\ Told(p, r)'
  <2>1. Untold(p, r) /\ Told(p, r)
    BY <1>3 DEF Content, Requests
  <2>2. \/ Unaffected(r) \/ Canceled(r)
        \/ 1 \in DOMAIN queue[p] /\ Written(r, queue[p][1])
    BY <1>3, StoredDoes, StoredFirst
  <2>3. \A us: InQueue(p, us)' <=> InQueue(p, us)
    BY <1>1 DEF InQueue
  <2>4. CASE Unaffected(r)
    BY <1>1, <2>1, <2>3, <2>4 DEF Unaffected, Untold, Told, InQueue, Records
  <2>5. CASE Canceled(r)
    BY <1>1, <2>1, <2>3, <2>5 DEF Canceled, Untold, Told, InQueue, Records, Fit
  <2>6. CASE 1 \in DOMAIN queue[p] /\ queue[p][1] = Ask(r) /\ r \in row'.requests /\ row'.completed[r] = row.completed[r]
    <3>1. InQueue(p, {Ask(r)})
      BY <2>6 DEF InQueue
    <3> QED
      BY <1>1, <2>1, <2>3, <2>6, <3>1 DEF Untold, Told, Records, InQueue
  <2>7. CASE 1 \in DOMAIN queue[p] /\ queue[p][1] \in Records(r)
    <3>1. InQueue(p, Records(r)) /\ told[r] # None
      BY <1>3, <2>1, <2>7 DEF InQueue, Untold
    <3>2. Untold(p, r)'
      BY <1>1, <3>1 DEF Untold
    <3>3. InQueue(p, Records(r))'
      BY <1>1, <3>1 DEF InQueue, Records
    <3>4. Told(p, r)'
      BY <1>1, <2>1, <3>3 DEF Told, InQueue, Records
    <3> QED
      BY <3>2, <3>4
  <2> QED
    BY <2>2, <2>4, <2>5, <2>6, <2>7 DEF Written
<1>4. ASSUME NEW p \in Proc, NEW r \in Req, phase[p] = "up", asked[r] # p
      PROVE  Untold(p, r)' /\ Told(p, r)'
  BY <1>1, <1>4 DEF Untold, Told
<1>5. /\ \A p \in Proc, r \in Req: asked[r] = p => phase[p] # "idle"
      /\ \A p \in Proc: /\ \A r \in pending[p] \cup aborting[p]: asked[r] = p /\ told[r] = None
                        /\ waiting[p] \subseteq pending[p] \cup aborting[p] /\ pending[p] \cap aborting[p] = {}
  BY DEF Content, Requests
<1> QED
  BY <1>1, <1>2, <1>3, <1>4, <1>5 DEF Requests

\* Lives: what is stored is the head, and agrees with what its agent was told.
LEMMA StoredLives ==
  ASSUME Types, Connections, Content, NEW q \in Proc, NEW u \in Update, Stored(q, u)
  PROVE  Lives'
<1>1. UNCHANGED <<queue, phase, asked, waiting, pending, aborting, told, contested>>
  BY DEF Stored
<1> SUFFICES ASSUME ~contested, NEW p \in Proc, NEW r \in Req, phase[p] = "up", asked[r] = p
             PROVE  Uncontested(p, r)'
  BY <1>1 DEF Lives
<1>2. Queue(p) /\ Untold(p, r) /\ Told(p, r) /\ Uncontested(p, r)
  BY DEF Content, Queues, Requests, Lives
<1>3. \/ Unaffected(r)
      \/ Canceled(r) /\ 1 \in DOMAIN queue[p] /\ queue[p][1] = CancelRequests
      \/ 1 \in DOMAIN queue[p] /\ Written(r, queue[p][1])
  <2>1. CASE u = CancelRequests /\ Canceled(r)
    <3>1. p = q
      BY <2>1, StoredFirst DEF Canceled
    <3> QED
      BY <2>1, <3>1, StoredFirst
  <2>2. CASE asked[r] = q /\ Written(r, u)
    BY <2>2, StoredFirst
  <2> QED
    BY <2>1, <2>2, StoredDoes
<1>4. \A us: InQueue(p, us)' <=> InQueue(p, us)
  BY <1>1 DEF InQueue
<1>5. \A k \in DOMAIN queue[p]: k \in Nat /\ k >= 1
  BY DEF Types
<1>6. CASE Unaffected(r)
  BY <1>1, <1>2, <1>4, <1>6 DEF Unaffected, Uncontested
<1>7. CASE Canceled(r) /\ 1 \in DOMAIN queue[p] /\ queue[p][1] = CancelRequests
  <2>1. /\ r \in row.requests /\ r \notin row'.requests /\ row'.completed[r] = "canceled"
        /\ InQueue(p, {CancelRequests})
    BY <1>7 DEF Canceled, InQueue
  <2>2. \A i \in DOMAIN queue[p]: queue[p][i] # Ask(r)
    <3>1. ASSUME NEW i \in DOMAIN queue[p], queue[p][i] = Ask(r)
          PROVE  FALSE
      <4>1. i # 1
        BY <1>7, <3>1 DEF Ask, CancelRequests
      <4> QED
        BY <1>2, <2>1, <3>1, <4>1 DEF Queue
    <3> QED
      BY <3>1
  <2>3. \A k \in DOMAIN queue[p], s \in Status: queue[p][k] # AutoRecord(r, s)
    BY <1>2, <2>1 DEF Queue
  <2>4. r \notin pending[p] /\ \A k \in DOMAIN queue[p]: queue[p][k] # Record(r, "approved")
    <3>1. \A k \in DOMAIN queue[p]: 1 \in 1..k /\ \A i \in 1..k - 1: i \in DOMAIN queue[p]
      BY DEF Types
    <3>2. r \notin pending[p]
      BY <1>2, <2>1, <2>2 DEF Uncontested
    <3>3. ASSUME NEW k \in DOMAIN queue[p], queue[p][k] = Record(r, "approved")
          PROVE  FALSE
      BY <1>2, <1>7, <2>1, <2>2, <3>1, <3>3 DEF Uncontested
    <3> QED
      BY <3>2, <3>3
  <2>5. ~InQueue(p, {Ask(r)})
    BY <2>2 DEF InQueue
  <2> QED
    BY <1>1, <1>4, <2>1, <2>3, <2>4, <2>5 DEF Uncontested
<1>8. CASE 1 \in DOMAIN queue[p] /\ queue[p][1] = Ask(r) /\ r \in row'.requests /\ row'.completed[r] = row.completed[r]
  <2>1. InQueue(p, {Ask(r)})
    BY <1>8 DEF InQueue
  <2>2. row.completed[r] = None /\ \A k \in DOMAIN queue[p], s \in Status: queue[p][k] # AutoRecord(r, s)
    <3>1. Ask(r).kind = "ask" /\ Ask(r).id = r
      BY Fields
    <3> QED
      BY <1>2, <1>8, <2>1, <3>1 DEF Uncontested, Queue
  <2>3. None # "approved" /\ InQueue(p, {Ask(r)})'
    BY <1>4, <2>1, NoneAssumption
  <2>4. ASSUME NEW k \in DOMAIN queue[p], queue[p][k] = Record(r, "approved")
        PROVE  \/ \E i \in 1..k - 1: /\ queue[p][i] = Ask(r)
                                    /\ \A j \in i..k: queue[p][j] # CancelRequests
               \/ r \in row'.requests /\ \A j \in 1..k: queue[p][j] # CancelRequests
    BY <1>2, <1>8, <2>2, <2>3, <2>4 DEF Uncontested
  <2>5. /\ r \in pending[p] =>
              \/ \E i \in DOMAIN queue[p]: /\ queue[p][i] = Ask(r)
                                           /\ \A j \in DOMAIN queue[p]: j > i => queue[p][j] # CancelRequests
              \/ r \in row'.requests /\ ~InQueue(p, {CancelRequests})
    BY <1>2, <1>8 DEF Uncontested
  <2> QED
    BY <1>1, <1>4, <1>8, <2>2, <2>4, <2>5 DEF Uncontested
<1>9. CASE 1 \in DOMAIN queue[p] /\ queue[p][1] \in Records(r) /\ row'.completed[r] = queue[p][1].status
           /\ Written(r, queue[p][1])
  <2> DEFINE h == queue[p][1]
  <2>0. /\ h # Ask(r) /\ h.kind \in {"record", "auto"}
        /\ h.kind = "record" => h = Record(r, h.status)
        /\ h.kind = "auto" => h = AutoRecord(r, h.status) /\ h.status \in {"approved", "canceled"}
    <3>1. h \in Records(r) => h # Ask(r)
      BY DEF Records, Ask, Record, AutoRecord
    <3> QED
      BY <1>9, <3>1 DEF Written
  <2>1. InQueue(p, Records(r)) /\ told[r] # None /\ r \notin pending[p]
    <3>1. InQueue(p, Records(r))
      BY <1>9 DEF InQueue
    <3>2. told[r] # None
      BY <1>2, <3>1 DEF Untold
    <3> QED
      BY <3>1, <3>2 DEF Content, Requests
  <2>2. \A k \in DOMAIN queue[p]: queue[p][k] \in Records(r) => Fit(queue[p][k].status, told[r])
    BY <1>2, <2>1 DEF Told
  <2>3. ~InQueue(p, {Ask(r)})
    <3>1. ASSUME NEW i \in DOMAIN queue[p], queue[p][i] = Ask(r)
          PROVE  FALSE
      <4>1. i = 1
        BY <1>2, <1>5, <1>9, <3>1 DEF Queue
      <4> QED
        BY <2>0, <3>1, <4>1
    <3> QED
      BY <3>1 DEF InQueue
  <2>4. ASSUME NEW k \in DOMAIN queue[p], queue[p][k] = Record(r, "approved")
        PROVE  r \notin row'.requests /\ row'.completed[r] = "approved"
    <3>1. told[r] = "allow"
      BY <2>2, <2>4, Fields DEF Records, Fit
    <3>2. h.status = "approved"
      BY <1>9, <2>2, <3>1 DEF Fit
    <3>3. h.kind = "record"
      <4>1. ASSUME NEW s \in Status, h = AutoRecord(r, s)
            PROVE  FALSE
        <5>1. queue[p][k].kind \in {"ask", "record"} => queue[p][k].id # r
          BY <1>2, <1>9, <4>1 DEF Queue
        <5> QED
          BY <2>4, <5>1, Fields
      <4> QED
        BY <2>0, <4>1 DEF Status
    <3> QED
      BY <1>9, <3>2, <3>3, Fields DEF Written
  <2>5. ASSUME NEW k \in DOMAIN queue[p], queue[p][k] = Record(r, "denied")
        PROVE  row'.completed[r] \in {"canceled", "denied"}
    <3>1. told[r] \in {"reject", "cancelled"}
      BY <2>2, <2>5, Fields DEF Records, Fit
    <3> QED
      BY <1>9, <2>2, <3>1 DEF Fit
  <2>6. ASSUME NEW k \in DOMAIN queue[p], NEW s \in Status, queue[p][k] = AutoRecord(r, s)
        PROVE  row'.completed[r] \in {None, s}
    <3>1. h.kind # "record"
      <4>1. h.kind \in {"ask", "record"} => h.id # r
        BY <1>2, <1>9, <2>6 DEF Queue
      <4> QED
        BY <2>0, <4>1, Fields
    <3>2. queue[p][k] \in Update /\ s \in {"approved", "canceled"}
      <4>1. AutoRecord(r, s).kind = "auto" /\ AutoRecord(r, s).status = s
        BY Fields
      <4>2. queue[p][k] \in Update
        BY DEF Types
      <4> QED
        BY <2>6, <4>1, <4>2, Kinds
    <3>3. queue[p][k] \in Records(r) /\ Fit(s, told[r])
      BY <2>2, <2>6, <3>2, Fields DEF Records
    <3>4. h.status \in {"approved", "canceled"} /\ Fit(h.status, told[r])
      BY <1>9, <2>0, <2>2, <3>1
    <3>5. h.status = s
      BY <3>2, <3>3, <3>4 DEF Fit
    <3> QED
      BY <1>9, <3>5
  <2> HIDE DEF h
  <2> QED
    BY <1>1, <1>4, <2>1, <2>3, <2>4, <2>5, <2>6 DEF Uncontested
<1> QED
  BY <1>3, <1>6, <1>7, <1>8, <1>9 DEF Written

---------------------------------------------------------------------------
(* Queues, requests and their lives: an update has succeeded.              *)

\* What is behind the first update was behind it before.
LEMMA QueueTail ==
  ASSUME Types, NEW p \in Proc, Acked(p)
  PROVE  /\ 1 \in DOMAIN queue[p] /\ Head(queue[p]) = queue[p][1]
         /\ \A i \in DOMAIN queue'[p]: /\ i \in Nat /\ i >= 1 /\ i + 1 \in DOMAIN queue[p]
                                       /\ queue'[p][i] = queue[p][i + 1]
         /\ \A i \in DOMAIN queue[p]: i # 1 => /\ i - 1 \in DOMAIN queue'[p] /\ i - 1 \in Nat
                                               /\ queue'[p][i - 1] = queue[p][i]
         /\ \A q \in Proc: q # p => queue'[q] = queue[q]
<1>1. queue[p] \in Seq(Update) /\ queue[p] # <<>> /\ queue'[p] = Tail(queue[p])
      /\ \A q \in Proc: q # p => queue'[q] = queue[q]
  BY DEF Types, Acked
<1>2. Len(Tail(queue[p])) = Len(queue[p]) - 1
  BY <1>1
<1> QED
  BY <1>1, <1>2

\* Positions up to one of the rest are positions of the rest, and of the whole.
LEMMA TypesTail ==
  ASSUME Types, NEW p \in Proc, Acked(p), NEW k \in DOMAIN queue'[p]
  PROVE  \A j \in 1..k: j \in DOMAIN queue'[p] /\ j \in DOMAIN queue[p]
<1>1. queue[p] \in Seq(Update) /\ queue[p] # <<>> /\ queue'[p] = Tail(queue[p])
  BY DEF Types, Acked
<1>2. Len(Tail(queue[p])) = Len(queue[p]) - 1 /\ Tail(queue[p]) \in Seq(Update)
  BY <1>1
<1> QED
  BY <1>1, <1>2

\* Queues.
LEMMA AckedQueues ==
  ASSUME Types, Content, NEW p \in Proc, Acked(p)
  PROVE  Queues'
<1> SUFFICES ASSUME NEW q \in Proc
             PROVE  Queue(q)'
  BY DEF Queues
<1>1. UNCHANGED <<row, phase, asked, waiting, pending, aborting, told, contested>> /\ Queue(q)
  BY DEF Acked, Content, Queues
<1>2. CASE q # p
  BY <1>1, <1>2, QueueTail DEF Queue, Owns, Records
<1>3. CASE q = p
  <2>1. \A i \in DOMAIN queue'[q]: /\ i \in Nat /\ i >= 1 /\ i + 1 \in DOMAIN queue[q]
                                   /\ queue'[q][i] = queue[q][i + 1]
    BY <1>3, QueueTail
  <2>2. ASSUME NEW i \in DOMAIN queue'[q]
        PROVE  Owns(q, queue[q][i + 1])
    BY <1>1, <2>1 DEF Queue
  <2>3. ASSUME NEW i \in DOMAIN queue'[q], NEW j \in DOMAIN queue'[q], NEW r \in Req,
               queue'[q][i] = Ask(r), queue'[q][j] \in {Ask(r)} \cup Records(r)
        PROVE  i <= j
    <3>1. i + 1 <= j + 1
      BY <1>1, <2>1, <2>3 DEF Queue
    <3> QED
      BY <2>1, <3>1
  <2>4. ASSUME NEW i \in DOMAIN queue'[q], NEW r \in Req, queue'[q][i] = Ask(r)
        PROVE  r \notin row.requests /\ row.completed[r] = None
    BY <1>1, <2>1, <2>4 DEF Queue
  <2>5. ASSUME NEW i \in DOMAIN queue'[q], NEW j \in DOMAIN queue'[q], NEW r \in Req, NEW s \in Status,
               queue'[q][i] = AutoRecord(r, s)
        PROVE  /\ r \notin row.requests
               /\ queue'[q][j].kind \in {"ask", "record"} => queue'[q][j].id # r
    BY <1>1, <2>1, <2>5 DEF Queue
  <2> QED
    BY <1>1, <2>1, <2>2, <2>3, <2>4, <2>5 DEF Queue, Owns, Records
<1> QED
  BY <1>2, <1>3

\* What the first update was meant to do for a request is done.
LEMMA AckedHead ==
  ASSUME Types, Content, NEW p \in Proc, Acked(p), Absorbed(p, Head(queue[p])), NEW r \in Req, asked[r] = p
  PROVE  /\ queue[p][1] = Ask(r) => r \in row.requests \/ (contested /\ row.completed[r] = "canceled")
         /\ queue[p][1] \in Records(r) => r \notin row.requests /\ row.completed[r] = queue[p][1].status
         /\ queue[p][1] = CancelRequests => r \notin row.requests
<1>1. Head(queue[p]) = queue[p][1] /\ queue[p][1] \in Update
  BY QueueTail DEF Types
<1> QED
  BY <1>1, RecordsAre, Fields DEF Absorbed

\* Requests.
LEMMA AckedRequests ==
  ASSUME Types, Content, NEW p \in Proc, Acked(p), Absorbed(p, Head(queue[p]))
  PROVE  Requests'
<1>1. UNCHANGED <<row, phase, asked, waiting, pending, aborting, told, contested>>
  BY DEF Acked
<1>2. ASSUME NEW r \in Req
      PROVE  Unasked(r)'
  BY <1>1 DEF Content, Requests, Unasked
<1>3. ASSUME NEW q \in Proc, NEW r \in Req, phase[q] = "up", q # p
      PROVE  Untold(q, r)' /\ Told(q, r)'
  BY <1>1, <1>3, QueueTail DEF Content, Requests, Untold, Told, InQueue, Records
<1>4. ASSUME NEW r \in Req, phase[p] = "up", asked[r] = p
      PROVE  Untold(p, r)' /\ Told(p, r)'
  <2>1. Untold(p, r) /\ Told(p, r)
    BY <1>4 DEF Content, Requests
  <2>2. /\ 1 \in DOMAIN queue[p]
        /\ \A i \in DOMAIN queue'[p]: /\ i \in Nat /\ i >= 1 /\ i + 1 \in DOMAIN queue[p]
                                      /\ queue'[p][i] = queue[p][i + 1]
        /\ \A i \in DOMAIN queue[p]: i # 1 => /\ i - 1 \in DOMAIN queue'[p] /\ i - 1 \in Nat
                                              /\ queue'[p][i - 1] = queue[p][i]
    BY QueueTail
  <2>3. \A us: (InQueue(p, us) => queue[p][1] \in us \/ \E i \in DOMAIN queue'[p]: queue'[p][i] \in us)
               /\ ((\E i \in DOMAIN queue'[p]: queue'[p][i] \in us) => InQueue(p, us))
    BY <2>2 DEF InQueue
  <2>4. /\ queue[p][1] = Ask(r) => r \in row.requests \/ (contested /\ row.completed[r] = "canceled")
        /\ queue[p][1] \in Records(r) => r \notin row.requests /\ row.completed[r] = queue[p][1].status
        /\ queue[p][1] = CancelRequests => r \notin row.requests
    BY <1>4, AckedHead
  <2>5. Untold(p, r)'
    BY <1>1, <2>1, <2>3, <2>4 DEF Untold, InQueue, Records
  <2>6. Told(p, r)'
    <3> SUFFICES ASSUME told[r] # None
                 PROVE  Told(p, r)'
      BY <1>1 DEF Told
    <3>1. \A i \in DOMAIN queue[p]: queue[p][i] \in Records(r) => Fit(queue[p][i].status, told[r])
      BY <1>4, <2>1 DEF Told
    <3>2. \A i \in DOMAIN queue'[p]: queue'[p][i] \in Records(r) => Fit(queue'[p][i].status, told[r])
      BY <2>2, <3>1
    <3>3. ASSUME NEW j \in DOMAIN queue[p], queue[p][j] = Ask(r)
          PROVE  \E i \in DOMAIN queue'[p]:
                    /\ i > j - 1
                    /\ queue'[p][i] \in Records(r) \/ (told[r] = "cancelled" /\ queue'[p][i] = CancelRequests)
      <4>1. PICK i \in DOMAIN queue[p]:
                    i > j /\ (queue[p][i] \in Records(r) \/ (told[r] = "cancelled" /\ queue[p][i] = CancelRequests))
        BY <1>4, <2>1, <3>3 DEF Told
      <4>2. i # 1 /\ i - 1 > j - 1
        BY <3>3, <4>1 DEF Types
      <4> QED
        BY <2>2, <4>1, <4>2
    <3>4. ASSUME NEW j \in DOMAIN queue'[p], queue'[p][j] = Ask(r)
          PROVE  \E i \in DOMAIN queue'[p]:
                    /\ i > j
                    /\ queue'[p][i] \in Records(r) \/ (told[r] = "cancelled" /\ queue'[p][i] = CancelRequests)
      <4>1. j \in Nat /\ j + 1 \in DOMAIN queue[p] /\ queue[p][j + 1] = Ask(r) /\ (j + 1) - 1 = j
        BY <2>2, <3>4
      <4> QED
        BY <3>3, <4>1
    <3>5. ASSUME ~\E i \in DOMAIN queue'[p]: queue'[p][i] = Ask(r)
          PROVE  \/ \E i \in DOMAIN queue'[p]: queue'[p][i] \in Records(r)
                 \/ r \notin row.requests /\ Fit(row.completed[r], told[r])
                 \/ /\ told[r] = "cancelled" /\ \E i \in DOMAIN queue'[p]: queue'[p][i] = CancelRequests
                    /\ r \in row.requests \/ Fit(row.completed[r], told[r])
      <4>1. CASE queue[p][1] = Ask(r)
        <5>1. \E i \in DOMAIN queue'[p]:
                    queue'[p][i] \in Records(r) \/ (told[r] = "cancelled" /\ queue'[p][i] = CancelRequests)
          BY <2>2, <3>3, <4>1
        <5>2. told[r] = "cancelled" => r \in row.requests \/ Fit(row.completed[r], told[r])
          BY <2>4, <4>1 DEF Fit
        <5> QED
          BY <5>1, <5>2
      <4>2. CASE queue[p][1] # Ask(r)
        <5>1. ~InQueue(p, {Ask(r)})
          BY <2>3, <3>5, <4>2
        <5>2. \/ InQueue(p, Records(r))
              \/ r \notin row.requests /\ Fit(row.completed[r], told[r])
              \/ /\ told[r] = "cancelled" /\ InQueue(p, {CancelRequests})
                 /\ r \in row.requests \/ Fit(row.completed[r], told[r])
          BY <1>4, <2>1, <5>1 DEF Told
        <5>3. CASE InQueue(p, Records(r))
          <6>1. queue[p][1] \in Records(r) => Fit(row.completed[r], told[r])
            BY <2>2, <2>4, <3>1
          <6> QED
            BY <2>3, <2>4, <5>3, <6>1
        <5>4. CASE /\ told[r] = "cancelled" /\ InQueue(p, {CancelRequests})
                   /\ r \in row.requests \/ Fit(row.completed[r], told[r])
          BY <2>3, <2>4, <5>4
        <5> QED
          BY <5>2, <5>3, <5>4
      <4> QED
        BY <4>1, <4>2
    <3> QED
      BY <1>1, <3>2, <3>4, <3>5 DEF Told, InQueue, Records
  <2> QED
    BY <2>5, <2>6
<1>5. ASSUME NEW r \in Req, asked[r] # p
      PROVE  Untold(p, r)' /\ Told(p, r)'
  BY <1>1, <1>5 DEF Untold, Told
<1>6. /\ \A q \in Proc, r \in Req: asked[r] = q => phase[q] # "idle"
      /\ \A q \in Proc: /\ \A r \in pending[q] \cup aborting[q]: asked[r] = q /\ told[r] = None
                        /\ waiting[q] \subseteq pending[q] \cup aborting[q] /\ pending[q] \cap aborting[q] = {}
  BY DEF Content, Requests
<1>7. ASSUME NEW q \in Proc, NEW r \in Req, phase'[q] = "up"
      PROVE  Untold(q, r)' /\ Told(q, r)'
  BY <1>1, <1>3, <1>4, <1>5, <1>7
<1> QED
  BY <1>1, <1>2, <1>6, <1>7 DEF Requests

\* Lives.
LEMMA AckedLives ==
  ASSUME Types, Content, NEW p \in Proc, Acked(p), Absorbed(p, Head(queue[p]))
  PROVE  Lives'
<1>1. UNCHANGED <<row, phase, asked, waiting, pending, aborting, told, contested>>
  BY DEF Acked
<1> SUFFICES ASSUME ~contested, NEW q \in Proc, NEW r \in Req, phase[q] = "up", asked[r] = q
             PROVE  Uncontested(q, r)'
  BY <1>1 DEF Lives
<1>2. Uncontested(q, r)
  BY DEF Content, Lives
<1>3. CASE q # p
  BY <1>1, <1>2, <1>3, QueueTail DEF Uncontested, InQueue
<1>4. CASE q = p
  <2>1. /\ 1 \in DOMAIN queue[p]
        /\ \A i \in DOMAIN queue'[p]: /\ i \in Nat /\ i >= 1 /\ i + 1 \in DOMAIN queue[p]
                                      /\ queue'[p][i] = queue[p][i + 1]
        /\ \A i \in DOMAIN queue[p]: i # 1 => /\ i - 1 \in DOMAIN queue'[p] /\ i - 1 \in Nat
                                              /\ queue'[p][i - 1] = queue[p][i]
    BY QueueTail
  <2>2. queue[p][1] = Ask(r) => r \in row.requests
    BY <1>4, AckedHead
  <2>3. \A us: (\E i \in DOMAIN queue'[p]: queue'[p][i] \in us) => InQueue(p, us)
    BY <2>1 DEF InQueue
  <2>4. (\E i \in DOMAIN queue'[p]: queue'[p][i] = Ask(r)) => row.completed[r] = None
    BY <1>2, <1>4, <2>3 DEF Uncontested
  <2>5. ASSUME r \in pending[p]
        PROVE  \/ \E i \in DOMAIN queue'[p]: /\ queue'[p][i] = Ask(r)
                                             /\ \A j \in DOMAIN queue'[p]: j > i => queue'[p][j] # CancelRequests
               \/ r \in row.requests /\ ~\E i \in DOMAIN queue'[p]: queue'[p][i] = CancelRequests
    <3>1. CASE \E i \in DOMAIN queue[p]: /\ queue[p][i] = Ask(r)
                                         /\ \A j \in DOMAIN queue[p]: j > i => queue[p][j] # CancelRequests
      <4>1. PICK i \in DOMAIN queue[p]: /\ queue[p][i] = Ask(r)
                                        /\ \A j \in DOMAIN queue[p]: j > i => queue[p][j] # CancelRequests
        BY <3>1
      <4>2. i \in Nat
        BY DEF Types
      <4>3. ASSUME NEW j \in DOMAIN queue'[p], j > i - 1
            PROVE  queue'[p][j] # CancelRequests
        BY <2>1, <4>1, <4>2, <4>3
      <4>4. CASE i = 1
        BY <2>1, <2>2, <4>1, <4>3, <4>4
      <4>5. CASE i # 1
        BY <2>1, <4>1, <4>3, <4>5
      <4> QED
        BY <4>4, <4>5
    <3>2. CASE r \in row.requests /\ ~InQueue(p, {CancelRequests})
      BY <2>3, <3>2
    <3> QED
      BY <1>2, <1>4, <2>5, <3>1, <3>2 DEF Uncontested
  <2>6. ASSUME NEW k \in DOMAIN queue'[p], queue'[p][k] = Record(r, "approved")
        PROVE  \/ \E i \in 1..k - 1: /\ queue'[p][i] = Ask(r)
                                     /\ \A j \in i..k: queue'[p][j] # CancelRequests
               \/ r \in row.requests /\ \A j \in 1..k: queue'[p][j] # CancelRequests
               \/ r \notin row.requests /\ row.completed[r] = "approved"
    <3>1. k \in Nat /\ k >= 1 /\ k + 1 \in DOMAIN queue[p] /\ queue[p][k + 1] = Record(r, "approved")
          /\ (k + 1) - 1 = k
      BY <2>1, <2>6
    <3>2. \A j \in 1..k: /\ j \in DOMAIN queue'[p] /\ j + 1 \in 1..k + 1
                         /\ j \in DOMAIN queue[p] /\ queue'[p][j] = queue[p][j + 1]
      BY <2>1, <3>1, TypesTail
    <3>3. CASE \E i \in 1..(k + 1) - 1: /\ queue[p][i] = Ask(r)
                                        /\ \A j \in i..k + 1: queue[p][j] # CancelRequests
      <4>1. PICK i \in 1..k: queue[p][i] = Ask(r) /\ \A j \in i..k + 1: queue[p][j] # CancelRequests
        BY <3>1, <3>3
      <4>2. \A j \in 1..k: j >= i - 1 => queue'[p][j] # CancelRequests
        BY <3>1, <3>2, <4>1
      <4>3. CASE i = 1
        BY <2>2, <4>1, <4>2, <4>3
      <4>4. CASE i # 1
        <5>1. i - 1 \in 1..k - 1 /\ queue'[p][i - 1] = Ask(r)
          BY <3>1, <3>2, <4>1, <4>4
        <5>2. \A j \in i - 1..k: j \in 1..k /\ j >= i - 1
          BY <3>1, <4>1, <4>4
        <5> QED
          BY <4>2, <5>1, <5>2
      <4> QED
        BY <4>3, <4>4
    <3>4. CASE r \in row.requests /\ \A j \in 1..k + 1: queue[p][j] # CancelRequests
      BY <3>1, <3>2, <3>4
    <3> QED
      BY <1>2, <1>4, <3>1, <3>3, <3>4 DEF Uncontested
  <2>7. ASSUME NEW k \in DOMAIN queue'[p], queue'[p][k] = Record(r, "denied")
        PROVE  \/ \E i \in 1..k - 1: queue'[p][i] = Ask(r)
               \/ r \in row.requests
               \/ row.completed[r] \in {"canceled", "denied"}
    <3>1. k \in Nat /\ k >= 1 /\ k + 1 \in DOMAIN queue[p] /\ queue[p][k + 1] = Record(r, "denied")
          /\ (k + 1) - 1 = k
      BY <2>1, <2>7
    <3>2. \A j \in 1..k: j \in DOMAIN queue'[p] /\ j \in DOMAIN queue[p] /\ queue'[p][j] = queue[p][j + 1]
      BY <2>1, <3>1, TypesTail
    <3>3. CASE \E i \in 1..(k + 1) - 1: queue[p][i] = Ask(r)
      <4>1. PICK i \in 1..k: queue[p][i] = Ask(r)
        BY <3>1, <3>3
      <4>2. CASE i = 1
        BY <2>2, <4>1, <4>2
      <4>3. CASE i # 1
        <5>1. i - 1 \in 1..k - 1 /\ queue'[p][i - 1] = Ask(r)
          BY <3>1, <3>2, <4>1, <4>3
        <5> QED
          BY <5>1
      <4> QED
        BY <4>2, <4>3
    <3> QED
      BY <1>2, <1>4, <3>1, <3>3 DEF Uncontested
  <2>8. ASSUME NEW k \in DOMAIN queue'[p], NEW s \in Status, queue'[p][k] = AutoRecord(r, s)
        PROVE  row.completed[r] \in {None, s}
    BY <1>2, <1>4, <2>1, <2>8 DEF Uncontested
  <2> QED
    BY <1>1, <1>4, <2>4, <2>5, <2>6, <2>7, <2>8 DEF Uncontested, InQueue
<1> QED
  BY <1>3, <1>4

---------------------------------------------------------------------------
(* Queues, requests and their lives: a process enqueues updates.           *)

Grown(p, added) ==
    /\ \A i \in DOMAIN queue[p]: i \in DOMAIN queue'[p] /\ queue'[p][i] = queue[p][i]
    /\ \A i \in DOMAIN queue'[p]: /\ i \in Nat /\ i >= 1
                                  /\ i \notin DOMAIN queue[p] => /\ queue'[p][i] \in added
                                                                 /\ \A j \in DOMAIN queue[p]: j < i

\* One update goes behind the others.
LEMMA EnqueuedOne ==
  ASSUME Types, NEW p \in Proc, NEW u \in Update, Enqueue(p, <<u>>)
  PROVE  /\ Grown(p, {u}) /\ \A q \in Proc: q # p => Grown(q, {})
         /\ \A i, j \in DOMAIN queue'[p]: i \notin DOMAIN queue[p] /\ j \notin DOMAIN queue[p] => i = j
         /\ \E i \in DOMAIN queue'[p]: i \notin DOMAIN queue[p] /\ queue'[p][i] = u
<1>1. queue \in [Proc -> Seq(Update)] /\ <<u>> \in Seq(Update) /\ queue' = [queue EXCEPT ![p] = @ \o <<u>>]
  BY DEF Types, Enqueue
<1>2. queue[p] \in Seq(Update) /\ queue'[p] = queue[p] \o <<u>>
  BY <1>1
<1>3. Len(queue'[p]) = Len(queue[p]) + 1 /\ queue'[p] \in Seq(Update) /\ queue'[p][Len(queue[p]) + 1] = u
      /\ \A i \in 1..Len(queue[p]): queue'[p][i] = queue[p][i]
  BY <1>2
<1>4. DOMAIN queue[p] = 1..Len(queue[p]) /\ DOMAIN queue'[p] = 1..Len(queue[p]) + 1 /\ Len(queue[p]) \in Nat
  BY <1>2, <1>3
<1>5. Grown(p, {u})
  BY <1>3, <1>4 DEF Grown
<1>6. ASSUME NEW q \in Proc, q # p
      PROVE  Grown(q, {})
  <2>1. queue'[q] = queue[q] /\ queue[q] \in Seq(Update)
    BY <1>1, <1>6
  <2> QED
    BY <2>1 DEF Grown
<1>7. \E i \in DOMAIN queue'[p]: i \notin DOMAIN queue[p] /\ queue'[p][i] = u
  BY <1>3, <1>4
<1> QED
  BY <1>4, <1>5, <1>6, <1>7

\* Two updates go behind the others.
LEMMA EnqueuedTwo ==
  ASSUME Types, NEW p \in Proc, NEW u \in Update, NEW v \in Update, Enqueue(p, <<u, v>>)
  PROVE  /\ Grown(p, {u, v}) /\ \A q \in Proc: q # p => Grown(q, {})
         /\ \E i \in DOMAIN queue'[p]: i \notin DOMAIN queue[p] /\ queue'[p][i] = u
<1>1. queue \in [Proc -> Seq(Update)] /\ <<u, v>> \in Seq(Update) /\ queue' = [queue EXCEPT ![p] = @ \o <<u, v>>]
  BY DEF Types, Enqueue
<1>2. queue[p] \in Seq(Update) /\ queue'[p] = queue[p] \o <<u, v>>
  BY <1>1
<1>3. Len(queue'[p]) = Len(queue[p]) + 2 /\ queue'[p] \in Seq(Update)
      /\ queue'[p][Len(queue[p]) + 1] = u /\ queue'[p][Len(queue[p]) + 2] = v
      /\ \A i \in 1..Len(queue[p]): queue'[p][i] = queue[p][i]
  BY <1>2
<1>4. DOMAIN queue[p] = 1..Len(queue[p]) /\ DOMAIN queue'[p] = 1..Len(queue[p]) + 2 /\ Len(queue[p]) \in Nat
  BY <1>2, <1>3
<1>5. Grown(p, {u, v})
  BY SMTT(30), <1>3, <1>4 DEF Grown
<1>6. ASSUME NEW q \in Proc, q # p
      PROVE  Grown(q, {})
  <2>1. queue'[q] = queue[q] /\ queue[q] \in Seq(Update)
    BY <1>1, <1>6
  <2> QED
    BY <2>1 DEF Grown
<1>7. \E i \in DOMAIN queue'[p]: i \notin DOMAIN queue[p] /\ queue'[p][i] = u
  BY SMTT(30), <1>3, <1>4
<1> QED
  BY <1>5, <1>6, <1>7

\* A request that was not asked is in no queue.
LEMMA NotQueued ==
  ASSUME Content, NEW r \in Req, asked[r] = None, NEW p \in Proc, NEW i \in DOMAIN queue[p]
  PROVE  queue[p][i] \notin {Ask(r)} \cup Records(r) /\ (queue[p][i].kind # "cancel" => queue[p][i].id # r)
<1>1. Owns(p, queue[p][i])
  BY DEF Content, Queues, Queue
<1>2. queue[p][i].kind # "cancel" => queue[p][i].id # r
  BY <1>1, NoneAssumption DEF Owns
<1> QED
  BY <1>2, Fields DEF Records

\* Nothing new, cancellations, and records of requests that have none: the queue stays in order.
LEMMA GrownQueue ==
  ASSUME Types, NEW p \in Proc, Queue(p), NEW added, Grown(p, added), row' = row,
         \A r \in Req: asked[r] = p => asked'[r] = p,
         \A u \in added: \/ u = CancelRequests
                         \/ \E r \in Req, s \in Status: /\ u = Record(r, s) /\ asked'[r] = p
                                                        /\ ~InQueue(p, Records(r))
  PROVE  Queue(p)'
<1>1. ASSUME NEW i \in DOMAIN queue'[p], queue'[p][i].kind # "cancel"
      PROVE  asked'[queue'[p][i].id] = p
  <2>1. CASE i \in DOMAIN queue[p]
    <3>1. queue'[p][i] = queue[p][i] /\ queue[p][i] \in Update /\ Owns(p, queue[p][i])
      BY <2>1 DEF Grown, Queue, Types
    <3>2. queue[p][i].id \in Req
      BY <1>1, <3>1, Kinds
    <3> QED
      BY <1>1, <3>1, <3>2 DEF Owns
  <2>2. CASE i \notin DOMAIN queue[p]
    <3>1. queue'[p][i] \in added
      BY <2>2 DEF Grown
    <3> QED
      BY <1>1, <3>1, Fields
  <2> QED
    BY <2>1, <2>2
<1>2. ASSUME NEW i \in DOMAIN queue'[p], NEW r \in Req, queue'[p][i] = Ask(r)
      PROVE  i \in DOMAIN queue[p] /\ queue[p][i] = Ask(r)
  <2>1. Ask(r) \notin added
    BY DEF Ask, Record, CancelRequests
  <2> QED
    BY <1>2, <2>1 DEF Grown
<1>3. ASSUME NEW i \in DOMAIN queue'[p], NEW r \in Req, NEW s, queue'[p][i] = AutoRecord(r, s)
      PROVE  i \in DOMAIN queue[p] /\ queue[p][i] = AutoRecord(r, s)
  <2>1. AutoRecord(r, s) \notin added
    BY DEF AutoRecord, Record, CancelRequests
  <2> QED
    BY <1>3, <2>1 DEF Grown
<1>4. ASSUME NEW i \in DOMAIN queue'[p], NEW j \in DOMAIN queue'[p], NEW r \in Req, queue'[p][i] = Ask(r),
             queue'[p][j] \in {Ask(r)} \cup Records(r)
      PROVE  i <= j
  <2>1. i \in DOMAIN queue[p] /\ queue[p][i] = Ask(r) /\ i \in Nat /\ j \in Nat
    BY <1>2, <1>4 DEF Grown
  <2>2. CASE j \in DOMAIN queue[p]
    BY <1>4, <2>1, <2>2 DEF Grown, Queue
  <2>3. CASE j \notin DOMAIN queue[p]
    BY <2>1, <2>3 DEF Grown
  <2> QED
    BY <2>2, <2>3
<1>5. ASSUME NEW i \in DOMAIN queue'[p], NEW r \in Req, queue'[p][i] = Ask(r), i # 1
      PROVE  r \notin row'.requests /\ row'.completed[r] = None
  BY <1>2, <1>5 DEF Queue
<1>6. ASSUME NEW i \in DOMAIN queue'[p], NEW j \in DOMAIN queue'[p], NEW r \in Req, NEW s \in Status,
             queue'[p][i] = AutoRecord(r, s)
      PROVE  /\ r \notin row'.requests
             /\ queue'[p][j].kind \in {"ask", "record"} => queue'[p][j].id # r
  <2>1. i \in DOMAIN queue[p] /\ queue[p][i] = AutoRecord(r, s)
    BY <1>3, <1>6
  <2>2. CASE j \in DOMAIN queue[p]
    BY <2>1, <2>2 DEF Grown, Queue
  <2>3. CASE j \notin DOMAIN queue[p]
    <3>1. queue'[p][j] \in added
      BY <2>3 DEF Grown
    <3>2. s \in {"approved", "canceled"}
      <4>1. queue[p][i] \in Update
        BY <2>1 DEF Types
      <4>2. AutoRecord(r, s).kind = "auto" /\ AutoRecord(r, s).status = s
        BY Fields
      <4> QED
        BY <2>1, <4>1, <4>2, Kinds
    <3>3. InQueue(p, Records(r))
      BY <2>1, <3>2 DEF InQueue, Records
    <3>4. ASSUME NEW k \in Req, NEW t \in Status, queue'[p][j] = Record(k, t), ~InQueue(p, Records(k))
          PROVE  queue'[p][j].id # r
      BY <3>3, <3>4, Fields
    <3> QED
      BY <2>1, <2>3, <3>1, <3>4, Fields DEF Queue
  <2> QED
    BY <2>2, <2>3
<1> QED
  BY <1>1, <1>4, <1>5, <1>6 DEF Queue, Owns, Records

\* What is enqueued about other requests leaves a request as it is.
LEMMA GrownOthers ==
  ASSUME NEW p \in Proc, NEW added, Grown(p, added), NEW r \in Req, added \cap ({Ask(r)} \cup Records(r)) = {},
         row' = row, asked'[r] = asked[r], told'[r] = told[r]
  PROVE  /\ Untold(p, r) => Untold(p, r)'
         /\ Told(p, r) => Told(p, r)'
<1>1. \A i \in DOMAIN queue[p]: i \in DOMAIN queue'[p] /\ queue'[p][i] = queue[p][i]
  BY DEF Grown
<1>2. \A i \in DOMAIN queue'[p]: queue'[p][i] \in {Ask(r)} \cup Records(r) =>
         i \in DOMAIN queue[p] /\ queue'[p][i] = queue[p][i]
  BY DEF Grown
<1>3. Untold(p, r) => Untold(p, r)'
  BY <1>1, <1>2 DEF Untold, InQueue, Records
<1>4. ASSUME Told(p, r), asked[r] = p, told[r] # None
      PROVE  Told(p, r)'
  <2>1. \A i \in DOMAIN queue'[p]: queue'[p][i] \in Records(r) => Fit(queue'[p][i].status, told[r])
    BY <1>1, <1>2, <1>4 DEF Told
  <2>2. \A j \in DOMAIN queue'[p]: queue'[p][j] = Ask(r) =>
              \E i \in DOMAIN queue'[p]:
                 i > j /\ (queue'[p][i] \in Records(r) \/ (told[r] = "cancelled" /\ queue'[p][i] = CancelRequests))
    BY <1>1, <1>2, <1>4 DEF Told
  <2>3. InQueue(p, {Ask(r)}) => \E i \in DOMAIN queue'[p]: queue'[p][i] \in {Ask(r)}
    BY <1>1 DEF InQueue
  <2>4. InQueue(p, Records(r)) => \E i \in DOMAIN queue'[p]: queue'[p][i] \in Records(r)
    BY <1>1 DEF InQueue
  <2>5. InQueue(p, {CancelRequests}) => \E i \in DOMAIN queue'[p]: queue'[p][i] \in {CancelRequests}
    BY <1>1 DEF InQueue
  <2>6. ~InQueue(p, {Ask(r)}) =>
              \/ InQueue(p, Records(r))
              \/ r \notin row.requests /\ Fit(row.completed[r], told[r])
              \/ /\ told[r] = "cancelled" /\ InQueue(p, {CancelRequests})
                 /\ r \in row.requests \/ Fit(row.completed[r], told[r])
    BY <1>4 DEF Told
  <2> QED
    BY <2>1, <2>2, <2>3, <2>4, <2>5, <2>6 DEF Told, InQueue, Records
<1>5. ~(asked[r] = p /\ told[r] # None) => Told(p, r)'
  BY DEF Told
<1> QED
  BY <1>3, <1>4, <1>5

\* The same for its life.
LEMMA GrownLife ==
  ASSUME Types, Types', NEW p \in Proc, NEW added, Grown(p, added), NEW r \in Req,
         added \cap ({Ask(r)} \cup Records(r)) = {},
         row' = row, r \in pending'[p] => r \in pending[p], CancelRequests \in added => r \notin pending'[p],
         Uncontested(p, r)
  PROVE  Uncontested(p, r)'
<1>1. \A i \in DOMAIN queue[p]: i \in DOMAIN queue'[p] /\ queue'[p][i] = queue[p][i]
  BY DEF Grown
<1>2. \A i \in DOMAIN queue'[p]: queue'[p][i] \in {Ask(r)} \cup Records(r) =>
         i \in DOMAIN queue[p] /\ queue'[p][i] = queue[p][i]
  BY DEF Grown
<1>3. \A k \in DOMAIN queue[p]: \A j \in 1..k: j \in DOMAIN queue[p]
  BY DEF Types
<1>4. (\E i \in DOMAIN queue'[p]: queue'[p][i] = Ask(r)) => row.completed[r] = None
  BY <1>2 DEF Uncontested, InQueue
<1>5. ASSUME r \in pending'[p]
      PROVE  \/ \E i \in DOMAIN queue'[p]: /\ queue'[p][i] = Ask(r)
                                           /\ \A j \in DOMAIN queue'[p]: j > i => queue'[p][j] # CancelRequests
             \/ r \in row.requests /\ ~\E i \in DOMAIN queue'[p]: queue'[p][i] = CancelRequests
  <2>1. \A i \in DOMAIN queue'[p]: queue'[p][i] = CancelRequests =>
           i \in DOMAIN queue[p] /\ queue[p][i] = CancelRequests
    BY <1>5 DEF Grown
  <2> QED
    BY <1>1, <1>5, <2>1 DEF Uncontested, InQueue
<1>6. ASSUME NEW k \in DOMAIN queue'[p], queue'[p][k] = Record(r, "approved")
      PROVE  \/ \E i \in 1..k - 1: /\ queue'[p][i] = Ask(r)
                                   /\ \A j \in i..k: queue'[p][j] # CancelRequests
             \/ r \in row.requests /\ \A j \in 1..k: queue'[p][j] # CancelRequests
             \/ r \notin row.requests /\ row.completed[r] = "approved"
  <2>1. k \in DOMAIN queue[p] /\ queue[p][k] = Record(r, "approved") /\ k \in Nat
    BY <1>2, <1>6 DEF Records, Types
  <2>2. \A j \in 1..k: queue'[p][j] = queue[p][j]
    BY <1>1, <1>3, <2>1
  <2>3. \A i \in 1..k - 1: i \in 1..k /\ \A j \in i..k: j \in 1..k
    BY <2>1
  <2> QED
    BY <2>1, <2>2, <2>3 DEF Uncontested
<1>7. ASSUME NEW k \in DOMAIN queue'[p], queue'[p][k] = Record(r, "denied")
      PROVE  \/ \E i \in 1..k - 1: queue'[p][i] = Ask(r)
             \/ r \in row.requests
             \/ row.completed[r] \in {"canceled", "denied"}
  <2>1. k \in DOMAIN queue[p] /\ queue[p][k] = Record(r, "denied") /\ k \in Nat
    BY <1>2, <1>7 DEF Records, Types
  <2>2. \A i \in 1..k - 1: queue'[p][i] = queue[p][i]
    BY <1>1, <1>3, <2>1
  <2> QED
    BY <2>1, <2>2 DEF Uncontested
<1>8. ASSUME NEW k \in DOMAIN queue'[p], NEW s \in Status, queue'[p][k] = AutoRecord(r, s)
      PROVE  row.completed[r] \in {None, s}
  <2>1. queue'[p][k] \in Update /\ AutoRecord(r, s).kind = "auto" /\ AutoRecord(r, s).status = s
    BY Fields DEF Types
  <2>2. s \in {"approved", "canceled"}
    BY <1>8, <2>1, Kinds
  <2>3. k \in DOMAIN queue[p] /\ queue[p][k] = AutoRecord(r, s)
    BY <1>2, <1>8, <2>2 DEF Records
  <2> QED
    BY <2>3 DEF Uncontested
<1> QED
  BY <1>4, <1>5, <1>6, <1>7, <1>8 DEF Uncontested, InQueue

\* An agent that is told has its first record behind everything.
LEMMA RecordedTold ==
  ASSUME NEW p \in Proc, NEW r \in Req, NEW u \in Records(r), Grown(p, {u}), ~InQueue(p, Records(r)),
         \E i \in DOMAIN queue'[p]: i \notin DOMAIN queue[p] /\ queue'[p][i] = u,
         Fit(u.status, told'[r]), told'[r] # None, u # Ask(r)
  PROVE  Untold(p, r)' /\ Told(p, r)'
<1>1. PICK n \in DOMAIN queue'[p]: n \notin DOMAIN queue[p] /\ queue'[p][n] = u
  OBVIOUS
<1>2. \A i \in DOMAIN queue'[p]: queue'[p][i] \in Records(r) => queue'[p][i] = u
  BY DEF Grown, InQueue
<1>3. \A j \in DOMAIN queue'[p]: queue'[p][j] = Ask(r) => n > j
  BY <1>1 DEF Grown
<1>4. \E i \in DOMAIN queue'[p]: queue'[p][i] \in Records(r)
  BY <1>1
<1> QED
  BY <1>1, <1>2, <1>3, <1>4 DEF Untold, Told, InQueue, Records

\* An agent that is told its request is cancelled has a cancellation behind it.
LEMMA CanceledTold ==
  ASSUME NEW p \in Proc, NEW r \in Req, NEW added, Grown(p, added), Untold(p, r), asked[r] = p, told[r] = None,
         \E i \in DOMAIN queue'[p]: i \notin DOMAIN queue[p] /\ queue'[p][i] = CancelRequests,
         \A u \in added: u = CancelRequests \/ \E k \in Req: u = Record(k, "denied"),
         row' = row, told'[r] = "cancelled"
  PROVE  Untold(p, r)' /\ Told(p, r)'
<1>0. told'[r] # None
  BY NoneAssumption
<1>1. PICK n \in DOMAIN queue'[p]: n \notin DOMAIN queue[p] /\ queue'[p][n] = CancelRequests
  OBVIOUS
<1>2. \A u \in added: u \in Records(r) => u.status = "denied"
  BY Fields DEF Records
<1>3. \A i \in DOMAIN queue'[p]: queue'[p][i] \in Records(r) => queue'[p][i].status = "denied"
  BY <1>2 DEF Grown, InQueue, Untold
<1>4. \A j \in DOMAIN queue'[p]: queue'[p][j] = Ask(r) => n > j
  <2>1. Ask(r) \notin added
    BY DEF Ask, Record, CancelRequests
  <2> QED
    BY <1>1, <2>1 DEF Grown
<1>5. InQueue(p, {Ask(r)}) => \E i \in DOMAIN queue'[p]: queue'[p][i] \in {Ask(r)}
  BY DEF Grown, InQueue
<1>6. ~InQueue(p, {Ask(r)}) => r \in row.requests \/ Fit(row.completed[r], "cancelled")
  BY DEF Untold, Fit
<1> QED
  BY <1>0, <1>1, <1>3, <1>4, <1>5, <1>6 DEF Untold, Told, InQueue, Records, Fit

\* What a step of an agent leaves alone, and what it has to show of the requests of processes that are up.
LEMMA ContentMade ==
  ASSUME Types, Content, UNCHANGED <<row, phase, contested>>,
         \A q \in Proc: Queue(q)',
         \A q \in Proc, r \in Req: phase[q] = "up" /\ asked'[r] = q =>
            /\ Untold(q, r)' /\ Told(q, r)'
            /\ ~contested => Uncontested(q, r)',
         \A r \in Req: Unasked(r)',
         \A q \in Proc, r \in Req: asked'[r] = q => phase[q] # "idle",
         \A q \in Proc: /\ \A r \in pending'[q] \cup aborting'[q]: asked'[r] = q /\ told'[r] = None
                        /\ waiting'[q] \subseteq pending'[q] \cup aborting'[q] /\ pending'[q] \cap aborting'[q] = {}
  PROVE  Content'
<1>1. Queues'
  BY DEF Queues
<1>2. \A q \in Proc, r \in Req: asked'[r] # q => Untold(q, r)' /\ Told(q, r)'
  BY DEF Untold, Told
<1>3. Requests'
  BY <1>2 DEF Requests
<1>4. Lives'
  BY DEF Lives
<1> QED
  BY <1>1, <1>3, <1>4 DEF Content

\* A new request is first asked.
LEMMA AsksContent ==
  ASSUME Types, Types', Content, NEW p \in Proc, NEW r \in Req, AgentAsks(p, r)
  PROVE  Content'
<1>1. /\ phase[p] = "up" /\ asked[r] = None /\ asked' = [asked EXCEPT ![r] = p]
      /\ waiting' = [waiting EXCEPT ![p] = @ \cup {r}] /\ pending' = [pending EXCEPT ![p] = @ \cup {r}]
      /\ Enqueue(p, <<Ask(r)>>) /\ UNCHANGED <<row, phase, aborting, told, contested>>
  BY DEF AgentAsks, hubVars
<1>2. /\ asked'[r] = p /\ \A k \in Req: k # r => asked'[k] = asked[k]
      /\ waiting'[p] = waiting[p] \cup {r} /\ pending'[p] = pending[p] \cup {r}
      /\ \A q \in Proc: q # p => waiting'[q] = waiting[q] /\ pending'[q] = pending[q]
  BY <1>1 DEF Types
<1>3. r \notin row.requests /\ row.completed[r] = None /\ told[r] = None
  BY <1>1 DEF Content, Requests, Unasked
<1>4. \A q \in Proc: \A i \in DOMAIN queue[q]:
         queue[q][i] \notin {Ask(r)} \cup Records(r) /\ (queue[q][i].kind # "cancel" => queue[q][i].id # r)
  BY <1>1, NotQueued
<1>5. /\ Grown(p, {Ask(r)}) /\ \A q \in Proc: q # p => Grown(q, {})
      /\ \A i, j \in DOMAIN queue'[p]: i \notin DOMAIN queue[p] /\ j \notin DOMAIN queue[p] => i = j
      /\ \E i \in DOMAIN queue'[p]: i \notin DOMAIN queue[p] /\ queue'[p][i] = Ask(r)
  BY <1>1, Made, EnqueuedOne
<1>6. \A q \in Proc, k \in Req: asked[k] = q => asked'[k] = q
  BY <1>1, <1>2, NoneAssumption
<1>7. Queue(p)'
  <2>1. Queue(p)
    BY DEF Content, Queues
  <2>2. Ask(r).kind = "ask" /\ Ask(r).id = r /\ Ask(r) \notin Records(r)
        /\ \A k \in Req: Ask(r) = Ask(k) => r = k
    BY DEF Ask, Records, Record, AutoRecord
  <2>3. ASSUME NEW i \in DOMAIN queue'[p], queue'[p][i].kind # "cancel"
        PROVE  asked'[queue'[p][i].id] = p
    <3>1. CASE i \in DOMAIN queue[p]
      <4>1. queue'[p][i] = queue[p][i] /\ queue[p][i] \in Update /\ Owns(p, queue[p][i])
        BY <1>5, <2>1, <3>1 DEF Grown, Queue, Types
      <4> QED
        BY <1>6, <2>3, <4>1, Kinds DEF Owns
    <3>2. CASE i \notin DOMAIN queue[p]
      BY <1>2, <1>5, <2>2, <3>2 DEF Grown
    <3> QED
      BY <3>1, <3>2
  <2>4. ASSUME NEW i \in DOMAIN queue'[p], NEW j \in DOMAIN queue'[p], NEW k \in Req, queue'[p][i] = Ask(k),
               queue'[p][j] \in {Ask(k)} \cup Records(k)
        PROVE  i <= j
    <3>0. i \in Nat /\ j \in Nat
      BY <1>5 DEF Grown
    <3>1. CASE i \in DOMAIN queue[p] /\ j \in DOMAIN queue[p]
      BY <1>5, <2>1, <2>4, <3>1 DEF Grown, Queue
    <3>2. CASE i \in DOMAIN queue[p] /\ j \notin DOMAIN queue[p]
      BY <1>5, <3>0, <3>2 DEF Grown
    <3>3. CASE i \notin DOMAIN queue[p] /\ j \notin DOMAIN queue[p]
      BY <1>5, <3>0, <3>3
    <3>4. CASE i \notin DOMAIN queue[p] /\ j \in DOMAIN queue[p]
      <4>1. k = r
        BY <1>5, <2>2, <2>4, <3>4 DEF Grown
      <4>2. queue'[p][j] = queue[p][j]
        BY <1>5, <3>4 DEF Grown
      <4> QED
        BY <1>4, <2>4, <3>4, <4>1, <4>2
    <3> QED
      BY <3>1, <3>2, <3>3, <3>4
  <2>5. ASSUME NEW i \in DOMAIN queue'[p], NEW k \in Req, queue'[p][i] = Ask(k), i # 1
        PROVE  k \notin row'.requests /\ row'.completed[k] = None
    <3>1. CASE i \in DOMAIN queue[p]
      BY <1>1, <1>5, <2>1, <2>5, <3>1 DEF Grown, Queue
    <3>2. CASE i \notin DOMAIN queue[p]
      BY <1>1, <1>3, <1>5, <2>2, <2>5, <3>2 DEF Grown
    <3> QED
      BY <3>1, <3>2
  <2>6. ASSUME NEW i \in DOMAIN queue'[p], NEW j \in DOMAIN queue'[p], NEW k \in Req, NEW s \in Status,
               queue'[p][i] = AutoRecord(k, s)
        PROVE  /\ k \notin row'.requests
               /\ queue'[p][j].kind \in {"ask", "record"} => queue'[p][j].id # k
    <3>1. i \in DOMAIN queue[p] /\ queue[p][i] = AutoRecord(k, s)
      BY <1>5, <2>6, Fields DEF Grown
    <3>2. CASE j \in DOMAIN queue[p]
      BY <1>1, <1>5, <2>1, <3>1, <3>2 DEF Grown, Queue
    <3>3. CASE j \notin DOMAIN queue[p]
      <4>1. k \notin row.requests
        BY <2>1, <3>1 DEF Queue
      <4>2. k # r
        BY <1>4, <3>1, Fields
      <4> QED
        BY <1>1, <1>5, <2>2, <3>3, <4>1, <4>2 DEF Grown
    <3> QED
      BY <3>2, <3>3
  <2> QED
    BY <2>3, <2>4, <2>5, <2>6 DEF Queue, Owns, Records
<1>8. ASSUME NEW q \in Proc
      PROVE  Queue(q)'
  <2>1. CASE q # p
    <3>1. \A k \in Req: asked[k] = q => asked'[k] = q
      BY <1>6
    <3> QED
      BY <1>1, <1>5, <2>1, <3>1, GrownQueue DEF Content, Queues
  <2> QED
    BY <1>7, <2>1
<1>9. ASSUME NEW q \in Proc, NEW k \in Req, phase[q] = "up", asked'[k] = q
      PROVE  Untold(q, k)' /\ Told(q, k)' /\ (~contested => Uncontested(q, k)')
  <2>1. CASE k # r
    <3>1. asked[k] = q /\ Untold(q, k) /\ Told(q, k) /\ (~contested => Uncontested(q, k))
      BY <1>2, <1>9, <2>1 DEF Content, Requests, Lives
    <3>2. Ask(r) \notin {Ask(k)} \cup Records(k) /\ CancelRequests # Ask(r)
      BY <2>1 DEF Ask, Records, Record, AutoRecord, CancelRequests
    <3>3. PICK added: Grown(q, added) /\ added \cap ({Ask(k)} \cup Records(k)) = {} /\ CancelRequests \notin added
      BY <1>5, <3>2
    <3>4. Untold(q, k)' /\ Told(q, k)'
      BY <1>1, <1>2, <2>1, <3>1, <3>3, GrownOthers
    <3>5. k \in pending'[q] => k \in pending[q]
      BY <1>2, <2>1
    <3>6. ASSUME Uncontested(q, k)
          PROVE  Uncontested(q, k)'
      BY <1>1, <3>3, <3>5, <3>6, GrownLife
    <3> QED
      BY <3>1, <3>4, <3>6
  <2>2. CASE k = r
    <3>1. q = p
      BY <1>2, <1>9, <2>2
    <3>2. Told(q, k)'
      BY <1>1, <1>3, <2>2 DEF Told
    <3>3. /\ \A i \in DOMAIN queue'[p]: queue'[p][i] \notin Records(r)
          /\ \A i \in DOMAIN queue'[p]: \A s \in Status: queue'[p][i] # AutoRecord(r, s) /\ queue'[p][i] # Record(r, s)
      <4>1. Ask(r) \notin Records(r) /\ \A s: Ask(r) # AutoRecord(r, s) /\ Ask(r) # Record(r, s)
        BY DEF Ask, Records, Record, AutoRecord
      <4>2. \A s: AutoRecord(r, s).id = r /\ AutoRecord(r, s).kind = "auto" /\ Record(r, s).id = r /\ Record(r, s).kind = "record"
        BY Fields
      <4> QED
        BY <1>4, <1>5, <4>1, <4>2 DEF Grown
    <3>4. PICK n \in DOMAIN queue'[p]: n \notin DOMAIN queue[p] /\ queue'[p][n] = Ask(r)
      BY <1>5
    <3>5. Untold(q, k)'
      BY <1>1, <1>3, <2>2, <3>1, <3>3, <3>4 DEF Untold, InQueue, Records
    <3>6. \A j \in DOMAIN queue'[p]: j > n => queue'[p][j] # CancelRequests
      <4>1. ASSUME NEW j \in DOMAIN queue'[p], j > n
            PROVE  j \notin DOMAIN queue[p]
        BY <1>5, <3>4, <4>1 DEF Grown
      <4> QED
        BY <1>5, <4>1 DEF Grown, Ask, CancelRequests
    <3>7. Uncontested(q, k)'
      BY <1>1, <1>3, <2>2, <3>1, <3>3, <3>4, <3>6 DEF Uncontested, InQueue, Status
    <3> QED
      BY <3>2, <3>5, <3>7
  <2> QED
    BY <2>1, <2>2
<1>10. \A k \in Req: Unasked(k)'
  BY <1>1, <1>2, NoneAssumption DEF Content, Requests, Unasked
<1>11. \A q \in Proc, k \in Req: asked'[k] = q => phase[q] # "idle"
  BY <1>1, <1>2 DEF Content, Requests
<1>12. ASSUME NEW q \in Proc
       PROVE  /\ \A k \in pending'[q] \cup aborting'[q]: asked'[k] = q /\ told'[k] = None
              /\ waiting'[q] \subseteq pending'[q] \cup aborting'[q] /\ pending'[q] \cap aborting'[q] = {}
  <2>1. /\ \A k \in pending[q] \cup aborting[q]: k \in Req /\ asked[k] = q /\ told[k] = None
        /\ waiting[q] \subseteq pending[q] \cup aborting[q] /\ pending[q] \cap aborting[q] = {}
    BY DEF Content, Requests, Types
  <2>2. r \notin pending[q] \cup aborting[q]
    BY <1>1, <2>1, NoneAssumption
  <2>3. \A k \in pending[q] \cup aborting[q]: asked'[k] = q /\ told'[k] = None
    BY <1>1, <1>6, <2>1
  <2>4. CASE q = p
    BY <1>1, <1>2, <1>3, <2>1, <2>2, <2>3, <2>4
  <2>5. CASE q # p
    BY <1>1, <1>2, <2>1, <2>3, <2>5
  <2> QED
    BY <2>4, <2>5
<1> QED
  BY <1>1, <1>8, <1>9, <1>10, <1>11, <1>12, ContentMade

\* A request that is approved or cancelled automatically was never asked.
LEMMA AutoContent ==
  ASSUME Types, Types', Content, NEW p \in Proc, NEW r \in Req, AutoApprove(p, r)
  PROVE  Content'
<1>0. PICK allowed \in BOOLEAN:
        /\ Tell({r}, IF allowed THEN "allow" ELSE "cancelled")
        /\ Enqueue(p, <<AutoRecord(r, IF allowed THEN "approved" ELSE "canceled")>>)
  BY DEF AutoApprove
<1> DEFINE outcome == IF allowed THEN "allow" ELSE "cancelled"
           status == IF allowed THEN "approved" ELSE "canceled"
           u == AutoRecord(r, status)
<1>1. /\ phase[p] = "up" /\ asked[r] = None /\ asked' = [asked EXCEPT ![r] = p]
      /\ Tell({r}, outcome) /\ Enqueue(p, <<u>>)
      /\ UNCHANGED <<row, phase, waiting, pending, aborting, contested>>
  BY <1>0 DEF AutoApprove, hubVars
<1>2. /\ asked'[r] = p /\ told'[r] = outcome /\ \A k \in Req: k # r => asked'[k] = asked[k] /\ told'[k] = told[k]
  BY <1>1 DEF Types, Tell
<1>3. r \notin row.requests /\ row.completed[r] = None /\ told[r] = None
  BY <1>1 DEF Content, Requests, Unasked
<1>4. \A q \in Proc: \A i \in DOMAIN queue[q]:
         queue[q][i] \notin {Ask(r)} \cup Records(r) /\ (queue[q][i].kind # "cancel" => queue[q][i].id # r)
  BY <1>1, NotQueued
<1>5. /\ status \in {"approved", "canceled"} /\ u \in Update /\ u \in Records(r)
      /\ u.kind = "auto" /\ u.id = r /\ u.status = status
  <2>1. status \in {"approved", "canceled"}
    OBVIOUS
  <2> HIDE DEF status
  <2> QED
    BY <2>1, Made, Fields DEF Records
<1>6. Fit(status, outcome) /\ outcome # None
  BY NoneAssumption DEF Fit
<1> HIDE DEF outcome, status
<1>7. /\ Grown(p, {u}) /\ \A q \in Proc: q # p => Grown(q, {})
      /\ \A i, j \in DOMAIN queue'[p]: i \notin DOMAIN queue[p] /\ j \notin DOMAIN queue[p] => i = j
      /\ \E i \in DOMAIN queue'[p]: i \notin DOMAIN queue[p] /\ queue'[p][i] = u
  BY <1>1, <1>5, EnqueuedOne
<1>8. \A q \in Proc, k \in Req: asked[k] = q => asked'[k] = q
  BY <1>1, <1>2, NoneAssumption
<1>9. \A k \in Req: /\ u # Ask(k) /\ u # CancelRequests
                    /\ k # r => u \notin Records(k)
                    /\ \A s: u # Record(k, s) /\ (u = AutoRecord(k, s) => k = r /\ s = status)
  BY <1>5, Fields DEF Records
<1> HIDE DEF u
<1>10. Queue(p)'
  <2>1. Queue(p)
    BY DEF Content, Queues
  <2>3. ASSUME NEW i \in DOMAIN queue'[p], queue'[p][i].kind # "cancel"
        PROVE  asked'[queue'[p][i].id] = p
    <3>1. CASE i \in DOMAIN queue[p]
      <4>1. queue'[p][i] = queue[p][i] /\ queue[p][i] \in Update /\ Owns(p, queue[p][i])
        BY <1>7, <2>1, <3>1 DEF Grown, Queue, Types
      <4> QED
        BY <1>8, <2>3, <4>1, Kinds DEF Owns
    <3>2. CASE i \notin DOMAIN queue[p]
      BY <1>2, <1>5, <1>7, <3>2 DEF Grown
    <3> QED
      BY <3>1, <3>2
  <2>4. ASSUME NEW i \in DOMAIN queue'[p], NEW j \in DOMAIN queue'[p], NEW k \in Req, queue'[p][i] = Ask(k),
               queue'[p][j] \in {Ask(k)} \cup Records(k)
        PROVE  i <= j
    <3>1. i \in DOMAIN queue[p] /\ queue[p][i] = Ask(k) /\ k # r
      BY <1>4, <1>7, <1>9, <2>4 DEF Grown
    <3>2. j \in DOMAIN queue[p] /\ queue[p][j] = queue'[p][j]
      BY <1>7, <1>9, <2>4, <3>1 DEF Grown
    <3> QED
      BY <2>1, <2>4, <3>1, <3>2 DEF Queue
  <2>5. ASSUME NEW i \in DOMAIN queue'[p], NEW k \in Req, queue'[p][i] = Ask(k), i # 1
        PROVE  k \notin row'.requests /\ row'.completed[k] = None
    BY <1>1, <1>7, <1>9, <2>1, <2>5 DEF Grown, Queue
  <2>6. ASSUME NEW i \in DOMAIN queue'[p], NEW j \in DOMAIN queue'[p], NEW k \in Req, NEW s \in Status,
               queue'[p][i] = AutoRecord(k, s)
        PROVE  /\ k \notin row'.requests
               /\ queue'[p][j].kind \in {"ask", "record"} => queue'[p][j].id # k
    <3>1. CASE i \in DOMAIN queue[p]
      <4>1. queue[p][i] = AutoRecord(k, s) /\ k \notin row.requests
        BY <1>7, <2>1, <2>6, <3>1 DEF Grown, Queue
      <4>2. CASE j \in DOMAIN queue[p]
        BY <1>1, <1>7, <2>1, <4>1, <3>1, <4>2 DEF Grown, Queue
      <4>3. CASE j \notin DOMAIN queue[p]
        BY <1>1, <1>5, <1>7, <4>1, <4>3 DEF Grown
      <4> QED
        BY <4>2, <4>3
    <3>2. CASE i \notin DOMAIN queue[p]
      <4>1. k = r
        BY <1>7, <1>9, <2>6, <3>2 DEF Grown
      <4>2. CASE j \in DOMAIN queue[p]
        <5>1. queue'[p][j] = queue[p][j]
          BY <1>7, <4>2 DEF Grown
        <5> QED
          BY <1>1, <1>3, <1>4, <4>1, <4>2, <5>1
      <4>3. CASE j \notin DOMAIN queue[p]
        BY <1>1, <1>3, <1>5, <1>7, <4>1, <4>3 DEF Grown
      <4> QED
        BY <4>2, <4>3
    <3> QED
      BY <3>1, <3>2
  <2> QED
    BY <2>3, <2>4, <2>5, <2>6 DEF Queue, Owns, Records
<1>11. ASSUME NEW q \in Proc
       PROVE  Queue(q)'
  <2>1. CASE q # p
    <3>1. \A k \in Req: asked[k] = q => asked'[k] = q
      BY <1>8
    <3> QED
      BY <1>1, <1>7, <2>1, <3>1, GrownQueue DEF Content, Queues
  <2> QED
    BY <1>10, <2>1
<1>12. ASSUME NEW q \in Proc, NEW k \in Req, phase[q] = "up", asked'[k] = q
       PROVE  Untold(q, k)' /\ Told(q, k)' /\ (~contested => Uncontested(q, k)')
  <2>1. CASE k # r
    <3>1. asked[k] = q /\ Untold(q, k) /\ Told(q, k) /\ (~contested => Uncontested(q, k))
      BY <1>2, <1>12, <2>1 DEF Content, Requests, Lives
    <3>2. PICK added: Grown(q, added) /\ added \cap ({Ask(k)} \cup Records(k)) = {} /\ CancelRequests \notin added
      BY <1>7, <1>9, <2>1
    <3>3. Untold(q, k)' /\ Told(q, k)'
      BY <1>1, <1>2, <2>1, <3>1, <3>2, GrownOthers
    <3>4. Uncontested(q, k) => Uncontested(q, k)'
      BY <1>1, <3>2, GrownLife
    <3> QED
      BY <3>1, <3>3, <3>4
  <2>2. CASE k = r
    <3>1. q = p
      BY <1>2, <1>12, <2>2
    <3>2. ~InQueue(p, Records(r))
      BY <1>4 DEF InQueue
    <3>3. Untold(q, k)' /\ Told(q, k)'
      BY <1>2, <1>5, <1>6, <1>7, <1>9, <2>2, <3>1, <3>2, RecordedTold
    <3>4. /\ \A i \in DOMAIN queue'[p]: queue'[p][i] # Ask(r)
          /\ \A i \in DOMAIN queue'[p]: \A s \in Status: queue'[p][i] # Record(r, s)
      <4>1. \A s: Record(r, s).id = r /\ Record(r, s).kind = "record"
        BY Fields
      <4> QED
        BY <1>4, <1>7, <1>9, <4>1 DEF Grown
    <3>5. r \notin pending[p]
      BY <1>1, NoneAssumption DEF Content, Requests
    <3>6. Uncontested(q, k)'
      BY <1>1, <1>3, <2>2, <3>1, <3>4, <3>5 DEF Uncontested, InQueue, Status
    <3> QED
      BY <3>3, <3>6
  <2> QED
    BY <2>1, <2>2
<1>13. \A k \in Req: Unasked(k)'
  BY <1>1, <1>2, NoneAssumption DEF Content, Requests, Unasked
<1>14. \A q \in Proc, k \in Req: asked'[k] = q => phase[q] # "idle"
  BY <1>1, <1>2 DEF Content, Requests
<1>15. ASSUME NEW q \in Proc
       PROVE  /\ \A k \in pending'[q] \cup aborting'[q]: asked'[k] = q /\ told'[k] = None
              /\ waiting'[q] \subseteq pending'[q] \cup aborting'[q] /\ pending'[q] \cap aborting'[q] = {}
  <2>1. /\ \A k \in pending[q] \cup aborting[q]: k \in Req /\ asked[k] = q /\ told[k] = None
        /\ waiting[q] \subseteq pending[q] \cup aborting[q] /\ pending[q] \cap aborting[q] = {}
    BY DEF Content, Requests, Types
  <2>2. r \notin pending[q] \cup aborting[q]
    BY <1>1, <2>1, NoneAssumption
  <2>3. \A k \in pending[q] \cup aborting[q]: asked'[k] = q /\ told'[k] = None
    BY <1>2, <1>8, <2>1, <2>2
  <2> QED
    BY <1>1, <2>1, <2>3
<1> QED
  BY <1>1, <1>11, <1>12, <1>13, <1>14, <1>15, ContentMade

\* The user's answer is recorded behind the request.
LEMMA AnsweredContent ==
  ASSUME Types, Types', Content, NEW p \in Proc, NEW r \in Req,
         NEW outcome \in {"allow", "reject"}, NEW status \in {"approved", "denied"}, Answered(p, r, outcome, status)
  PROVE  Content'
<1> DEFINE u == Record(r, status)
<1>1. /\ phase[p] = "up" /\ r \in pending[p] /\ Fit(status, outcome)
      /\ Tell({r}, outcome) /\ Enqueue(p, <<u>>) /\ UNCHANGED <<row, phase, asked, aborting, contested>>
      /\ pending'[p] = pending[p] \ {r} /\ waiting'[p] = waiting[p] \ {r}
      /\ \A q \in Proc: q # p => pending'[q] = pending[q] /\ waiting'[q] = waiting[q]
  BY DEF Answered, Types, Fit
<1>2. told'[r] = outcome /\ outcome # None /\ \A k \in Req: k # r => told'[k] = told[k]
  BY <1>1, NoneAssumption DEF Types, Tell
<1>3. asked[r] = p /\ told[r] = None /\ Untold(p, r) /\ ~InQueue(p, Records(r))
  BY <1>1 DEF Content, Requests, Untold
<1>4. /\ u \in Update /\ u \in Records(r) /\ u.kind = "record" /\ u.id = r /\ u.status = status
  BY Made, Fields DEF Records
<1>5. \A k \in Req: /\ u # Ask(k) /\ u # CancelRequests
                    /\ k # r => u \notin Records(k)
                    /\ \A s: u # AutoRecord(k, s) /\ (u = Record(k, s) => k = r /\ s = status)
  BY <1>4, Fields DEF Records
<1> HIDE DEF u
<1>6. /\ Grown(p, {u}) /\ \A q \in Proc: q # p => Grown(q, {})
      /\ \E i \in DOMAIN queue'[p]: i \notin DOMAIN queue[p] /\ queue'[p][i] = u
  BY <1>1, <1>4, EnqueuedOne
<1>7. ASSUME NEW q \in Proc
      PROVE  Queue(q)'
  <2>1. CASE q = p
    <3>1. \A v \in {u}: \E k \in Req, s \in Status: v = Record(k, s) /\ asked'[k] = p /\ ~InQueue(p, Records(k))
      BY <1>1, <1>3 DEF u, Status
    <3> QED
      BY <1>1, <1>6, <2>1, <3>1, GrownQueue DEF Content, Queues
  <2>2. CASE q # p
    BY <1>1, <1>6, <2>2, GrownQueue DEF Content, Queues
  <2> QED
    BY <2>1, <2>2
<1>8. ASSUME NEW q \in Proc, NEW k \in Req, phase[q] = "up", asked'[k] = q
      PROVE  Untold(q, k)' /\ Told(q, k)' /\ (~contested => Uncontested(q, k)')
  <2>0. asked[k] = q /\ Untold(q, k) /\ Told(q, k) /\ (~contested => Uncontested(q, k))
    BY <1>1, <1>8 DEF Content, Requests, Lives
  <2>1. CASE k # r
    <3>2. PICK added: Grown(q, added) /\ added \cap ({Ask(k)} \cup Records(k)) = {} /\ CancelRequests \notin added
      BY <1>5, <1>6, <2>1
    <3>3. Untold(q, k)' /\ Told(q, k)'
      BY <1>1, <1>2, <2>0, <2>1, <3>2, GrownOthers
    <3>4. k \in pending'[q] => k \in pending[q]
      BY <1>1
    <3>5. Uncontested(q, k) => Uncontested(q, k)'
      BY <1>1, <3>2, <3>4, GrownLife
    <3> QED
      BY <2>0, <3>3, <3>5
  <2>2. CASE k = r
    <3>1. q = p
      BY <1>3, <2>0, <2>2
    <3>2. Untold(q, k)' /\ Told(q, k)'
      BY <1>1, <1>2, <1>3, <1>4, <1>5, <1>6, <2>2, <3>1, RecordedTold
    <3>3. ASSUME Uncontested(p, r)
          PROVE  Uncontested(p, r)'
      <4>1. /\ \A i \in DOMAIN queue[p]: i \in DOMAIN queue'[p] /\ queue'[p][i] = queue[p][i]
            /\ \A i \in DOMAIN queue'[p]: i \in Nat /\ i >= 1
            /\ \A i \in DOMAIN queue'[p]: i \notin DOMAIN queue[p] =>
                  queue'[p][i] = u /\ \A j \in DOMAIN queue[p]: j < i
        BY <1>6 DEF Grown
      <4>2. \A s \in Status, i \in DOMAIN queue[p]: queue[p][i] # Record(r, s)
        <5>1. ASSUME NEW s \in Status, NEW i \in DOMAIN queue[p], queue[p][i] = Record(r, s)
              PROVE  queue[p][i] \in Records(r)
          <6>1. queue[p][i] \in Update /\ Record(r, s).kind = "record" /\ Record(r, s).id = r
            BY Fields DEF Types
          <6> QED
            BY <5>1, <6>1, RecordsAre
        <5> QED
          BY <1>3, <5>1 DEF InQueue
      <4>3. \A k1 \in DOMAIN queue'[p]: \A j \in 1..k1: j \in DOMAIN queue'[p]
        BY DEF Types
      <4>4. \A i \in DOMAIN queue'[p]: queue'[p][i] = Ask(r) \/ queue'[p][i] = CancelRequests =>
               i \in DOMAIN queue[p] /\ queue[p][i] = queue'[p][i]
        BY <1>5, <4>1
      <4>5. (\E i \in DOMAIN queue'[p]: queue'[p][i] = Ask(r)) => row.completed[r] = None
        BY <3>3, <4>4 DEF Uncontested, InQueue
      <4>6. \/ \E i \in DOMAIN queue[p]: /\ queue[p][i] = Ask(r)
                                         /\ \A j \in DOMAIN queue[p]: j > i => queue[p][j] # CancelRequests
            \/ r \in row.requests /\ ~InQueue(p, {CancelRequests})
        BY <1>1, <3>3 DEF Uncontested
      <4>7. ASSUME NEW n \in DOMAIN queue'[p], NEW s \in Status, queue'[p][n] = Record(r, s)
            PROVE  /\ \/ \E i \in 1..n - 1: /\ queue'[p][i] = Ask(r)
                                            /\ \A j \in i..n: queue'[p][j] # CancelRequests
                      \/ r \in row.requests /\ \A j \in 1..n: queue'[p][j] # CancelRequests
        <5>1. n \notin DOMAIN queue[p] /\ n \in Nat /\ queue'[p][n] = u
          BY <4>1, <4>2, <4>7
        <5>2. CASE \E i \in DOMAIN queue[p]: /\ queue[p][i] = Ask(r)
                                             /\ \A j \in DOMAIN queue[p]: j > i => queue[p][j] # CancelRequests
          <6>1. PICK i \in DOMAIN queue[p]: /\ queue[p][i] = Ask(r)
                                            /\ \A j \in DOMAIN queue[p]: j > i => queue[p][j] # CancelRequests
            BY <5>2
          <6>2. i \in 1..n - 1 /\ queue'[p][i] = Ask(r) /\ i \in Nat
            BY <4>1, <5>1, <6>1
          <6>3. ASSUME NEW j \in i..n
                PROVE  queue'[p][j] # CancelRequests
            <7>1. j \in 1..n /\ j \in DOMAIN queue'[p]
              BY <4>3, <5>1, <6>2
            <7>2. j = i \/ j > i
              BY <6>2
            <7>3. Ask(r) # CancelRequests
              BY DEF Ask, CancelRequests
            <7> QED
              BY <4>4, <6>1, <6>2, <7>1, <7>2, <7>3
          <6> QED
            BY <6>2, <6>3
        <5>3. CASE r \in row.requests /\ ~InQueue(p, {CancelRequests})
          BY <4>3, <4>4, <5>3 DEF InQueue
        <5> QED
          BY <4>6, <5>2, <5>3
      <4>8. \A n \in DOMAIN queue'[p], s \in Status: queue'[p][n] = AutoRecord(r, s) => row.completed[r] \in {None, s}
        BY <1>5, <3>3, <4>1 DEF Uncontested
      <4>9. r \notin pending'[p]
        BY <1>1
      <4> QED
        BY <1>1, <4>5, <4>7, <4>8, <4>9 DEF Uncontested, InQueue, Status
    <3> QED
      BY <2>0, <2>2, <3>1, <3>2, <3>3
  <2> QED
    BY <2>1, <2>2
<1>9. \A k \in Req: Unasked(k)'
  BY <1>1, <1>2, <1>3, NoneAssumption DEF Content, Requests, Unasked
<1>10. \A q \in Proc, k \in Req: asked'[k] = q => phase[q] # "idle"
  BY <1>1 DEF Content, Requests
<1>11. ASSUME NEW q \in Proc
       PROVE  /\ \A k \in pending'[q] \cup aborting'[q]: asked'[k] = q /\ told'[k] = None
              /\ waiting'[q] \subseteq pending'[q] \cup aborting'[q] /\ pending'[q] \cap aborting'[q] = {}
  <2>1. /\ \A k \in pending[q] \cup aborting[q]: k \in Req /\ asked[k] = q /\ told[k] = None
        /\ waiting[q] \subseteq pending[q] \cup aborting[q] /\ pending[q] \cap aborting[q] = {}
    BY DEF Content, Requests, Types
  <2>2. CASE q = p
    BY <1>1, <1>2, <2>1, <2>2
  <2>3. CASE q # p
    BY <1>1, <1>2, <1>3, <2>1, <2>3
  <2> QED
    BY <2>2, <2>3
<1> QED
  BY <1>1, <1>7, <1>8, <1>9, <1>10, <1>11, ContentMade

\* Cancelling everything that waits for the user, and what is being aborted: R is what the agent is told.
LEMMA CancelContent ==
  ASSUME Types, Types', Content, NEW p \in Proc, phase[p] = "up", UNCHANGED <<row, phase, asked, contested>>,
         NEW R \in SUBSET (pending[p] \cup aborting[p]), pending[p] \subseteq R, Tell(R, "cancelled"),
         pending'[p] = {}, aborting'[p] = aborting[p] \ R, waiting'[p] = waiting[p] \ R,
         \A q \in Proc: q # p => UNCHANGED <<waiting[q], pending[q], aborting[q]>>,
         NEW added, Grown(p, added), \A q \in Proc: q # p => Grown(q, {}),
         \E i \in DOMAIN queue'[p]: i \notin DOMAIN queue[p] /\ queue'[p][i] = CancelRequests,
         \A u \in added: u = CancelRequests \/ \E k \in R: u = Record(k, "denied")
  PROVE  Content'
<1>1. \A k \in R: k \in Req /\ asked[k] = p /\ told[k] = None /\ Untold(p, k) /\ ~InQueue(p, Records(k))
  <2>1. \A k \in pending[p] \cup aborting[p]: asked[k] = p /\ told[k] = None
    BY DEF Content, Requests
  <2>2. pending[p] \cup aborting[p] \subseteq Req
    BY DEF Types
  <2>3. \A k \in Req: Untold(p, k)
    BY DEF Content, Requests
  <2>4. \A k \in R: k \in Req /\ asked[k] = p /\ told[k] = None /\ Untold(p, k)
    BY <2>1, <2>2, <2>3
  <2> QED
    BY <2>4 DEF Untold
<1>2. /\ \A k \in R: told'[k] = "cancelled"
      /\ \A k \in Req: k \notin R => told'[k] = told[k]
  BY <1>1 DEF Tell
<1>3. "cancelled" # None
  BY NoneAssumption
<1>4. ASSUME NEW q \in Proc
      PROVE  Queue(q)'
  <2>1. CASE q = p
    <3>1. \A v \in added: \/ v = CancelRequests
                          \/ \E k \in Req, s \in Status: /\ v = Record(k, s) /\ asked'[k] = p
                                                         /\ ~InQueue(p, Records(k))
      BY <1>1 DEF Status
    <3> QED
      BY <2>1, <3>1, GrownQueue DEF Content, Queues
  <2>2. CASE q # p
    BY <2>2, GrownQueue DEF Content, Queues
  <2> QED
    BY <2>1, <2>2
<1>5. ASSUME NEW q \in Proc, NEW k \in Req, phase[q] = "up", asked'[k] = q
      PROVE  Untold(q, k)' /\ Told(q, k)' /\ (~contested => Uncontested(q, k)')
  <2>0. asked[k] = q /\ Untold(q, k) /\ Told(q, k) /\ (~contested => Uncontested(q, k))
    BY <1>5 DEF Content, Requests, Lives
  <2>1. CASE q # p
    <3>1. k \notin R
      BY <1>1, <2>0, <2>1
    <3>2. Untold(q, k)' /\ Told(q, k)'
      BY <1>2, <2>0, <2>1, <3>1, GrownOthers
    <3>3. Uncontested(q, k) => Uncontested(q, k)'
      BY <2>1, GrownLife
    <3> QED
      BY <2>0, <3>2, <3>3
  <2>2. CASE q = p /\ k \notin R
    <3>1. added \cap ({Ask(k)} \cup Records(k)) = {}
      BY <2>2, Fields DEF Records, Ask, CancelRequests
    <3>2. Untold(q, k)' /\ Told(q, k)'
      BY <1>2, <2>0, <2>2, <3>1, GrownOthers
    <3>3. Uncontested(q, k) => Uncontested(q, k)'
      BY <2>2, <3>1, GrownLife
    <3> QED
      BY <2>0, <3>2, <3>3
  <2>3. CASE q = p /\ k \in R
    <3>0. \A u \in added: u = CancelRequests \/ \E r \in Req: u = Record(r, "denied")
      BY <1>1
    <3>1. Untold(q, k)' /\ Told(q, k)'
      BY <1>1, <1>2, <2>3, <3>0, CanceledTold
    <3>2. ASSUME Uncontested(p, k)
          PROVE  Uncontested(p, k)'
      <4>1. /\ \A i \in DOMAIN queue[p]: i \in DOMAIN queue'[p] /\ queue'[p][i] = queue[p][i]
            /\ \A i \in DOMAIN queue'[p]: i \in Nat /\ i >= 1
            /\ \A i \in DOMAIN queue'[p]: i \notin DOMAIN queue[p] =>
                  queue'[p][i] \in added /\ \A j \in DOMAIN queue[p]: j < i
        BY DEF Grown
      <4>2. \A i \in DOMAIN queue[p]: queue[p][i] \notin Records(k)
        BY <1>1, <2>3 DEF InQueue
      <4>3. \A i \in DOMAIN queue'[p]: queue'[p][i] \in Update
        BY DEF Types
      <4>4. ASSUME NEW i \in DOMAIN queue'[p], queue'[p][i] \in Records(k)
            PROVE  i \notin DOMAIN queue[p] /\ queue'[p][i] = Record(k, "denied")
        <5>1. queue'[p][i] \in added /\ i \notin DOMAIN queue[p]
          BY <4>1, <4>2, <4>4
        <5>2. queue'[p][i] # CancelRequests /\ \A r \in Req: queue'[p][i] = Record(r, "denied") => r = k
          BY <4>4, Fields DEF Records
        <5> QED
          BY <3>0, <5>1, <5>2
      <4>5. \A i \in DOMAIN queue'[p]: queue'[p][i] = Ask(k) => i \in DOMAIN queue[p] /\ queue[p][i] = Ask(k)
        BY <3>0, <4>1, Fields
      <4>6. (\E i \in DOMAIN queue'[p]: queue'[p][i] = Ask(k)) => row.completed[k] = None
        BY <3>2, <4>5 DEF Uncontested, InQueue
      <4>7. ASSUME NEW n \in DOMAIN queue'[p], NEW s \in Status,
                   queue'[p][n] = Record(k, s) \/ queue'[p][n] = AutoRecord(k, s)
            PROVE  queue'[p][n] = Record(k, "denied") /\ n \notin DOMAIN queue[p]
        <5>1. queue'[p][n].kind \in {"record", "auto"} /\ queue'[p][n].id = k
          BY <4>7, Fields
        <5>2. queue'[p][n] \in Records(k)
          BY <4>3, <5>1, RecordsAre
        <5> QED
          BY <4>4, <5>2
      <4>8. \A n \in DOMAIN queue'[p]: queue'[p][n] # Record(k, "approved")
        <5>1. Record(k, "approved") # Record(k, "denied") /\ "approved" \in Status
          BY Fields DEF Status
        <5> QED
          BY <4>7, <5>1
      <4>9. \A n \in DOMAIN queue'[p], s \in Status: queue'[p][n] # AutoRecord(k, s)
        <5>1. \A s \in Status: AutoRecord(k, s) # Record(k, "denied")
          BY Fields
        <5> QED
          BY <4>7, <5>1
      <4>10. ASSUME NEW n \in DOMAIN queue'[p], queue'[p][n] = Record(k, "denied")
             PROVE  \/ \E i \in 1..n - 1: queue'[p][i] = Ask(k)
                    \/ k \in row.requests
                    \/ row.completed[k] \in {"canceled", "denied"}
        <5>1. n \notin DOMAIN queue[p] /\ n \in Nat
          BY <4>1, <4>7, <4>10 DEF Status
        <5>2. InQueue(p, {Ask(k)}) => \E i \in 1..n - 1: queue'[p][i] = Ask(k)
          <6>1. ASSUME NEW i \in DOMAIN queue[p], queue[p][i] = Ask(k)
                PROVE  i \in 1..n - 1 /\ queue'[p][i] = Ask(k)
            BY <4>1, <5>1, <6>1
          <6> QED
            BY <6>1 DEF InQueue
        <5> QED
          BY <1>1, <2>3, <5>2 DEF Untold
      <4> QED
        BY <4>6, <4>8, <4>9, <4>10 DEF Uncontested, InQueue
    <3> QED
      BY <2>0, <2>3, <3>1, <3>2
  <2> QED
    BY <2>1, <2>2, <2>3
<1>6. \A k \in Req: Unasked(k)'
  BY <1>1, <1>2, NoneAssumption DEF Content, Requests, Unasked
<1>7. \A q \in Proc, k \in Req: asked'[k] = q => phase[q] # "idle"
  BY DEF Content, Requests
<1>8. ASSUME NEW q \in Proc
      PROVE  /\ \A k \in pending'[q] \cup aborting'[q]: asked'[k] = q /\ told'[k] = None
             /\ waiting'[q] \subseteq pending'[q] \cup aborting'[q] /\ pending'[q] \cap aborting'[q] = {}
  <2>1. /\ \A k \in pending[q] \cup aborting[q]: k \in Req /\ asked[k] = q /\ told[k] = None
        /\ waiting[q] \subseteq pending[q] \cup aborting[q] /\ pending[q] \cap aborting[q] = {}
    BY DEF Content, Requests, Types
  <2>2. CASE q = p
    BY <1>2, <2>1, <2>2
  <2>3. CASE q # p
    BY <1>1, <1>2, <2>1, <2>3
  <2> QED
    BY <2>2, <2>3
<1> QED
  BY <1>4, <1>5, <1>6, <1>7, <1>8, ContentMade

\* An abort settles.
LEMMA SettlesContent ==
  ASSUME Types, Types', Connections, Content, NEW p \in Proc, NEW r \in Req, AbortSettles(p, r)
  PROVE  Content'
<1> DEFINE R == {r} \cup pending[p]
           added == {CancelRequests, Record(r, "denied")}
<1>1. r \in aborting[p] /\ phase[p] = "up" /\ pending[p] \cap aborting[p] = {}
  BY DEF AbortSettles, Connections, Content, Requests
<1>2. R \in SUBSET (pending[p] \cup aborting[p]) /\ pending[p] \subseteq R
  BY <1>1
<1>3. /\ UNCHANGED <<row, phase, asked, contested>> /\ Tell(R, "cancelled")
      /\ Enqueue(p, <<CancelRequests, Record(r, "denied")>>)
      /\ pending'[p] = {} /\ aborting'[p] = aborting[p] \ {r} /\ waiting'[p] = waiting[p] \ R
      /\ \A q \in Proc: q # p => UNCHANGED <<waiting[q], pending[q], aborting[q]>>
  BY DEF AbortSettles, hubVars, Types
<1>4. aborting[p] \ {r} = aborting[p] \ R
  BY <1>1
<1>5. /\ Grown(p, added) /\ \A q \in Proc: q # p => Grown(q, {})
      /\ \E i \in DOMAIN queue'[p]: i \notin DOMAIN queue[p] /\ queue'[p][i] = CancelRequests
  BY <1>3, Made, EnqueuedTwo
<1>6. \A u \in added: u = CancelRequests \/ \E k \in R: u = Record(k, "denied")
  OBVIOUS
<1> HIDE DEF R, added
<1> QED
  BY <1>1, <1>2, <1>3, <1>4, <1>5, <1>6, CancelContent

\* Everything is cancelled.
LEMMA CancelAllContent ==
  ASSUME Types, Types', Content, NEW p \in Proc, CancelAll(p)
  PROVE  Content'
<1>1. /\ UNCHANGED <<row, phase, asked, contested>> /\ Tell(pending[p], "cancelled") /\ phase[p] = "up"
      /\ Enqueue(p, <<CancelRequests>>)
      /\ pending'[p] = {} /\ aborting' = aborting /\ waiting'[p] = waiting[p] \ pending[p]
      /\ \A q \in Proc: q # p => UNCHANGED <<waiting[q], pending[q], aborting[q]>>
  BY DEF CancelAll, hubVars, Types
<1>2. aborting[p] = aborting[p] \ pending[p] /\ pending[p] \in SUBSET (pending[p] \cup aborting[p])
  BY DEF Content, Requests
<1>3. /\ Grown(p, {CancelRequests}) /\ \A q \in Proc: q # p => Grown(q, {})
      /\ \E i \in DOMAIN queue'[p]: i \notin DOMAIN queue[p] /\ queue'[p][i] = CancelRequests
  BY <1>1, CancelMade, EnqueuedOne
<1> QED
  BY <1>1, <1>2, <1>3, CancelContent

\* Every step keeps the queues, the requests and their lives.
LEMMA ContentNext ==
  ASSUME Types, Connections, OneCalls, Writes, Acknowledged, Content, [Next]_vars
  PROVE  Content'
<1>0. Types'
  BY TypesNext
<1>1. CASE Quiet
  BY <1>1, QuietContent
<1>2. ASSUME NEW p \in Proc, Start(p)
      PROVE  Content'
  BY <1>2, StartContent
<1>3. ASSUME NEW p \in Proc, Stop(p)
      PROVE  Content'
  BY <1>3, StopContent
<1>4. ASSUME NEW p \in Proc, Acked(p)
      PROVE  Content'
  <2>1. Absorbed(p, Head(queue[p]))
    BY <1>4 DEF Acked, Acknowledged
  <2> QED
    BY <1>4, <2>1, AckedQueues, AckedRequests, AckedLives DEF Content
<1>5. ASSUME NEW q \in Proc, NEW u \in Update, Stored(q, u)
      PROVE  Content'
  BY <1>5, StoredQueues, StoredRequests, StoredLives DEF Content
<1>6. CASE AgentEffect
  BY <1>0, <1>6, AsksContent, AutoContent, AnsweredContent, AbortedContent, SettlesContent, CancelAllContent
     DEF AgentEffect
<1> QED
  BY <1>1, <1>2, <1>3, <1>4, <1>5, <1>6, Effects

---------------------------------------------------------------------------
(* Writes and their acknowledgements.                                      *)

\* Agents only add to queues, and never ask or are told twice.
LEMMA AgentsOnlyAdd ==
  ASSUME Types, Content, AgentEffect
  PROVE  /\ UNCHANGED <<row, phase, contested>>
         /\ \A p \in Proc: queue[p] # <<>> => queue'[p] # <<>> /\ Head(queue'[p]) = Head(queue[p])
         /\ \A r \in Req: asked[r] # None => asked'[r] = asked[r]
         /\ \A r \in Req: told[r] # None => told'[r] = told[r]
<1> DEFINE Heads == \A p \in Proc: queue[p] # <<>> => queue'[p] # <<>> /\ Head(queue'[p]) = Head(queue[p])
           Askeds == \A r \in Req: asked[r] # None => asked'[r] = asked[r]
           Tolds == \A r \in Req: told[r] # None => told'[r] = told[r]
           Goal == UNCHANGED <<row, phase, contested>> /\ Heads /\ Askeds /\ Tolds
<1>1. ASSUME NEW p \in Proc, NEW us \in Seq(Update), Enqueue(p, us)
      PROVE  Heads
  <2>1. queue \in [Proc -> Seq(Update)] /\ queue' = [queue EXCEPT ![p] = queue[p] \o us]
    BY <1>1 DEF Types, Enqueue
  <2>2. ASSUME NEW q \in Proc, queue[q] # <<>>
        PROVE  queue'[q] # <<>> /\ Head(queue'[q]) = Head(queue[q])
    <3>1. CASE q = p
      <4>1. queue'[q] = queue[q] \o us /\ queue[q] \in Seq(Update) /\ us \in Seq(Update)
        BY <1>1, <2>1, <3>1
      <4>2. Len(queue[q]) >= 1
        BY <2>2, <4>1
      <4> QED
        BY <4>1, <4>2
    <3>2. CASE q # p
      BY <2>1, <2>2, <3>2
    <3> QED
      BY <3>1, <3>2
  <2> QED
    BY <2>2
<1>2. ASSUME NEW p \in Proc, NEW r \in Req, asked[r] = None, asked' = [asked EXCEPT ![r] = p]
      PROVE  Askeds
  BY <1>2 DEF Types
<1>3. ASSUME NEW R, NEW outcome, Tell(R, outcome), \A r \in R: told[r] = None
      PROVE  Tolds
  BY <1>3 DEF Tell
<1>4. \A p \in Proc: \A r \in pending[p] \cup aborting[p]: told[r] = None
  BY DEF Content, Requests
<1>5. \A r \in Req: asked[r] = None => told[r] = None
  BY DEF Content, Requests, Unasked
<1> HIDE DEF Heads, Askeds, Tolds
<1>6. queue' = queue => Heads
  BY DEF Heads
<1>7. (asked' = asked => Askeds) /\ (told' = told => Tolds)
  BY DEF Askeds, Tolds
<1>8. ASSUME NEW p \in Proc, NEW r \in Req, AgentAsks(p, r)
      PROVE  Goal
  BY <1>1, <1>2, <1>7, <1>8, MadeSeqs DEF AgentAsks, hubVars
<1>9. ASSUME NEW p \in Proc, NEW r \in Req, AutoApprove(p, r)
      PROVE  Goal
  <2>1. \E outcome \in {"allow", "cancelled"}, status \in {"approved", "canceled"}:
           Tell({r}, outcome) /\ Enqueue(p, <<AutoRecord(r, status)>>)
    <3>1. PICK allowed \in BOOLEAN:
            /\ Tell({r}, IF allowed THEN "allow" ELSE "cancelled")
            /\ Enqueue(p, <<AutoRecord(r, IF allowed THEN "approved" ELSE "canceled")>>)
      BY <1>9 DEF AutoApprove
    <3>2. (IF allowed THEN "approved" ELSE "canceled") \in {"approved", "canceled"}
      OBVIOUS
    <3> QED
      BY <3>1, <3>2
  <2>2. Heads
    BY <1>1, <2>1, MadeSeqs
  <2>3. \A k \in {r}: told[k] = None
    BY <1>5, <1>9 DEF AutoApprove
  <2>4. Tolds
    BY <1>3, <2>1, <2>3
  <2> QED
    BY <1>2, <1>9, <2>2, <2>4 DEF AutoApprove, hubVars
<1>10. ASSUME NEW p \in Proc, NEW r \in Req, AbortSettles(p, r)
       PROVE  Goal
  <2>1. Tolds
    BY <1>3, <1>4, <1>10 DEF AbortSettles
  <2> QED
    BY <1>1, <1>7, <1>10, <2>1, MadeSeqs DEF AbortSettles, hubVars
<1>11. ASSUME NEW p \in Proc, NEW r \in Req, Aborted(p, r)
       PROVE  Goal
  BY <1>6, <1>7, <1>11 DEF Aborted
<1>12. ASSUME NEW p \in Proc, NEW r \in Req, NEW outcome \in {"allow", "reject"},
              NEW status \in {"approved", "denied"}, Answered(p, r, outcome, status)
       PROVE  Goal
  <2>1. Tolds
    BY <1>3, <1>4, <1>12 DEF Answered
  <2> QED
    BY <1>1, <1>7, <1>12, <2>1, MadeSeqs DEF Answered
<1>13. ASSUME NEW p \in Proc, CancelAll(p)
       PROVE  Goal
  <2>1. Tolds
    BY <1>3, <1>4, <1>13 DEF CancelAll
  <2> QED
    BY <1>1, <1>7, <1>13, <2>1, CancelMade DEF CancelAll, hubVars
<1>14. Goal
  <2> HIDE DEF Goal
  <2> QED
    BY <1>8, <1>9, <1>10, <1>11, <1>12, <1>13 DEF AgentEffect
<1> QED
  BY <1>14 DEF Heads, Askeds, Tolds

\* A success that a process has to read was there before, or is that of its own write.
LEMMA SuccessNext ==
  ASSUME Types, [Next]_vars, NEW p \in Proc, Succeeded(p)'
  PROVE  \/ Succeeded(p)
         \/ \E m \in Sent(p): HubUpdate(m) /\ m.state.version = row.version
<1> DEFINE Result == \/ Succeeded(p)
                     \/ \E m \in Sent(p): HubUpdate(m) /\ m.state.version = row.version
<1>0. PICK i \in DOMAIN downlink'[p]: downlink'[p][i].kind = "success"
  BY DEF Succeeded
<1>1. CASE i \in DOMAIN downlink[p] /\ downlink'[p][i] = downlink[p][i]
  BY <1>0, <1>1 DEF Succeeded
<1>2. ASSUME NEW q \in Proc, downlink[q] # <<>>, downlink' = [downlink EXCEPT ![q] = Tail(@)]
      PROVE  Result
  <2>1. CASE q = p
    BY <1>0, <1>2, <2>1, Behind DEF Succeeded
  <2>2. CASE q # p
    BY <1>1, <1>2, <2>2, Behind
  <2> QED
    BY <2>1, <2>2
<1>3. CASE UNCHANGED vars
  BY <1>1, <1>3 DEF vars, netVars
<1>4. CASE NetStep
  <2>1. downlink'[p] = downlink[p] \/ downlink'[p] = <<>>
    BY <1>4 DEF NetStep, Start, Stop, Connect, Cut, netVars, Types
  <2> QED
    BY <1>1, <2>1
<1>5. CASE StateStep
  <2>1. ASSUME NEW m \in uplink, HubUpdate(m)
        PROVE  Result
    <3>1. CASE i \in DOMAIN downlink[p]
      BY <1>1, <2>1, <3>1, Broadcast
    <3>2. CASE i \notin DOMAIN downlink[p]
      <4>1. i \in DOMAIN downlink'[p] \ DOMAIN downlink[p]
        BY <3>2
      <4>2. /\ downlink'[p][i].kind # "update" => sock[p] = m.sock
            /\ downlink'[p][i].kind = "success" => row.version = m.state.version
        BY <2>1, <4>1, Broadcast
      <4>3. sock[p] = m.sock /\ row.version = m.state.version
        BY <1>0, <4>2
      <4> QED
        BY <2>1, <4>3 DEF Sent
    <3> QED
      BY <3>1, <3>2
  <2>2. CASE \E s \in open: HubDrop(s)
    BY <1>1, <2>2 DEF HubDrop, netVars
  <2>3. ASSUME NEW q \in Proc, Emit(q) \/ TakeAck(q) \/ TakeUpdate(q)
        PROVE  Result
    BY <1>1, <1>2, <2>3 DEF Emit, TakeAck, TakeUpdate, netVars
  <2> QED
    BY <1>5, <2>1, <2>2, <2>3 DEF StateStep
<1>6. CASE AgentStep
  <2>1. ASSUME NEW r \in Req, NEW answer \in {"approve", "deny", "abort"}, AnswerFromWeb(r, answer)
        PROVE  Result
    BY <1>0, <1>1, <2>1, Forwarded
  <2>2. ASSUME NEW q \in Proc, TakeAnswer(q)
        PROVE  Result
    BY <1>2, <2>2 DEF TakeAnswer
  <2> QED
    BY <1>1, <1>6, <2>1, <2>2 DEF AgentStep, CancelAll, AgentAsks, AutoApprove, AbortSettles, netVars
<1> QED
  BY <1>3, <1>4, <1>5, <1>6, Steps

\* What would be stored still would be, or can no longer be.
LEMMA StoresKept ==
  ASSUME Types, Connections, OneCalls, Writes, Content, [Next]_vars,
         NEW q \in Proc, NEW u \in Update, NEW state \in State, Stores(q, u, state)
  PROVE  Stores(q, u, state)'
<1>0. row \in State /\ row' \in State /\ (row' = row \/ row'.version = row.version + 1)
  BY RowVersion DEF Types
<1>1. CASE row' # row \/ state.version # row.version
  <2>1. state.version < row'.version
    BY <1>0, <1>1 DEF Stores, State
  <2> QED
    BY <1>0, <2>1 DEF Stores, State
<1>2. CASE row' = row /\ state.version = row.version
  <2>1. Write(q, u, state)
    BY <1>2 DEF Stores
  <2>2. /\ Owns(q, u) /\ state = Apply(u, row) /\ phase[q] # "idle"
        /\ phase[q] = "up" => queue[q] # <<>> /\ u = Head(queue[q]) /\ ~Succeeded(q)
    BY <2>1 DEF Write
  <2>3. ~contested => /\ \A r \in Req: LiveStep(r, LifeOf(row, r), LifeOf(state, r))
                      /\ phase[q] # "up" => \A r \in row.requests: phase[asked[r]] # "up"
    BY <2>1 DEF Write
  <2>4. phase[q] = "up" => ~Succeeded(q)'
    <3>1. ASSUME NEW m \in uplink, HubUpdate(m), m.state.version = row.version
          PROVE  FALSE
      BY <1>0, <1>2, <3>1, Broadcast DEF State, Types
    <3> QED
      BY <2>2, <3>1, SuccessNext DEF Sent
  <2>5. \A r \in row.requests: r \in Req /\ asked[r] \in Proc
    BY <1>0 DEF Content, Requests, Unasked, Types, State
  <2>6. u.kind # "cancel" => u.id \in Req /\ asked[u.id] # None
    BY <2>2, Kinds, NoneAssumption DEF Owns
  <2> DEFINE Kept == /\ Owns(q, u)' /\ phase'[q] # "idle"
                     /\ phase'[q] = "up" => queue'[q] # <<>> /\ u = Head(queue'[q]) /\ phase[q] = "up"
                     /\ ~contested' => /\ ~contested
                                       /\ \A r \in Req: told[r] # None => told'[r] = told[r]
                                       /\ phase'[q] # "up" => \A r \in row.requests: phase'[asked'[r]] # "up"
  <2>7. ASSUME Quiet
        PROVE  Kept
    BY <2>2, <2>3, <2>7 DEF Quiet, Owns
  <2>8. ASSUME NEW k \in Proc, Start(k)
        PROVE  Kept
    <3>1. /\ UNCHANGED <<queue, asked, told>> /\ phase[k] = "idle" /\ phase' = [phase EXCEPT ![k] = "up"]
          /\ contested' = (contested \/ \E p \in Proc: phase[p] = "up")
      BY <2>8 DEF Start, agentVars
    <3>2. q # k /\ phase'[q] = phase[q]
      BY <2>2, <3>1 DEF Types
    <3>3. \A r \in row.requests: asked[r] # k
      BY <2>5, <3>1 DEF Content, Requests
    <3>4. ~contested' => \A r \in row.requests: phase'[asked'[r]] # "up"
      BY <2>5, <3>1, <3>3 DEF Types
    <3> QED
      BY <2>2, <3>1, <3>2, <3>4 DEF Owns
  <2>9. ASSUME NEW k \in Proc, Stop(k)
        PROVE  Kept
    <3>1. /\ UNCHANGED <<asked, told, contested>> /\ phase[k] = "up" /\ phase' = [phase EXCEPT ![k] = "down"]
          /\ queue' = [queue EXCEPT ![k] = <<>>]
      BY <2>9 DEF Stop
    <3>2. CASE q = k
      <4>1. ~contested => \A p \in Proc: phase'[p] # "up"
        BY <3>1, <3>2 DEF Connections, Types
      <4>2. phase'[q] = "down"
        BY <3>1, <3>2 DEF Types
      <4> QED
        BY <2>2, <2>5, <3>1, <4>1, <4>2 DEF Owns
    <3>3. CASE q # k
      <4>1. phase'[q] = phase[q] /\ queue'[q] = queue[q]
        BY <3>1, <3>3 DEF Types
      <4>2. \A p \in Proc: phase'[p] = "up" => phase[p] = "up"
        BY <3>1 DEF Types
      <4> QED
        BY <2>2, <2>3, <2>5, <3>1, <4>1, <4>2 DEF Owns
    <3> QED
      BY <3>2, <3>3
  <2>10. ASSUME NEW k \in Proc, Acked(k)
         PROVE  Kept
    <3>1. phase[k] = "up"
      BY <2>10 DEF Acked, Succeeded, Connections, Types
    <3>2. k # q
      BY <2>2, <2>10, <3>1 DEF Acked
    <3>3. queue'[q] = queue[q] /\ UNCHANGED <<phase, asked, told, contested>>
      BY <2>10, <3>2 DEF Acked, Types
    <3> QED
      BY <2>2, <2>3, <3>3 DEF Owns
  <2>11. ASSUME NEW k \in Proc, NEW v \in Update, Stored(k, v)
         PROVE  FALSE
    BY <1>0, <1>2, <2>11 DEF Stored, State
  <2>12. ASSUME AgentEffect
         PROVE  Kept
    <3>1. /\ UNCHANGED <<row, phase, contested>>
          /\ \A p \in Proc: queue[p] # <<>> => queue'[p] # <<>> /\ Head(queue'[p]) = Head(queue[p])
          /\ \A r \in Req: asked[r] # None => asked'[r] = asked[r]
          /\ \A r \in Req: told[r] # None => told'[r] = told[r]
      BY <2>12, AgentsOnlyAdd
    <3>2. \A r \in row.requests: asked'[r] = asked[r]
      BY <2>5, <3>1, NoneAssumption
    <3> QED
      BY <2>2, <2>3, <2>6, <3>1, <3>2 DEF Owns
  <2>13. Kept
    <3> HIDE DEF Kept
    <3> QED
      BY <2>7, <2>8, <2>9, <2>10, <2>11, <2>12, Effects
  <2>14. ~contested' => \A r \in Req: LiveStep(r, LifeOf(row, r), LifeOf(state, r))'
    <3>1. ASSUME ~contested', NEW r \in Req
          PROVE  LiveStep(r, LifeOf(row, r), LifeOf(state, r))'
      <4>1. LiveStep(r, LifeOf(row, r), LifeOf(state, r)) /\ (told[r] # None => told'[r] = told[r])
        BY <2>3, <2>13, <3>1
      <4>2. LifeOf(row, r)' = LifeOf(row, r) /\ LifeOf(state, r)' = LifeOf(state, r)
        BY <1>2 DEF LifeOf
      <4> QED
        BY <4>1, <4>2, NoneAssumption DEF LiveStep
    <3> QED
      BY <3>1
  <2>15. (state = Apply(u, row))'
    BY <1>2, <2>2 DEF Apply
  <2>16. Write(q, u, state)'
    BY <1>2, <2>4, <2>13, <2>14, <2>15 DEF Write
  <2> QED
    BY <1>2, <2>16 DEF Stores
<1> QED
  BY <1>1, <1>2

\* The first update of the only process continues the life of every request.
LEMMA HeadLives ==
  ASSUME Types, Content, ~contested, NEW p \in Proc, phase[p] = "up", queue[p] # <<>>, NEW r \in Req
  PROVE  LiveStep(r, LifeOf(row, r), LifeOf(Apply(Head(queue[p]), row), r))
<1> DEFINE u == Head(queue[p])
           state == Apply(u, row)
<1>1. 1 \in DOMAIN queue[p] /\ u = queue[p][1] /\ u \in Update /\ row \in State
  BY DEF Types
<1>2. /\ state.requests = IF u.kind = "ask" THEN row.requests \cup {u.id}
                          ELSE IF u.kind = "record" THEN row.requests \ {u.id}
                          ELSE IF u.kind = "auto" THEN row.requests ELSE {}
      /\ state.completed[r] = IF \/ u.kind \in {"record", "auto"} /\ r = u.id
                                 \/ u.kind = "cancel" /\ r \in row.requests
                              THEN u.status ELSE row.completed[r]
  BY <1>1, Applied
<1>3. Queue(p) /\ Owns(p, u)
  BY <1>1 DEF Content, Queues, Queue
<1> HIDE DEF state, u
<1>4. CASE u.kind = "cancel"
  <2>1. u.status = "canceled"
    BY <1>1, <1>4, Kinds, Fields
  <2> QED
    BY <1>2, <1>4, <2>1, NoneAssumption DEF LiveStep, LifeOf, state, u
<1>5. CASE u.kind # "cancel" /\ u.id # r
  BY <1>1, <1>2, <1>5, Kinds DEF LiveStep, LifeOf, state, u
<1>6. CASE u.kind # "cancel" /\ u.id = r
  <2>1. asked[r] = p
    BY <1>3, <1>6 DEF Owns
  <2>2. Untold(p, r) /\ Told(p, r) /\ Uncontested(p, r)
    BY <2>1 DEF Content, Requests, Lives
  <2>3. CASE u.kind = "ask"
    <3>1. InQueue(p, {Ask(r)})
      BY <1>1, <1>6, <2>3, Kinds DEF InQueue
    <3>2. row.completed[r] = None
      BY <2>2, <3>1 DEF Uncontested
    <3> QED
      BY <1>2, <1>6, <2>3, <3>2 DEF LiveStep, LifeOf, state, u
  <2>4. CASE u.kind \in {"record", "auto"}
    <3>1. u \in Records(r)
      BY <1>1, <1>6, <2>4, RecordsAre
    <3>2. InQueue(p, Records(r)) /\ told[r] # None
      BY <1>1, <2>1, <2>2, <3>1 DEF InQueue, Untold
    <3>3. Fit(u.status, told[r])
      BY <1>1, <2>1, <2>2, <3>1, <3>2 DEF Told
    <3>4. CASE u.kind = "record"
      <4>1. u = Record(r, u.status) /\ u.status \in {"approved", "denied"}
        BY <1>1, <1>6, <3>4, Kinds
      <4>2. ~\E i \in 1..1 - 1: TRUE
        OBVIOUS
      <4>3. u.status = "approved" => r \in row.requests \/ row.completed[r] = "approved"
        BY <1>1, <2>2, <4>1, <4>2 DEF Uncontested
      <4>4. u.status = "denied" => r \in row.requests \/ row.completed[r] \in {"canceled", "denied"}
        BY <1>1, <2>2, <4>1, <4>2 DEF Uncontested
      <4>5. r \notin state.requests /\ state.completed[r] = u.status
        BY <1>2, <1>6, <3>4
      <4> QED
        BY <3>3, <4>1, <4>3, <4>4, <4>5, NoneAssumption DEF LiveStep, LifeOf, Fit, state, u
    <3>5. CASE u.kind = "auto"
      <4>1. u = AutoRecord(r, u.status) /\ u.status \in {"approved", "canceled"}
        BY <1>1, <1>6, <3>5, Kinds
      <4>2. u.status \in Status
        BY <4>1 DEF Status
      <4>3. r \notin row.requests
        BY <1>1, <1>3, <4>1, <4>2 DEF Queue
      <4>4. row.completed[r] \in {None, u.status}
        BY <1>1, <2>2, <4>1, <4>2 DEF Uncontested
      <4>5. r \notin state.requests /\ state.completed[r] = u.status
        BY <1>2, <1>6, <3>5, <4>3
      <4> QED
        BY <3>3, <4>1, <4>3, <4>4, <4>5, NoneAssumption DEF LiveStep, LifeOf, Fit, state, u
    <3> QED
      BY <2>4, <3>4, <3>5
  <2> QED
    BY <1>1, <2>3, <2>4, <1>6, Kinds
<1> QED
  BY <1>4, <1>5, <1>6 DEF state, u

\* What a process sends is its first update, applied to its mirror.
LEMMA EmitStores ==
  ASSUME Types, Connections, Mirrors, OneCalls, Content, NEW p \in Proc, Emit(p)
  PROVE  /\ Stores(p, Head(queue[p]), Apply(Head(queue[p]), mirror[p]))
         /\ Head(queue[p]) \in Update /\ Apply(Head(queue[p]), mirror[p]) \in State
<1> DEFINE u == Head(queue[p])
           state == Apply(u, mirror[p])
<1>1. phase[p] = "up" /\ queue[p] # <<>> /\ call[p].at = "none"
  BY DEF Emit
<1>2. 1 \in DOMAIN queue[p] /\ u = queue[p][1] /\ u \in Update /\ row \in State /\ mirror[p] \in State
  BY <1>1 DEF Types
<1>3. state \in State /\ state.version = mirror[p].version
  <2>1. PICK v \in Update, w \in State: v = u /\ w = mirror[p]
    BY <1>2
  <2>2. Apply(v, w) \in State /\ Apply(v, w).version = w.version
    BY Applied
  <2> QED
    BY <2>1, <2>2
<1> HIDE DEF u
<1>4. Current(mirror[p])
  BY DEF Mirrors
<1>5. Owns(p, u)
  BY <1>2 DEF Content, Queues, Queue
<1>6. ~Succeeded(p)
  BY <1>1 DEF OneCalls, OneCall, Acks, Succeeded
<1>7. ASSUME state.version = row.version
      PROVE  Write(p, u, state)
  <2>1. state = Apply(u, row)
    BY <1>3, <1>4, <1>7 DEF Current
  <2>2. ~contested => \A r \in Req: LiveStep(r, LifeOf(row, r), LifeOf(state, r))
    BY <1>1, <2>1, HeadLives DEF u
  <2> HIDE DEF state
  <2> QED
    BY <1>1, <1>5, <1>6, <2>1, <2>2 DEF Write, u
<1> QED
  BY <1>2, <1>3, <1>4, <1>7 DEF Stores, Current, u

\* A process with a call under way keeps the update it is about, until it ends or the call does.
LEMMA HeadKept ==
  ASSUME Types, Connections, OneCalls, Writes, Content, [Next]_vars, NEW p \in Proc,
         queue[p] # <<>>, ~Acked(p), ~Stop(p)
  PROVE  queue'[p] # <<>> /\ Head(queue'[p]) = Head(queue[p])
<1>1. ASSUME NEW q \in Proc, q # p, Acked(q) \/ Stop(q)
      PROVE  queue'[p] = queue[p]
  BY <1>1 DEF Acked, Stop, Types
<1>2. ASSUME NEW q \in Proc, NEW u \in Update, Stored(q, u)
      PROVE  queue'[p] = queue[p]
  BY <1>2 DEF Stored
<1>3. ASSUME NEW q \in Proc, Start(q)
      PROVE  queue'[p] = queue[p]
  BY <1>3 DEF Start
<1>4. CASE AgentEffect
  BY <1>4, AgentsOnlyAdd
<1>5. CASE Quiet
  BY <1>5 DEF Quiet
<1> QED
  BY <1>1, <1>2, <1>3, <1>4, <1>5, Effects

\* Where the requests on their way to the hub, and those still to be sent, come from.
LEMMA UplinkNext ==
  ASSUME Types, [Next]_vars
  PROVE  /\ \A m \in uplink': \/ m \in uplink
                              \/ \E p \in Proc: Connect(p) /\ call[p].at = "buffered" /\ m.state = call[p].state
                                                /\ m.sock = lastSock + 1
                              \/ \E p \in Proc: Emit(p) /\ m.state = Apply(Head(queue[p]), mirror[p]) /\ m.sock = sock[p]
         /\ \A p \in Proc: call'[p].at = "buffered" =>
               \/ call'[p] = call[p]
               \/ Emit(p) /\ call'[p].state = Apply(Head(queue[p]), mirror[p])
<1>1. CASE UNCHANGED vars \/ AgentStep
  BY <1>1, AgentsKeep DEF vars, hubVars, cliVars
<1>2. CASE NetStep
  <2>1. ASSUME NEW p \in Proc, Connect(p)
        PROVE  /\ \A m \in uplink': \/ m \in uplink
                                    \/ call[p].at = "buffered" /\ m.state = call[p].state /\ m.sock = lastSock + 1
               /\ \A q \in Proc: call'[q] = call[q] \/ call'[q].at = "sent"
    BY <2>1 DEF Connect, Types
  <2>2. ASSUME NEW p \in Proc, Start(p) \/ Stop(p) \/ Cut(p)
        PROVE  uplink' = uplink /\ \A q \in Proc: call'[q] = call[q] \/ call'[q].at = "none"
    BY <2>2 DEF Start, Stop, Cut, hubVars, NoCall, Types
  <2> QED
    BY <1>2, <2>1, <2>2 DEF NetStep
<1>3. CASE StateStep
  <2>1. ASSUME NEW p \in Proc, Emit(p)
        PROVE  /\ \A m \in uplink': \/ m \in uplink
                                    \/ m.state = Apply(Head(queue[p]), mirror[p]) /\ m.sock = sock[p]
               /\ \A q \in Proc: \/ call'[q] = call[q] \/ call'[q].at = "sent"
                                 \/ q = p /\ call'[q].state = Apply(Head(queue[p]), mirror[p])
    <3> DEFINE state == Apply(Head(queue[p]), mirror[p])
    <3>1. \/ /\ uplink' = uplink \cup {[sock |-> sock[p], state |-> state]}
             /\ call' = [call EXCEPT ![p] = [at |-> "sent"]]
          \/ call' = [call EXCEPT ![p] = [at |-> "buffered", state |-> state]] /\ uplink' = uplink
      BY <2>1 DEF Emit
    <3> HIDE DEF state
    <3>2. /\ \A m \in uplink': m \in uplink \/ (m.state = state /\ m.sock = sock[p])
          /\ \A q \in Proc: \/ call'[q] = call[q] \/ call'[q].at = "sent"
                            \/ q = p /\ call'[q].state = state
      BY <3>1 DEF Types
    <3> QED
      BY <3>2 DEF state
  <2>2. ASSUME NEW p \in Proc, TakeAck(p) \/ TakeUpdate(p)
        PROVE  uplink' = uplink /\ \A q \in Proc: call'[q] = call[q] \/ call'[q].at = "none"
    BY <2>2 DEF TakeAck, TakeUpdate, hubVars, NoCall, Types
  <2>3. ASSUME NEW m \in uplink, HubUpdate(m)
        PROVE  uplink' \subseteq uplink /\ call' = call
    BY <2>3 DEF HubUpdate, cliVars
  <2>4. ASSUME NEW s \in open, HubDrop(s)
        PROVE  uplink' \subseteq uplink /\ call' = call
    BY <2>4 DEF HubDrop, cliVars
  <2> QED
    BY <1>3, <2>1, <2>2, <2>3, <2>4 DEF StateStep
<1> QED
  BY <1>1, <1>2, <1>3, Steps

\* Every step keeps the writes.
LEMMA WritesNext ==
  ASSUME Types, Connections, Mirrors, OneCalls, Writes, Content, [Next]_vars
  PROVE  Writes'
<1>0. Types' /\ OneCalls'
  BY TypesNext, OneCallsNext
<1>1. ASSUME NEW q \in Proc, NEW u \in Update, NEW state \in State, Stores(q, u, state)
      PROVE  Stores(q, u, state)'
  BY <1>1, StoresKept
<1>2. ASSUME NEW p \in Proc, call[p].at = "buffered"
      PROVE  call[p].state \in State /\ Head(queue[p]) \in Update /\ Stores(p, Head(queue[p]), call[p].state)
  <2>1. call[p].state \in State
    BY <1>2, CallsMade DEF Types
  <2>2. queue[p] # <<>>
    BY <1>2 DEF OneCalls, OneCall
  <2>3. Head(queue[p]) \in Update
    BY <2>2 DEF Types
  <2> QED
    BY <1>2, <2>1, <2>3 DEF Writes
<1>3. ASSUME NEW p \in Proc, Emit(p)
      PROVE  /\ Stores(p, Head(queue[p]), Apply(Head(queue[p]), mirror[p]))
             /\ Head(queue[p]) \in Update /\ Apply(Head(queue[p]), mirror[p]) \in State
  BY <1>3, EmitStores
<1>4. ASSUME NEW m \in uplink'
      PROVE  \E q \in Proc, u \in Update: Stores(q, u, m.state)'
  <2>1. CASE m \in uplink
    BY <1>1, <2>1 DEF Writes, Types
  <2>2. ASSUME NEW p \in Proc, call[p].at = "buffered", m.state = call[p].state
        PROVE  \E q \in Proc, u \in Update: Stores(q, u, m.state)'
    BY <1>1, <1>2, <2>2
  <2>3. ASSUME NEW p \in Proc, Emit(p), m.state = Apply(Head(queue[p]), mirror[p])
        PROVE  \E q \in Proc, u \in Update: Stores(q, u, m.state)'
    BY <1>1, <1>3, <2>3
  <2> QED
    BY <2>1, <2>2, <2>3, UplinkNext
<1>5. ASSUME NEW p \in Proc, NEW state \in State, queue[p] # <<>>, Stores(p, Head(queue[p]), state),
             call'[p].at # "none"
      PROVE  Stores(p, Head(queue[p]), state)' /\ Head(queue'[p]) = Head(queue[p])
  <2>1. ~Acked(p) /\ ~Stop(p)
    BY <1>5 DEF Acked, Stop, NoCall, Types
  <2>2. Head(queue'[p]) = Head(queue[p]) /\ Head(queue[p]) \in Update
    BY <1>5, <2>1, HeadKept DEF Types
  <2>3. PICK u \in Update: u = Head(queue[p])
    BY <2>2
  <2>4. Stores(p, u, state)'
    BY <1>1, <1>5, <2>3
  <2> QED
    BY <2>2, <2>3, <2>4
<1>6. ASSUME NEW p \in Proc, call'[p].at = "buffered"
      PROVE  Stores(p, Head(queue[p]), call[p].state)'
  <2>1. PICK state \in State: /\ call'[p].state = state /\ queue[p] # <<>>
                              /\ Stores(p, Head(queue[p]), state)
    <3>1. CASE call'[p] = call[p]
      BY <1>2, <1>6, <3>1 DEF OneCalls, OneCall
    <3>2. CASE Emit(p) /\ call'[p].state = Apply(Head(queue[p]), mirror[p])
      BY <1>3, <3>2 DEF Emit
    <3> QED
      BY <1>6, <3>1, <3>2, UplinkNext
  <2>2. Stores(p, Head(queue[p]), state)' /\ Head(queue'[p]) = Head(queue[p])
    BY <1>5, <1>6, <2>1
  <2> QED
    BY <2>1, <2>2
<1>7. ASSUME NEW p \in Proc, NEW m \in uplink', m.sock = sock'[p]
      PROVE  Stores(p, Head(queue[p]), m.state)'
  <2>0. call'[p].at = "sent" /\ m.sock # 0
    <3>1. m \in Sent(p)'
      BY <1>7 DEF Sent
    <3> QED
      BY <1>0, <1>7, <3>1 DEF OneCalls, OneCall, Types
  <2>1. PICK state \in State: m.state = state /\ queue[p] # <<>> /\ Stores(p, Head(queue[p]), state)
    <3>1. CASE m \in uplink
      <4>1. sock'[p] = sock[p]
        <5>1. sock'[p] = sock[p] \/ sock'[p] = 0 \/ sock'[p] = lastSock + 1
          <6>1. CASE NetStep
            BY <6>1 DEF NetStep, Start, Stop, Connect, Cut, netVars, Types
          <6>2. CASE StateStep
            BY <6>2 DEF StateStep, HubDrop, HubUpdate, Emit, TakeAck, TakeUpdate, netVars
          <6>3. CASE AgentStep \/ UNCHANGED vars
            BY <6>3, AgentsKeep DEF vars, netVars
          <6> QED
            BY <6>1, <6>2, <6>3, Steps
        <5>2. m.sock # lastSock + 1
          BY <3>1 DEF Types
        <5> QED
          BY <1>7, <2>0, <5>1, <5>2
      <4>2. m \in Sent(p)
        BY <1>7, <3>1, <4>1 DEF Sent
      <4>3. queue[p] # <<>>
        BY <4>2 DEF OneCalls, OneCall
      <4> QED
        BY <3>1, <4>2, <4>3 DEF Writes, Types
    <3>2. ASSUME NEW k \in Proc, Connect(k), call[k].at = "buffered", m.state = call[k].state, m.sock = lastSock + 1
          PROVE  k = p /\ call[p].at = "buffered" /\ m.state = call[p].state
      <4>1. CASE k = p
        BY <3>2, <4>1
      <4>2. CASE k # p
        <5>1. sock'[p] = sock[p]
          BY <3>2, <4>2 DEF Connect, Types
        <5>2. sock[p] # lastSock + 1
          BY DEF Types
        <5> QED
          BY <1>7, <3>2, <5>1, <5>2
      <4> QED
        BY <4>1, <4>2
    <3>3. ASSUME NEW k \in Proc, Emit(k), m.state = Apply(Head(queue[k]), mirror[k]), m.sock = sock[k]
          PROVE  k = p
      BY <1>7, <2>0, <3>3 DEF Emit, netVars, Connections
    <3>4. CASE call[p].at = "buffered" /\ m.state = call[p].state
      BY <1>2, <3>4 DEF OneCalls, OneCall
    <3>5. CASE Emit(p) /\ m.state = Apply(Head(queue[p]), mirror[p])
      BY <1>3, <3>5 DEF Emit
    <3> QED
      BY <3>1, <3>2, <3>3, <3>4, <3>5, UplinkNext
  <2>2. Stores(p, Head(queue[p]), state)' /\ Head(queue'[p]) = Head(queue[p])
    BY <1>5, <2>0, <2>1
  <2> QED
    BY <2>1, <2>2
<1> QED
  BY <1>4, <1>6, <1>7 DEF Writes, Sent

\* A stored update is absorbed by the row, and nobody else's update undoes one.
LEMMA StoredAbsorbed ==
  ASSUME Types, Connections, Content, NEW p \in Proc, NEW u \in Update, phase[p] = "up", Stored(p, u)
  PROVE  Absorbed(p, u)'
<1>1. row \in State /\ row'.requests = Apply(u, row).requests /\ row'.completed = Apply(u, row).completed
  BY DEF Stored, Types
<1>2. /\ row'.requests = IF u.kind = "ask" THEN row.requests \cup {u.id}
                         ELSE IF u.kind = "record" THEN row.requests \ {u.id}
                         ELSE IF u.kind = "auto" THEN row.requests ELSE {}
      /\ \A r \in Req: row'.completed[r] = IF \/ u.kind \in {"record", "auto"} /\ r = u.id
                                              \/ u.kind = "cancel" /\ r \in row.requests
                                           THEN u.status ELSE row.completed[r]
  <2>1. /\ Apply(u, row).requests = IF u.kind = "ask" THEN row.requests \cup {u.id}
                                    ELSE IF u.kind = "record" THEN row.requests \ {u.id}
                                    ELSE IF u.kind = "auto" THEN row.requests ELSE {}
        /\ \A r \in Req: Apply(u, row).completed[r] =
              IF \/ u.kind \in {"record", "auto"} /\ r = u.id
                 \/ u.kind = "cancel" /\ r \in row.requests
              THEN u.status ELSE row.completed[r]
    BY <1>1, Applied
  <2> QED
    BY <1>1, <2>1
<1>3. 1 \in DOMAIN queue[p] /\ u = queue[p][1]
  BY StoredFirst
<1>4. u.kind = "auto" => u.id \notin row.requests
  BY <1>3, Kinds DEF Content, Queues, Queue, Status
<1> QED
  BY <1>2, <1>4, Kinds DEF Absorbed

\* Another process's.
LEMMA ForeignAbsorbed ==
  ASSUME Types, Connections, Content, NEW p \in Proc, phase[p] = "up", NEW h \in Update, Owns(p, h), Absorbed(p, h),
         NEW q \in Proc, q # p, NEW u \in Update, Stored(q, u)
  PROVE  Absorbed(p, h)'
<1>1. \A r \in Req: asked[r] = p => Unaffected(r) \/ (Canceled(r) /\ contested)
  <2>1. ASSUME NEW r \in Req, asked[r] = p, Canceled(r), ~contested
        PROVE  FALSE
    BY <2>1, StoredFirst DEF Canceled
  <2> QED
    BY <2>1, StoredDoes
<1>2. contested' = contested /\ asked' = asked
  BY DEF Stored
<1>3. CASE h.kind \in {"record", "auto", "ask"}
  <2>1. h.id \in Req /\ asked[h.id] = p
    BY <1>3, Kinds DEF Owns
  <2> QED
    BY <1>1, <1>2, <1>3, <2>1 DEF Absorbed, Unaffected, Canceled
<1>4. CASE h.kind = "cancel"
  <2>1. \A r \in row'.requests: asked[r] # p
    <3>1. \A r \in row'.requests: r \in Req
      BY DEF Stored, State
    <3> QED
      BY <1>1, <1>4, <3>1 DEF Absorbed, Unaffected, Canceled
  <2> QED
    BY <1>2, <1>4, <2>1 DEF Absorbed
<1> QED
  BY <1>3, <1>4, Kinds

\* Every step keeps what is acknowledged.
LEMMA AcknowledgedNext ==
  ASSUME Types, Connections, Mirrors, OneCalls, Writes, Acknowledged, Content, [Next]_vars
  PROVE  Acknowledged'
<1> SUFFICES ASSUME NEW p \in Proc, Succeeded(p)'
             PROVE  Absorbed(p, Head(queue[p]))'
  BY DEF Acknowledged
<1>0. Types' /\ OneCalls'
  BY TypesNext, OneCallsNext
<1>1. call'[p].at = "sent"
  BY <1>0 DEF OneCalls, OneCall, Acks, Succeeded
<1>2. ~Acked(p) /\ ~Stop(p)
  BY <1>1 DEF Acked, Stop, NoCall, Types
<1>3. CASE \E m \in Sent(p): HubUpdate(m) /\ m.state.version = row.version
  <2>1. PICK m \in Sent(p): HubUpdate(m) /\ m.state.version = row.version
    BY <1>3
  <2>2. m \in uplink /\ queue[p] # <<>> /\ phase[p] = "up"
    BY <2>1 DEF Sent, OneCalls, OneCall, Connections
  <2>3. Head(queue[p]) \in Update
    BY <2>2 DEF Types
  <2>4. Write(p, Head(queue[p]), m.state)
    BY <2>1 DEF Writes, Stores
  <2>5. Stored(p, Head(queue[p]))
    BY <2>1, <2>2, <2>3, <2>4, StoredBy
  <2>6. PICK u \in Update: u = Head(queue[p])
    BY <2>3
  <2>7. Absorbed(p, u)' /\ queue' = queue
    BY <2>2, <2>5, <2>6, StoredAbsorbed DEF Stored
  <2> QED
    BY <2>6, <2>7
<1>4. CASE Succeeded(p)
  <2>1. Absorbed(p, Head(queue[p])) /\ queue[p] # <<>> /\ phase[p] = "up"
    <3>1. call[p].at = "sent"
      BY <1>4 DEF OneCalls, OneCall, Acks, Succeeded
    <3> QED
      BY <1>4, <3>1 DEF Acknowledged, OneCalls, OneCall, Connections, NoCall
  <2>2. 1 \in DOMAIN queue[p] /\ Head(queue[p]) = queue[p][1] /\ Head(queue[p]) \in Update
    BY <2>1 DEF Types
  <2>3. PICK h \in Update: h = Head(queue[p]) /\ Owns(p, h) /\ Absorbed(p, h)
    BY <2>1, <2>2 DEF Content, Queues, Queue
  <2>4. Head(queue'[p]) = h
    BY <1>2, <2>1, <2>3, HeadKept
  <2>5. Absorbed(p, h)'
    <3> DEFINE Same == row' = row /\ (contested => contested') /\ \A r \in row.requests: asked'[r] = asked[r]
    <3>1. ASSUME Same
          PROVE  Absorbed(p, h)'
      BY <2>3, <3>1 DEF Absorbed
    <3>2. ASSUME NEW q \in Proc, NEW u \in Update, Stored(q, u)
          PROVE  Absorbed(p, h)'
      <4>1. q # p
        BY <1>4, <2>1, <3>2 DEF Stored, Write
      <4> QED
        BY <2>1, <2>3, <3>2, <4>1, ForeignAbsorbed
    <3>3. ASSUME Quiet \/ \E q \in Proc: Start(q) \/ Stop(q) \/ Acked(q)
          PROVE  Same
      <4>1. CASE Quiet
        BY <4>1 DEF Quiet
      <4>2. ASSUME NEW q \in Proc, Start(q)
            PROVE  Same
        BY <4>2 DEF Start, hubVars
      <4>3. ASSUME NEW q \in Proc, Stop(q)
            PROVE  Same
        BY <4>3 DEF Stop, hubVars
      <4>4. ASSUME NEW q \in Proc, Acked(q)
            PROVE  Same
        BY <4>4 DEF Acked
      <4> QED
        BY <3>3, <4>1, <4>2, <4>3, <4>4
    <3>4. ASSUME AgentEffect
          PROVE  Same
      <4>1. /\ UNCHANGED <<row, phase, contested>> /\ \A r \in Req: asked[r] # None => asked'[r] = asked[r]
        BY <3>4, AgentsOnlyAdd
      <4>2. \A r \in row.requests: r \in Req /\ asked[r] # None
        BY DEF Content, Requests, Unasked, Types, State
      <4> QED
        BY <4>1, <4>2
    <3> HIDE DEF Same
    <3> QED
      BY <3>1, <3>2, <3>3, <3>4, Effects
  <2> QED
    BY <2>4, <2>5
<1> QED
  BY <1>3, <1>4, SuccessNext

---------------------------------------------------------------------------
(* The invariant is inductive.                                             *)

\* The initial states have it.
LEMMA InitInv == Init => IInv
<1> SUFFICES ASSUME Init
             PROVE  IInv
  OBVIOUS
<1> USE DEF Init
<1>1. row \in State
  BY DEF State
<1>2. Types
  <2>1. /\ asked \in [Req -> Proc \cup {None}] /\ told \in [Req -> {"allow", "reject", "cancelled", None}]
        /\ waiting \in [Proc -> SUBSET Req] /\ pending \in [Proc -> SUBSET Req] /\ aborting \in [Proc -> SUBSET Req]
    OBVIOUS
  <2>2. /\ downlink \in [Proc -> Seq(Packets)] /\ queue \in [Proc -> Seq(Update)] /\ call \in [Proc -> Calls]
        /\ phase \in [Proc -> {"idle", "up", "down"}] /\ mirror \in [Proc -> State]
        /\ sock \in [Proc -> open \cup {0}] /\ \A p \in Proc: phase[p] # "up" => sock[p] = 0
    BY <1>1 DEF Calls
  <2>3. lastSock \in Nat /\ cuts \in 0..MaxCuts /\ cancels \in 0..MaxCancels
    BY BoundsAssumption
  <2>4. contested \in BOOLEAN
    BY Zenon
  <2> QED
    BY <1>1, <2>1, <2>2, <2>3, <2>4 DEF Types
<1>3. Connections
  BY DEF Connections, AnswersReachTheProcess, Connected
<1>4. Mirrors
  BY <1>1 DEF Mirrors, Current, State
<1>5. OneCalls /\ Writes /\ Acknowledged
  BY DEF OneCalls, OneCall, Acks, Sent, NoCall, Writes, Acknowledged, Succeeded
<1>6. Queues /\ Requests /\ Lives
  <2>1. \A p \in Proc: Queue(p)
    BY DEF Queue
  <2>2. \A r \in Req: asked[r] = None /\ Unasked(r)
    BY DEF Unasked
  <2>3. None \notin Proc
    BY NoneAssumption
  <2> QED
    BY <2>1, <2>2, <2>3 DEF Queues, Requests, Lives, Untold, Told
<1> QED
  BY <1>2, <1>3, <1>4, <1>5, <1>6 DEF IInv

\* Every step keeps it.
LEMMA NextInv == IInv /\ [Next]_vars => IInv'
<1> SUFFICES ASSUME IInv, [Next]_vars
             PROVE  IInv'
  OBVIOUS
<1>1. Types /\ Connections /\ Mirrors /\ OneCalls /\ Writes /\ Acknowledged /\ Content
  BY DEF IInv, Content
<1>2. Types'
  BY <1>1, TypesNext
<1>3. Connections'
  BY <1>1, ConnectionsNext
<1>4. Mirrors'
  BY <1>1, MirrorsNext
<1>5. OneCalls'
  BY <1>1, OneCallsNext
<1>6. Writes'
  BY <1>1, WritesNext
<1>7. Acknowledged'
  BY <1>1, AcknowledgedNext
<1>8. Content'
  BY <1>1, ContentNext
<1> QED
  BY <1>2, <1>3, <1>4, <1>5, <1>6, <1>7, <1>8 DEF IInv, Content

\* The strengthening of the invariants below that is inductive: a process sends one update at a
\* time and keeps it until the hub has answered (OneCalls, Writes, Acknowledged), and what is queued
\* for a request, on record of it and told of it agree (Queues, Requests, Lives).
THEOREM Inductive == Spec => []IInv
<1> QED
  BY InitInv, NextInv, PTL DEF Spec

---------------------------------------------------------------------------
(* What follows.                                                           *)

\* The variables have their types in every reachable state.
THEOREM TypeCorrect == Spec => []TypeOK
<1>1. IInv => TypeOK
  <2> SUFFICES ASSUME Types
               PROVE  TypeOK
    BY DEF IInv
  <2>1. \A m \in uplink: m.sock \in open /\ m.state \in State
    BY DEF Types
  <2>2. ASSUME NEW p \in Proc
        PROVE  /\ sock[p] \in open \cup {0}
               /\ \A i \in DOMAIN downlink[p]: downlink[p][i] \in Packets
               /\ \A i \in DOMAIN queue[p]: queue[p][i] \in Update
               /\ call[p].at \in {"none", "buffered", "sent"}
    BY CallsMade DEF Types, Calls, NoCall
  <2> QED
    BY <2>1, <2>2 DEF TypeOK, Types
<1> QED
  BY <1>1, Inductive, PTL

\* A process never holds a state the hub did not store under that version (applyVersionedAck, the
\* update-session handler and the compare and set of versionedUpdates.ts together).
THEOREM MirrorsAreRows == Spec => []MirrorIsRow
<1>1. IInv => MirrorIsRow
  BY DEF IInv, Mirrors, Current, MirrorIsRow
<1> QED
  BY <1>1, Inductive, PTL

\* Answers go to the connected process of a session that never had two, however late the hub notices
\* that older sockets are gone (rpcRegistry.ts).
THEOREM AnswersArrive == Spec => []AnswersReachTheProcess
<1>1. IInv => AnswersReachTheProcess
  BY DEF IInv, Connections
<1> QED
  BY <1>1, Inductive, PTL

\* Only an agent whose request is shown, about to be shown, or being aborted waits.
THEOREM NobodyWaitsUnseen == Spec => []NoHiddenWait
<1>1. IInv => NoHiddenWait
  <2> SUFFICES ASSUME IInv, NEW p \in Proc, NEW r \in waiting[p] \ aborting[p], ~contested
               PROVE  \/ r \in row.requests
                      \/ \E i \in DOMAIN queue[p]: queue[p][i] = Ask(r)
    BY DEF NoHiddenWait
  <2>1. r \in Req /\ r \in pending[p] /\ asked[r] = p
    BY DEF IInv, Requests, Types
  <2>2. phase[p] = "up"
    BY DEF IInv, Connections
  <2> QED
    BY <2>1, <2>2 DEF IInv, Lives, Uncontested
<1> QED
  BY <1>1, Inductive, PTL

\* What an agent can be told, and the record that fits it.
LEMMA FitRecord ==
  ASSUME NEW outcome \in {"allow", "reject", "cancelled"}, NEW status, Fit(status, outcome)
  PROVE  status \in CASE outcome = "allow" -> {"approved"}
                      [] outcome = "reject" -> {"denied"}
                      [] OTHER -> {"denied", "canceled"}
<1>1. CASE outcome = "allow"
  BY <1>1, Zenon DEF Fit
<1>2. CASE outcome = "reject"
  BY <1>2, Zenon DEF Fit
<1>3. CASE outcome = "cancelled"
  BY <1>3, Zenon DEF Fit
<1> QED
  BY <1>1, <1>2, <1>3

\* Once a process has written everything, the session shows what its agents were told.
THEOREM RecordsAreAnswers == Spec => []RecordIsAnswer
<1>1. IInv => RecordIsAnswer
  <2> SUFFICES ASSUME IInv, NEW r \in Req, NEW p \in Proc,
                      asked[r] = p, phase[p] = "up", queue[p] = <<>>, told[r] # None
               PROVE  /\ r \notin row.requests
                      /\ row.completed[r] \in CASE told[r] = "allow" -> {"approved"}
                                                [] told[r] = "reject" -> {"denied"}
                                                [] OTHER -> {"denied", "canceled"}
    BY DEF RecordIsAnswer
  <2>1. Told(p, r) /\ told[r] \in {"allow", "reject", "cancelled"}
    BY DEF IInv, Requests, Types
  <2>2. r \notin row.requests /\ Fit(row.completed[r], told[r])
    BY <2>1 DEF Told, InQueue
  <2> QED
    BY <2>1, <2>2, FitRecord
<1> QED
  BY <1>1, Inductive, PTL

---------------------------------------------------------------------------
(* The session's record implements PermissionLife.                         *)

\* What a state shows of a request is a life.
LEMMA LivesType ==
  ASSUME NEW state \in State, NEW r \in Req
  PROVE  LifeOf(state, r) \in Life!Lives
<1>1. state.completed[r] \in {"approved", "denied", "canceled", None}
  BY DEF State, Status
<1> QED
  BY <1>1 DEF LifeOf, Life!Lives

\* An agent is told once, and the session is contested for good.
LEMMA ToldOnce ==
  ASSUME IInv, [Next]_vars
  PROVE  (contested => contested') /\ \A r \in Req: Life!Tell(r)
<1>1. Types /\ Content /\ Types'
  BY TypesNext DEF IInv, Content
<1>2. ASSUME told' = told
      PROVE  \A r \in Req: Life!Tell(r)
  BY <1>2 DEF Life!Tell
<1>3. CASE Quiet
  BY <1>2, <1>3 DEF Quiet
<1>4. ASSUME NEW p \in Proc, Start(p) \/ Stop(p) \/ Acked(p)
      PROVE  (contested => contested') /\ \A r \in Req: Life!Tell(r)
  <2>1. CASE Start(p)
    BY <1>2, <2>1 DEF Start
  <2>2. CASE Stop(p) \/ Acked(p)
    BY <1>2, <2>2 DEF Stop, Acked
  <2> QED
    BY <1>4, <2>1, <2>2
<1>5. ASSUME NEW q \in Proc, NEW u \in Update, Stored(q, u)
      PROVE  (contested => contested') /\ \A r \in Req: Life!Tell(r)
  BY <1>2, <1>5 DEF Stored
<1>6. CASE AgentEffect
  <2>1. contested' = contested /\ \A r \in Req: told[r] # None => told'[r] = told[r]
    BY <1>1, <1>6, AgentsOnlyAdd
  <2>2. \A r \in Req: told'[r] \in Life!Outcome \cup {None}
    BY <1>1 DEF Types, Life!Outcome
  <2> QED
    BY <2>1, <2>2 DEF Life!Tell
<1> QED
  BY <1>1, <1>3, <1>4, <1>5, <1>6, Effects DEF IInv

\* What a session that was never contested shows of a request changes as PermissionLife allows.
LEMMA LifeContinues ==
  ASSUME IInv, [Next]_vars, ~contested', NEW r \in Req
  PROVE  LiveStep(r, LifeOf(row, r), LifeOf(row, r)')
<1>1. Types /\ Content /\ ~contested
  BY ToldOnce DEF IInv, Content
<1>2. ASSUME row' = row
      PROVE  LiveStep(r, LifeOf(row, r), LifeOf(row, r)')
  BY <1>2 DEF LiveStep, LifeOf
<1>3. ASSUME Quiet \/ (\E p \in Proc: Start(p) \/ Stop(p) \/ Acked(p)) \/ AgentEffect
      PROVE  row' = row
  <2>1. CASE Quiet
    BY <2>1 DEF Quiet
  <2>2. ASSUME NEW p \in Proc, Start(p) \/ Stop(p) \/ Acked(p)
        PROVE  row' = row
    BY <2>2 DEF Start, Stop, Acked, hubVars
  <2>3. CASE AgentEffect
    BY <1>1, <2>3, AgentsOnlyAdd
  <2> QED
    BY <1>3, <2>1, <2>2, <2>3
<1>4. ASSUME NEW q \in Proc, NEW u \in Update, Stored(q, u)
      PROVE  LiveStep(r, LifeOf(row, r), LifeOf(row, r)')
  <2>1. PICK m \in uplink: Write(q, u, m.state)
    BY <1>4 DEF Stored
  <2>2. LiveStep(r, LifeOf(row, r), LifeOf(m.state, r)) /\ m.state = Apply(u, row)
    BY <1>1, <2>1 DEF Write
  <2>3. row'.requests = m.state.requests /\ row'.completed = m.state.completed
    BY <1>4, <2>2 DEF Stored
  <2>4. LifeOf(row, r)' = LifeOf(m.state, r)
    BY <2>3 DEF LifeOf
  <2> QED
    BY <2>2, <2>4
<1> QED
  BY <1>2, <1>3, <1>4, Effects DEF IInv

\* A step of the session is a step of PermissionLife.
LEMMA LifeNext == IInv /\ [Next]_vars => Life!Next
<1> SUFFICES ASSUME IInv, [Next]_vars
             PROVE  Life!Next
  OBVIOUS
<1>1. Types /\ Types'
  BY TypesNext DEF IInv
<1>2. (contested => contested') /\ \A r \in Req: Life!Tell(r)
  BY ToldOnce
<1>3. [r \in Req |-> LifeOf(row, r)]' \in [Req -> Life!Lives]
  <2>1. \A r \in Req: LifeOf(row', r) \in Life!Lives
    BY <1>1, LivesType DEF Types
  <2> QED
    BY <2>1 DEF LifeOf
<1>4. ASSUME NEW r \in Req, ~contested'
      PROVE  Life!Live(r)
  <2>1. LiveStep(r, LifeOf(row, r), LifeOf(row, r)')
    BY <1>4, LifeContinues
  <2> QED
    BY <2>1 DEF LiveStep, LifeOf, Life!Live
<1>5. told' \in [Req -> Life!Outcome \cup {None}] /\ contested' \in BOOLEAN
  BY <1>1 DEF Types, Life!Outcome
<1> QED
  BY <1>2, <1>3, <1>4, <1>5 DEF Life!Next, LifeOf

\* The session's agent state, written by several processes with versions, retries and lost
\* connections, shows of each request a permission life.
THEOREM ImplementsPermissionLife == Spec => ImplementsLife
<1>1. Init => Life!Init
  BY DEF Init, Life!Init
<1>2. IInv /\ [Next]_vars => [Life!Next]_(Life!vars)
  BY LifeNext
<1> QED
  BY <1>1, <1>2, Inductive, PTL DEF Spec, ImplementsLife, Life!Spec
===========================================================================
