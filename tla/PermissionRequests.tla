------------------------ MODULE PermissionRequests ------------------------
(***************************************************************************)
(* Permission prompts of one session.  An agent asks; the CLI process that *)
(* runs it publishes the request in the session's agentState, which the    *)
(* hub stores under an optimistic version and shows to the web; the web's  *)
(* answer comes back as an RPC to the socket that registered the method;   *)
(* the CLI tells the agent and records the outcome.                        *)
(*                                                                         *)
(* cli/src/agent/permissionAdapter.ts, cli/src/api/apiSession.ts           *)
(* (updateAgentState and the update-session event), versionedUpdate.ts,    *)
(* hub/src/store/versionedUpdates.ts, hub/src/socket/handlers/cli,         *)
(* rpcRegistry.ts and hub/src/web/routes/permissions.ts.                   *)
(***************************************************************************)
EXTENDS Naturals, Sequences, SequencesExt

CONSTANTS
    Req,         \* permission requests of the agents
    Proc,        \* CLI processes of the session
    None,
    MaxCuts,     \* bound: connections lost
    MaxCancels   \* bound: turns that end, or are aborted by the session's Abort

ASSUME NoneAssumption ==
    None \notin Req \cup Proc \cup {"approved", "denied", "canceled", "allow", "reject", "cancelled"}
ASSUME BoundsAssumption == MaxCuts \in Nat /\ MaxCancels \in Nat

VARIABLES
    row,        \* agent_state and its version in the sessions table, and the hub's cached session
    open,       \* sockets the hub considers connected
    registered, \* methodToSocketId of the Permission method; 0: nobody
    uplink,     \* update-state requests on their way to the hub
    phase,      \* down, idle (no process yet), up
    sock,       \* current socket of a process; 0: not connected
    downlink,   \* what the hub sent on the current socket, in order
    mirror,     \* agentState and agentStateVersion of the process
    queue,      \* updates waiting for agentStateLock; the head holds it
    call,       \* the head's emitWithAck: none, buffered (not connected), sent
    asked,      \* who asked a request
    waiting,    \* AcpSdkBackend.pendingPermissions
    pending,    \* PermissionAdapter.pendingRequests
    aborting,   \* requests answered with an abort whose cancelPrompt has not returned
    lastSock, cuts, cancels,
    told,       \* history: what the agent was told
    contested   \* history: two processes ran the session at the same time

hubVars == <<row, open, registered, uplink>>
netVars == <<sock, downlink, lastSock, cuts>>
cliVars == <<phase, mirror, queue, call>>
agentVars == <<asked, waiting, pending, aborting, told, cancels, contested>>
vars == <<hubVars, netVars, cliVars, agentVars>>

Status == {"approved", "denied", "canceled"}
State == [version: Nat, requests: SUBSET Req, completed: [Req -> Status \cup {None}]]
NoCall == [at |-> "none"]

Procs(s) == {p \in Proc: phase[p] = "up" /\ sock[p] = s /\ s # 0}
Connected(p) == sock[p] # 0

-----------------------------------------------------------------------------
(* Updates of the agent state: functions of the state they are applied to. *)

Ask(r) == [kind |-> "ask", id |-> r, status |-> None]
Record(r, status) == [kind |-> "record", id |-> r, status |-> status]
AutoRecord(r, status) == [kind |-> "auto", id |-> r, status |-> status]
CancelRequests == [kind |-> "cancel", id |-> None, status |-> "canceled"]
Update == {Ask(r): r \in Req} \cup {CancelRequests}
            \cup {Record(r, s): r \in Req, s \in {"approved", "denied"}}
            \cup {AutoRecord(r, s): r \in Req, s \in {"approved", "canceled"}}

Apply(u, state) ==
    [state EXCEPT
        !.requests = CASE u.kind = "ask" -> @ \cup {u.id}
                       [] u.kind = "record" -> @ \ {u.id}
                       [] u.kind = "auto" -> @
                       [] u.kind = "cancel" -> {},
        !.completed = [r \in Req |->
            IF \/ u.kind \in {"record", "auto"} /\ r = u.id
               \/ u.kind = "cancel" /\ r \in state.requests
            THEN u.status ELSE @[r]]]

(* Mutants of Cas: the version stays; the condition on the version is missing. *)
CasSameVersion(expected, state) == IF row.version = expected THEN state ELSE row
CasAlways(expected, state) == [state EXCEPT !.version = row.version + 1]

(* updateVersionedField: the row after an UPDATE ... WHERE version = expected. *)
Cas(expected, state) ==
    IF row.version = expected THEN [state EXCEPT !.version = expected + 1] ELSE row

\* update-session: only a newer version is taken.
Newer(p, state) == IF state.version > mirror[p].version THEN state ELSE mirror[p]

Init ==
    /\ row = [version |-> 1, requests |-> {}, completed |-> [r \in Req |-> None]]
    /\ open = {} /\ registered = 0 /\ uplink = {}
    /\ phase = [p \in Proc |-> "idle"] /\ sock = [p \in Proc |-> 0]
    /\ downlink = [p \in Proc |-> <<>>] /\ mirror = [p \in Proc |-> row]
    /\ queue = [p \in Proc |-> <<>>] /\ call = [p \in Proc |-> NoCall]
    /\ asked = [r \in Req |-> None] /\ waiting = [p \in Proc |-> {}] /\ pending = [p \in Proc |-> {}]
    /\ aborting = [p \in Proc |-> {}]
    /\ lastSock = 0 /\ cuts = 0 /\ cancels = 0
    /\ told = [r \in Req |-> None] /\ contested = FALSE

-----------------------------------------------------------------------------
(* Processes and connections. *)

(* getOrCreateSession gave the process the row as it is. *)
Start(p) ==
    /\ phase[p] = "idle"
    /\ phase' = [phase EXCEPT ![p] = "up"]
    /\ mirror' = [mirror EXCEPT ![p] = row]
    /\ contested' = (contested \/ \E q \in Proc: phase[q] = "up")
    /\ UNCHANGED <<hubVars, netVars, queue, call, asked, waiting, pending, aborting, told, cancels>>

(* The process and its agent end; what it had queued is gone. *)
Stop(p) ==
    /\ phase[p] = "up"
    /\ phase' = [phase EXCEPT ![p] = "down"]
    /\ sock' = [sock EXCEPT ![p] = 0]
    /\ downlink' = [downlink EXCEPT ![p] = <<>>]
    /\ queue' = [queue EXCEPT ![p] = <<>>]
    /\ call' = [call EXCEPT ![p] = NoCall]
    /\ waiting' = [waiting EXCEPT ![p] = {}]
    /\ pending' = [pending EXCEPT ![p] = {}]
    /\ aborting' = [aborting EXCEPT ![p] = {}]
    /\ UNCHANGED <<hubVars, lastSock, cuts, mirror, asked, told, cancels, contested>>

(* Mutant of Connect: what was emitted while disconnected is not sent. *)
ConnectUnflushed(p) ==
    /\ phase[p] = "up" /\ ~Connected(p)
    /\ lastSock' = lastSock + 1
    /\ sock' = [sock EXCEPT ![p] = lastSock']
    /\ open' = open \cup {lastSock'}
    /\ registered' = lastSock'
    /\ UNCHANGED <<row, uplink, downlink, cuts, cliVars, agentVars>>

(* A new socket joins the session's room, onSocketConnect registers the method, and a request that *)
(* was emitted while disconnected goes out. *)
Connect(p) ==
    /\ phase[p] = "up" /\ ~Connected(p)
    /\ LET s == lastSock + 1 IN
        /\ lastSock' = s
        /\ sock' = [sock EXCEPT ![p] = s]
        /\ open' = open \cup {s}
        /\ registered' = s
        /\ IF call[p].at = "buffered"
           THEN /\ uplink' = uplink \cup {[sock |-> s, state |-> call[p].state]}
                /\ call' = [call EXCEPT ![p] = [at |-> "sent"]]
           ELSE UNCHANGED <<uplink, call>>
    /\ UNCHANGED <<row, downlink, cuts, phase, mirror, queue, agentVars>>

(* Mutant of Cut: the pending acknowledgement is not rejected. *)
CutUnnoticed(p) ==
    /\ Connected(p) /\ cuts < MaxCuts
    /\ cuts' = cuts + 1
    /\ sock' = [sock EXCEPT ![p] = 0]
    /\ downlink' = [downlink EXCEPT ![p] = <<>>]
    /\ UNCHANGED <<hubVars, lastSock, cliVars, agentVars>>

(* The process notices that its socket is gone: a pending acknowledgement is rejected, which the *)
(* backoff retries.  The hub has not noticed yet, and may still handle what was sent. *)
Cut(p) ==
    /\ Connected(p) /\ cuts < MaxCuts
    /\ cuts' = cuts + 1
    /\ sock' = [sock EXCEPT ![p] = 0]
    /\ downlink' = [downlink EXCEPT ![p] = <<>>]
    /\ call' = [call EXCEPT ![p] = NoCall]
    /\ UNCHANGED <<hubVars, lastSock, phase, mirror, queue, agentVars>>

(* Mutants of HubDrop: the method stays registered; it goes whoever registered it. *)
HubDropKept(s) ==
    /\ s \in open /\ Procs(s) = {}
    /\ open' = open \ {s}
    /\ uplink' = {m \in uplink: m.sock # s}
    /\ UNCHANGED <<row, registered, netVars, cliVars, agentVars>>
HubDropAny(s) ==
    /\ s \in open /\ Procs(s) = {}
    /\ open' = open \ {s}
    /\ registered' = 0
    /\ uplink' = {m \in uplink: m.sock # s}
    /\ UNCHANGED <<row, netVars, cliVars, agentVars>>

(* The hub sees a socket's disconnect: unregisterAll removes the method only if it is still that *)
(* socket's. *)
HubDrop(s) ==
    /\ s \in open /\ Procs(s) = {}
    /\ open' = open \ {s}
    /\ registered' = IF registered = s THEN 0 ELSE registered
    /\ uplink' = {m \in uplink: m.sock # s}
    /\ UNCHANGED <<row, netVars, cliVars, agentVars>>

-----------------------------------------------------------------------------
(* The versioned agent state. *)

(* updateAgentState, each attempt: the update is applied to the current mirror, and the whole value *)
(* goes out with the mirror's version.  A disconnected socket buffers it. *)
Emit(p) ==
    /\ phase[p] = "up" /\ queue[p] # <<>> /\ call[p].at = "none"
    /\ LET state == Apply(Head(queue[p]), mirror[p]) IN
        IF Connected(p)
        THEN /\ uplink' = uplink \cup {[sock |-> sock[p], state |-> state]}
             /\ call' = [call EXCEPT ![p] = [at |-> "sent"]]
        ELSE /\ call' = [call EXCEPT ![p] = [at |-> "buffered", state |-> state]]
             /\ UNCHANGED uplink
    /\ UNCHANGED <<row, open, registered, netVars, phase, mirror, queue, agentVars>>

(* update-state: compare and set, acknowledge with what the row holds now, and on success tell *)
(* every other socket of the session. *)
HubUpdate(m) ==
    LET success == row.version = m.state.version
        state == Cas(m.state.version, m.state)
        To(p) == IF sock[p] = m.sock
                 THEN <<[kind |-> IF success THEN "success" ELSE "mismatch", state |-> state]>>
                 ELSE IF success THEN <<[kind |-> "update", state |-> state]>> ELSE <<>>
    IN
    /\ m \in uplink
    /\ uplink' = uplink \ {m}
    /\ row' = state
    /\ downlink' = [p \in Proc |-> IF Connected(p) THEN downlink[p] \o To(p) ELSE downlink[p]]
    /\ UNCHANGED <<open, registered, sock, lastSock, cuts, cliVars, agentVars>>

(* applyVersionedAck: value and version are taken from either answer.  Success ends the update and *)
(* lets the next one have the lock; a mismatch is retried. *)
TakeAck(p) ==
    /\ downlink[p] # <<>> /\ Head(downlink[p]).kind \in {"success", "mismatch"}
    /\ downlink' = [downlink EXCEPT ![p] = Tail(@)]
    /\ mirror' = [mirror EXCEPT ![p] = Head(downlink[p]).state]
    /\ call' = [call EXCEPT ![p] = NoCall]
    /\ queue' = [queue EXCEPT ![p] = IF Head(downlink[p]).kind = "success" THEN Tail(@) ELSE @]
    /\ UNCHANGED <<hubVars, sock, lastSock, cuts, phase, agentVars>>

TakeUpdate(p) ==
    /\ downlink[p] # <<>> /\ Head(downlink[p]).kind = "update"
    /\ downlink' = [downlink EXCEPT ![p] = Tail(@)]
    /\ mirror' = [mirror EXCEPT ![p] = Newer(p, Head(downlink[p]).state)]
    /\ UNCHANGED <<hubVars, sock, lastSock, cuts, phase, queue, call, agentVars>>

-----------------------------------------------------------------------------
(* The agent, the adapter and the web. *)

Enqueue(p, updates) == queue' = [queue EXCEPT ![p] = @ \o updates]
Tell(R, outcome) == told' = [r \in Req |-> IF r \in R THEN outcome ELSE told[r]]

(* handlePermissionRequest: to be answered by the user. *)
AgentAsks(p, r) ==
    /\ phase[p] = "up" /\ asked[r] = None
    /\ asked' = [asked EXCEPT ![r] = p]
    /\ waiting' = [waiting EXCEPT ![p] = @ \cup {r}]
    /\ pending' = [pending EXCEPT ![p] = @ \cup {r}]
    /\ Enqueue(p, <<Ask(r)>>)
    /\ UNCHANGED <<hubVars, netVars, phase, mirror, call, aborting, told, cancels, contested>>

(* autoApproveRequest: told at once; without an allow option, cancelled. *)
AutoApprove(p, r) ==
    /\ phase[p] = "up" /\ asked[r] = None
    /\ asked' = [asked EXCEPT ![r] = p]
    /\ \E allowed \in BOOLEAN:
        /\ Tell({r}, IF allowed THEN "allow" ELSE "cancelled")
        /\ Enqueue(p, <<AutoRecord(r, IF allowed THEN "approved" ELSE "canceled")>>)
    /\ UNCHANGED <<hubVars, netVars, phase, mirror, call, waiting, pending, aborting, cancels, contested>>

(* POST approve or deny: only for a request the session shows, to the socket that registered the *)
(* method, which may be one the process has left.  Bound: one answer on its way at a time. *)
AnswerFromWeb(r, answer) ==
    /\ r \in row.requests /\ registered \in open
    /\ \A p \in Procs(registered): \A i \in DOMAIN downlink[p]: downlink[p][i].kind # "answer"
    /\ downlink' = [p \in Proc |-> IF p \in Procs(registered)
                                   THEN Append(downlink[p], [kind |-> "answer", id |-> r, answer |-> answer])
                                   ELSE downlink[p]]
    /\ UNCHANGED <<hubVars, sock, lastSock, cuts, cliVars, agentVars>>

(* handlePermissionResponse: an unknown request is ignored; else it leaves the map, and the agent is *)
(* told, or asked to cancel its prompt first. *)
TakeAnswer(p) ==
    /\ downlink[p] # <<>> /\ Head(downlink[p]).kind = "answer"
    /\ downlink' = [downlink EXCEPT ![p] = Tail(@)]
    /\ LET r == Head(downlink[p]).id
           answer == Head(downlink[p]).answer IN
        \/ r \notin pending[p] /\ UNCHANGED <<queue, waiting, pending, aborting, told>>
        \/ /\ r \in pending[p] /\ answer # "abort"
           /\ pending' = [pending EXCEPT ![p] = @ \ {r}]
           /\ waiting' = [waiting EXCEPT ![p] = @ \ {r}]
           /\ Tell({r}, IF answer = "approve" THEN "allow" ELSE "reject")
           /\ Enqueue(p, <<Record(r, IF answer = "approve" THEN "approved" ELSE "denied")>>)
           /\ UNCHANGED aborting
        \/ /\ r \in pending[p] /\ answer = "abort"
           /\ pending' = [pending EXCEPT ![p] = @ \ {r}]
           /\ aborting' = [aborting EXCEPT ![p] = @ \cup {r}]
           /\ UNCHANGED <<queue, waiting, told>>
    /\ UNCHANGED <<hubVars, sock, lastSock, cuts, phase, mirror, call, asked, cancels, contested>>

(* cancelPrompt returned: the agent is told, everything else is cancelled, the answer is recorded. *)
AbortSettles(p, r) ==
    /\ r \in aborting[p]
    /\ aborting' = [aborting EXCEPT ![p] = @ \ {r}]
    /\ waiting' = [waiting EXCEPT ![p] = @ \ ({r} \cup pending[p])]
    /\ pending' = [pending EXCEPT ![p] = {}]
    /\ Tell({r} \cup pending[p], "cancelled")
    /\ Enqueue(p, <<CancelRequests, Record(r, "denied")>>)
    /\ UNCHANGED <<hubVars, netVars, phase, mirror, call, asked, cancels, contested>>

(* Mutant of CancelAll: cancels only what the session shows. *)
CancelAllShown(p) ==
    /\ phase[p] = "up" /\ cancels < MaxCancels
    /\ cancels' = cancels + 1
    /\ Enqueue(p, <<CancelRequests>>)
    /\ UNCHANGED <<hubVars, netVars, phase, mirror, call, asked, waiting, pending, aborting, told, contested>>

(* cancelAll, at the end of a turn and on the session's Abort.  It cancels what this process waits *)
(* for and every request the session shows. *)
CancelAll(p) ==
    /\ phase[p] = "up" /\ cancels < MaxCancels
    /\ cancels' = cancels + 1
    /\ waiting' = [waiting EXCEPT ![p] = @ \ pending[p]]
    /\ pending' = [pending EXCEPT ![p] = {}]
    /\ Tell(pending[p], "cancelled")
    /\ Enqueue(p, <<CancelRequests>>)
    /\ UNCHANGED <<hubVars, netVars, phase, mirror, call, asked, aborting, contested>>

Next ==
    \/ \E p \in Proc: Start(p) \/ Stop(p) \/ Connect(p) \/ Cut(p) \/ Emit(p)
    \/ \E s \in open: HubDrop(s)
    \/ \E m \in uplink: HubUpdate(m)
    \/ \E p \in Proc: TakeAck(p) \/ TakeUpdate(p) \/ TakeAnswer(p) \/ CancelAll(p)
    \/ \E p \in Proc, r \in Req: AgentAsks(p, r) \/ AutoApprove(p, r) \/ AbortSettles(p, r)
    \/ \E r \in Req, answer \in {"approve", "deny", "abort"}: AnswerFromWeb(r, answer)

Spec == Init /\ [][Next]_vars

(* Sockets reconnect and deliver, updates are retried for ever, and a prompt's cancellation returns *)
(* (a notification, or a close request with a timeout). *)
Fairness ==
    /\ WF_vars(\E m \in uplink: HubUpdate(m))
    /\ \A p \in Proc: /\ WF_vars(Connect(p)) /\ WF_vars(Emit(p))
                      /\ WF_vars(TakeAck(p) \/ TakeUpdate(p) \/ TakeAnswer(p))
                      /\ \A r \in Req: WF_vars(AbortSettles(p, r))

LiveSpec == Spec /\ Fairness
-----------------------------------------------------------------------------
(* Properties. *)

Packets == [kind: {"success", "mismatch", "update"}, state: State]
            \cup [kind: {"answer"}, id: Req, answer: {"approve", "deny", "abort"}]

(* Types. *)
TypeOK ==
    /\ row \in State /\ open \subseteq 1..lastSock /\ registered \in open \cup {0}
    /\ \A m \in uplink: m.sock \in open /\ m.state \in State
    /\ phase \in [Proc -> {"idle", "up", "down"}] /\ mirror \in [Proc -> State]
    /\ \A p \in Proc: /\ sock[p] \in open \cup {0}
                      /\ \A i \in DOMAIN downlink[p]: downlink[p][i] \in Packets
                      /\ \A i \in DOMAIN queue[p]: queue[p][i] \in Update
                      /\ call[p].at \in {"none", "buffered", "sent"}
    /\ asked \in [Req -> Proc \cup {None}]
    /\ waiting \in [Proc -> SUBSET Req] /\ pending \in [Proc -> SUBSET Req] /\ aborting \in [Proc -> SUBSET Req]
    /\ lastSock \in Nat /\ cuts \in 0..MaxCuts /\ cancels \in 0..MaxCancels
    /\ told \in [Req -> {"allow", "reject", "cancelled", None}] /\ contested \in BOOLEAN

(* A process never holds, and is never sent, a state that the hub did not store under that version: *)
(* a mirror at the row's version is the row. *)
MirrorIsRow ==
    \A p \in Proc: phase[p] = "up" =>
        /\ mirror[p].version <= row.version
        /\ mirror[p].version = row.version => mirror[p] = row

(* Once the process that told the agent has nothing left to write, the session shows what the agent *)
(* was told, and no longer asks: no other writer, retry or turn end has overwritten it. *)
RecordIsAnswer ==
    \A r \in Req, p \in Proc:
        asked[r] = p /\ phase[p] = "up" /\ queue[p] = <<>> /\ told[r] # None =>
            /\ r \notin row.requests
            /\ row.completed[r] \in CASE told[r] = "allow" -> {"approved"}
                                      [] told[r] = "reject" -> {"denied"}
                                      [] OTHER -> {"denied", "canceled"}

(* An agent never waits for a request that nobody can see and answer: it is shown, or its update is *)
(* still to be applied, or its abort is under way. *)
NoHiddenWait ==
    \A p \in Proc: \A r \in waiting[p] \ aborting[p]:
        \/ contested
        \/ r \in row.requests
        \/ \E i \in DOMAIN queue[p]: queue[p][i] = Ask(r)

(* The only connected process of a session that never had two is the one answers are sent to, *)
(* however late the hub notices that its earlier sockets are gone. *)
AnswersReachTheProcess ==
    \A p \in Proc: Connected(p) /\ ~contested => registered = sock[p]

Life == INSTANCE PermissionLife WITH
    life <- [r \in Req |-> IF r \in row.requests THEN "asked"
                           ELSE IF row.completed[r] = None THEN "new" ELSE row.completed[r]]

(* What the hub shows of each request is a permission life: asked once, recorded only as the agent *)
(* was told, never asked again. *)
ImplementsLife == Life!Spec

(* An agent that was told has it recorded, unless its process ends first. *)
AnswerIsRecorded ==
    \A r \in Req: told[r] # None ~>
        \/ row.completed[r] # None /\ r \notin row.requests
        \/ asked[r] # None /\ phase[asked[r]] = "down"

(* A request is shown or settled, unless its process ends first. *)
AskedIsShown ==
    \A r \in Req: asked[r] # None ~>
        r \in row.requests \/ told[r] # None \/ (asked[r] # None /\ phase[asked[r]] = "down")
=============================================================================
