--------------------------- MODULE AgentCliGuard ---------------------------
(***************************************************************************)
(* The guard that keeps `agent --list-models` and `agent acp` apart on one *)
(* machine (shared/src/agentCliSpawnLease.ts, cli/src/agent/backends/acp/  *)
(* agentCliGuard.ts, with their callers AcpStdioTransport.create and       *)
(* runCursorModelProbe).  Two mechanisms work together:                    *)
(*   - the spawn lease, a lock file held around every spawn of `agent`;    *)
(*   - the directory agent-acp-active, in which every process publishes    *)
(*     its running ACP transports, and which whoever looks also cleans.    *)
(* The functions are synchronous, so a process runs one block at a time;   *)
(* but every file operation of the block is a step of its own here,        *)
(* because other processes work on the same directory.                     *)
(***************************************************************************)
EXTENDS Naturals, FiniteSets

CONSTANTS
    Proc,           \* hapi processes of one HAPI_HOME: session hosts and the runner
    MaxTransports,  \* bound: ACP transports a process may have at a time
    Limit,          \* bound: how many of them each process asks for, 0 for one that only probes
    None            \* nobody holds the lease

ASSUME ProcAssumption == None \notin Proc
ASSUME TransportsAssumption ==
    /\ MaxTransports \in Nat \ {0}
    /\ Limit \in [Proc -> 0..MaxTransports]

VARIABLES
    up,       \* the processes that are alive
    lease,    \* owner of agent-cli.spawn.hapi.lock
    depth,    \* acpRegisterLeaseDepth of each process
    waiting,  \* creates in the retry loop of acquireAgentCliSpawnLease
    count,    \* activeAcpTransportCount of each process
    acp,      \* the transports: "none", "running", "exited" (exit seen, close not yet)
    probing,  \* the process runs an `agent --list-models` child
    listed,   \* listCursorModels found no ACP transport and goes on to probe
    pc,       \* next step of the block a process is in
    call,     \* why the block runs: "close", "create", "list", "probe"
    slot,     \* the transport the block is about
    retried,  \* addLockPid is in its second attempt
    fs,       \* the directory agent-acp-active
    torn      \* history: the directory was removed while a live owner was in it

guardVars == <<count, acp, probing, listed>>
leaseVars == <<lease, depth, waiting>>
blockVars == <<pc, call, slot, retried>>
vars == <<up, leaseVars, guardVars, blockVars, fs, torn>>

Slot == 1..MaxTransports
HostPid(p) == <<p, 0>>
ChildPid(p, k) == <<p, k>>
Pid == Proc \X (0..MaxTransports)

\* marks is registering/, pids is pids/; only the presence of a positive count matters, every
\* writer writes at least 1.  The two flags say that the mtime is less than five seconds old.
Dir == [there: BOOLEAN, marks: SUBSET Proc, pidsThere: BOOLEAN, pids: SUBSET Pid,
        counted: BOOLEAN, fresh: BOOLEAN, pidsFresh: BOOLEAN]
NoDir == [there |-> FALSE, marks |-> {}, pidsThere |-> FALSE, pids |-> {},
          counted |-> FALSE, fresh |-> FALSE, pidsFresh |-> FALSE]

\* The continuation of a claimed lease, and of creates that share it, runs before the next event.
CreateSteps == {"claimed", "shared", "mkdir", "marker", "pidsDir", "pidFile", "count", "unmark",
                "spawn", "childDir", "childFile", "release"}
LookSteps == {"look", "scan", "rescan", "marks", "marksOld", "grace", "noPids", "remove", "verdict"}
Step == {"idle", "unregister"} \cup CreateSteps \cup LookSteps

TypeOK ==
    /\ up \subseteq Proc
    /\ lease \in Proc \cup {None}
    /\ depth \in [Proc -> 0..MaxTransports]
    /\ waiting \in [Proc -> 0..MaxTransports]
    /\ count \in [Proc -> 0..MaxTransports]
    /\ acp \in [Proc -> [Slot -> {"none", "running", "exited"}]]
    /\ probing \in [Proc -> BOOLEAN]
    /\ listed \in [Proc -> BOOLEAN]
    /\ pc \in [Proc -> Step]
    /\ call \in [Proc -> {"none", "close", "create", "list", "probe"}]
    /\ slot \in [Proc -> Slot]
    /\ retried \in [Proc -> BOOLEAN]
    /\ fs \in Dir
    /\ torn \in BOOLEAN

Init ==
    /\ up = Proc
    /\ lease = None
    /\ depth = [p \in Proc |-> 0]
    /\ waiting = [p \in Proc |-> 0]
    /\ count = [p \in Proc |-> 0]
    /\ acp = [p \in Proc |-> [k \in Slot |-> "none"]]
    /\ probing = [p \in Proc |-> FALSE]
    /\ listed = [p \in Proc |-> FALSE]
    /\ pc = [p \in Proc |-> "idle"]
    /\ call = [p \in Proc |-> "none"]
    /\ slot = [p \in Proc |-> 1]
    /\ retried = [p \in Proc |-> FALSE]
    /\ fs = NoDir
    /\ torn = FALSE

----------------------------------------------------------------------------
(* Reading the directory. *)

\* isProcessAlive for a host or an agent child.
Alive(pid) == \/ pid[2] = 0 /\ pid[1] \in up
              \/ pid[2] # 0 /\ acp[pid[1]][pid[2]] = "running"

LivePids == {pid \in fs.pids : Alive(pid)}
\* Mutant of LiveMarks: the marker of a dead registrar counts.
LiveMarksAll == fs.marks
LiveMarks == fs.marks \cap up

\* isFreshPrespawnReservation: a directory that cannot be read counts as fresh.
FreshDir == ~fs.there \/ fs.fresh
FreshPids == ~fs.pidsThere \/ fs.pidsFresh

At(p, step) == p \in up /\ pc[p] = step

Goto(p, step) ==
    /\ pc' = [pc EXCEPT ![p] = step]
    /\ call' = [call EXCEPT ![p] = IF step = "idle" THEN "none" ELSE @]
Enter(p, step, why, k) ==
    /\ pc' = [pc EXCEPT ![p] = step]
    /\ call' = [call EXCEPT ![p] = why]
    /\ slot' = [slot EXCEPT ![p] = k]
    /\ retried' = [retried EXCEPT ![p] = FALSE]

----------------------------------------------------------------------------
(* The spawn lease. *)

\* claimSpawnLeaseSync: the lock file is free, or its owner died and it is stale.
Claimable == lease = None \/ lease \notin up

\* releaseAgentCliSpawnLeaseSync
ReleaseProbeLease(p) ==
    lease' = IF depth[p] > 0 \/ lease # p THEN lease ELSE None

\* Mutant of ReleaseRegisterLease: the first of two sharing creates gives the lease back.
ReleaseRegisterLeaseEarly(p) ==
    /\ depth[p] > 0
    /\ depth' = [depth EXCEPT ![p] = @ - 1]
    /\ lease' = IF lease # p THEN lease ELSE None

\* releaseAgentCliSpawnLeaseFromAcpRegisterSync
ReleaseRegisterLease(p) ==
    /\ depth[p] > 0
    /\ depth' = [depth EXCEPT ![p] = @ - 1]
    /\ lease' = IF depth[p] > 1 \/ lease # p THEN lease ELSE None

InUse(p) == {k \in Slot : acp[p][k] # "none"}

\* AcpStdioTransport.create: shares the lease if the process has it for another create.
RequestCreate(p) ==
    /\ Cardinality(InUse(p)) + waiting[p] + depth[p] < Limit[p]
    /\ \/ At(p, "claimed") /\ depth' = [depth EXCEPT ![p] = @ + 1] /\ UNCHANGED waiting
       \/ At(p, "idle") /\ waiting' = [waiting EXCEPT ![p] = @ + 1] /\ UNCHANGED depth
    /\ UNCHANGED <<up, lease, guardVars, blockVars, fs, torn>>

\* One attempt of the retry loop that succeeds.
ClaimForCreate(p) ==
    /\ At(p, "idle")
    /\ waiting[p] > 0
    /\ Claimable
    /\ lease' = p
    /\ depth' = [depth EXCEPT ![p] = 1]
    /\ waiting' = [waiting EXCEPT ![p] = @ - 1]
    /\ Goto(p, "claimed")
    /\ UNCHANGED <<up, guardVars, slot, retried, fs, torn>>

\* 300 attempts failed.
GiveUp(p) ==
    /\ At(p, "idle")
    /\ waiting[p] > 0
    /\ waiting' = [waiting EXCEPT ![p] = @ - 1]
    /\ UNCHANGED <<up, lease, depth, guardVars, blockVars, fs, torn>>

----------------------------------------------------------------------------
(* registerActiveAcpTransport, spawn, recordActiveAcpChildPid: the body of create. *)

BeginCreate(p) ==
    /\ At(p, "claimed") \/ At(p, "shared")
    /\ Enter(p, "mkdir", "create", CHOOSE k \in Slot \ InUse(p) : \A j \in Slot \ InUse(p) : k <= j)
    /\ count' = [count EXCEPT ![p] = @ + 1]
    /\ UNCHANGED <<up, leaseVars, acp, probing, listed, fs, torn>>

WithDir == [fs EXCEPT !.there = TRUE, !.fresh = IF fs.there THEN @ ELSE TRUE]

MakeDir(p) ==
    /\ At(p, "mkdir")
    /\ fs' = WithDir
    /\ Goto(p, "marker")
    /\ UNCHANGED <<up, leaseVars, guardVars, slot, retried, torn>>

\* beginRegistering
Marker(p) ==
    /\ At(p, "marker")
    /\ fs' = [WithDir EXCEPT !.marks = @ \cup {p}, !.fresh = TRUE]
    /\ Goto(p, "pidsDir")
    /\ UNCHANGED <<up, leaseVars, guardVars, slot, retried, torn>>

\* addLockPid up to the pids directory; for the host before the spawn, for the child after it.
\* recordActiveAcpChildPid leaves at once when the lock directory is gone.
PidsDir(p) ==
    /\ \E next \in {"pidFile", "childFile"} :
         /\ At(p, IF next = "pidFile" THEN "pidsDir" ELSE "childDir")
         /\ IF next = "childFile" /\ ~fs.there /\ ~retried[p]
              THEN Goto(p, "release") /\ UNCHANGED fs
              ELSE /\ fs' = [WithDir EXCEPT !.pidsThere = TRUE,
                                            !.fresh = IF fs.pidsThere THEN WithDir.fresh ELSE TRUE,
                                            !.pidsFresh = IF fs.pidsThere THEN @ ELSE TRUE]
                   /\ Goto(p, next)
    /\ UNCHANGED <<up, leaseVars, guardVars, slot, retried, torn>>

\* addLockPid, the write: when the directory was removed meanwhile it starts again, once.  A
\* second failure ends the registration quietly.
PidFile(p) ==
    /\ \E host \in BOOLEAN :
         /\ At(p, IF host THEN "pidFile" ELSE "childFile")
         /\ IF fs.pidsThere
              THEN /\ fs' = [fs EXCEPT !.pids = @ \cup {IF host THEN HostPid(p) ELSE ChildPid(p, slot[p])},
                                       !.pidsFresh = TRUE]
                   /\ Goto(p, IF host THEN "count" ELSE "release")
                   /\ retried' = [retried EXCEPT ![p] = FALSE]
              ELSE /\ UNCHANGED fs
                   /\ IF retried[p]
                        THEN /\ Goto(p, IF host THEN "unmark" ELSE "release")
                             /\ retried' = [retried EXCEPT ![p] = FALSE]
                        ELSE /\ Goto(p, IF host THEN "pidsDir" ELSE "childDir")
                             /\ retried' = [retried EXCEPT ![p] = TRUE]
    /\ UNCHANGED <<up, leaseVars, guardVars, call, slot, torn>>

\* writeLockCount: fails without the directory.
WriteCount(p) ==
    /\ At(p, "count")
    /\ fs' = IF fs.there THEN [fs EXCEPT !.counted = TRUE, !.fresh = IF fs.counted THEN @ ELSE TRUE]
                         ELSE fs
    /\ Goto(p, "unmark")
    /\ UNCHANGED <<up, leaseVars, guardVars, slot, retried, torn>>

\* endRegistering
Unmark(p) ==
    /\ At(p, "unmark")
    /\ fs' = [fs EXCEPT !.marks = @ \ {p}]
    /\ Goto(p, "spawn")
    /\ UNCHANGED <<up, leaseVars, guardVars, slot, retried, torn>>

\* spawn may throw; the transport is then unregistered before the lease is released.
Spawn(p) ==
    /\ At(p, "spawn")
    /\ \/ /\ acp' = [acp EXCEPT ![p][slot[p]] = "running"]
          /\ Goto(p, "childDir")
          /\ UNCHANGED count
       \/ /\ count' = [count EXCEPT ![p] = @ - 1]
          /\ Goto(p, "unregister")
          /\ UNCHANGED acp
    /\ UNCHANGED <<up, leaseVars, probing, listed, slot, retried, fs, torn>>

EndCreate(p) ==
    /\ At(p, "release")
    /\ ReleaseRegisterLease(p)
    /\ Goto(p, IF depth[p] > 1 THEN "shared" ELSE "idle")
    /\ UNCHANGED <<up, waiting, guardVars, slot, retried, fs, torn>>

----------------------------------------------------------------------------
(* The end of a transport: `exit`, and later `close`, which unregisters it. *)

ChildExit(p, k) ==
    /\ p \in up
    /\ acp[p][k] = "running"
    /\ acp' = [acp EXCEPT ![p][k] = "exited"]
    /\ UNCHANGED <<up, leaseVars, count, probing, listed, blockVars, fs, torn>>

\* Mutant of ChildClose: the transport is closed but still counted.
ChildCloseUncounted(p, k) ==
    /\ At(p, "idle")
    /\ acp[p][k] = "exited"
    /\ acp' = [acp EXCEPT ![p][k] = "none"]
    /\ Enter(p, "unregister", "close", k)
    /\ UNCHANGED <<up, leaseVars, count, probing, listed, fs, torn>>

ChildClose(p, k) ==
    /\ At(p, "idle")
    /\ acp[p][k] = "exited"
    /\ acp' = [acp EXCEPT ![p][k] = "none"]
    /\ count' = [count EXCEPT ![p] = @ - 1]
    /\ Enter(p, "unregister", "close", k)
    /\ UNCHANGED <<up, leaseVars, probing, listed, fs, torn>>

\* Where a block goes when the look at the directory is over.
AfterLook(p) ==
    CASE call[p] = "close" -> "idle"
      [] call[p] = "create" -> "release"
      [] OTHER -> "verdict"

\* unregisterActiveAcpTransport up to reconcileRefcountLock
Unregister(p) ==
    /\ At(p, "unregister")
    /\ IF fs.there
         THEN LET gone == {ChildPid(p, slot[p])} \cup (IF count[p] = 0 THEN {HostPid(p)} ELSE {})
              IN  /\ fs' = [fs EXCEPT !.pids = @ \ gone,
                                      !.pidsFresh = (gone \cap fs.pids # {}) \/ @]
                  /\ Goto(p, "look")
         ELSE Goto(p, AfterLook(p)) /\ UNCHANGED fs
    /\ UNCHANGED <<up, leaseVars, guardVars, slot, retried, torn>>

----------------------------------------------------------------------------
(* reconcileRefcountLock, one file operation after the other. *)

Look(p) ==
    /\ At(p, "look")
    /\ Goto(p, CASE call[p] \in {"list", "probe"} /\ ~fs.there -> "verdict"
                 [] ~fs.pidsThere -> "noPids"
                 [] OTHER -> "scan")
    /\ UNCHANGED <<up, leaseVars, guardVars, slot, retried, fs, torn>>

\* A lock without pids: a registration under way, or young enough to be one.
NoPids(p) ==
    /\ At(p, "noPids")
    /\ fs' = [fs EXCEPT !.marks = LiveMarks]
    /\ Goto(p, IF LiveMarks # {} \/ FreshDir THEN AfterLook(p) ELSE "remove")
    /\ UNCHANGED <<up, leaseVars, guardVars, slot, retried, torn>>

\* writeLockCount(live), when there is a directory to write it to
Counted(dir) == [dir EXCEPT !.counted = dir.there, !.fresh = IF dir.counted THEN @ ELSE dir.there]

Scan(p) ==
    /\ At(p, "scan")
    /\ LET pruned == [fs EXCEPT !.pids = LivePids, !.pidsFresh = (LivePids # fs.pids) \/ @]
       IN  IF LivePids # {}
             THEN fs' = Counted(pruned) /\ Goto(p, AfterLook(p))
             ELSE fs' = pruned /\ Goto(p, "rescan")
    /\ UNCHANGED <<up, leaseVars, guardVars, slot, retried, torn>>

\* A registrar may have published a pid during the scan.  The list read here also decides whether
\* the grace period can apply.
Rescan(p) ==
    /\ At(p, "rescan")
    /\ IF LivePids # {}
         THEN fs' = Counted(fs) /\ Goto(p, AfterLook(p))
         ELSE fs' = fs /\ Goto(p, IF fs.pids = {} THEN "marks" ELSE "marksOld")
    /\ UNCHANGED <<up, leaseVars, guardVars, slot, retried, torn>>

Marks(p) ==
    /\ \E step \in {"marks", "marksOld"} :
         /\ At(p, step)
         /\ Goto(p, CASE LiveMarks # {} -> AfterLook(p)
                      [] step = "marks" -> "grace"
                      [] OTHER -> "remove")
    /\ fs' = [fs EXCEPT !.marks = LiveMarks]
    /\ UNCHANGED <<up, leaseVars, guardVars, slot, retried, torn>>

Grace(p) ==
    /\ At(p, "grace")
    /\ Goto(p, IF ~fs.counted /\ (FreshPids \/ FreshDir) THEN AfterLook(p) ELSE "remove")
    /\ UNCHANGED <<up, leaseVars, guardVars, slot, retried, fs, torn>>

\* removeAcpLockDir, as one step.  A live owner may have come since the decision was made.
Remove(p) ==
    /\ At(p, "remove")
    /\ fs' = NoDir
    /\ torn' = (torn \/ LivePids # {} \/ LiveMarks # {})
    /\ Goto(p, AfterLook(p))
    /\ UNCHANGED <<up, leaseVars, guardVars, slot, retried>>

----------------------------------------------------------------------------
(* isAgentAcpTransportActive and the probe. *)

\* listCursorModels looks before it decides to probe; it holds no lease.  A transport of the
\* process itself answers without a look.
ListModels(p) ==
    /\ At(p, "idle")
    /\ count[p] = 0
    /\ ~listed[p]
    /\ Enter(p, "look", "list", slot[p])
    /\ UNCHANGED <<up, leaseVars, guardVars, fs, torn>>

\* Mutant of TryProbe: relies on the look that listCursorModels took without the lease.
TryProbeUnchecked(p) ==
    /\ At(p, "idle")
    /\ listed[p]
    /\ listed' = [listed EXCEPT ![p] = FALSE]
    /\ IF lease # p /\ Claimable /\ count[p] = 0
         THEN lease' = p /\ probing' = [probing EXCEPT ![p] = TRUE]
         ELSE UNCHANGED <<lease, probing>>
    /\ UNCHANGED <<up, depth, waiting, count, acp, blockVars, fs, torn>>

\* runCursorModelProbe: takes the lease or fails, and looks again under it.
TryProbe(p) ==
    /\ At(p, "idle")
    /\ listed[p]
    /\ listed' = [listed EXCEPT ![p] = FALSE]
    /\ IF lease # p /\ Claimable /\ count[p] = 0
         THEN lease' = p /\ Enter(p, "look", "probe", slot[p])
         ELSE UNCHANGED <<lease, blockVars>>
    /\ UNCHANGED <<up, depth, waiting, count, acp, probing, fs, torn>>

\* Mutant of Verdict: the probe that is refused keeps the lease.
VerdictKeepsLease(p) ==
    /\ At(p, "verdict")
    /\ LET active == fs.there /\ (fs.counted \/ LiveMarks # {} \/ fs.fresh)
       IN  /\ listed' = [listed EXCEPT ![p] = call[p] = "list" /\ ~active]
           /\ probing' = [probing EXCEPT ![p] = @ \/ (call[p] = "probe" /\ ~active)]
    /\ fs' = [fs EXCEPT !.marks = IF fs.there /\ ~fs.counted THEN LiveMarks ELSE @]
    /\ Goto(p, "idle")
    /\ UNCHANGED <<up, leaseVars, count, acp, slot, retried, torn>>

Verdict(p) ==
    /\ At(p, "verdict")
    /\ LET active == fs.there /\ (fs.counted \/ LiveMarks # {} \/ fs.fresh)
       IN  /\ listed' = [listed EXCEPT ![p] = call[p] = "list" /\ ~active]
           /\ probing' = [probing EXCEPT ![p] = @ \/ (call[p] = "probe" /\ ~active)]
           /\ IF call[p] = "probe" /\ active THEN ReleaseProbeLease(p) ELSE UNCHANGED lease
    /\ fs' = [fs EXCEPT !.marks = IF fs.there /\ ~fs.counted THEN LiveMarks ELSE @]
    /\ Goto(p, "idle")
    /\ UNCHANGED <<up, depth, waiting, count, acp, slot, retried, torn>>

\* The probe child exits, by itself or killed after 30 seconds.
ProbeExit(p) ==
    /\ At(p, "idle")
    /\ probing[p]
    /\ probing' = [probing EXCEPT ![p] = FALSE]
    /\ ReleaseProbeLease(p)
    /\ UNCHANGED <<up, depth, waiting, count, acp, listed, blockVars, fs, torn>>

----------------------------------------------------------------------------
(* The environment. *)

\* A process dies at any step, with its memory; its children die with it or later, its files stay.
Crash(p) ==
    /\ p \in up
    /\ up' = up \ {p}
    /\ Enter(p, "idle", "none", slot[p])
    /\ depth' = [depth EXCEPT ![p] = 0]
    /\ waiting' = [waiting EXCEPT ![p] = 0]
    /\ count' = [count EXCEPT ![p] = 0]
    /\ probing' = [probing EXCEPT ![p] = FALSE]
    /\ listed' = [listed EXCEPT ![p] = FALSE]
    /\ UNCHANGED <<lease, acp, fs, torn>>

OrphanExit(p, k) ==
    /\ p \notin up
    /\ acp[p][k] = "running"
    /\ acp' = [acp EXCEPT ![p][k] = "exited"]
    /\ UNCHANGED <<up, leaseVars, count, probing, listed, blockVars, fs, torn>>

\* Five seconds without a change; a process may have been suspended in the middle of a block.
Age ==
    /\ fs.fresh \/ fs.pidsFresh
    /\ \E old \in BOOLEAN :
         fs' = [fs EXCEPT !.fresh = IF old THEN FALSE ELSE @, !.pidsFresh = IF old THEN @ ELSE FALSE]
    /\ UNCHANGED <<up, leaseVars, guardVars, blockVars, torn>>

\* The steps of a block.
Block(p) ==
    \/ BeginCreate(p) \/ MakeDir(p) \/ Marker(p) \/ PidsDir(p) \/ PidFile(p)
    \/ WriteCount(p) \/ Unmark(p) \/ Spawn(p) \/ EndCreate(p) \/ Unregister(p)
    \/ Look(p) \/ NoPids(p) \/ Scan(p) \/ Rescan(p) \/ Marks(p) \/ Grace(p)
    \/ Remove(p) \/ Verdict(p)

Next ==
    \/ \E p \in Proc :
         \/ RequestCreate(p) \/ ClaimForCreate(p) \/ GiveUp(p)
         \/ ListModels(p) \/ TryProbe(p) \/ ProbeExit(p) \/ Crash(p)
         \/ Block(p)
         \/ \E k \in Slot : ChildExit(p, k) \/ ChildClose(p, k) \/ OrphanExit(p, k)
    \/ Age

Spec == Init /\ [][Next]_vars

\* A block runs on; a probe ends, for a 30 second timer kills its child, and its exit event waits
\* in a queue that other events cannot overtake for ever; time passes.
LiveSpec ==
    /\ Spec
    /\ \A p \in Proc : WF_vars(Block(p)) /\ SF_vars(ProbeExit(p))
    /\ SF_vars(Age)

----------------------------------------------------------------------------
(* Properties. *)

InLease(p) ==
    \/ depth[p] > 0
    \/ probing[p]
    \/ pc[p] \in LookSteps /\ call[p] = "probe"

\* The lease is exclusive and covers what it is for: a live process that registers and spawns an
\* agent, looks before a probe, or runs a probe has it, from the claim to the last release of the
\* creates that share it.  (Two release functions with conditions on depth and holder, a retry
\* loop that looks at neither, stale takeover: agentCliSpawnLease.ts:82-149.)
LeaseCoversSpawn == \A p \in up : InLease(p) => lease = p

\* From spawn to close of a transport no probe child runs anywhere, as long as no cleaner removed
\* a directory with a live owner in it: the order in which a registration publishes itself and
\* the order in which a look reads it leave no gap (agentCliGuard.ts:28-39).  Without the proviso
\* it fails: a cleaner that found the directory stale removes it after a registrar published in
\* it, lines 302-310.
AcpRunning(p) == p \in up /\ \E k \in Slot : acp[p][k] # "none"
ProbeExcludesAcp ==
    ~torn => ~(\E p, q \in Proc : AcpRunning(p) /\ q \in up /\ probing[q])

\* A live process gives the lease back: every way through create, through a look that finds an
\* active transport, and through a probe ends in a release (finally at AcpStdioTransport.ts:134,
\* releaseLeaseOnce at cursorModels.ts:227).
LeaseReturns == \A p \in Proc : (lease = p /\ p \in up) ~> (lease # p \/ p \notin up)

\* Crashed owners cannot pin the guard: once no live process has a transport or asks for one and
\* the children of the dead are gone, a process that lists models again and again is not told for
\* ever that a transport is active (agentCliGuard.ts:31-37 on dead-owner markers).
OwnersGone ==
    /\ \A p \in up : count[p] = 0 /\ depth[p] = 0
    /\ \A p \in Proc, k \in Slot : acp[p][k] # "running"
Looked(p) == pc[p] = "verdict" /\ call[p] = "list"
CrashDoesNotPin == \A p \in Proc : (<>[]OwnersGone /\ []<>Looked(p)) => []<>(listed[p])
============================================================================
