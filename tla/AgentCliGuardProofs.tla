----------------------- MODULE AgentCliGuardProofs ------------------------
(***************************************************************************)
(* Proofs about AgentCliGuard, for any set of processes and any bounds:    *)
(* type correctness, that the spawn lease is exclusive (LeaseCoversSpawn), *)
(* and that no probe runs beside a transport (ProbeExcludesAcp).           *)
(***************************************************************************)
EXTENDS AgentCliGuard, FiniteSetTheorems, WellFoundedInduction, TLAPS

\* The steps of create before the agent is spawned, of these the ones before the process is
\* published, the ones after the spawn, and the look at the directory without its verdict.
Publishing == {"mkdir", "marker", "pidsDir", "pidFile"}
PreSpawn == Publishing \cup {"count", "unmark", "spawn"}
PostSpawn == {"childDir", "childFile"}
Looking == LookSteps \ {"verdict"}

\* Which call a block can belong to.
CallFitsPc(p) ==
    /\ pc[p] \in {"idle", "claimed"} <=> call[p] = "none"
    /\ pc[p] \in PreSpawn \cup PostSpawn \cup {"shared", "release"} => call[p] = "create"
    /\ pc[p] = "unregister" => call[p] \in {"close", "create"}
    /\ pc[p] = "verdict" => call[p] \in {"list", "probe"}

\* The depth of the register lease is positive exactly while a claimed create is under way, and
\* such a process does not probe.
DepthFitsPc(p) ==
    /\ depth[p] > 0 <=> pc[p] = "claimed" \/ call[p] = "create"
    /\ probing[p] => depth[p] = 0 /\ call[p] # "probe"

\* A transport is counted from its registration on, and has a slot from its spawn on.
CountFitsSlots(p) ==
    /\ count[p] = Cardinality(InUse(p)) + (IF pc[p] \in PreSpawn THEN 1 ELSE 0)
    /\ pc[p] \in PreSpawn => acp[p][slot[p]] = "none"

\* What a process has and asks for stays within its limit; between the spawn and the release the
\* new transport has its slot and its lease depth.
WithinLimit(p) ==
    Cardinality(InUse(p)) + waiting[p] + depth[p]
        <= Limit[p] + (IF pc[p] \in PostSpawn \cup {"release"} THEN 1 ELSE 0)

Local(p) == CallFitsPc(p) /\ DepthFitsPc(p) /\ CountFitsSlots(p) /\ WithinLimit(p)
LocalInv == \A p \in up : Local(p)

\* The directory: what is in it needs it.
DirShape ==
    /\ fs.pids # {} => fs.pidsThere
    /\ fs.pidsThere \/ fs.counted \/ fs.marks # {} => fs.there

\* Every live process with a transport is in the directory, or is about to be; its marker covers
\* the steps in which the pid is not there yet.
Published ==
    \A p \in up :
        /\ count[p] > 0 => HostPid(p) \in fs.pids \/ pc[p] \in Publishing
        /\ pc[p] \in {"pidsDir", "pidFile"} => p \in fs.marks
        /\ pc[p] = "pidFile" => fs.pidsThere

\* The look before a probe finds a live transport, and the probe does not run beside one.
Busy == \E p \in up : count[p] > 0
ProbeSees ==
    Busy => \A q \in up :
        /\ ~probing[q]
        /\ call[q] = "probe" => pc[q] \in {"look", "scan", "verdict"}
        /\ call[q] = "probe" /\ pc[q] = "verdict" => fs.counted

IInv == TypeOK /\ LocalInv /\ LeaseCoversSpawn /\ DirShape /\ (~torn => Published /\ ProbeSees)

---------------------------------------------------------------------------
(* Slots.                                                                  *)

\* A nonempty set of naturals has a smallest element.
LEMMA Smallest ==
  ASSUME NEW T \in SUBSET Nat, T # {}
  PROVE  \E x \in T : \A y \in T : x <= y
<1> DEFINE R == {ss \in Nat \X Nat : ss[1] < ss[2]}
<1>1. IsWellFoundedOn(R, Nat)
  BY NatLessThanWellFounded DEF OpToRel
<1> HIDE DEF R
<1>2. PICK x \in T : \A y \in T : <<y, x>> \notin R
  BY <1>1, WFMin
<1>3. \A y \in T : ~(y < x)
  BY <1>2 DEF R
<1> QED
  BY <1>3

\* The slots in use are finitely many.
LEMMA SlotsFinite ==
  ASSUME NEW p \in Proc
  PROVE  /\ IsFiniteSet(InUse(p))
         /\ Cardinality(InUse(p)) \in 0..MaxTransports
         /\ Cardinality(InUse(p)) < MaxTransports => Slot \ InUse(p) # {}
         /\ \A k \in InUse(p) : Cardinality(InUse(p)) > 0
<1>1. IsFiniteSet(Slot) /\ Cardinality(Slot) = MaxTransports
  BY TransportsAssumption, FS_Interval DEF Slot
<1>2. InUse(p) \subseteq Slot
  BY DEF InUse
<1>3. IsFiniteSet(InUse(p)) /\ Cardinality(InUse(p)) <= Cardinality(Slot)
  BY <1>1, <1>2, FS_Subset
<1>4. Cardinality(InUse(p)) \in Nat
  BY <1>3, FS_CardinalityType
<1>5. Cardinality(InUse(p)) = 0 <=> InUse(p) = {}
  BY <1>3, FS_EmptySet
<1>6. Slot \ InUse(p) = {} => InUse(p) = Slot
  BY <1>2
<1> QED
  BY <1>1, <1>3, <1>4, <1>5, <1>6, TransportsAssumption

\* registerActiveAcpTransport finds a slot when one is free.
LEMMA FreeSlot ==
  ASSUME NEW p \in Proc, Cardinality(InUse(p)) < MaxTransports
  PROVE  (CHOOSE k \in Slot \ InUse(p) : \A j \in Slot \ InUse(p) : k <= j) \in Slot \ InUse(p)
<1>1. Slot \ InUse(p) # {}
  BY SlotsFinite
<1>2. Slot \ InUse(p) \in SUBSET Nat
  BY TransportsAssumption DEF Slot
<1> QED
  BY <1>1, <1>2, Smallest

\* A transport that is spawned takes a slot, one that is closed leaves it, one that exits keeps it.
LEMMA SlotCount ==
  ASSUME TypeOK, NEW p \in Proc, NEW k \in Slot, NEW state \in {"running", "exited", "none"},
         acp' = [acp EXCEPT ![p][k] = state]
  PROVE  /\ acp' \in [Proc -> [Slot -> {"none", "running", "exited"}]]
         /\ \A q \in Proc : q # p => acp'[q] = acp[q]
         /\ (acp[p][k] = "none" /\ state # "none")
              => Cardinality(InUse(p))' = Cardinality(InUse(p)) + 1
         /\ (acp[p][k] # "none" /\ state = "none")
              => Cardinality(InUse(p))' = Cardinality(InUse(p)) - 1
         /\ (acp[p][k] # "none" /\ state # "none")
              => Cardinality(InUse(p))' = Cardinality(InUse(p))
<1>1. acp' \in [Proc -> [Slot -> {"none", "running", "exited"}]]
  BY DEF TypeOK
<1>2. \A q \in Proc : q # p => acp'[q] = acp[q]
  BY DEF TypeOK
<1>3. InUse(p)' = IF state = "none" THEN InUse(p) \ {k} ELSE InUse(p) \cup {k}
  BY DEF TypeOK, InUse
<1>4. k \in InUse(p) <=> acp[p][k] # "none"
  BY DEF InUse
<1>5. /\ k \notin InUse(p) => Cardinality(InUse(p) \cup {k}) = Cardinality(InUse(p)) + 1
      /\ k \in InUse(p) => Cardinality(InUse(p) \ {k}) = Cardinality(InUse(p)) - 1
  BY SlotsFinite, FS_AddElement, FS_RemoveElement
<1>6. k \in InUse(p) => InUse(p) \cup {k} = InUse(p)
  OBVIOUS
<1> QED
  BY <1>1, <1>2, <1>3, <1>4, <1>5, <1>6

---------------------------------------------------------------------------
(* What the steps of a block have in common.                               *)

\* What Local says of a process depends on these.
Mine(q) == <<pc[q], call[q], depth[q], probing[q], count[q], waiting[q], slot[q], acp[q]>>

\* The steps of p that only work on the directory.
FileStep(p, from, to) ==
    /\ At(p, from)
    /\ Goto(p, to)
    /\ UNCHANGED <<up, leaseVars, guardVars, slot>>

\* Where a file operation of a create goes, and where one of a look goes.
CreateMoves(from, to) ==
    \/ from \in Publishing /\ to \in Publishing \cup {"count", "unmark"}
    \/ from \in {"count", "unmark"} /\ to \in {"unmark", "spawn"}
    \/ from \in PostSpawn /\ to \in PostSpawn \cup {"release"}
LookMoves(p, from, to) == from \in Looking \cup {"unregister"} /\ to \in Looking \cup {AfterLook(p)}

\* A process that keeps its state keeps what Local says of it.
LEMMA LocalFrame ==
  ASSUME NEW q, Local(q), UNCHANGED Mine(q)
  PROVE  Local(q)'
BY DEF Mine, Local, CallFitsPc, DepthFitsPc, CountFitsSlots, WithinLimit, InUse

\* AfterLook without CASE.
LEMMA AfterLookIs ==
  ASSUME NEW p
  PROVE  AfterLook(p) = IF call[p] = "close" THEN "idle"
                        ELSE IF call[p] = "create" THEN "release" ELSE "verdict"
BY Zenon DEF AfterLook

\* What is counted are naturals.
LEMMA Counters ==
  ASSUME TypeOK, NEW p \in Proc
  PROVE  /\ MaxTransports \in Nat
         /\ Cardinality(InUse(p)) \in Nat /\ Cardinality(InUse(p)) <= MaxTransports
         /\ waiting[p] \in Nat /\ depth[p] \in Nat /\ count[p] \in Nat
         /\ Limit[p] \in Nat /\ Limit[p] <= MaxTransports
<1>1. MaxTransports \in Nat /\ Limit[p] \in 0..MaxTransports
  BY TransportsAssumption
<1>2. Cardinality(InUse(p)) \in 0..MaxTransports
  BY SlotsFinite
<1>3. waiting[p] \in 0..MaxTransports /\ depth[p] \in 0..MaxTransports /\ count[p] \in 0..MaxTransports
  BY DEF TypeOK
<1> QED
  BY <1>1, <1>2, <1>3

\* A file operation keeps the local invariant.
LEMMA FileStepLocal ==
  ASSUME TypeOK, LocalInv, NEW p \in Proc, NEW from, NEW to,
         FileStep(p, from, to), CreateMoves(from, to) \/ LookMoves(p, from, to)
  PROVE  LocalInv'
<1> USE DEF FileStep, Goto, At, leaseVars, guardVars
<1>1. to \in Step
  BY AfterLookIs DEF Step, CreateMoves, LookMoves, Publishing, PostSpawn, Looking, CreateSteps, LookSteps, TypeOK
<1>2. Local(p)
  BY DEF LocalInv
<1>3. InUse(p)' = InUse(p)
  BY DEF InUse
<1>4. CallFitsPc(p)'
  BY <1>2, AfterLookIs DEF TypeOK, Local, CallFitsPc, CreateMoves, LookMoves, Publishing, PreSpawn, PostSpawn,
     Looking, LookSteps
<1>5. DepthFitsPc(p)'
  BY <1>2, AfterLookIs DEF TypeOK, Local, CallFitsPc, DepthFitsPc, CreateMoves, LookMoves, Publishing, PreSpawn, PostSpawn,
     Looking, LookSteps
<1>6. CountFitsSlots(p)'
  BY <1>2, <1>3, AfterLookIs DEF TypeOK, Local, CountFitsSlots, CreateMoves, LookMoves, Publishing, PreSpawn, PostSpawn,
     Looking, LookSteps
<1>7. WithinLimit(p)'
  <2>1. pc[p] \in PostSpawn \cup {"release"} => pc'[p] \in PostSpawn \cup {"release"}
    BY AfterLookIs DEF TypeOK, CreateMoves, LookMoves, Publishing, PostSpawn, Looking, LookSteps
  <2>2. Cardinality(InUse(p)) \in Nat /\ waiting[p] \in Nat /\ depth[p] \in Nat /\ Limit[p] \in Nat
    BY Counters
  <2> QED
    BY <1>2, <1>3, <2>1, <2>2 DEF Local, WithinLimit
<1>8. \A q \in up' : q # p => UNCHANGED Mine(q)
  BY DEF Mine, TypeOK
<1> QED
  BY <1>4, <1>5, <1>6, <1>7, <1>8, LocalFrame DEF LocalInv, Local

\* What a file operation may do to the rest.
FileStepOf(p) ==
    /\ \E from, to \in Step : FileStep(p, from, to) /\ (CreateMoves(from, to) \/ LookMoves(p, from, to))
    /\ fs' \in Dir
    /\ retried' \in [Proc -> BOOLEAN]
    /\ torn' \in BOOLEAN

\* The file operations of a create.
LEMMA CreateFileSteps ==
  ASSUME TypeOK, NEW p \in Proc,
         MakeDir(p) \/ Marker(p) \/ PidsDir(p) \/ PidFile(p) \/ WriteCount(p) \/ Unmark(p)
  PROVE  FileStepOf(p)
<1> USE DEF FileStep, CreateMoves, Publishing, PostSpawn, Step, CreateSteps
<1>1. fs \in Dir /\ WithDir \in Dir
  BY DEF TypeOK, Dir, WithDir
<1>2. HostPid(p) \in Pid /\ ChildPid(p, slot[p]) \in Pid
  BY TransportsAssumption DEF HostPid, ChildPid, Pid, TypeOK, Slot
<1>3. CASE MakeDir(p)
  <2>1. FileStep(p, "mkdir", "marker")
    BY <1>3 DEF MakeDir
  <2> QED
    BY <2>1, <1>1, <1>3 DEF MakeDir, FileStepOf, TypeOK
<1>4. CASE Marker(p)
  <2>1. FileStep(p, "marker", "pidsDir")
    BY <1>4 DEF Marker
  <2>2. fs' \in Dir
    BY <1>1, <1>4 DEF Marker, Dir
  <2> QED
    BY <2>1, <2>2, <1>4 DEF Marker, FileStepOf, TypeOK
<1>5. CASE PidsDir(p)
  <2>1. PICK next \in {"pidFile", "childFile"} :
          /\ At(p, IF next = "pidFile" THEN "pidsDir" ELSE "childDir")
          /\ \/ next = "childFile" /\ Goto(p, "release") /\ UNCHANGED fs
             \/ /\ Goto(p, next)
                /\ fs' = [WithDir EXCEPT !.pidsThere = TRUE,
                                         !.fresh = IF fs.pidsThere THEN WithDir.fresh ELSE TRUE,
                                         !.pidsFresh = IF fs.pidsThere THEN @ ELSE TRUE]
    BY <1>5 DEF PidsDir
  <2>2. fs' \in Dir
    BY <1>1, <2>1 DEF Dir
  <2>3. \E from, to \in Step : FileStep(p, from, to) /\ CreateMoves(from, to)
    BY <1>5, <2>1 DEF PidsDir
  <2> QED
    BY <2>2, <2>3, <1>5 DEF PidsDir, FileStepOf, TypeOK
<1>6. CASE PidFile(p)
  <2>1. PICK host \in BOOLEAN :
          /\ At(p, IF host THEN "pidFile" ELSE "childFile")
          /\ IF fs.pidsThere
              THEN /\ fs' = [fs EXCEPT !.pids = @ \cup {IF host THEN HostPid(p) ELSE ChildPid(p, slot[p])},
                                       !.pidsFresh = TRUE]
                   /\ Goto(p, IF host THEN "count" ELSE "release")
                   /\ retried' = [retried EXCEPT ![p] = FALSE]
              ELSE /\ UNCHANGED fs
                   /\ IF retried[p]
                        THEN /\ Goto(p, IF host THEN "unmark" ELSE "release")
                             /\ retried' = [retried EXCEPT ![p] = FALSE]
                        ELSE /\ Goto(p, IF host THEN "pidsDir" ELSE "childDir")
                             /\ retried' = [retried EXCEPT ![p] = TRUE]
    BY <1>6 DEF PidFile
  <2>2. fs' \in Dir
    <3>1. \A pid \in Pid : [fs EXCEPT !.pids = @ \cup {pid}, !.pidsFresh = TRUE] \in Dir
      BY <1>1 DEF Dir
    <3> QED
      BY <1>1, <1>2, <2>1, <3>1
  <2>3. \E from, to \in Step : FileStep(p, from, to) /\ CreateMoves(from, to)
    BY <1>6, <2>1 DEF PidFile
  <2>4. retried' \in [Proc -> BOOLEAN]
    BY <2>1 DEF TypeOK
  <2> QED
    BY <2>2, <2>3, <2>4, <1>6 DEF PidFile, FileStepOf, TypeOK
<1>7. CASE WriteCount(p)
  <2>1. FileStep(p, "count", "unmark")
    BY <1>7 DEF WriteCount
  <2>2. [fs EXCEPT !.counted = TRUE, !.fresh = IF fs.counted THEN @ ELSE TRUE] \in Dir
    BY <1>1 DEF Dir
  <2> QED
    BY <2>1, <2>2, <1>1, <1>7 DEF WriteCount, FileStepOf, TypeOK
<1>8. CASE Unmark(p)
  <2>1. FileStep(p, "unmark", "spawn")
    BY <1>8 DEF Unmark
  <2>2. fs' \in Dir
    BY <1>1, <1>8 DEF Unmark, Dir
  <2> QED
    BY <2>1, <2>2, <1>8 DEF Unmark, FileStepOf, TypeOK
<1> QED
  BY <1>3, <1>4, <1>5, <1>6, <1>7, <1>8

\* Writing the count keeps the directory well typed.
LEMMA CountedType ==
  ASSUME NEW dir \in Dir
  PROVE  Counted(dir) \in Dir
BY DEF Dir, Counted

\* The file operations of a look.
LEMMA LookFileSteps ==
  ASSUME TypeOK, NEW p \in Proc,
         Unregister(p) \/ Look(p) \/ NoPids(p) \/ Scan(p) \/ Rescan(p) \/ Marks(p) \/ Grace(p) \/ Remove(p)
  PROVE  FileStepOf(p)
<1> USE DEF FileStep, LookMoves, Looking, Step, LookSteps
<1>1. fs \in Dir /\ NoDir \in Dir
  BY DEF TypeOK, Dir, NoDir
<1>2. AfterLook(p) \in Step
  BY AfterLookIs DEF CreateSteps
<1>3. CASE Unregister(p)
  <2>1. \E to \in Step : FileStep(p, "unregister", to) /\ to \in Looking \cup {AfterLook(p)}
    BY <1>2, <1>3 DEF Unregister
  <2>2. fs' \in Dir
    BY <1>1, <1>3 DEF Unregister, Dir
  <2> QED
    BY <2>1, <2>2, <1>3 DEF Unregister, FileStepOf, TypeOK
<1>4. CASE Look(p)
  <2>1. /\ (CASE call[p] \in {"list", "probe"} /\ ~fs.there -> "verdict"
              [] ~fs.pidsThere -> "noPids"
              [] OTHER -> "scan") \in {"verdict", "noPids", "scan"}
        /\ call[p] \in {"list", "probe"} => AfterLook(p) = "verdict"
    BY AfterLookIs
  <2> QED
    BY <1>4, <2>1, <1>1 DEF Look, FileStepOf, TypeOK
<1>5. CASE NoPids(p)
  <2>1. \E to \in Step : FileStep(p, "noPids", to) /\ to \in Looking \cup {AfterLook(p)}
    BY <1>2, <1>5 DEF NoPids
  <2>2. fs' \in Dir
    BY <1>1, <1>5 DEF NoPids, LiveMarks, Dir
  <2> QED
    BY <2>1, <2>2, <1>5 DEF NoPids, FileStepOf, TypeOK
<1>6. CASE Scan(p)
  <2>1. \E to \in Step : FileStep(p, "scan", to) /\ to \in Looking \cup {AfterLook(p)}
    BY <1>2, <1>6 DEF Scan
  <2>2. [fs EXCEPT !.pids = LivePids, !.pidsFresh = (LivePids # fs.pids) \/ @] \in Dir
    BY <1>1 DEF LivePids, Dir
  <2>3. fs' \in Dir
    BY <2>2, <1>6, CountedType DEF Scan
  <2> QED
    BY <2>1, <2>3, <1>6 DEF Scan, FileStepOf, TypeOK
<1>7. CASE Rescan(p)
  <2>1. PICK to \in {AfterLook(p), "marks", "marksOld"} : FileStep(p, "rescan", to)
    BY <1>7 DEF Rescan
  <2>2. fs' \in Dir
    BY <1>1, <1>7, CountedType DEF Rescan
  <2>3. to \in Step /\ "rescan" \in Step /\ LookMoves(p, "rescan", to)
    BY <1>2
  <2> QED
    BY <2>1, <2>3, <2>2, <1>2, <1>7 DEF Rescan, FileStepOf, TypeOK
<1>8. CASE Marks(p)
  <2>1. \E from, to \in Step : FileStep(p, from, to) /\ LookMoves(p, from, to)
    <3>1. PICK step \in {"marks", "marksOld"} :
            /\ At(p, step)
            /\ Goto(p, CASE LiveMarks # {} -> AfterLook(p)
                         [] step = "marks" -> "grace"
                         [] OTHER -> "remove")
      BY <1>8 DEF Marks
    <3>2. (CASE LiveMarks # {} -> AfterLook(p)
             [] step = "marks" -> "grace"
             [] OTHER -> "remove") \in {AfterLook(p), "grace", "remove"}
      BY Zenon
    <3> QED
      BY <1>2, <1>8, <3>1, <3>2 DEF Marks
  <2>2. fs' \in Dir
    BY <1>1, <1>8 DEF Marks, LiveMarks, Dir
  <2> QED
    BY <2>1, <2>2, <1>8 DEF Marks, FileStepOf, TypeOK
<1>9. CASE Grace(p)
  <2>1. PICK to \in {AfterLook(p), "remove"} : FileStep(p, "grace", to)
    BY <1>9 DEF Grace
  <2>3. to \in Step /\ "grace" \in Step /\ LookMoves(p, "grace", to)
    BY <1>2
  <2> QED
    BY <2>1, <2>3, <1>1, <1>2, <1>9 DEF Grace, FileStepOf, TypeOK
<1>10. CASE Remove(p)
  <2>1. FileStep(p, "remove", AfterLook(p))
    BY <1>10 DEF Remove
  <2> QED
    BY <2>1, <1>1, <1>2, <1>10 DEF Remove, FileStepOf, TypeOK
<1> QED
  BY <1>3, <1>4, <1>5, <1>6, <1>7, <1>8, <1>9, <1>10

---------------------------------------------------------------------------
(* Type correctness, the local invariant and the lease.                    *)

SafeInv == TypeOK /\ LocalInv /\ LeaseCoversSpawn

\* What is to be shown of a step of p: it is the only one that changes, what it has stays right,
\* and it takes the lease only when it may and has it when it needs it.
LEMMA SafeFrame ==
  ASSUME SafeInv, NEW p \in Proc, TypeOK', up' \subseteq up,
         \A q \in up' : q # p => UNCHANGED Mine(q),
         p \in up' => Local(p)',
         lease' = lease \/ lease = p \/ Claimable,
         p \in up' /\ InLease(p)' => lease' = p
  PROVE  SafeInv'
<1>1. LocalInv'
  BY LocalFrame DEF SafeInv, LocalInv
<1>2. ASSUME NEW q \in up', InLease(q)', q # p
      PROVE  lease' = q
  <2>1. InLease(q)
    BY <1>2 DEF InLease, Mine
  <2>2. lease = q /\ q \in up
    BY <2>1 DEF SafeInv, LeaseCoversSpawn
  <2>3. ~Claimable
    BY <2>2, ProcAssumption DEF Claimable, SafeInv, TypeOK
  <2> QED
    BY <1>2, <2>2, <2>3
<1> QED
  BY <1>1, <1>2 DEF SafeInv, LeaseCoversSpawn

\* A file operation.
LEMMA FileStepSafe ==
  ASSUME SafeInv, NEW p \in Proc, FileStepOf(p)
  PROVE  SafeInv'
<1>1. PICK from \in Step, to \in Step :
        FileStep(p, from, to) /\ (CreateMoves(from, to) \/ LookMoves(p, from, to))
  BY DEF FileStepOf
<1>2. LocalInv'
  BY <1>1, FileStepLocal DEF SafeInv
<1>3. TypeOK'
  BY <1>1 DEF SafeInv, TypeOK, FileStepOf, FileStep, Goto, leaseVars, guardVars
<1>4. \A q \in up' : q # p => UNCHANGED Mine(q)
  BY <1>1 DEF SafeInv, TypeOK, Mine, FileStep, Goto, leaseVars, guardVars
<1>5. p \in up /\ Local(p) /\ up' = up /\ lease' = lease
  BY <1>1 DEF SafeInv, LocalInv, FileStep, At, leaseVars
<1>6. InLease(p)' => InLease(p)
  <2>1. depth'[p] = depth[p] /\ probing'[p] = probing[p]
    BY <1>1 DEF FileStep, leaseVars, guardVars
  <2>2. pc'[p] = to /\ pc[p] = from /\ (to # "idle" => call'[p] = call[p])
    BY <1>1 DEF FileStep, Goto, At, SafeInv, TypeOK
  <2>3. call'[p] = "probe" /\ to \in LookSteps => call[p] = "probe"
    BY <2>2 DEF LookSteps
  <2>4. call[p] = "probe" => from \in LookSteps
    BY <1>1, <1>5, <2>2 DEF Local, CallFitsPc, CreateMoves, LookMoves, PreSpawn, PostSpawn, Looking
  <2> QED
    BY <2>1, <2>2, <2>3, <2>4 DEF InLease
<1> QED
  BY <1>2, <1>3, <1>4, <1>5, <1>6, SafeFrame DEF LocalInv, SafeInv, LeaseCoversSpawn

\* A create that is asked for stays within the limit.
LEMMA SafeRequestCreate ==
  ASSUME SafeInv, NEW p \in Proc, RequestCreate(p)
  PROVE  SafeInv'
<1> USE DEF RequestCreate, leaseVars, guardVars, blockVars, At
<1>1. p \in up /\ Local(p) /\ InUse(p)' = InUse(p)
  BY DEF SafeInv, LocalInv, InUse
<1>2. /\ waiting' = waiting \/ waiting' = [waiting EXCEPT ![p] = waiting[p] + 1]
      /\ depth' = depth \/ depth' = [depth EXCEPT ![p] = depth[p] + 1]
      /\ Cardinality(InUse(p)) + waiting'[p] + depth'[p] <= Limit[p]
      /\ waiting'[p] \in 0..MaxTransports /\ depth'[p] \in 0..MaxTransports
  BY Counters, <1>1 DEF SafeInv, TypeOK
<1>3. TypeOK'
  BY <1>2 DEF SafeInv, TypeOK
<1>4. CallFitsPc(p)' /\ CountFitsSlots(p)'
  BY <1>1 DEF Local, CallFitsPc, CountFitsSlots
<1>5. WithinLimit(p)'
  BY <1>1, <1>2, Counters DEF SafeInv, WithinLimit, PostSpawn
<1>6. (depth'[p] > 0 <=> depth[p] > 0) /\ (probing[p] => depth'[p] = 0)
  BY <1>1, Counters DEF SafeInv, TypeOK, Local, DepthFitsPc
<1>7. DepthFitsPc(p)'
  BY <1>1, <1>6 DEF Local, DepthFitsPc
<1>8. \A q \in up' : q # p => UNCHANGED Mine(q)
  BY DEF SafeInv, TypeOK, Mine
<1>9. InLease(p)' => InLease(p)
  BY <1>6 DEF InLease
<1> QED
  BY <1>1, <1>3, <1>4, <1>5, <1>7, <1>8, <1>9, SafeFrame DEF Local, SafeInv, LeaseCoversSpawn

\* A claim that succeeds takes the lease.
LEMMA SafeClaimForCreate ==
  ASSUME SafeInv, NEW p \in Proc, ClaimForCreate(p)
  PROVE  SafeInv'
<1> USE DEF ClaimForCreate, Goto, guardVars, At
<1>1. p \in up /\ Local(p) /\ InUse(p)' = InUse(p)
  BY DEF SafeInv, LocalInv, InUse
<1>2. depth[p] = 0
  BY <1>1, Counters DEF Local, DepthFitsPc, CallFitsPc, SafeInv
<1>3. waiting[p] - 1 \in 0..MaxTransports /\ 1 \in 0..MaxTransports
  BY Counters, TransportsAssumption DEF SafeInv, TypeOK
<1>4. TypeOK'
  BY <1>3 DEF SafeInv, TypeOK, Step, CreateSteps
<1>5. pc'[p] = "claimed" /\ call'[p] = call[p] /\ depth'[p] = 1 /\ waiting'[p] = waiting[p] - 1
  BY DEF SafeInv, TypeOK
<1>6. CallFitsPc(p)' /\ CountFitsSlots(p)'
  BY <1>1, <1>5 DEF Local, CallFitsPc, CountFitsSlots, PreSpawn, PostSpawn, Publishing
<1>7. WithinLimit(p)'
  BY <1>1, <1>2, <1>5, Counters DEF SafeInv, Local, WithinLimit, PostSpawn
<1>8. ~probing[p]
  BY <1>1, ProcAssumption DEF SafeInv, LeaseCoversSpawn, InLease, Claimable, TypeOK
<1>9. DepthFitsPc(p)'
  BY <1>1, <1>5, <1>8 DEF Local, DepthFitsPc
<1>10. \A q \in up' : q # p => UNCHANGED Mine(q)
  BY DEF SafeInv, TypeOK, Mine
<1> QED
  BY <1>1, <1>4, <1>6, <1>7, <1>9, <1>10, SafeFrame DEF Local

\* An attempt that is given up.
LEMMA SafeGiveUp ==
  ASSUME SafeInv, NEW p \in Proc, GiveUp(p)
  PROVE  SafeInv'
<1> USE DEF GiveUp, guardVars, blockVars, At
<1>1. p \in up /\ Local(p) /\ InUse(p)' = InUse(p)
  BY DEF SafeInv, LocalInv, InUse
<1>2. waiting[p] - 1 \in 0..MaxTransports /\ waiting'[p] = waiting[p] - 1
  BY Counters DEF SafeInv, TypeOK
<1>3. TypeOK'
  BY <1>2 DEF SafeInv, TypeOK
<1>4. CallFitsPc(p)' /\ DepthFitsPc(p)' /\ CountFitsSlots(p)'
  BY <1>1 DEF Local, CallFitsPc, DepthFitsPc, CountFitsSlots
<1>5. WithinLimit(p)'
  BY <1>1, <1>2, Counters DEF SafeInv, Local, WithinLimit
<1>6. \A q \in up' : q # p => UNCHANGED Mine(q)
  BY DEF SafeInv, TypeOK, Mine
<1>7. InLease(p)' => InLease(p)
  BY DEF InLease
<1> QED
  BY <1>1, <1>3, <1>4, <1>5, <1>6, <1>7, SafeFrame DEF Local, SafeInv, LeaseCoversSpawn

\* A registration counts a transport and finds a slot for it.
LEMMA SafeBeginCreate ==
  ASSUME SafeInv, NEW p \in Proc, BeginCreate(p)
  PROVE  SafeInv'
<1> DEFINE k == CHOOSE k \in Slot \ InUse(p) : \A j \in Slot \ InUse(p) : k <= j
<1> USE DEF BeginCreate, Enter, leaseVars, At
<1>1. p \in up /\ Local(p) /\ InUse(p)' = InUse(p)
  BY DEF SafeInv, LocalInv, InUse
<1>2. depth[p] > 0 /\ ~probing[p] /\ pc[p] \in {"claimed", "shared"}
  BY <1>1 DEF Local, DepthFitsPc, CallFitsPc, SafeInv, TypeOK
<1>3. Cardinality(InUse(p)) < MaxTransports
  BY <1>1, <1>2, Counters DEF SafeInv, Local, WithinLimit, PostSpawn
<1>4. k \in Slot \ InUse(p)
  BY <1>3, FreeSlot
<1> HIDE DEF k
<1>5. count[p] = Cardinality(InUse(p)) /\ count[p] + 1 \in 0..MaxTransports
  BY <1>1, <1>2, <1>3, Counters DEF SafeInv, Local, CountFitsSlots, PreSpawn, Publishing
<1>6. /\ pc' = [pc EXCEPT ![p] = "mkdir"] /\ call' = [call EXCEPT ![p] = "create"]
      /\ slot' = [slot EXCEPT ![p] = k] /\ retried' = [retried EXCEPT ![p] = FALSE]
      /\ count' = [count EXCEPT ![p] = count[p] + 1]
  BY DEF k
<1>7. TypeOK'
  <2>1. "mkdir" \in Step /\ k \in Slot
    BY <1>4 DEF Step, CreateSteps
  <2>2. pc' \in [Proc -> Step] /\ slot' \in [Proc -> Slot]
    <3>1. pc \in [Proc -> Step] /\ slot \in [Proc -> Slot]
      BY DEF SafeInv, TypeOK
    <3> HIDE DEF BeginCreate
    <3> QED
      BY <1>6, <2>1, <3>1
  <2>3. count' \in [Proc -> 0..MaxTransports]
    BY <1>5, <1>6 DEF SafeInv, TypeOK
  <2>4. call' \in [Proc -> {"none", "close", "create", "list", "probe"}] /\ retried' \in [Proc -> BOOLEAN]
    BY <1>6 DEF SafeInv, TypeOK
  <2> QED
    BY <2>2, <2>3, <2>4 DEF SafeInv, TypeOK
<1>8. pc'[p] = "mkdir" /\ call'[p] = "create" /\ slot'[p] = k /\ count'[p] = count[p] + 1
  BY <1>6 DEF SafeInv, TypeOK
<1>9. CallFitsPc(p)' /\ DepthFitsPc(p)'
  BY <1>2, <1>8 DEF CallFitsPc, DepthFitsPc, PreSpawn, Publishing
<1>10. CountFitsSlots(p)'
  BY <1>1, <1>4, <1>5, <1>8 DEF CountFitsSlots, PreSpawn, Publishing, InUse
<1>11. WithinLimit(p)'
  BY <1>1, <1>2, <1>8, Counters DEF SafeInv, Local, WithinLimit, PostSpawn
<1>12. \A q \in up' : q # p => UNCHANGED Mine(q)
  BY <1>6 DEF SafeInv, TypeOK, Mine
<1>13. lease = p
  BY <1>1, <1>2 DEF SafeInv, LeaseCoversSpawn, InLease
<1> QED
  BY <1>1, <1>7, <1>9, <1>10, <1>11, <1>12, <1>13, SafeFrame DEF Local

\* A spawn takes the slot or takes the count back.
LEMMA SafeSpawn ==
  ASSUME SafeInv, NEW p \in Proc, Spawn(p)
  PROVE  SafeInv'
<1> USE DEF Spawn, Goto, leaseVars, At
<1>1. p \in up /\ Local(p) /\ slot[p] \in Slot
  BY DEF SafeInv, LocalInv, TypeOK
<1>2. /\ call[p] = "create" /\ depth[p] > 0 /\ ~probing[p] /\ acp[p][slot[p]] = "none"
      /\ count[p] = Cardinality(InUse(p)) + 1
      /\ Cardinality(InUse(p)) + waiting[p] + depth[p] <= Limit[p]
  BY <1>1, Counters
  DEF SafeInv, Local, CallFitsPc, DepthFitsPc, CountFitsSlots, WithinLimit, PreSpawn, PostSpawn, Publishing, TypeOK
<1>3. lease = p
  BY <1>1, <1>2 DEF SafeInv, LeaseCoversSpawn, InLease
<1>4. CASE /\ acp' = [acp EXCEPT ![p][slot[p]] = "running"]
           /\ Goto(p, "childDir")
           /\ UNCHANGED count
  <2>1. /\ acp' \in [Proc -> [Slot -> {"none", "running", "exited"}]]
        /\ \A q \in Proc : q # p => acp'[q] = acp[q]
        /\ Cardinality(InUse(p))' = Cardinality(InUse(p)) + 1
    BY <1>1, <1>2, <1>4, SlotCount DEF SafeInv
  <2>2. TypeOK'
    BY <1>4, <2>1 DEF SafeInv, TypeOK, Step, CreateSteps
  <2>3. pc'[p] = "childDir" /\ call'[p] = "create"
    BY <1>2, <1>4 DEF SafeInv, TypeOK
  <2>4. CallFitsPc(p)' /\ DepthFitsPc(p)'
    BY <1>2, <2>3 DEF CallFitsPc, DepthFitsPc, PreSpawn, PostSpawn, Publishing
  <2>5. CountFitsSlots(p)'
    BY <1>2, <1>4, <2>1, <2>3, Counters DEF SafeInv, CountFitsSlots, PreSpawn, Publishing
  <2>6. WithinLimit(p)'
    BY <1>2, <2>1, <2>3, Counters DEF SafeInv, WithinLimit, PostSpawn
  <2>7. \A q \in up' : q # p => UNCHANGED Mine(q)
    BY <1>4, <2>1 DEF SafeInv, TypeOK, Mine
  <2> QED
    BY <1>1, <1>3, <2>2, <2>4, <2>5, <2>6, <2>7, SafeFrame DEF Local
<1>5. CASE /\ count' = [count EXCEPT ![p] = @ - 1]
           /\ Goto(p, "unregister")
           /\ UNCHANGED acp
  <2>1. InUse(p)' = InUse(p)
    BY <1>5 DEF InUse
  <2>2. count[p] - 1 \in 0..MaxTransports /\ count'[p] = count[p] - 1
    BY <1>2, <1>5, Counters DEF SafeInv, TypeOK
  <2>3. TypeOK'
    BY <1>5, <2>2 DEF SafeInv, TypeOK, Step
  <2>4. pc'[p] = "unregister" /\ call'[p] = "create"
    BY <1>2, <1>5 DEF SafeInv, TypeOK
  <2>5. CallFitsPc(p)' /\ DepthFitsPc(p)'
    BY <1>2, <2>4 DEF CallFitsPc, DepthFitsPc, PreSpawn, PostSpawn, Publishing
  <2>6. CountFitsSlots(p)'
    BY <1>2, <1>5, <2>1, <2>2, <2>4, Counters DEF SafeInv, CountFitsSlots, PreSpawn, Publishing
  <2>7. WithinLimit(p)'
    BY <1>2, <2>1, <2>4, Counters DEF SafeInv, WithinLimit, PostSpawn
  <2>8. \A q \in up' : q # p => UNCHANGED Mine(q)
    BY <1>5 DEF SafeInv, TypeOK, Mine
  <2> QED
    BY <1>1, <1>3, <2>3, <2>5, <2>6, <2>7, <2>8, SafeFrame DEF Local
<1> QED
  BY <1>4, <1>5

\* The end of a create gives the lease back with the last depth.
LEMMA SafeEndCreate ==
  ASSUME SafeInv, NEW p \in Proc, EndCreate(p)
  PROVE  SafeInv'
<1> USE DEF EndCreate, ReleaseRegisterLease, Goto, guardVars, At
<1>1. p \in up /\ Local(p) /\ InUse(p)' = InUse(p)
  BY DEF SafeInv, LocalInv, InUse
<1>2. call[p] = "create" /\ depth[p] > 0 /\ ~probing[p]
  BY <1>1 DEF SafeInv, Local, CallFitsPc, DepthFitsPc, TypeOK
<1>3. lease = p
  BY <1>1, <1>2 DEF SafeInv, LeaseCoversSpawn, InLease
<1>4. depth[p] - 1 \in 0..MaxTransports /\ depth'[p] = depth[p] - 1
  BY <1>2, Counters DEF SafeInv, TypeOK
<1>5. TypeOK'
  BY <1>4 DEF SafeInv, TypeOK, Step, CreateSteps
<1>6. \/ depth'[p] > 0 /\ pc'[p] = "shared" /\ call'[p] = "create" /\ lease' = p
      \/ depth'[p] = 0 /\ pc'[p] = "idle" /\ call'[p] = "none"
  BY <1>2, <1>3, <1>4, Counters DEF SafeInv, TypeOK
<1>7. CallFitsPc(p)' /\ DepthFitsPc(p)'
  BY <1>2, <1>6 DEF CallFitsPc, DepthFitsPc, PreSpawn, PostSpawn, Publishing
<1>8. CountFitsSlots(p)'
  BY <1>1, <1>6 DEF Local, CountFitsSlots, PreSpawn, Publishing
<1>9. WithinLimit(p)'
  BY <1>1, <1>4, <1>6, Counters DEF SafeInv, Local, WithinLimit, PostSpawn
<1>10. \A q \in up' : q # p => UNCHANGED Mine(q)
  BY DEF SafeInv, TypeOK, Mine
<1>11. InLease(p)' => lease' = p
  BY <1>2, <1>6 DEF InLease, LookSteps
<1> QED
  BY <1>1, <1>3, <1>5, <1>7, <1>8, <1>9, <1>10, <1>11, SafeFrame DEF Local

\* A transport that exits keeps its slot.
LEMMA SafeChildExit ==
  ASSUME SafeInv, NEW p \in Proc, NEW k \in Slot, ChildExit(p, k)
  PROVE  SafeInv'
<1> USE DEF ChildExit, leaseVars, blockVars
<1>1. p \in up /\ Local(p) /\ acp[p][k] # "none"
  BY DEF SafeInv, LocalInv
<1>2. /\ acp' \in [Proc -> [Slot -> {"none", "running", "exited"}]]
      /\ \A q \in Proc : q # p => acp'[q] = acp[q]
      /\ Cardinality(InUse(p))' = Cardinality(InUse(p))
  BY <1>1, SlotCount DEF SafeInv
<1>3. TypeOK'
  BY <1>2 DEF SafeInv, TypeOK
<1>4. \A j \in Slot : acp[p][j] = "none" => acp'[p][j] = "none"
  BY <1>1 DEF SafeInv, TypeOK
<1>5. CallFitsPc(p)' /\ DepthFitsPc(p)' /\ WithinLimit(p)'
  BY <1>1, <1>2 DEF Local, CallFitsPc, DepthFitsPc, WithinLimit
<1>6. CountFitsSlots(p)'
  BY <1>1, <1>2, <1>4 DEF SafeInv, TypeOK, Local, CountFitsSlots
<1>7. \A q \in up' : q # p => UNCHANGED Mine(q)
  BY <1>2 DEF SafeInv, TypeOK, Mine
<1>8. InLease(p)' => InLease(p)
  BY DEF InLease
<1> QED
  BY <1>1, <1>3, <1>5, <1>6, <1>7, <1>8, SafeFrame DEF Local, SafeInv, LeaseCoversSpawn

\* A transport that is closed leaves its slot and the count.
LEMMA SafeChildClose ==
  ASSUME SafeInv, NEW p \in Proc, NEW k \in Slot, ChildClose(p, k)
  PROVE  SafeInv'
<1> USE DEF ChildClose, Enter, leaseVars, At
<1>1. p \in up /\ Local(p) /\ acp[p][k] # "none"
  BY DEF SafeInv, LocalInv
<1>2. /\ acp' \in [Proc -> [Slot -> {"none", "running", "exited"}]]
      /\ \A q \in Proc : q # p => acp'[q] = acp[q]
      /\ Cardinality(InUse(p))' = Cardinality(InUse(p)) - 1
  BY <1>1, SlotCount DEF SafeInv
<1>3. depth[p] = 0 /\ count[p] = Cardinality(InUse(p)) /\ k \in InUse(p)
  BY <1>1, Counters DEF SafeInv, Local, CallFitsPc, DepthFitsPc, CountFitsSlots, PreSpawn, Publishing, InUse
<1>4. count[p] - 1 \in 0..MaxTransports
  BY <1>3, Counters, SlotsFinite DEF SafeInv
<1>5. TypeOK'
  BY <1>2, <1>4 DEF SafeInv, TypeOK, Step
<1>6. pc'[p] = "unregister" /\ call'[p] = "close" /\ count'[p] = count[p] - 1
  BY DEF SafeInv, TypeOK
<1>7. CallFitsPc(p)' /\ DepthFitsPc(p)'
  BY <1>1, <1>3, <1>6 DEF Local, CallFitsPc, DepthFitsPc, PreSpawn, PostSpawn, Publishing
<1>8. CountFitsSlots(p)'
  BY <1>2, <1>3, <1>6, Counters DEF SafeInv, CountFitsSlots, PreSpawn, Publishing
<1>9. WithinLimit(p)'
  BY <1>1, <1>2, <1>6, Counters DEF SafeInv, Local, WithinLimit, PostSpawn
<1>10. \A q \in up' : q # p => UNCHANGED Mine(q)
  BY <1>2 DEF SafeInv, TypeOK, Mine
<1>11. InLease(p)' => InLease(p)
  BY <1>6 DEF InLease
<1> QED
  BY <1>1, <1>5, <1>7, <1>8, <1>9, <1>10, <1>11, SafeFrame DEF Local, SafeInv, LeaseCoversSpawn

\* The look of listCursorModels.
LEMMA SafeListModels ==
  ASSUME SafeInv, NEW p \in Proc, ListModels(p)
  PROVE  SafeInv'
<1> USE DEF ListModels, Enter, leaseVars, guardVars, At
<1>1. p \in up /\ Local(p) /\ InUse(p)' = InUse(p)
  BY DEF SafeInv, LocalInv, InUse
<1>2. TypeOK'
  BY DEF SafeInv, TypeOK, Step, LookSteps
<1>3. pc'[p] = "look" /\ call'[p] = "list" /\ slot'[p] = slot[p]
  BY DEF SafeInv, TypeOK
<1>4. CallFitsPc(p)' /\ DepthFitsPc(p)'
  BY <1>1, <1>3 DEF Local, CallFitsPc, DepthFitsPc, PreSpawn, PostSpawn, Publishing
<1>5. CountFitsSlots(p)' /\ WithinLimit(p)'
  BY <1>1, <1>3 DEF Local, CountFitsSlots, WithinLimit, PreSpawn, PostSpawn, Publishing
<1>6. \A q \in up' : q # p => UNCHANGED Mine(q)
  BY DEF SafeInv, TypeOK, Mine
<1>7. InLease(p)' => InLease(p)
  BY <1>3 DEF InLease
<1> QED
  BY <1>1, <1>2, <1>4, <1>5, <1>6, <1>7, SafeFrame DEF Local, SafeInv, LeaseCoversSpawn

\* A probe takes the lease first, when it may.
LEMMA SafeTryProbe ==
  ASSUME SafeInv, NEW p \in Proc, TryProbe(p)
  PROVE  SafeInv'
<1>1. p \in up /\ Local(p) /\ pc[p] = "idle" /\ depth[p] = 0 /\ call[p] = "none"
  BY Counters DEF SafeInv, LocalInv, Local, CallFitsPc, DepthFitsPc, TryProbe, At
<1>2. InUse(p)' = InUse(p)
  BY DEF TryProbe, InUse
<1>3. CASE lease # p /\ Claimable /\ count[p] = 0
  <2> USE <1>3 DEF TryProbe, Enter
  <2>1. TypeOK'
    <3>1. pc' \in [Proc -> Step] /\ call' \in [Proc -> {"none", "close", "create", "list", "probe"}]
      BY DEF SafeInv, TypeOK, Step, LookSteps
    <3>2. slot' \in [Proc -> Slot] /\ retried' \in [Proc -> BOOLEAN] /\ listed' \in [Proc -> BOOLEAN]
      <4>1. slot \in [Proc -> Slot] /\ retried \in [Proc -> BOOLEAN] /\ listed \in [Proc -> BOOLEAN]
        BY DEF SafeInv, TypeOK
      <4>2. slot' = slot
        BY <4>1
      <4> QED
        BY <4>1, <4>2
    <3> QED
      BY <3>1, <3>2 DEF SafeInv, TypeOK
  <2>2. pc'[p] = "look" /\ call'[p] = "probe" /\ slot'[p] = slot[p]
    BY DEF SafeInv, TypeOK
  <2>3. ~probing[p]
    BY <1>1 DEF SafeInv, LeaseCoversSpawn, InLease
  <2>4. CallFitsPc(p)' /\ DepthFitsPc(p)'
    BY <1>1, <2>2, <2>3 DEF CallFitsPc, DepthFitsPc, PreSpawn, PostSpawn, Publishing
  <2>5. CountFitsSlots(p)' /\ WithinLimit(p)'
    BY <1>1, <1>2, <2>2 DEF Local, CountFitsSlots, WithinLimit, PreSpawn, PostSpawn, Publishing
  <2>6. \A q \in up' : q # p => UNCHANGED Mine(q)
    BY DEF SafeInv, TypeOK, Mine
  <2> QED
    BY <1>1, <2>1, <2>4, <2>5, <2>6, SafeFrame DEF Local
<1>4. CASE ~(lease # p /\ Claimable /\ count[p] = 0)
  <2> USE <1>4 DEF TryProbe, blockVars
  <2>1. TypeOK'
    BY DEF SafeInv, TypeOK
  <2>2. \A q \in up' : UNCHANGED Mine(q)
    BY DEF Mine
  <2>3. InLease(p)' => InLease(p)
    BY DEF InLease
  <2> QED
    BY <1>1, <2>1, <2>2, <2>3, LocalFrame, SafeFrame DEF SafeInv, LeaseCoversSpawn
<1> QED
  BY <1>3, <1>4

\* The verdict starts the probe or gives the lease back.
LEMMA SafeVerdict ==
  ASSUME SafeInv, NEW p \in Proc, Verdict(p)
  PROVE  SafeInv'
<1> DEFINE active == fs.there /\ (fs.counted \/ LiveMarks # {} \/ fs.fresh)
<1>1. /\ p \in up /\ Local(p) /\ pc[p] = "verdict" /\ call[p] \in {"list", "probe"} /\ depth[p] = 0
      /\ InUse(p)' = InUse(p)
  <2>1. p \in up /\ Local(p) /\ pc[p] = "verdict"
    BY DEF SafeInv, LocalInv, Verdict, At
  <2>2. call[p] \in {"list", "probe"}
    BY <2>1 DEF Local, CallFitsPc
  <2>3. depth[p] = 0
    BY <2>1, <2>2, Counters DEF SafeInv, Local, DepthFitsPc
  <2> QED
    BY <2>1, <2>2, <2>3 DEF Verdict, InUse
<1>2. /\ lease' \in {lease, None} /\ (lease' # lease => lease = p /\ call[p] = "probe" /\ active)
      /\ probing' = [probing EXCEPT ![p] = @ \/ (call[p] = "probe" /\ ~active)]
  BY <1>1 DEF Verdict, ReleaseProbeLease
<1> HIDE DEF active
<1>3. fs' \in Dir
  BY DEF SafeInv, TypeOK, Verdict, Dir, LiveMarks
<1>4. active \in BOOLEAN
  BY DEF active
<1>5. listed' \in [Proc -> BOOLEAN]
  BY DEF SafeInv, TypeOK, Verdict
<1>6. TypeOK'
  BY <1>2, <1>3, <1>4, <1>5 DEF SafeInv, TypeOK, Verdict, Goto, Step
<1>7. pc'[p] = "idle" /\ call'[p] = "none" /\ slot' = slot /\ depth'[p] = 0
  BY <1>1 DEF SafeInv, TypeOK, Verdict, Goto
<1>8. CallFitsPc(p)' /\ DepthFitsPc(p)'
  BY <1>7 DEF CallFitsPc, DepthFitsPc, PreSpawn, PostSpawn, Publishing
<1>9. CountFitsSlots(p)' /\ WithinLimit(p)'
  BY <1>1, <1>7 DEF Local, CountFitsSlots, WithinLimit, PreSpawn, PostSpawn, Publishing, Verdict
<1>10. \A q \in up' : q # p => UNCHANGED Mine(q)
  BY <1>2 DEF SafeInv, TypeOK, Mine, Verdict, Goto
<1>11. InLease(p)' => lease' = p
  <2>1. ASSUME probing[p]
        PROVE  call[p] # "probe" /\ lease = p
    BY <1>1, <2>1 DEF Local, DepthFitsPc, SafeInv, LeaseCoversSpawn, InLease
  <2>2. call[p] = "probe" => lease = p
    BY <1>1 DEF SafeInv, LeaseCoversSpawn, InLease, LookSteps
  <2>3. probing'[p] <=> probing[p] \/ (call[p] = "probe" /\ ~active)
    BY <1>2 DEF SafeInv, TypeOK
  <2> QED
    BY <1>2, <1>7, <2>1, <2>2, <2>3 DEF InLease, LookSteps
<1> QED
  BY <1>1, <1>2, <1>6, <1>8, <1>9, <1>10, <1>11, SafeFrame DEF Local, Verdict

\* The end of a probe.
LEMMA SafeProbeExit ==
  ASSUME SafeInv, NEW p \in Proc, ProbeExit(p)
  PROVE  SafeInv'
<1> USE DEF ProbeExit, ReleaseProbeLease, blockVars, At
<1>1. p \in up /\ Local(p) /\ InUse(p)' = InUse(p) /\ depth[p] = 0 /\ pc[p] = "idle"
  BY Counters DEF SafeInv, LocalInv, Local, DepthFitsPc, CallFitsPc, InUse
<1>2. TypeOK'
  BY DEF SafeInv, TypeOK
<1>3. ~probing'[p]
  BY DEF SafeInv, TypeOK
<1>4. Local(p)'
  BY <1>1, <1>3 DEF Local, CallFitsPc, DepthFitsPc, CountFitsSlots, WithinLimit
<1>5. \A q \in up' : q # p => UNCHANGED Mine(q)
  BY DEF SafeInv, TypeOK, Mine
<1>6. ~InLease(p)'
  BY <1>1, <1>3 DEF InLease, LookSteps
<1>7. lease = p
  BY <1>1 DEF SafeInv, LeaseCoversSpawn, InLease
<1> QED
  BY <1>2, <1>4, <1>5, <1>6, <1>7, SafeFrame

\* A crash; what the dead process had does not matter any more.
LEMMA SafeCrash ==
  ASSUME SafeInv, NEW p \in Proc, Crash(p)
  PROVE  SafeInv'
<1> USE DEF Crash, Enter
<1>1. TypeOK'
  <2>1. "idle" \in Step /\ slot[p] \in Slot /\ 0 \in 0..MaxTransports
    BY TransportsAssumption DEF Step, SafeInv, TypeOK
  <2> QED
    BY <2>1 DEF SafeInv, TypeOK
<1>2. \A q \in up' : q # p => UNCHANGED Mine(q)
  BY DEF SafeInv, TypeOK, Mine
<1> QED
  BY <1>1, <1>2, SafeFrame

\* The exit of a child whose process is dead.
LEMMA SafeOrphanExit ==
  ASSUME SafeInv, NEW p \in Proc, NEW k \in Slot, OrphanExit(p, k)
  PROVE  SafeInv'
<1> USE DEF OrphanExit, leaseVars, blockVars
<1>1. TypeOK'
  BY DEF SafeInv, TypeOK
<1>2. \A q \in up' : q # p => UNCHANGED Mine(q)
  BY DEF SafeInv, TypeOK, Mine
<1> QED
  BY <1>1, <1>2, SafeFrame

\* Every step.
LEMMA SafeNext ==
  ASSUME SafeInv, [Next]_vars
  PROVE  SafeInv'
<1>1. CASE UNCHANGED vars
  <2>1. \A q : Mine(q)' = Mine(q)
    BY <1>1 DEF vars, leaseVars, guardVars, blockVars, Mine
  <2>2. TypeOK'
    BY <1>1 DEF vars, leaseVars, guardVars, blockVars, SafeInv, TypeOK
  <2>3. LocalInv'
    BY <1>1, <2>1, LocalFrame DEF vars, SafeInv, LocalInv
  <2>4. LeaseCoversSpawn'
    BY <1>1 DEF vars, leaseVars, guardVars, blockVars, SafeInv, LeaseCoversSpawn, InLease
  <2> QED
    BY <2>2, <2>3, <2>4 DEF SafeInv
<1>2. CASE Age
  <2>1. \A q : Mine(q)' = Mine(q)
    BY <1>2 DEF Age, leaseVars, guardVars, blockVars, Mine
  <2>2. fs' \in Dir
    BY <1>2 DEF Age, SafeInv, TypeOK, Dir
  <2>3. TypeOK'
    BY <1>2, <2>2 DEF Age, leaseVars, guardVars, blockVars, SafeInv, TypeOK
  <2>4. LocalInv'
    BY <1>2, <2>1, LocalFrame DEF Age, SafeInv, LocalInv
  <2>5. LeaseCoversSpawn'
    BY <1>2 DEF Age, leaseVars, guardVars, blockVars, SafeInv, LeaseCoversSpawn, InLease
  <2> QED
    BY <2>3, <2>4, <2>5 DEF SafeInv
<1>3. ASSUME NEW p \in Proc,
             \/ RequestCreate(p) \/ ClaimForCreate(p) \/ GiveUp(p)
             \/ ListModels(p) \/ TryProbe(p) \/ ProbeExit(p) \/ Crash(p)
             \/ Block(p)
             \/ \E k \in Slot : ChildExit(p, k) \/ ChildClose(p, k) \/ OrphanExit(p, k)
      PROVE  SafeInv'
  <2>1. CASE Block(p)
    <3>1. FileStepOf(p) => SafeInv'
      BY FileStepSafe
    <3>2. TypeOK
      BY DEF SafeInv
    <3> QED
      BY <2>1, <3>1, <3>2, CreateFileSteps, LookFileSteps, SafeBeginCreate, SafeSpawn, SafeEndCreate, SafeVerdict DEF Block
  <2> QED
    BY <1>3, <2>1, SafeRequestCreate, SafeClaimForCreate, SafeGiveUp, SafeListModels, SafeTryProbe,
       SafeProbeExit, SafeCrash, SafeChildExit, SafeChildClose, SafeOrphanExit
<1> QED
  BY <1>1, <1>2, <1>3 DEF Next

\* The initial state.
LEMMA SafeInit ==
  ASSUME Init
  PROVE  SafeInv
<1>1. 0 \in 0..MaxTransports /\ 1 \in Slot
  BY TransportsAssumption DEF Slot
<1>2. TypeOK
  BY <1>1 DEF Init, TypeOK, Step, Dir, NoDir
<1>3. ASSUME NEW p \in up
      PROVE  Local(p)
  <2>1. InUse(p) = {} /\ Cardinality(InUse(p)) = 0 /\ Limit[p] \in Nat
    BY <1>2, <1>3, FS_EmptySet, TransportsAssumption DEF Init, InUse, TypeOK
  <2> QED
    BY <1>1, <1>3, <2>1 DEF Init, Local, CallFitsPc, DepthFitsPc, CountFitsSlots, WithinLimit, PreSpawn, PostSpawn,
       Publishing
<1>4. LeaseCoversSpawn
  BY DEF Init, LeaseCoversSpawn, InLease, LookSteps
<1> QED
  BY <1>2, <1>3, <1>4 DEF SafeInv, LocalInv

\* The variables keep their types: the counters stay within their bounds, and create always finds
\* a slot (agentCliGuard.ts:60-105).
THEOREM TypeCorrect == Spec => []TypeOK
<1>1. SafeInv => TypeOK
  BY DEF SafeInv
<1> QED
  BY <1>1, SafeInit, SafeNext, PTL DEF Spec

\* The lease is exclusive and covers every registration, spawn, look before a probe and probe of a
\* live process (agentCliSpawnLease.ts:82-149).
THEOREM LeaseExclusive == Spec => []LeaseCoversSpawn
<1>1. SafeInv => LeaseCoversSpawn
  BY DEF SafeInv
<1> QED
  BY <1>1, SafeInit, SafeNext, PTL DEF Spec

---------------------------------------------------------------------------
(* The directory.                                                          *)

CreateFileAction(p) ==
    MakeDir(p) \/ Marker(p) \/ PidsDir(p) \/ PidFile(p) \/ WriteCount(p) \/ Unmark(p)
LookFileAction(p) ==
    Unregister(p) \/ Look(p) \/ NoPids(p) \/ Scan(p) \/ Rescan(p) \/ Marks(p) \/ Grace(p) \/ Remove(p)

\* What a step of p leaves to the live owners in the directory: their pid, and with it the count;
\* their marker, and with it the pids directory.  p itself may take its own away.
DirKeeps(p) ==
    \A q \in up :
        /\ HostPid(q) \in fs.pids /\ (q = p => count[p] > 0)
             => HostPid(q) \in fs'.pids /\ (fs.counted => fs'.counted)
        /\ q \in fs.marks /\ (q = p => pc[p] # "unmark")
             => q \in fs'.marks /\ (fs.pidsThere => fs'.pidsThere)

\* The pid of a live host is live.
LEMMA HostAlive ==
  ASSUME NEW q \in up
  PROVE  /\ HostPid(q) \in fs.pids => HostPid(q) \in LivePids
         /\ q \in fs.marks => q \in LiveMarks
BY DEF HostPid, LivePids, Alive, LiveMarks

\* The file operations of a create.
LEMMA CreateFileKeeps ==
  ASSUME TypeOK, DirShape, NEW p \in Proc, CreateFileAction(p)
  PROVE  DirShape' /\ DirKeeps(p)
<1> USE DEF DirShape, DirKeeps
<1>1. fs \in Dir /\ WithDir = [fs EXCEPT !.there = TRUE, !.fresh = WithDir.fresh]
  BY DEF TypeOK, Dir, WithDir
<1>2. CASE MakeDir(p)
  BY <1>1, <1>2 DEF MakeDir, Dir
<1>3. CASE Marker(p)
  BY <1>1, <1>3 DEF Marker, Dir
<1>4. CASE PidsDir(p)
  BY <1>1, <1>4 DEF PidsDir, Dir
<1>5. CASE PidFile(p)
  <2>1. \E pid : fs' = fs \/ (fs.pidsThere /\ fs' = [fs EXCEPT !.pids = @ \cup {pid}, !.pidsFresh = TRUE])
    BY <1>5 DEF PidFile
  <2> QED
    BY <1>1, <2>1 DEF Dir
<1>6. CASE WriteCount(p)
  BY <1>1, <1>6 DEF WriteCount, Dir
<1>7. CASE Unmark(p)
  BY <1>1, <1>7 DEF Unmark, Dir, At
<1> QED
  BY <1>2, <1>3, <1>4, <1>5, <1>6, <1>7 DEF CreateFileAction

\* The file operations of a look: pruning spares the live, and a removal that does not is recorded.
LEMMA LookFileKeeps ==
  ASSUME TypeOK, DirShape, NEW p \in Proc, LookFileAction(p)
  PROVE  DirShape' /\ (~torn' => DirKeeps(p))
<1> USE DEF DirShape, DirKeeps
<1>1. fs \in Dir
  BY DEF TypeOK
<1>2. LivePids \subseteq fs.pids /\ LiveMarks \subseteq fs.marks
  BY DEF LivePids, LiveMarks
<1>3. CASE Unregister(p)
  <2>1. \A q \in up : HostPid(q) # ChildPid(p, slot[p]) /\ (q # p => HostPid(q) # HostPid(p))
    BY DEF HostPid, ChildPid, TypeOK, Slot
  <2>2. \A q \in up : HostPid(q) \in fs.pids /\ (q = p => count[p] > 0) /\ fs.there
          => HostPid(q) \in fs'.pids /\ fs'.counted = fs.counted
    <3> DEFINE gone == {ChildPid(p, slot[p])} \cup (IF count[p] = 0 THEN {HostPid(p)} ELSE {})
    <3>1. \A q \in up : (q = p => count[p] > 0) => HostPid(q) \notin gone
      BY <2>1, Counters
    <3>2. fs.there => fs'.pids = fs.pids \ gone /\ fs'.counted = fs.counted
      BY <1>1, <1>3 DEF Unregister, Dir
    <3> QED
      BY <3>1, <3>2
  <2>3. /\ fs'.marks = fs.marks /\ fs'.pidsThere = fs.pidsThere /\ fs'.counted = fs.counted
        /\ fs'.there = fs.there /\ fs'.pids \subseteq fs.pids
        /\ ~fs.there => fs' = fs
    BY <1>1, <1>3 DEF Unregister, Dir
  <2> QED
    BY <2>2, <2>3
<1>4. CASE Look(p) \/ Grace(p)
  BY <1>4 DEF Look, Grace
<1>5. CASE NoPids(p) \/ Marks(p)
  <2>1. fs' = [fs EXCEPT !.marks = LiveMarks]
    BY <1>5 DEF NoPids, Marks
  <2> QED
    BY <1>1, <1>2, <2>1, HostAlive DEF Dir
<1>6. CASE Scan(p)
  <2>1. /\ fs'.pids = LivePids /\ fs'.marks = fs.marks /\ fs'.pidsThere = fs.pidsThere /\ fs'.there = fs.there
        /\ fs'.counted = fs.counted \/ fs'.counted = fs.there
    BY <1>1, <1>6 DEF Scan, Counted, Dir
  <2> QED
    BY <1>2, <2>1, HostAlive
<1>7. CASE Rescan(p)
  <2>1. /\ fs'.pids = fs.pids /\ fs'.marks = fs.marks /\ fs'.pidsThere = fs.pidsThere /\ fs'.there = fs.there
        /\ fs'.counted = fs.counted \/ fs'.counted = fs.there
    BY <1>1, <1>7 DEF Rescan, Counted, Dir
  <2> QED
    BY <2>1
<1>8. CASE Remove(p)
  <2>1. DirShape'
    BY <1>8 DEF Remove, NoDir
  <2>2. ~torn' => LivePids = {} /\ LiveMarks = {}
    BY <1>8 DEF Remove
  <2> QED
    BY <2>1, <2>2, HostAlive
<1> QED
  BY <1>3, <1>4, <1>5, <1>6, <1>7, <1>8 DEF LookFileAction

\* A process that has the register lease excludes every look before a probe and every probe.
LEMMA CreateExcludesProbe ==
  ASSUME SafeInv, NEW p \in up, depth[p] > 0, NEW q \in up
  PROVE  ~probing[q] /\ call[q] # "probe"
<1>1. Local(p) /\ Local(q) /\ lease = p
  BY DEF SafeInv, LocalInv, LeaseCoversSpawn, InLease
<1>2. call[q] = "probe" => pc[q] \in LookSteps
  <2>1. pc[q] \in Step
    BY DEF SafeInv, TypeOK
  <2> QED
    BY <1>1, <2>1 DEF Local, CallFitsPc, Step, CreateSteps, PreSpawn, PostSpawn, Publishing
<1>3. InLease(q) => q = p
  BY <1>1 DEF SafeInv, LeaseCoversSpawn
<1>4. probing[p] => depth[p] = 0 /\ call[p] # "probe"
  BY <1>1 DEF Local, DepthFitsPc
<1>5. call[p] = "create" \/ pc[p] = "claimed"
  BY <1>1 DEF Local, DepthFitsPc
<1>6. call[p] # "probe"
  BY <1>1, <1>5 DEF Local, CallFitsPc
<1> QED
  BY <1>2, <1>3, <1>4, <1>6 DEF InLease

\* What Published says of one process.
PublishedBy(p) ==
    /\ count[p] > 0 => HostPid(p) \in fs.pids \/ pc[p] \in Publishing
    /\ pc[p] \in {"pidsDir", "pidFile"} => p \in fs.marks
    /\ pc[p] = "pidFile" => fs.pidsThere

\* A step of p that keeps the directory disturbs Published only where p itself is concerned, and
\* there only when p is or comes to be on its way into the directory.
LEMMA PublishedFrame ==
  ASSUME SafeInv, SafeInv', Published, NEW p \in Proc, up' \subseteq up, DirKeeps(p),
         \A q \in up' : q # p => UNCHANGED Mine(q),
         \/ p \notin up'
         \/ PublishedBy(p)'
         \/ /\ pc[p] \notin Publishing \cup {"unmark"}
            /\ pc'[p] \notin {"pidsDir", "pidFile"}
            /\ count'[p] > 0 => count[p] > 0 \/ pc'[p] \in Publishing
  PROVE  Published'
<1>1. ASSUME NEW q \in up', q # p
      PROVE  PublishedBy(q)'
  BY <1>1 DEF Published, PublishedBy, DirKeeps, Mine
<1>2. ASSUME p \in up', ~PublishedBy(p)'
      PROVE  PublishedBy(p)'
  BY <1>2 DEF Published, PublishedBy, DirKeeps
<1> QED
  BY <1>1, <1>2 DEF Published, PublishedBy

\* While a process looks or probes, every live process with a transport is in the directory.
LEMMA AllPublished ==
  ASSUME SafeInv, Published, NEW q \in up, probing[q] \/ call[q] = "probe",
         NEW b \in up, count[b] > 0
  PROVE  HostPid(b) \in fs.pids
<1>1. Local(b) /\ b \in Proc
  BY DEF SafeInv, LocalInv, TypeOK
<1>2. depth[b] \in Nat
  BY <1>1, Counters DEF SafeInv
<1>3. ~(depth[b] > 0)
  BY CreateExcludesProbe
<1>4. pc[b] \notin Publishing
  BY <1>1, <1>3 DEF Local, CallFitsPc, DepthFitsPc, PreSpawn
<1> QED
  BY <1>4 DEF Published

\* What ProbeSees says of one process.
ProbeSeesBy(q) ==
    /\ ~probing[q]
    /\ call[q] = "probe" => pc[q] \in {"look", "scan", "verdict"}
    /\ call[q] = "probe" /\ pc[q] = "verdict" => fs.counted

\* A step of p that keeps the directory and counts no new transport disturbs ProbeSees only where
\* p itself is concerned.
LEMMA ProbeSeesFrame ==
  ASSUME SafeInv, SafeInv', Published, ProbeSees, NEW p \in Proc, up' \subseteq up, DirKeeps(p),
         \A q \in up' : q # p => UNCHANGED Mine(q),
         p \in up' /\ count'[p] > 0 => count[p] > 0,
         p \in up' /\ Busy => ProbeSeesBy(p)'
  PROVE  ProbeSees'
<1> SUFFICES ASSUME Busy', NEW q \in up'
             PROVE  ProbeSeesBy(q)'
  BY DEF ProbeSees, ProbeSeesBy
<1>1. PICK b \in up' : count'[b] > 0
  BY DEF Busy
<1>2. b \in up /\ count[b] > 0 /\ Busy
  BY <1>1 DEF Busy, Mine
<1>3. CASE q = p
  BY <1>2, <1>3
<1>4. CASE q # p
  <2>1. UNCHANGED Mine(q) /\ q \in up /\ ProbeSeesBy(q)
    BY <1>2, <1>4 DEF ProbeSees, ProbeSeesBy
  <2>2. call[q] = "probe" => (fs.counted => fs'.counted)
    BY <1>2, <2>1, AllPublished DEF DirKeeps
  <2> QED
    BY <2>1, <2>2 DEF ProbeSeesBy, Mine
<1> QED
  BY <1>3, <1>4

DirInv == DirShape /\ (~torn => Published /\ ProbeSees)

\* A step that leaves the directory alone keeps what is in it.
LEMMA DirUnchanged ==
  ASSUME NEW p, UNCHANGED fs
  PROVE  DirKeeps(p) /\ (DirShape => DirShape')
BY DEF DirKeeps, DirShape

\* A step of p outside Publishing that leaves torn as it is, adds no count and starts no probe.
LEMMA DirFrame ==
  ASSUME SafeInv, SafeInv', DirInv, NEW p \in Proc, up' \subseteq up, DirShape', DirKeeps(p),
         torn' = torn,
         \A q \in up' : q # p => UNCHANGED Mine(q),
         \/ p \notin up'
         \/ /\ pc[p] \notin Publishing \cup {"unmark"}
            /\ pc'[p] \notin Publishing
            /\ count'[p] > 0 => count[p] > 0
            /\ Busy => ProbeSeesBy(p)'
  PROVE  DirInv'
<1>1. ~torn' => Published'
  BY PublishedFrame DEF DirInv, Publishing
<1>2. ~torn' => ProbeSees'
  BY ProbeSeesFrame DEF DirInv
<1> QED
  BY <1>1, <1>2 DEF DirInv

\* A step of p leaves what the other processes have.
LEMMA OthersKeep ==
  ASSUME TypeOK, NEW p \in Proc,
         \/ RequestCreate(p) \/ ClaimForCreate(p) \/ GiveUp(p)
         \/ ListModels(p) \/ TryProbe(p) \/ ProbeExit(p) \/ Crash(p)
         \/ BeginCreate(p) \/ Spawn(p) \/ EndCreate(p) \/ Verdict(p) \/ FileStepOf(p)
         \/ \E k \in Slot : ChildExit(p, k) \/ ChildClose(p, k) \/ OrphanExit(p, k)
  PROVE  up' \subseteq up /\ \A q \in up' : q # p => UNCHANGED Mine(q)
<1> USE DEF TypeOK, Mine, At, Goto, Enter, leaseVars, guardVars, blockVars
<1>1. CASE RequestCreate(p)
  BY <1>1 DEF RequestCreate
<1>2. CASE ClaimForCreate(p)
  BY <1>2 DEF ClaimForCreate
<1>3. CASE GiveUp(p)
  BY <1>3 DEF GiveUp
<1>4. CASE ListModels(p)
  BY <1>4 DEF ListModels
<1>5. CASE TryProbe(p)
  BY <1>5 DEF TryProbe
<1>6. CASE ProbeExit(p)
  BY <1>6 DEF ProbeExit
<1>7. CASE Crash(p)
  BY <1>7 DEF Crash
<1>8. CASE BeginCreate(p)
  BY <1>8 DEF BeginCreate
<1>9. CASE Spawn(p)
  BY <1>9 DEF Spawn
<1>10. CASE EndCreate(p)
  BY <1>10 DEF EndCreate, ReleaseRegisterLease
<1>11. CASE Verdict(p)
  BY <1>11 DEF Verdict
<1>12. CASE FileStepOf(p)
  BY <1>12 DEF FileStepOf, FileStep
<1>13. CASE \E k \in Slot : ChildExit(p, k) \/ ChildClose(p, k) \/ OrphanExit(p, k)
  BY <1>13 DEF ChildExit, ChildClose, OrphanExit
<1> QED
  BY <1>1, <1>2, <1>3, <1>4, <1>5, <1>6, <1>7, <1>8, <1>9, <1>10, <1>11, <1>12, <1>13

\* A step that disturbs none of what the directory invariant is about.
LEMMA DirSame ==
  ASSUME DirInv, UNCHANGED <<up, count, pc, call, probing, fs, torn>>
  PROVE  DirInv'
BY DEF DirInv, DirShape, Published, ProbeSees, Busy

\* The steps outside the directory, without the registration.
LEMMA DirOther ==
  ASSUME SafeInv, SafeInv', DirInv, NEW p \in Proc,
         \/ ClaimForCreate(p) \/ ListModels(p) \/ TryProbe(p) \/ ProbeExit(p) \/ Crash(p)
         \/ Spawn(p) \/ EndCreate(p)
         \/ \E k \in Slot : ChildClose(p, k)
  PROVE  DirInv'
<1> DEFINE Keeps ==
      \/ p \notin up'
      \/ /\ pc[p] \notin Publishing \cup {"unmark"}
         /\ pc'[p] \notin Publishing
         /\ count'[p] > 0 => count[p] > 0
         /\ ~torn /\ Busy => ProbeSeesBy(p)'
<1>1. UNCHANGED <<fs, torn>>
  BY DEF ClaimForCreate, ListModels, TryProbe, ProbeExit, Crash, Spawn, EndCreate, ChildClose
<1>2. p \in up => Local(p) /\ (~torn /\ Busy => ProbeSeesBy(p))
  BY DEF SafeInv, LocalInv, DirInv, ProbeSees, ProbeSeesBy
<1>3. count[p] \in Nat /\ TypeOK
  BY Counters DEF SafeInv
<1>4. Keeps
  <2> USE <1>2, <1>3 DEF At, leaseVars, guardVars, blockVars, Goto, Enter, TypeOK, Publishing
  <2>1. ASSUME ClaimForCreate(p)
        PROVE  Keeps
    BY <2>1 DEF ClaimForCreate, Local, CallFitsPc, ProbeSeesBy
  <2>2. ASSUME ListModels(p)
        PROVE  Keeps
    BY <2>2 DEF ListModels, ProbeSeesBy
  <2>3. ASSUME TryProbe(p)
        PROVE  Keeps
    BY <2>3 DEF TryProbe, ProbeSeesBy
  <2>4. ASSUME ProbeExit(p)
        PROVE  Keeps
    BY <2>4 DEF ProbeExit, Local, CallFitsPc, ProbeSeesBy
  <2>5. ASSUME Crash(p)
        PROVE  Keeps
    BY <2>5 DEF Crash
  <2>6. ASSUME Spawn(p)
        PROVE  Keeps
    BY <2>6 DEF Spawn, Local, CallFitsPc, PreSpawn, ProbeSeesBy
  <2>7. ASSUME EndCreate(p)
        PROVE  Keeps
    BY <2>7 DEF EndCreate, Local, CallFitsPc, ProbeSeesBy
  <2>8. ASSUME NEW k \in Slot, ChildClose(p, k)
        PROVE  Keeps
    BY <2>8 DEF ChildClose, ProbeSeesBy
  <2> QED
    BY <2>1, <2>2, <2>3, <2>4, <2>5, <2>6, <2>7, <2>8
<1>5. up' \subseteq up /\ \A q \in up' : q # p => UNCHANGED Mine(q)
  BY <1>3, OthersKeep
<1>6. DirShape' /\ DirKeeps(p)
  BY <1>1, DirUnchanged DEF DirInv
<1>7. CASE torn
  BY <1>1, <1>6, <1>7 DEF DirInv
<1>8. CASE ~torn
  BY <1>1, <1>4, <1>5, <1>6, <1>8, DirFrame
<1> QED
  BY <1>7, <1>8

\* The registration, which no look before a probe and no probe runs beside.
LEMMA DirBeginCreate ==
  ASSUME SafeInv, SafeInv', DirInv, NEW p \in Proc, BeginCreate(p)
  PROVE  DirInv'
<1>1. UNCHANGED <<up, probing, fs, torn>> /\ p \in up /\ pc'[p] = "mkdir" /\ call'[p] = "create"
  BY DEF BeginCreate, Enter, At, SafeInv, TypeOK
<1>2. up' \subseteq up /\ \A q \in up' : q # p => UNCHANGED Mine(q)
  BY OthersKeep DEF SafeInv
<1>3. DirShape' /\ DirKeeps(p)
  BY <1>1, DirUnchanged DEF DirInv
<1>4. pc[p] \notin Publishing \cup {"unmark"} /\ pc'[p] \in Publishing \ {"pidsDir", "pidFile"}
  BY <1>1 DEF BeginCreate, At, Publishing
<1>5. ~torn' => Published'
  BY <1>1, <1>2, <1>3, <1>4, PublishedFrame DEF DirInv
<1>6. depth'[p] > 0
  BY <1>1 DEF SafeInv, LocalInv, Local, DepthFitsPc
<1>7. \A q \in up' : ~probing'[q] /\ call'[q] # "probe"
  <2>1. \A q \in up : ~probing[q] /\ call[q] # "probe"
    BY <1>1, <1>6, CreateExcludesProbe DEF BeginCreate, leaseVars
  <2> QED
    BY <1>1, <1>2, <2>1 DEF Mine
<1>8. ProbeSees'
  BY <1>7 DEF ProbeSees
<1> QED
  BY <1>3, <1>5, <1>8 DEF DirInv

\* The verdict: a look that saw a transport refuses the probe.
LEMMA DirVerdict ==
  ASSUME SafeInv, SafeInv', DirInv, NEW p \in Proc, Verdict(p)
  PROVE  DirInv'
<1>1. fs \in Dir /\ p \in up /\ torn' = torn /\ up' = up /\ count' = count /\ pc[p] = "verdict"
  BY DEF SafeInv, TypeOK, Verdict, At
<1>2. /\ fs'.pids = fs.pids /\ fs'.pidsThere = fs.pidsThere /\ fs'.counted = fs.counted
      /\ fs'.there = fs.there /\ fs'.marks \subseteq fs.marks
      /\ \A q \in up : q \in fs.marks => q \in fs'.marks
  BY <1>1, HostAlive DEF Verdict, Dir, LiveMarks
<1>3. DirShape' /\ DirKeeps(p)
  BY <1>2 DEF DirInv, DirShape, DirKeeps
<1>4. up' \subseteq up /\ \A q \in up' : q # p => UNCHANGED Mine(q)
  BY OthersKeep DEF SafeInv
<1>5. pc'[p] = "idle" /\ call'[p] = "none"
  BY DEF SafeInv, TypeOK, Verdict, Goto
<1>6. ASSUME ~torn, Busy
      PROVE  ProbeSeesBy(p)'
  <2>1. ProbeSeesBy(p)
    BY <1>1, <1>6 DEF DirInv, ProbeSees, ProbeSeesBy
  <2>2. call[p] = "probe" => fs.counted /\ fs.there
    BY <1>1, <2>1 DEF ProbeSeesBy, DirInv, DirShape
  <2>3. ~probing'[p]
    BY <1>1, <2>1, <2>2 DEF ProbeSeesBy, Verdict, SafeInv, TypeOK
  <2> QED
    BY <1>5, <2>3 DEF ProbeSeesBy
<1>7. CASE torn
  BY <1>1, <1>3, <1>7 DEF DirInv
<1>8. CASE ~torn
  BY <1>1, <1>3, <1>4, <1>5, <1>6, <1>8, DirFrame DEF Publishing
<1> QED
  BY <1>7, <1>8

\* A registration is in the directory when it ends: marker first, pid second, count last.
LEMMA DirCreateFile ==
  ASSUME SafeInv, SafeInv', DirInv, NEW p \in Proc, CreateFileAction(p)
  PROVE  DirInv'
<1>1. TypeOK /\ FileStepOf(p)
  BY CreateFileSteps DEF SafeInv, CreateFileAction
<1>2. DirShape' /\ DirKeeps(p)
  BY <1>1, CreateFileKeeps DEF DirInv
<1>3. up' \subseteq up /\ \A q \in up' : q # p => UNCHANGED Mine(q)
  BY <1>1, OthersKeep
<1>4. PICK from \in Step, to \in Step :
        FileStep(p, from, to) /\ (CreateMoves(from, to) \/ LookMoves(p, from, to))
  BY <1>1 DEF FileStepOf
<1>5. /\ p \in up /\ pc[p] = from /\ pc'[p] = to /\ count' = count /\ up' = up /\ probing' = probing
      /\ torn' = torn
  BY <1>1, <1>4 DEF FileStep, Goto, At, guardVars, CreateFileAction, MakeDir, Marker, PidsDir, PidFile,
     WriteCount, Unmark, TypeOK
<1>6. from \in PreSpawn \cup PostSpawn
  BY <1>5 DEF CreateFileAction, MakeDir, Marker, PidsDir, PidFile, WriteCount, Unmark, At, PreSpawn, PostSpawn,
     Publishing
<1>7. call[p] = "create" /\ call'[p] # "probe"
  BY <1>1, <1>4, <1>5, <1>6 DEF SafeInv, LocalInv, Local, CallFitsPc, FileStep, Goto, TypeOK
<1>8. ASSUME ~torn, Published
      PROVE  PublishedBy(p)'
  <2>1. PublishedBy(p)
    BY <1>5, <1>8 DEF Published, PublishedBy
  <2>2. fs \in Dir /\ fs' \in Dir /\ WithDir.marks = fs.marks /\ WithDir.pids = fs.pids
    BY <1>1 DEF TypeOK, FileStepOf, Dir, WithDir
  <2> USE <1>1, <1>5, <2>1, <2>2 DEF At, Goto, TypeOK, PublishedBy, Publishing
  <2>3. ASSUME MakeDir(p)
        PROVE  PublishedBy(p)'
    BY <2>3 DEF MakeDir
  <2>4. ASSUME Marker(p)
        PROVE  PublishedBy(p)'
    <3>1. fs'.marks = fs.marks \cup {p} /\ fs'.pids = fs.pids
      BY <2>4 DEF Marker, Dir, WithDir
    <3>2. pc'[p] = "pidsDir"
      BY <2>4 DEF Marker
    <3> QED
      BY <3>1, <3>2
  <2>5. ASSUME PidsDir(p)
        PROVE  PublishedBy(p)'
    <3>1. PICK next \in {"pidFile", "childFile"} :
            /\ pc[p] = (IF next = "pidFile" THEN "pidsDir" ELSE "childDir")
            /\ \/ next = "childFile" /\ pc'[p] = "release" /\ UNCHANGED fs
               \/ /\ pc'[p] = next
                  /\ fs' = [WithDir EXCEPT !.pidsThere = TRUE,
                                           !.fresh = IF fs.pidsThere THEN WithDir.fresh ELSE TRUE,
                                           !.pidsFresh = IF fs.pidsThere THEN @ ELSE TRUE]
      BY <2>5 DEF PidsDir
    <3>2. fs'.marks = fs.marks /\ fs'.pids = fs.pids /\ (pc'[p] = "pidFile" => fs'.pidsThere)
      BY <3>1 DEF Dir, WithDir
    <3> QED
      BY <3>1, <3>2
  <2>6. ASSUME PidFile(p)
        PROVE  PublishedBy(p)'
    <3>1. PICK host \in BOOLEAN :
            /\ pc[p] = (IF host THEN "pidFile" ELSE "childFile")
            /\ \/ /\ fs' = [fs EXCEPT !.pids = @ \cup {IF host THEN HostPid(p) ELSE ChildPid(p, slot[p])},
                                      !.pidsFresh = TRUE]
                  /\ pc'[p] = (IF host THEN "count" ELSE "release")
               \/ fs' = fs /\ ~host /\ pc'[p] \in {"release", "childDir"}
      BY <2>6 DEF PidFile
    <3>2. fs.pids \subseteq fs'.pids /\ (host => HostPid(p) \in fs'.pids)
      <4> DEFINE pid == IF host THEN HostPid(p) ELSE ChildPid(p, slot[p])
      <4>1. fs' = fs \/ fs'.pids = fs.pids \cup {pid}
        BY <3>1 DEF Dir
      <4>2. host => fs'.pids = fs.pids \cup {pid} /\ pid = HostPid(p)
        BY <3>1 DEF Dir
      <4> HIDE DEF pid
      <4> QED
        BY <4>1, <4>2
    <3> QED
      BY <3>1, <3>2
  <2>7. ASSUME WriteCount(p)
        PROVE  PublishedBy(p)'
    BY <2>7 DEF WriteCount, Dir
  <2>8. ASSUME Unmark(p)
        PROVE  PublishedBy(p)'
    BY <2>8 DEF Unmark, Dir
  <2> QED
    BY <2>3, <2>4, <2>5, <2>6, <2>7, <2>8 DEF CreateFileAction
<1>9. ~torn' => Published'
  BY <1>2, <1>3, <1>5, <1>8, PublishedFrame DEF DirInv
<1>10. Busy /\ ProbeSees => ProbeSeesBy(p)'
  BY <1>5, <1>7 DEF ProbeSees, ProbeSeesBy
<1>11. ~torn' => ProbeSees'
  BY <1>2, <1>3, <1>5, <1>10, ProbeSeesFrame DEF DirInv
<1> QED
  BY <1>2, <1>9, <1>11 DEF DirInv

\* A look before a probe finds the live transports: it sees their pids and leaves with the count.
LEMMA DirLookFile ==
  ASSUME SafeInv, SafeInv', DirInv, NEW p \in Proc, LookFileAction(p)
  PROVE  DirInv'
<1>1. TypeOK /\ FileStepOf(p) /\ (torn => torn') /\ fs \in Dir
  BY LookFileSteps DEF SafeInv, LookFileAction, Unregister, Look, NoPids, Scan, Rescan, Marks, Grace, Remove, TypeOK
<1>2. DirShape' /\ (~torn' => DirKeeps(p))
  BY <1>1, LookFileKeeps DEF DirInv
<1>3. up' \subseteq up /\ \A q \in up' : q # p => UNCHANGED Mine(q)
  BY <1>1, OthersKeep
<1>4. PICK from \in Step, to \in Step :
        FileStep(p, from, to) /\ (CreateMoves(from, to) \/ LookMoves(p, from, to))
  BY <1>1 DEF FileStepOf
<1>5. p \in up /\ pc[p] = from /\ pc'[p] = to /\ count' = count /\ up' = up /\ probing' = probing
  BY <1>1, <1>4 DEF FileStep, Goto, At, guardVars, TypeOK
<1>6. from \in Looking \cup {"unregister"}
  BY <1>5 DEF LookFileAction, Unregister, Look, NoPids, Scan, Rescan, Marks, Grace, Remove, At, Looking, LookSteps
<1>7. to \in Looking \cup {"idle", "release", "verdict"}
  BY <1>4, <1>6, AfterLookIs DEF CreateMoves, LookMoves, Publishing, PostSpawn, Looking, LookSteps
<1>8. ASSUME ~torn, Busy, Published, ProbeSees
      PROVE  ProbeSeesBy(p)'
  <2>1. ProbeSeesBy(p)
    BY <1>5, <1>8 DEF ProbeSees, ProbeSeesBy
  <2>2. call'[p] = "probe" => call[p] = "probe"
    BY <1>1, <1>4 DEF FileStep, Goto, TypeOK
  <2>3. ASSUME call[p] = "probe"
        PROVE  pc'[p] = "scan" \/ (pc'[p] = "verdict" /\ fs'.counted)
    <3>1. PICK b \in up : count[b] > 0
      BY <1>8 DEF Busy
    <3>2. HostPid(b) \in fs.pids /\ HostPid(b) \in LivePids
      BY <1>5, <1>8, <2>3, <3>1, AllPublished, HostAlive
    <3>3. fs.pidsThere /\ fs.there
      BY <3>2 DEF DirInv, DirShape
    <3>4. from \in {"look", "scan"}
      BY <1>5, <1>6, <2>1, <2>3 DEF ProbeSeesBy, Looking
    <3>5. CASE from = "look"
      <4>1. Look(p)
        BY <1>5, <3>5 DEF LookFileAction, Unregister, NoPids, Scan, Rescan, Marks, Grace, Remove, At
      <4>2. (CASE call[p] \in {"list", "probe"} /\ ~fs.there -> "verdict"
               [] ~fs.pidsThere -> "noPids"
               [] OTHER -> "scan") = "scan"
        BY <3>3
      <4> QED
        BY <1>1, <4>1, <4>2 DEF Look, Goto, TypeOK
    <3>6. CASE from = "scan"
      <4>1. Scan(p)
        BY <1>5, <3>6 DEF LookFileAction, Unregister, NoPids, Look, Rescan, Marks, Grace, Remove, At
      <4>2. AfterLook(p) = "verdict"
        BY <2>3, AfterLookIs
      <4>3. pc'[p] = "verdict"
        BY <1>1, <3>2, <4>1, <4>2 DEF Scan, Goto, TypeOK
      <4>4. fs'.counted
        BY <1>1, <3>2, <3>3, <4>1 DEF Scan, Counted, Dir
      <4> QED
        BY <4>3, <4>4
    <3> QED
      BY <3>4, <3>5, <3>6
  <2> QED
    BY <1>5, <2>1, <2>2, <2>3 DEF ProbeSeesBy
<1>9. ~torn' => Published'
  BY <1>1, <1>2, <1>3, <1>5, <1>6, <1>7, PublishedFrame DEF DirInv, Publishing, Looking, LookSteps
<1>10. ~torn' => ProbeSees'
  BY <1>1, <1>2, <1>3, <1>5, <1>8, ProbeSeesFrame DEF DirInv
<1> QED
  BY <1>2, <1>9, <1>10 DEF DirInv

\* Time that passes and steps that change nothing.
LEMMA DirAge ==
  ASSUME SafeInv, DirInv, Age
  PROVE  DirInv'
<1>1. fs \in Dir
  BY DEF SafeInv, TypeOK
<1>2. /\ fs'.pids = fs.pids /\ fs'.pidsThere = fs.pidsThere /\ fs'.counted = fs.counted
      /\ fs'.there = fs.there /\ fs'.marks = fs.marks
  BY <1>1 DEF Age, Dir
<1>3. UNCHANGED <<up, count, pc, call, probing, torn>>
  BY DEF Age, guardVars, blockVars
<1> QED
  BY <1>2, <1>3 DEF DirInv, DirShape, Published, ProbeSees, Busy

\* Every step.
LEMMA DirNext ==
  ASSUME SafeInv, SafeInv', DirInv, [Next]_vars
  PROVE  DirInv'
<1>1. CASE UNCHANGED vars
  BY <1>1, DirSame DEF vars, guardVars, blockVars
<1>2. ASSUME NEW p \in Proc,
             \/ RequestCreate(p) \/ ClaimForCreate(p) \/ GiveUp(p)
             \/ ListModels(p) \/ TryProbe(p) \/ ProbeExit(p) \/ Crash(p)
             \/ Block(p)
             \/ \E k \in Slot : ChildExit(p, k) \/ ChildClose(p, k) \/ OrphanExit(p, k)
      PROVE  DirInv'
  <2>1. CASE Block(p)
    BY <2>1, DirBeginCreate, DirOther, DirVerdict, DirCreateFile, DirLookFile
    DEF Block, CreateFileAction, LookFileAction
  <2>2. CASE RequestCreate(p) \/ GiveUp(p) \/ \E k \in Slot : ChildExit(p, k) \/ OrphanExit(p, k)
    BY <2>2, DirSame DEF RequestCreate, GiveUp, ChildExit, OrphanExit, guardVars, blockVars
  <2> QED
    BY <1>2, <2>1, <2>2, DirOther
<1> QED
  BY <1>1, <1>2, DirAge DEF Next

\* From spawn to close of a transport no probe runs anywhere, while no cleaner has removed a
\* directory with a live owner in it (agentCliGuard.ts:28-39).
THEOREM ProbeExcluded == Spec => []ProbeExcludesAcp
<1>1. Init => DirInv
  BY DEF Init, DirInv, DirShape, Published, ProbeSees, Busy, NoDir
<1>2. SafeInv /\ DirInv => ProbeExcludesAcp
  <2> SUFFICES ASSUME SafeInv, DirInv, ~torn, NEW p \in Proc, NEW q \in Proc,
                      AcpRunning(p), q \in up, probing[q]
               PROVE  FALSE
    BY DEF ProbeExcludesAcp
  <2>1. p \in up /\ Local(p)
    BY DEF AcpRunning, SafeInv, LocalInv
  <2>2. Cardinality(InUse(p)) > 0
    BY SlotsFinite DEF AcpRunning, InUse
  <2>3. count[p] > 0
    BY <2>1, <2>2, Counters DEF SafeInv, Local, CountFitsSlots
  <2> QED
    BY <2>1, <2>3 DEF DirInv, ProbeSees, Busy
<1> QED
  BY <1>1, <1>2, SafeInit, SafeNext, DirNext, PTL DEF Spec
============================================================================
