------------------------- MODULE ChainPublishProofs -------------------------
(***************************************************************************)
(* Proofs about ChainPublish, for any number of processes, directories,    *)
(* entries, files and builds.  Every property rests on the lock files: a   *)
(* lock names the build that holds it, even after that build died, so a    *)
(* process inside a critical section is the only one that changes what it  *)
(* guards.  IInv says what is then stable about a build in each phase.     *)
(***************************************************************************)
EXTENDS ChainPublish, TLAPS

Held == Owned \cup Exclusive
After ==
  {"link", "aside", "swap", "drop", "dropFailed", "retain", "release", "unlock"}
Staged == {"number", "rename", "link", "aside", "swap", "drop", "retain"}
Linking == {"link", "aside", "swap", "drop", "retain"}

(* Builds have numbers of their own, locks the numbers of started builds.   *)
RunInv ==
  /\ \A p \in Proc : run[p] <= runs
  /\ \A p \in Proc : run[p] = 0 <=> pc[p] = "idle"
  /\ \A p, q \in Proc : p # q /\ run[p] # 0 => run[p] # run[q]
  /\ \A d \in Directory : lock[d] <= runs

(* A process in a section owns its lock files, which are two.               *)
LockInv ==
  \A p \in Proc :
    /\ pc[p] \in Held => lock[target[p]] = run[p]
    /\ pc[p] \in Exclusive => lock[root[p]] = run[p] /\ root[p] # target[p]

(* What a build has read and written: nothing before it starts, and then by *)
(* phase.                                                                   *)
OwnInv ==
  \A b \in Run : \A i \in 1..Len(bytes[b]) : bytes[b][i] = <<b, i - 1>>

Fresh == \A b \in Run : b > runs => Len(bytes[b]) = 0 /\ files[b] = 0

BytesAt(p) ==
  /\ pc[p] \in {"target", "root"} => Len(bytes[run[p]]) = 0
  /\ pc[p] \in {"cargo", "read"} => Len(bytes[run[p]]) <= Entries
  /\ pc[p] = "read" => artifact[target[p]] = <<run[p], Len(bytes[run[p]])>>
  /\ pc[p] \in {"prune", "create", "write"} \cup Staged
       => Len(bytes[run[p]]) = Entries + 1

FilesAt(p) ==
  /\ pc[p] \in {"target", "root", "cargo", "read", "prune", "create"}
       => files[run[p]] = 0
  /\ pc[p] = "write" => files[run[p]] < Files
  /\ pc[p] \in Staged => files[run[p]] = Files

(* A build is published once, at its process's root; the highest number     *)
(* ever published still has its directory.                                  *)
PublishedOnce ==
  \A r, s \in Root : \A g \in gens[r], h \in gens[s] :
    /\ g[2] = h[2] => g = h /\ r = s
    /\ r = s /\ g[1] = h[1] => g = h

PublishedBy ==
  \A r \in Root : \A g \in gens[r] :
    /\ g[2] <= runs
    /\ \A p \in Proc : g[2] = run[p] => r = root[p] /\ pc[p] \in After

PublishedLast ==
  \A r \in Root :
    /\ \A g \in gens[r] : g[1] \in 1..published[r]
    /\ published[r] # 0 => published[r] \in Numbers(gens[r])

(* Nobody else publishes at the root while a process holds it.              *)
NextAt(p) ==
  /\ pc[p] = "rename" => next[p] = published[root[p]] + 1
  /\ pc[p] \in Linking => /\ next[p] = published[root[p]]
                          /\ <<next[p], run[p]>> \in gens[root[p]]
  /\ pc[p] \in {"aside", "swap"} => tmp[root[p]] = next[p]
  /\ pc[p] \in {"drop", "retain"} => current[root[p]] = next[p]

BuildInv == \A p \in Proc : BytesAt(p) /\ FilesAt(p) /\ NextAt(p)

(* CurrentIsWhole, in the terms of BytesAt and OwnInv.                      *)
CurrentInv ==
  \A r \in Root : current[r] # 0 =>
    \E g \in gens[r] :
      g[1] = current[r] /\ files[g[2]] = Files /\ Len(bytes[g[2]]) = Entries + 1

GensInv == PublishedOnce /\ PublishedBy /\ PublishedLast
CoreInv == TypeOK /\ RunInv /\ LockInv

IInv == CoreInv /\ OwnInv /\ Fresh /\ GensInv /\ BuildInv /\ CurrentInv

-----------------------------------------------------------------------------
(* Who changes what.                                                        *)

(* The lock files.                                                          *)
LEMMA LockFrame ==
  ASSUME NEW p \in Proc, Step(p)
  PROVE  \/ UNCHANGED lock
         \/ LockTarget(p) \/ LockRoot(p) \/ ReleaseRoot(p) \/
            ReleaseTarget(p)
BY DEF process, links, tree, cargo, Step, Build, Publish, Start, LockTarget,
  GiveUpTarget, LockRoot, GiveUpRoot, Cargo, ReadArtifact, PruneStaging,
  CreateStaging, WriteStagedFile, NextNumber, PublishGeneration, LinkTmp,
  LinkTmpFails, MoveAside, MoveAsideFails, InstallCurrent, InstallFails,
  DropAside, Retain, ReleaseRoot, ReleaseTarget, Fail, Crash

(* The artifact and what was read of it.                                    *)
LEMMA CargoFrame ==
  ASSUME NEW p \in Proc, Step(p)
  PROVE  \/ UNCHANGED <<artifact, bytes>>
         \/ Cargo(p) \/ ReadArtifact(p)
BY DEF process, links, tree, cargo, Step, Build, Publish, Start, LockTarget,
  GiveUpTarget, LockRoot, GiveUpRoot, Cargo, ReadArtifact, PruneStaging,
  CreateStaging, WriteStagedFile, NextNumber, PublishGeneration, LinkTmp,
  LinkTmpFails, MoveAside, MoveAsideFails, InstallCurrent, InstallFails,
  DropAside, Retain, ReleaseRoot, ReleaseTarget, Fail, Crash

(* The generations.                                                         *)
LEMMA GensFrame ==
  ASSUME NEW p \in Proc, Step(p)
  PROVE  \/ UNCHANGED <<gens, published>>
         \/ PublishGeneration(p) \/ Retain(p)
BY DEF process, links, tree, cargo, Step, Build, Publish, Start, LockTarget,
  GiveUpTarget, LockRoot, GiveUpRoot, Cargo, ReadArtifact, PruneStaging,
  CreateStaging, WriteStagedFile, NextNumber, PublishGeneration, LinkTmp,
  LinkTmpFails, MoveAside, MoveAsideFails, InstallCurrent, InstallFails,
  DropAside, Retain, ReleaseRoot, ReleaseTarget, Fail, Crash

(* The files in a build's directory.                                        *)
LEMMA FilesFrame ==
  ASSUME NEW p \in Proc, Step(p)
  PROVE  \/ UNCHANGED files
         \/ WriteStagedFile(p) \/ Retain(p)
BY DEF process, links, tree, cargo, Step, Build, Publish, Start, LockTarget,
  GiveUpTarget, LockRoot, GiveUpRoot, Cargo, ReadArtifact, PruneStaging,
  CreateStaging, WriteStagedFile, NextNumber, PublishGeneration, LinkTmp,
  LinkTmpFails, MoveAside, MoveAsideFails, InstallCurrent, InstallFails,
  DropAside, Retain, ReleaseRoot, ReleaseTarget, Fail, Crash

(* The staging directories and the ages.                                    *)
LEMMA StagingFrame ==
  ASSUME NEW p \in Proc, Step(p)
  PROVE  \/ UNCHANGED <<staging, old>>
         \/ PruneStaging(p) \/ CreateStaging(p) \/ WriteStagedFile(p) \/
            PublishGeneration(p) \/ Retain(p) \/ Fail(p)
BY DEF process, links, tree, cargo, Step, Build, Publish, Start, LockTarget,
  GiveUpTarget, LockRoot, GiveUpRoot, Cargo, ReadArtifact, PruneStaging,
  CreateStaging, WriteStagedFile, NextNumber, PublishGeneration, LinkTmp,
  LinkTmpFails, MoveAside, MoveAsideFails, InstallCurrent, InstallFails,
  DropAside, Retain, ReleaseRoot, ReleaseTarget, Fail, Crash

(* The link and its temporary.                                              *)
LEMMA LinkFrame ==
  ASSUME NEW p \in Proc, Step(p)
  PROVE  \/ UNCHANGED <<current, tmp>>
         \/ LinkTmp(p) \/ LinkTmpFails(p) \/ MoveAside(p) \/
            InstallCurrent(p)
BY DEF process, links, tree, cargo, Step, Build, Publish, Start, LockTarget,
  GiveUpTarget, LockRoot, GiveUpRoot, Cargo, ReadArtifact, PruneStaging,
  CreateStaging, WriteStagedFile, NextNumber, PublishGeneration, LinkTmp,
  LinkTmpFails, MoveAside, MoveAsideFails, InstallCurrent, InstallFails,
  DropAside, Retain, ReleaseRoot, ReleaseTarget, Fail, Crash

(* The link moved aside.                                                    *)
LEMMA AsideFrame ==
  ASSUME NEW p \in Proc, Step(p)
  PROVE  \/ UNCHANGED aside
         \/ MoveAside(p) \/ MoveAsideFails(p) \/ DropAside(p)
BY DEF process, links, tree, cargo, Step, Build, Publish, Start, LockTarget,
  GiveUpTarget, LockRoot, GiveUpRoot, Cargo, ReadArtifact, PruneStaging,
  CreateStaging, WriteStagedFile, NextNumber, PublishGeneration, LinkTmp,
  LinkTmpFails, MoveAside, MoveAsideFails, InstallCurrent, InstallFails,
  DropAside, Retain, ReleaseRoot, ReleaseTarget, Fail, Crash

(* The number computed.                                                     *)
LEMMA NextFrame ==
  ASSUME NEW p \in Proc, Step(p)
  PROVE  \/ UNCHANGED next
         \/ NextNumber(p) \/ GiveUpTarget(p) \/ ReleaseTarget(p) \/
            Crash(p)
BY DEF process, links, tree, cargo, Step, Build, Publish, Start, LockTarget,
  GiveUpTarget, LockRoot, GiveUpRoot, Cargo, ReadArtifact, PruneStaging,
  CreateStaging, WriteStagedFile, NextNumber, PublishGeneration, LinkTmp,
  LinkTmpFails, MoveAside, MoveAsideFails, InstallCurrent, InstallFails,
  DropAside, Retain, ReleaseRoot, ReleaseTarget, Fail, Crash

(* The builds.                                                              *)
LEMMA RunFrame ==
  ASSUME NEW p \in Proc, Step(p)
  PROVE  \/ UNCHANGED <<runs, run>>
         \/ Start(p) \/ GiveUpTarget(p) \/ ReleaseTarget(p) \/ Crash(p)
BY DEF process, links, tree, cargo, Step, Build, Publish, Start, LockTarget,
  GiveUpTarget, LockRoot, GiveUpRoot, Cargo, ReadArtifact, PruneStaging,
  CreateStaging, WriteStagedFile, NextNumber, PublishGeneration, LinkTmp,
  LinkTmpFails, MoveAside, MoveAsideFails, InstallCurrent, InstallFails,
  DropAside, Retain, ReleaseRoot, ReleaseTarget, Fail, Crash

(* A process keeps its directories, and leaves the place of the others alone. *)
LEMMA PlaceFrame ==
  ASSUME PlaceOK, NumbersOK, NEW p \in Proc, Step(p)
  PROVE  /\ UNCHANGED <<target, root>>
         /\ \A q \in Proc \ {p} :
              pc'[q] = pc[q] /\ run'[q] = run[q] /\ next'[q] = next[q]
BY DEF PlaceOK, NumbersOK, Goto, Ended, process, links, tree, cargo, Step,
  Build, Publish, Start, LockTarget, GiveUpTarget, LockRoot, GiveUpRoot,
  Cargo, ReadArtifact, PruneStaging, CreateStaging, WriteStagedFile,
  NextNumber, PublishGeneration, LinkTmp, LinkTmpFails, MoveAside,
  MoveAsideFails, InstallCurrent, InstallFails, DropAside, Retain,
  ReleaseRoot, ReleaseTarget, Fail, Crash

(* What happens without a process leaves all but locks and ages as they are. *)
Outside ==
  (\E d \in Directory : RemoveStaleLock(d)) \/ TimePasses \/ UNCHANGED vars

LEMMA OutsideFrame ==
  ASSUME Outside
  PROVE  UNCHANGED <<runs, pc, run, target, root, next, artifact, bytes, staging,
                     gens, files, published, current, tmp, aside>>
BY DEF Outside, RemoveStaleLock, TimePasses, vars, process, links, tree, cargo

LEMMA StepOrOutside ==
  ASSUME [Next]_vars
  PROVE  Outside \/ \E p \in Proc : Step(p)
BY DEF Next, Outside

-----------------------------------------------------------------------------
(* While p steps, what the locks of another process guard does not change,  *)
(* and nor does anything of its build.                                      *)
LEMMA OthersKept ==
  ASSUME CoreInv, PublishedBy, NEW p \in Proc, NEW q \in Proc, p # q, Step(p),
         pc[q] # "idle"
  PROVE  /\ bytes'[run[q]] = bytes[run[q]]
         /\ pc[q] # "unlock" => files'[run[q]] = files[run[q]]
         /\ pc[q] \in Exclusive =>
              /\ artifact'[target[q]] = artifact[target[q]]
              /\ gens'[root[q]] = gens[root[q]]
              /\ published'[root[q]] = published[root[q]]
              /\ current'[root[q]] = current[root[q]]
              /\ tmp'[root[q]] = tmp[root[q]]
<1>. USE DEF CoreInv, TypeOK, PlaceOK, Goto
<1>1. /\ run[q] \in Run /\ run[p] # run[q]
      /\ pc[p] \in Held /\ pc[q] \in Held => target[p] # target[q]
      /\ pc[p] \in Exclusive /\ pc[q] \in Exclusive => root[p] # root[q]
  BY DEF RunInv, LockInv, Held, NumbersOK, Run, Owned, Exclusive
<1>2. bytes'[run[q]] = bytes[run[q]]
  <2>1. CASE ReadArtifact(p)
    BY <1>1, <2>1 DEF ReadArtifact, CargoOK
  <2>. QED BY <2>1, CargoFrame DEF Cargo
<1>3. ASSUME pc[q] # "unlock" PROVE files'[run[q]] = files[run[q]]
  <2>1. CASE WriteStagedFile(p)
    BY <1>1, <2>1 DEF WriteStagedFile, TreeOK
  <2>2. CASE Retain(p)
    <3>1. PICK removed \in SUBSET Prunable(gens[root[p]]),
               gutted \in SUBSET Prunable(gens[root[p]]) :
            files' = [b \in Run |->
                        IF b \in {g[2] : g \in gutted} THEN 0 ELSE files[b]]
      BY <2>2 DEF Retain
    <3>2. run[q] \notin {g[2] : g \in gutted}
      <4>1. SUFFICES ASSUME NEW g \in gens[root[p]], g[2] = run[q] PROVE FALSE
        BY DEF Prunable
      <4>2. root[p] = root[q] /\ pc[q] \in After
        BY <4>1 DEF PublishedBy
      <4>3. pc[p] = "retain"
        BY <2>2 DEF Retain
      <4>. QED BY <1>1, <1>3, <4>2, <4>3 DEF After, Exclusive
    <3>. QED BY <1>1, <3>1, <3>2
  <2>. QED BY <2>1, <2>2, FilesFrame
<1>4. ASSUME pc[q] \in Exclusive PROVE artifact'[target[q]] = artifact[target[q]]
  <2>1. CASE Cargo(p)
    BY <1>1, <1>4, <2>1 DEF Cargo, CargoOK, Held, Exclusive
  <2>. QED BY <2>1, CargoFrame DEF ReadArtifact
<1>5. ASSUME pc[q] \in Exclusive
      PROVE  /\ gens'[root[q]] = gens[root[q]]
             /\ published'[root[q]] = published[root[q]]
  <2>1. CASE PublishGeneration(p)
    BY <1>1, <1>5, <2>1 DEF PublishGeneration, TreeOK, NumbersOK, Exclusive
  <2>2. CASE Retain(p)
    BY <1>1, <1>5, <2>2 DEF Retain, TreeOK, NumbersOK, Exclusive
  <2>. QED BY <2>1, <2>2, GensFrame
<1>6. ASSUME pc[q] \in Exclusive
      PROVE  current'[root[q]] = current[root[q]] /\ tmp'[root[q]] = tmp[root[q]]
  <2>1. CASE LinkTmp(p) \/ LinkTmpFails(p)
    BY <1>1, <1>6, <2>1 DEF LinkTmp, LinkTmpFails, LinkOK, Exclusive
  <2>2. CASE MoveAside(p) \/ InstallCurrent(p)
    BY <1>1, <1>6, <2>2 DEF MoveAside, InstallCurrent, LinkOK, Exclusive
  <2>. QED BY <2>1, <2>2, LinkFrame
<1>. QED BY <1>2, <1>3, <1>4, <1>5, <1>6

(* The newest generation is the last one published.                         *)
LEMMA NewestIsPublished ==
  ASSUME TypeOK, PublishedLast, NEW r \in Root
  PROVE  NewestOf(gens[r]) = published[r]
<1>1. published[r] \in Numbers(gens[r]) \cup {0}
  BY DEF PublishedLast
<1>2. \A m \in Numbers(gens[r]) : m \in Nat /\ m <= published[r]
  BY DEF PublishedLast, Numbers, TypeOK, NumbersOK
<1>3. ASSUME NEW n \in Numbers(gens[r]) \cup {0},
             \A m \in Numbers(gens[r]) : m <= n
      PROVE  n = published[r]
  BY <1>1, <1>2, <1>3 DEF TypeOK, NumbersOK
<1>. QED BY <1>1, <1>2, <1>3 DEF NewestOf

(* The invariant, part by part.                                             *)

LEMMA PlaceStep ==
  ASSUME PlaceOK, NumbersOK, NEW p \in Proc, Step(p)
  PROVE  PlaceOK'
<1>. USE DEF PlaceOK, Goto, Owned, Exclusive
<1>1. CASE Build(p)
  BY <1>1, PlaceFrame DEF Build, Start, LockTarget, GiveUpTarget, LockRoot,
    GiveUpRoot, Cargo, ReadArtifact
<1>2. CASE Fail(p) \/ Crash(p)
  BY <1>2, PlaceFrame DEF Fail, Crash
<1>3. CASE Publish(p)
  BY <1>3, PlaceFrame DEF Publish, PruneStaging, CreateStaging,
    WriteStagedFile, NextNumber, PublishGeneration, LinkTmp, LinkTmpFails,
    MoveAside, MoveAsideFails, InstallCurrent, InstallFails, DropAside, Retain,
    ReleaseRoot, ReleaseTarget
<1>. QED BY <1>1, <1>2, <1>3 DEF Step

LEMMA NumbersStep ==
  ASSUME TypeOK, PublishedLast, NEW p \in Proc, Step(p)
  PROVE  NumbersOK'
<1>. USE DEF TypeOK, NumbersOK, PlaceOK
<1>1. runs' \in 0..MaxRuns /\ run' \in [Proc -> 0..MaxRuns]
  BY RunFrame, SizesAssumption DEF Start, GiveUpTarget, ReleaseTarget, Crash, Ended
<1>2. next' \in [Proc -> Nat]
  <2>1. CASE NextNumber(p)
    <3>1. NewestOf(gens[root[p]]) + 1 \in Nat
      BY NewestIsPublished
    <3>. QED BY <2>1, <3>1 DEF NextNumber
  <2>. QED BY <2>1, NextFrame DEF GiveUpTarget, ReleaseTarget, Crash, Ended
<1>3. published' \in [Root -> Nat]
  BY GensFrame DEF PublishGeneration, Retain
<1>. QED BY <1>1, <1>2, <1>3

LEMMA LockStep ==
  ASSUME PlaceOK, NumbersOK, LockOK, NEW p \in Proc, Step(p)
  PROVE  LockOK'
<1>. USE DEF PlaceOK, NumbersOK, LockOK, Directory
<1>1. CASE LockTarget(p) \/ LockRoot(p)
  BY <1>1 DEF LockTarget, LockRoot
<1>2. CASE ReleaseRoot(p) \/ ReleaseTarget(p)
  BY <1>2, SizesAssumption DEF ReleaseRoot, ReleaseTarget, Unlock
<1>. QED BY <1>1, <1>2, LockFrame

LEMMA CargoStep ==
  ASSUME PlaceOK, NumbersOK, CargoOK, NEW p \in Proc, Step(p)
  PROVE  CargoOK'
<1>. USE DEF PlaceOK, NumbersOK, CargoOK
<1>1. CASE Cargo(p)
  <2>1. run[p] \in Nat /\ Len(bytes[run[p]]) \in Nat
    OBVIOUS
  <2>. QED BY <1>1, <2>1 DEF Cargo
<1>2. CASE ReadArtifact(p)
  <2>1. artifact[target[p]] \in Nat \X Nat
    OBVIOUS
  <2>2. \A b \in Run : Append(bytes[b], artifact[target[p]]) \in Seq(Nat \X Nat)
    BY <2>1
  <2>. QED BY <1>2, <2>2 DEF ReadArtifact
<1>. QED BY <1>1, <1>2, CargoFrame

LEMMA TreeStep ==
  ASSUME PlaceOK, NumbersOK, TreeOK, RunInv, NEW p \in Proc, Step(p)
  PROVE  TreeOK'
<1>. USE DEF PlaceOK, NumbersOK, TreeOK
<1>1. pc[p] # "idle" => run[p] \in Run
  BY DEF RunInv, Run
<1>2. files' \in [Run -> Nat]
  BY FilesFrame DEF WriteStagedFile, Retain
<1>3. gens' \in [Root -> SUBSET (Nat \X Run)]
  <2>1. CASE PublishGeneration(p)
    <3>1. <<next[p], run[p]>> \in Nat \X Run
      BY <1>1, <2>1 DEF PublishGeneration, Goto
    <3>. QED BY <2>1, <3>1 DEF PublishGeneration
  <2>. QED BY <2>1, GensFrame DEF Retain
<1>4. staging' \in [Root -> SUBSET Run] /\ old' \in SUBSET Run
  BY <1>1, StagingFrame DEF PruneStaging, CreateStaging, WriteStagedFile,
    PublishGeneration, Retain, Fail, Goto
<1>. QED BY <1>2, <1>3, <1>4

LEMMA LinkStep ==
  ASSUME PlaceOK, NumbersOK, LinkOK, NEW p \in Proc, Step(p)
  PROVE  LinkOK'
<1>. USE DEF PlaceOK, NumbersOK, LinkOK
<1>1. current' \in [Root -> Nat] /\ tmp' \in [Root -> Nat]
  <2>1. CASE LinkTmp(p)
    BY <2>1 DEF LinkTmp
  <2>2. CASE LinkTmpFails(p)
    <3>1. [tmp EXCEPT ![root[p]] = 0] \in [Root -> Nat]
      OBVIOUS
    <3>. QED BY <2>2, <3>1 DEF LinkTmpFails
  <2>3. CASE MoveAside(p) \/ InstallCurrent(p)
    BY <2>3 DEF MoveAside, InstallCurrent
  <2>. QED BY <2>1, <2>2, <2>3, LinkFrame
<1>2. aside' \in [Root -> [Proc -> Nat]]
  <2>1. [aside EXCEPT ![root[p]][p] = 0] \in [Root -> [Proc -> Nat]]
    OBVIOUS
  <2>2. CASE MoveAside(p)
    BY <2>2 DEF MoveAside
  <2>3. CASE MoveAsideFails(p) \/ DropAside(p)
    BY <2>1, <2>3 DEF MoveAsideFails, DropAside
  <2>. QED BY <2>2, <2>3, AsideFrame
<1>. QED BY <1>1, <1>2

LEMMA OutsideTypes == ASSUME TypeOK, Outside PROVE TypeOK'
<1>1. PlaceOK' /\ NumbersOK' /\ CargoOK' /\ LinkOK'
  BY OutsideFrame DEF TypeOK, PlaceOK, NumbersOK, CargoOK, LinkOK
<1>2. LockOK'
  <2>1. CASE \E d \in Directory : RemoveStaleLock(d)
    BY <2>1, SizesAssumption DEF TypeOK, LockOK, RemoveStaleLock
  <2>. QED BY <2>1 DEF Outside, TypeOK, LockOK, TimePasses, vars
<1>3. TreeOK'
  <2>1. old' \in SUBSET Run
    BY DEF Outside, TypeOK, TreeOK, RemoveStaleLock, TimePasses, vars, tree
  <2>. QED BY <2>1, OutsideFrame DEF TypeOK, TreeOK
<1>. QED BY <1>1, <1>2, <1>3 DEF TypeOK

LEMMA RunStep ==
  ASSUME PlaceOK, NumbersOK, LockOK, RunInv, NEW p \in Proc, Step(p)
  PROVE  RunInv'
<1>. USE DEF PlaceOK, NumbersOK, LockOK, RunInv, Goto, Ended, Directory, Unlock, process
<1>1. CASE Start(p) \/ LockTarget(p) \/ GiveUpTarget(p)
  BY <1>1 DEF Start, LockTarget, GiveUpTarget
<1>2. CASE GiveUpRoot(p) \/ Cargo(p) \/ ReadArtifact(p)
  BY <1>2 DEF GiveUpRoot, Cargo, ReadArtifact
<1>6. CASE LockRoot(p)
  BY <1>6 DEF LockRoot
<1>3. CASE Fail(p) \/ Crash(p)
  BY <1>3 DEF Fail, Crash
<1>5. CASE ReleaseTarget(p) \/ ReleaseRoot(p)
  BY <1>5 DEF ReleaseTarget, ReleaseRoot
<1>4. CASE Publish(p) /\ ~ReleaseTarget(p) /\ ~ReleaseRoot(p)
  BY <1>4 DEF Publish, PruneStaging, CreateStaging,
    WriteStagedFile, NextNumber, PublishGeneration, LinkTmp, LinkTmpFails,
    MoveAside, MoveAsideFails, InstallCurrent, InstallFails, DropAside, Retain
<1>. QED BY <1>1, <1>2, <1>3, <1>4, <1>5, <1>6 DEF Step, Build

LEMMA LockInvStep ==
  ASSUME PlaceOK, NumbersOK, LockOK, RunInv, LockInv, NEW p \in Proc, Step(p)
  PROVE  LockInv'
<1>. USE DEF PlaceOK, NumbersOK, LockOK, RunInv, LockInv, Goto, Ended, Directory,
  Unlock, process, Held, Owned, Exclusive
<1>1. CASE Start(p) \/ LockTarget(p) \/ GiveUpTarget(p)
  BY <1>1 DEF Start, LockTarget, GiveUpTarget
<1>2. CASE LockRoot(p)
  BY <1>2 DEF LockRoot
<1>3. CASE GiveUpRoot(p) \/ Cargo(p) \/ ReadArtifact(p)
  BY <1>3 DEF GiveUpRoot, Cargo, ReadArtifact
<1>4. CASE Fail(p) \/ Crash(p)
  BY <1>4 DEF Fail, Crash
<1>5. CASE ReleaseTarget(p) \/ ReleaseRoot(p)
  BY <1>5 DEF ReleaseTarget, ReleaseRoot
<1>6. CASE Publish(p) /\ ~ReleaseTarget(p) /\ ~ReleaseRoot(p)
  BY <1>6 DEF Publish, PruneStaging, CreateStaging,
    WriteStagedFile, NextNumber, PublishGeneration, LinkTmp, LinkTmpFails,
    MoveAside, MoveAsideFails, InstallCurrent, InstallFails, DropAside, Retain
<1>. QED BY <1>1, <1>2, <1>3, <1>4, <1>5, <1>6 DEF Step, Build

LEMMA OutsideLocks ==
  ASSUME CoreInv, Outside
  PROVE  RunInv' /\ LockInv'
<1>. USE SizesAssumption DEF CoreInv, TypeOK, PlaceOK, NumbersOK, LockOK, RunInv,
  LockInv, Directory, Held, Owned, Exclusive
<1>1. CASE \E d \in Directory : RemoveStaleLock(d)
  BY <1>1, OutsideFrame DEF RemoveStaleLock
<1>2. CASE UNCHANGED lock
  BY <1>2, OutsideFrame
<1>. QED BY <1>1, <1>2 DEF Outside, TimePasses, vars

LEMMA OwnStep ==
  ASSUME CoreInv, OwnInv, Fresh, NEW p \in Proc, Step(p), BytesAt(p)
  PROVE  OwnInv'
<1>1. CASE ReadArtifact(p)
  <2>. DEFINE b == run[p]
              a == artifact[target[p]]
  <2>1. b \in Run /\ a = <<b, Len(bytes[b])>> /\ a \in Nat \X Nat
    BY <1>1 DEF ReadArtifact, Goto, BytesAt, CoreInv, TypeOK, PlaceOK, NumbersOK,
      RunInv, CargoOK, Run
  <2>2. bytes' = [bytes EXCEPT ![b] = Append(bytes[b], a)]
    BY <1>1 DEF ReadArtifact
  <2>3. bytes \in [Run -> Seq(Nat \X Nat)]
    BY DEF CoreInv, TypeOK, CargoOK
  <2>. HIDE DEF b, a
  <2>4. ASSUME NEW i \in 1..Len(bytes'[b]) PROVE bytes'[b][i] = <<b, i - 1>>
    <3>1. bytes'[b] = Append(bytes[b], a) /\ bytes[b] \in Seq(Nat \X Nat)
      BY <2>1, <2>2, <2>3
    <3>2. CASE i \in 1..Len(bytes[b])
      BY <2>1, <3>1, <3>2 DEF OwnInv
    <3>3. CASE i = Len(bytes[b]) + 1
      BY <2>1, <3>1, <3>3
    <3>. QED BY <2>1, <3>1, <3>2, <3>3
  <2>. QED BY <2>1, <2>2, <2>3, <2>4 DEF OwnInv
<1>2. CASE UNCHANGED bytes
  BY <1>2 DEF OwnInv
<1>. QED BY <1>1, <1>2, CargoFrame DEF Cargo

LEMMA RunsGrow ==
  ASSUME NumbersOK, NEW p \in Proc, Step(p)
  PROVE  runs \in Nat /\ runs' \in Nat /\ runs' >= runs
<1>1. runs \in Nat
  BY DEF NumbersOK
<1>2. runs' = runs \/ runs' = runs + 1
  BY RunFrame DEF Start, GiveUpTarget, ReleaseTarget, Crash
<1>. QED BY <1>1, <1>2

LEMMA FreshStep ==
  ASSUME CoreInv, Fresh, PublishedBy, NEW p \in Proc, Step(p)
  PROVE  Fresh'
<1>. USE DEF CoreInv, TypeOK, NumbersOK, PlaceOK, RunInv, Fresh, Run
<1>1. runs \in Nat /\ runs' \in Nat /\ runs' >= runs
  BY RunsGrow
<1>2. CASE ReadArtifact(p)
  <2>1. UNCHANGED files /\ run[p] \in Run /\ run[p] <= runs
    BY <1>2 DEF ReadArtifact, tree, Goto
  <2>. QED BY <1>1, <1>2, <2>1 DEF ReadArtifact, CargoOK
<1>3. CASE WriteStagedFile(p)
  <2>1. UNCHANGED bytes /\ run[p] \in Run /\ run[p] <= runs
    BY <1>3 DEF WriteStagedFile, cargo, Goto
  <2>. QED BY <1>1, <1>3, <2>1 DEF WriteStagedFile, TreeOK
<1>4. CASE Retain(p)
  BY <1>1, <1>4 DEF Retain, cargo, TreeOK
<1>5. CASE UNCHANGED <<bytes, files>>
  BY <1>1, <1>5
<1>6. UNCHANGED bytes \/ ReadArtifact(p)
  BY CargoFrame DEF Cargo
<1>7. UNCHANGED files \/ WriteStagedFile(p) \/ Retain(p)
  BY FilesFrame
<1>. QED BY <1>2, <1>3, <1>4, <1>5, <1>6, <1>7

(* A build that was published stays in the last phases until its process    *)
(* ends.                                                                    *)
LEMMA AfterKept ==
  ASSUME PlaceOK, NumbersOK, NEW p \in Proc, Step(p), pc[p] \in After
  PROVE  run'[p] = 0 \/ (pc'[p] \in After /\ run'[p] = run[p])
<1>. USE DEF PlaceOK, NumbersOK, Goto, Ended, process, After
<1>1. CASE Build(p) \/ Fail(p) \/ Crash(p)
  BY <1>1 DEF Build, Start, LockTarget, GiveUpTarget, LockRoot, GiveUpRoot,
    Cargo, ReadArtifact, Fail, Crash
<1>2. CASE Publish(p)
  BY <1>2 DEF Publish, PruneStaging, CreateStaging,
    WriteStagedFile, NextNumber, PublishGeneration, LinkTmp, LinkTmpFails,
    MoveAside, MoveAsideFails, InstallCurrent, InstallFails, DropAside, Retain,
    ReleaseRoot, ReleaseTarget
<1>. QED BY <1>1, <1>2 DEF Step

(* The generations that were there keep their builds' phases.               *)
LEMMA PublishedKept ==
  ASSUME CoreInv, PublishedBy, NEW p \in Proc, Step(p),
         NEW r \in Root, NEW g \in gens[r]
  PROVE  /\ g[2] <= runs'
         /\ \A q \in Proc : g[2] = run'[q] => r = root'[q] /\ pc'[q] \in After
<1>. USE DEF CoreInv, TypeOK, NumbersOK, PlaceOK, TreeOK, Run
<1>1. g[2] \in Nat /\ g[2] # 0 /\ g[2] <= runs
  BY DEF PublishedBy
<1>2. /\ runs' \in Nat /\ runs' >= runs
      /\ run'[p] = run[p] \/ run'[p] = 0 \/ run'[p] = runs + 1
  BY RunFrame, RunsGrow DEF Start, GiveUpTarget, ReleaseTarget, Crash, Ended
<1>3. ASSUME NEW q \in Proc, g[2] = run'[q]
      PROVE  r = root'[q] /\ pc'[q] \in After
  <2>1. CASE q = p
    <3>1. run[p] = g[2]
      BY <1>1, <1>2, <1>3, <2>1
    <3>2. r = root[p] /\ pc[p] \in After
      BY <3>1 DEF PublishedBy
    <3>. QED BY <1>1, <1>3, <2>1, <3>2, AfterKept, PlaceFrame
  <2>2. CASE q # p
    <3>1. run[q] = g[2] /\ pc'[q] = pc[q] /\ root'[q] = root[q]
      BY <1>3, <2>2, PlaceFrame
    <3>. QED BY <3>1 DEF PublishedBy
  <2>. QED BY <2>1, <2>2
<1>. QED BY <1>1, <1>2, <1>3

LEMMA PublishedStep ==
  ASSUME CoreInv, GensInv, NEW p \in Proc, Step(p), NextAt(p)
  PROVE  GensInv'
<1>. USE DEF CoreInv, TypeOK, NumbersOK, PlaceOK, TreeOK, GensInv
<1>1. CASE PublishGeneration(p)
  <2>. DEFINE R == root[p]
              new == <<next[p], run[p]>>
  <2>1. /\ R \in Root /\ run[p] \in Run /\ run[p] <= runs /\ pc[p] = "rename"
        /\ next[p] = published[R] + 1 /\ next[p] \in Nat
        /\ UNCHANGED <<runs, run, root>> /\ pc'[p] = "link"
    BY <1>1 DEF PublishGeneration, Goto, process, NextAt, RunInv, Run
  <2>2. gens' = [gens EXCEPT ![R] = gens[R] \cup {new}]
    BY <1>1 DEF PublishGeneration
  <2>3. published' = [published EXCEPT ![R] = next[p]]
    <3>1. published[R] \in Nat /\ next[p] > published[R]
      BY <2>1
    <3>. QED BY <1>1, <3>1 DEF PublishGeneration
  <2>4. \A s \in Root : \A h \in gens[s] :
          /\ h \in Nat \X Nat /\ h[1] \in 1..published[s] /\ h[2] # run[p]
    <3>1. ASSUME NEW s \in Root, NEW h \in gens[s] PROVE h \in Nat \X Nat
      BY DEF Run
    <3>2. ASSUME NEW s \in Root, NEW h \in gens[s] PROVE h[2] # run[p]
      BY <2>1 DEF PublishedBy, After
    <3>. QED BY <3>1, <3>2 DEF PublishedLast
  <2>5. PublishedOnce'
    <3>1. \A s \in Root : \A h \in gens'[s] :
            h \in gens[s] \/ (s = R /\ h = new)
      BY <2>2
    <3>2. \A h \in gens[R] : h[1] # new[1]
      BY <2>1, <2>4
    <3>3. \A s \in Root : \A h \in gens[s] : h[2] # new[2]
      BY <2>4
    <3>. QED BY <3>1, <3>2, <3>3 DEF PublishedOnce
  <2>6. PublishedBy'
    <3>1. ASSUME NEW r \in Root, NEW g \in gens'[r]
          PROVE  /\ g[2] <= runs'
                 /\ \A q \in Proc : g[2] = run'[q] => r = root'[q] /\ pc'[q] \in After
      <4>1. CASE g \in gens[r]
        BY <4>1, PublishedKept
      <4>2. CASE r = R /\ g = new
        BY <2>1, <4>2 DEF After, RunInv, Run
      <4>. QED BY <2>2, <4>1, <4>2
    <3>. QED BY <3>1 DEF PublishedBy
  <2>7. PublishedLast'
    <3>1. ASSUME NEW r \in Root, NEW g \in gens'[r] PROVE g[1] \in 1..published'[r]
      BY <2>1, <2>2, <2>3, <2>4, <3>1
    <3>2. ASSUME NEW r \in Root, published'[r] # 0
          PROVE  published'[r] \in Numbers(gens'[r])
      <4>1. CASE r = R
        <5>1. new \in gens'[r] /\ published'[r] = new[1]
          BY <2>1, <2>2, <2>3, <4>1
        <5>. QED BY <5>1 DEF Numbers
      <4>2. CASE r # R
        BY <2>2, <2>3, <3>2, <4>2 DEF PublishedLast
      <4>. QED BY <4>1, <4>2
    <3>. QED BY <3>1, <3>2 DEF PublishedLast
  <2>. QED BY <2>5, <2>6, <2>7
<1>2. CASE Retain(p)
  <2>1. \A r \in Root : gens'[r] \subseteq gens[r]
    BY <1>2 DEF Retain
  <2>2. UNCHANGED published
    BY <1>2 DEF Retain
  <2>3. ASSUME NEW r \in Root, NEW g \in gens[r], g[1] = published[r]
        PROVE  g \in gens'[r]
    <3>1. \A n \in Numbers(gens[r]) : n \in Nat /\ n <= published[r]
      BY DEF Numbers, PublishedLast
    <3>2. g \notin Prunable(gens[r])
      BY <2>3, <3>1 DEF Prunable
    <3>. QED BY <1>2, <3>2 DEF Retain
  <2>4. PublishedOnce'
    BY <2>1 DEF PublishedOnce
  <2>5. PublishedBy'
    BY <2>1, PublishedKept DEF PublishedBy
  <2>6. PublishedLast'
    BY <2>1, <2>2, <2>3 DEF PublishedLast, Numbers
  <2>. QED BY <2>4, <2>5, <2>6
<1>3. CASE UNCHANGED <<gens, published>>
  <2>1. PublishedBy'
    BY <1>3, PublishedKept DEF PublishedBy
  <2>. QED BY <1>3, <2>1 DEF PublishedOnce, PublishedLast
<1>. QED BY <1>1, <1>2, <1>3, GensFrame

LEMMA CurrentStep ==
  ASSUME CoreInv, GensInv, BuildInv, CurrentInv, NEW p \in Proc, Step(p)
  PROVE  CurrentInv'
<1>. USE DEF CoreInv, TypeOK, NumbersOK, PlaceOK, TreeOK, LinkOK, GensInv
<1>. DEFINE W(g) == files[g[2]] = Files /\ Len(bytes[g[2]]) = Entries + 1
<1>1. SUFFICES ASSUME NEW r \in Root, current'[r] # 0
               PROVE  \E g \in gens'[r] : g[1] = current'[r] /\ W(g)'
  BY DEF CurrentInv
<1>2. CASE InstallCurrent(p) /\ r = root[p]
  <2>1. current'[r] = next[p] /\ pc[p] = "swap" /\ UNCHANGED <<gens, files, bytes>>
    BY <1>2 DEF InstallCurrent, Goto, tree, cargo, BuildInv, NextAt
  <2>2. <<next[p], run[p]>> \in gens[r] /\ files[run[p]] = Files
        /\ Len(bytes[run[p]]) = Entries + 1
    BY <1>2, <2>1 DEF BuildInv, NextAt, FilesAt, BytesAt, Linking, Staged
  <2>. QED BY <2>1, <2>2
<1>3. CASE current'[r] = current[r]
  <2>1. PICK g \in gens[r] : g[1] = current[r] /\ W(g)
    BY <1>1, <1>3 DEF CurrentInv
  <2>2. g[2] \in Run /\ g[2] <= runs
    BY DEF PublishedBy
  <2>3. bytes'[g[2]] = bytes[g[2]]
    <3>1. CASE ReadArtifact(p)
      <4>1. g[2] # run[p]
        BY <3>1 DEF ReadArtifact, Goto, PublishedBy, After
      <4>. QED BY <2>2, <3>1, <4>1 DEF ReadArtifact, CargoOK
    <3>. QED BY <3>1, CargoFrame DEF Cargo
  <2>4. g \in gens'[r] /\ files'[g[2]] = files[g[2]]
    <3>1. CASE WriteStagedFile(p)
      <4>1. g[2] # run[p] /\ UNCHANGED gens
        BY <3>1 DEF WriteStagedFile, Goto, PublishedBy, After
      <4>. QED BY <2>2, <3>1, <4>1 DEF WriteStagedFile
    <3>2. CASE Retain(p)
      <4>1. g \notin Prunable(gens[root[p]])
        <5>1. CASE r = root[p]
          <6>1. g[1] = published[r]
            BY <1>3, <2>1, <3>2, <5>1 DEF Retain, Goto, BuildInv, NextAt, Linking
          <6>2. \A n \in Numbers(gens[r]) : n \in Nat /\ n <= published[r]
            BY DEF Numbers, PublishedLast
          <6>. QED BY <5>1, <6>1, <6>2 DEF Prunable
        <5>2. CASE r # root[p]
          BY <5>2 DEF PublishedOnce, Prunable
        <5>. QED BY <5>1, <5>2
      <4>2. \A h \in Prunable(gens[root[p]]) : h[2] # g[2]
        BY <4>1 DEF PublishedOnce, Prunable
      <4>. QED BY <2>2, <3>2, <4>1, <4>2 DEF Retain
    <3>3. CASE PublishGeneration(p)
      BY <3>3 DEF PublishGeneration
    <3>. QED BY <3>1, <3>2, <3>3, FilesFrame, GensFrame
  <2>. QED BY <1>3, <2>1, <2>3, <2>4
<1>. QED BY <1>1, <1>2, <1>3, LinkFrame DEF InstallCurrent, MoveAside, LinkTmp, LinkTmpFails

(* The claims of a build in its phases: another process leaves them alone.  *)
LEMMA OthersBuild ==
  ASSUME CoreInv, GensInv, NEW p \in Proc, NEW q \in Proc, p # q, Step(p),
         BytesAt(q), FilesAt(q), NextAt(q)
  PROVE  BytesAt(q)' /\ FilesAt(q)' /\ NextAt(q)'
<1>1. /\ pc'[q] = pc[q] /\ run'[q] = run[q] /\ next'[q] = next[q]
      /\ target'[q] = target[q] /\ root'[q] = root[q]
  BY PlaceFrame DEF CoreInv, TypeOK
<1>2. CASE pc[q] = "idle"
  BY <1>1, <1>2 DEF BytesAt, FilesAt, NextAt, Staged, Linking
<1>3. CASE pc[q] # "idle"
  BY <1>1, <1>3, OthersKept DEF GensInv, BytesAt, FilesAt, NextAt, Staged, Linking,
    Exclusive
<1>. QED BY <1>2, <1>3

LEMMA BytesStep ==
  ASSUME CoreInv, Fresh, NEW p \in Proc, Step(p), BytesAt(p)
  PROVE  BytesAt(p)'
<1>. USE SizesAssumption DEF CoreInv, TypeOK, NumbersOK, PlaceOK, RunInv, CargoOK, Goto,
  BytesAt, Staged, Run
<1>1. CASE Start(p)
  BY <1>1 DEF Start, Fresh, cargo
<1>2. CASE Cargo(p)
  BY <1>2 DEF Cargo, process
<1>3. CASE ReadArtifact(p)
  <2>1. /\ run[p] \in Run /\ Len(bytes[run[p]]) \in Nat
        /\ Len(Append(bytes[run[p]], artifact[target[p]])) = Len(bytes[run[p]]) + 1
    BY <1>3 DEF ReadArtifact
  <2>. QED BY <1>3, <2>1 DEF ReadArtifact, process
<1>4. CASE LockTarget(p) \/ LockRoot(p)
  <2>1. pc[p] = "root" => Len(bytes[run[p]]) <= Entries
    OBVIOUS
  <2>. QED BY <1>4, <2>1 DEF LockTarget, LockRoot, cargo, process
<1>5. CASE GiveUpTarget(p) \/ GiveUpRoot(p)
  BY <1>5 DEF GiveUpTarget, GiveUpRoot, cargo, process, Ended
<1>6. CASE Fail(p) \/ Crash(p)
  BY <1>6 DEF Fail, Crash, Ended
<1>7. CASE Publish(p) /\ ~ReleaseTarget(p)
  <2>4. UNCHANGED <<run, target>>
    BY <1>7 DEF Publish, process, PruneStaging, CreateStaging, WriteStagedFile,
      NextNumber, PublishGeneration, LinkTmp, LinkTmpFails, MoveAside,
      MoveAsideFails, InstallCurrent, InstallFails, DropAside, Retain,
      ReleaseRoot
  <2>1. UNCHANGED cargo
    BY <1>7, CargoFrame DEF Publish, cargo, Cargo, ReadArtifact, PruneStaging,
      CreateStaging, WriteStagedFile, NextNumber, PublishGeneration, LinkTmp,
      LinkTmpFails, MoveAside, MoveAsideFails, InstallCurrent, InstallFails,
      DropAside, Retain, ReleaseRoot, ReleaseTarget
  <2>2. \/ pc[p] \in {"prune", "create", "write"} \cup Staged
        \/ pc'[p] \in {"release", "unlock", "idle"}
    BY <1>7 DEF Publish, PruneStaging, CreateStaging, WriteStagedFile,
      NextNumber, PublishGeneration, LinkTmp, LinkTmpFails, MoveAside,
      MoveAsideFails, InstallCurrent, InstallFails, DropAside, Retain,
      ReleaseRoot, ReleaseTarget
  <2>3. pc'[p] \notin {"target", "root", "cargo", "read"}
    BY <1>7 DEF Publish, PruneStaging, CreateStaging, WriteStagedFile,
      NextNumber, PublishGeneration, LinkTmp, LinkTmpFails, MoveAside,
      MoveAsideFails, InstallCurrent, InstallFails, DropAside, Retain,
      ReleaseRoot, ReleaseTarget
  <2>. QED BY <2>1, <2>2, <2>3, <2>4 DEF cargo
<1>8. CASE ReleaseTarget(p)
  <2>1. pc'[p] = "idle"
    BY <1>8 DEF ReleaseTarget
  <2>. QED BY <2>1
<1>. QED BY <1>1, <1>2, <1>3, <1>4, <1>5, <1>6, <1>7, <1>8 DEF Step, Build

LEMMA FilesStep ==
  ASSUME CoreInv, Fresh, GensInv, NEW p \in Proc, Step(p), FilesAt(p), NextAt(p)
  PROVE  FilesAt(p)'
<1>. USE SizesAssumption DEF CoreInv, TypeOK, NumbersOK, PlaceOK, RunInv, TreeOK, Goto,
  FilesAt, Staged, Run
<1>1. CASE Start(p)
  BY <1>1 DEF Start, Fresh, tree
<1>2. CASE WriteStagedFile(p)
  <2>1. run[p] \in Run /\ files[run[p]] \in Nat /\ Files \in Nat
    BY <1>2 DEF WriteStagedFile
  <2>. QED BY <1>2, <2>1 DEF WriteStagedFile, process
<1>3. CASE Retain(p)
  BY <1>3 DEF Retain, process
<1>4. CASE UNCHANGED files /\ Build(p) /\ ~Start(p)
  BY <1>4 DEF Build, process, LockTarget, GiveUpTarget, LockRoot, GiveUpRoot,
    Cargo, ReadArtifact, Ended
<1>5. CASE Fail(p) \/ Crash(p)
  BY <1>5 DEF Fail, Crash, Ended
<1>6. CASE UNCHANGED files /\ Publish(p) /\ ~WriteStagedFile(p) /\ ~Retain(p)
  BY <1>6 DEF Publish, process, Ended, PruneStaging, CreateStaging,
    NextNumber, PublishGeneration, LinkTmp, LinkTmpFails,
    MoveAside, MoveAsideFails, InstallCurrent, InstallFails, DropAside,
    ReleaseRoot, ReleaseTarget
<1>7. UNCHANGED files \/ WriteStagedFile(p) \/ Retain(p)
  BY FilesFrame
<1>8. Build(p) => UNCHANGED files
  BY DEF Build, tree, Start, LockTarget, GiveUpTarget, LockRoot, GiveUpRoot,
    Cargo, ReadArtifact
<1>. QED BY <1>1, <1>2, <1>3, <1>4, <1>5, <1>6, <1>7, <1>8 DEF Step

LEMMA NextAtStep ==
  ASSUME CoreInv, GensInv, NEW p \in Proc, Step(p), NextAt(p)
  PROVE  NextAt(p)'
<1>. USE DEF CoreInv, TypeOK, NumbersOK, PlaceOK, TreeOK, LinkOK, Goto, NextAt, Linking
<1>1. CASE NextNumber(p)
  BY <1>1, NewestIsPublished DEF NextNumber, GensInv, tree, process
<1>2. CASE PublishGeneration(p)
  BY <1>2 DEF PublishGeneration, process
<1>3. CASE Retain(p)
  BY <1>3 DEF Retain
<1>4. CASE LinkTmp(p) \/ LinkTmpFails(p)
  BY <1>4 DEF LinkTmp, LinkTmpFails, tree, process
<1>5. CASE MoveAside(p) \/ MoveAsideFails(p)
  BY <1>5 DEF MoveAside, MoveAsideFails, tree, process
<1>6. CASE InstallCurrent(p) \/ InstallFails(p)
  BY <1>6 DEF InstallCurrent, InstallFails, tree, process
<1>7. CASE DropAside(p)
  BY <1>7 DEF DropAside, tree, process
<1>8. CASE PruneStaging(p) \/ CreateStaging(p) \/ WriteStagedFile(p)
  BY <1>8 DEF PruneStaging, CreateStaging, WriteStagedFile
<1>9. CASE ReleaseRoot(p) \/ ReleaseTarget(p) \/ Fail(p) \/ Crash(p)
  BY <1>9 DEF ReleaseRoot, ReleaseTarget, Fail, Crash
<1>10. CASE Build(p)
  BY <1>10 DEF Build, Start, LockTarget, GiveUpTarget, LockRoot, GiveUpRoot,
    Cargo, ReadArtifact
<1>. QED BY <1>1, <1>2, <1>3, <1>4, <1>5, <1>6, <1>7, <1>8, <1>9, <1>10
  DEF Step, Publish

-----------------------------------------------------------------------------
LEMMA InitIInv == Init => IInv
<1>. SUFFICES ASSUME Init PROVE IInv
  OBVIOUS
<1>. USE SizesAssumption DEF Init, Directory, Run
<1>1. PlaceOK /\ NumbersOK /\ LockOK
  BY DEF PlaceOK, NumbersOK, LockOK
<1>2. CargoOK
  BY DEF CargoOK
<1>3. TreeOK /\ LinkOK
  BY DEF TreeOK, LinkOK
<1>4. RunInv /\ LockInv
  BY DEF RunInv, LockInv, Held, Owned, Exclusive
<1>5. OwnInv /\ Fresh
  BY DEF OwnInv, Fresh
<1>6. GensInv /\ CurrentInv
  BY DEF GensInv, PublishedOnce, PublishedBy, PublishedLast, CurrentInv
<1>7. BuildInv
  BY DEF BuildInv, BytesAt, FilesAt, NextAt, Staged, Linking
<1>. QED BY <1>1, <1>2, <1>3, <1>4, <1>5, <1>6, <1>7 DEF IInv, CoreInv, TypeOK

LEMMA NextIInv == IInv /\ [Next]_vars => IInv'
<1>. SUFFICES ASSUME IInv, [Next]_vars PROVE IInv'
  OBVIOUS
<1>0. /\ CoreInv /\ OwnInv /\ Fresh /\ GensInv /\ BuildInv /\ CurrentInv
      /\ TypeOK /\ PlaceOK /\ NumbersOK /\ LockOK /\ CargoOK /\ TreeOK /\ LinkOK
      /\ RunInv /\ LockInv /\ PublishedBy /\ PublishedLast
  BY DEF IInv, CoreInv, TypeOK, GensInv
<1>1. ASSUME NEW p \in Proc, Step(p) PROVE IInv'
  <2>1. TypeOK'
    BY <1>0, <1>1, PlaceStep, NumbersStep, LockStep, CargoStep, TreeStep, LinkStep
    DEF TypeOK
  <2>2. RunInv' /\ LockInv'
    BY <1>0, <1>1, RunStep, LockInvStep
  <2>3. BytesAt(p) /\ FilesAt(p) /\ NextAt(p)
    BY <1>0 DEF BuildInv
  <2>4. OwnInv' /\ Fresh' /\ GensInv' /\ CurrentInv'
    BY <1>0, <1>1, <2>3, OwnStep, FreshStep, PublishedStep, CurrentStep
  <2>5. ASSUME NEW q \in Proc PROVE (BytesAt(q) /\ FilesAt(q) /\ NextAt(q))'
    <3>1. CASE q = p
      BY <1>0, <1>1, <2>3, <3>1, BytesStep, FilesStep, NextAtStep
    <3>2. CASE q # p
      BY <1>0, <1>1, <3>2, OthersBuild DEF BuildInv
    <3>. QED BY <3>1, <3>2
  <2>6. BuildInv'
    BY <2>5 DEF BuildInv
  <2>. QED BY <2>1, <2>2, <2>4, <2>6 DEF IInv, CoreInv
<1>2. CASE Outside
  <2>1. TypeOK' /\ RunInv' /\ LockInv'
    BY <1>0, <1>2, OutsideTypes, OutsideLocks
  <2>2. OwnInv' /\ Fresh' /\ GensInv' /\ CurrentInv' /\ BuildInv'
    BY <1>0, <1>2, OutsideFrame DEF OwnInv, Fresh, GensInv, PublishedOnce, PublishedBy,
      PublishedLast, CurrentInv, BuildInv, BytesAt, FilesAt, NextAt
  <2>. QED BY <2>1, <2>2 DEF IInv, CoreInv
<1>. QED BY <1>1, <1>2, StepOrOutside

(* Every state the builds reach satisfies the invariant.                    *)
THEOREM BuildsInductive == Spec => []IInv
BY InitIInv, NextIInv, PTL DEF Spec

-----------------------------------------------------------------------------
(* Processes, locks, directories and links stay within their types.         *)
THEOREM BuildTypesCorrect == Spec => []TypeOK
<1>1. IInv => TypeOK
  BY DEF IInv, CoreInv
<1>. QED BY <1>1, BuildsInductive, PTL

(* For any number of concurrent builds, crashes and stale locks removed, no *)
(* two builds are in one target directory or one output root.               *)
THEOREM BuildsNeverOverlap == Spec => []BuildsExclude
<1>1. ASSUME IInv, NEW p \in Proc, NEW q \in Proc, p # q
      PROVE  /\ pc[p] \in Owned \cup Exclusive /\ pc[q] \in Owned \cup Exclusive
                  => target[p] # target[q]
             /\ pc[p] \in Exclusive /\ pc[q] \in Exclusive => root[p] # root[q]
  BY <1>1 DEF IInv, CoreInv, TypeOK, PlaceOK, RunInv, LockInv, Held, Owned, Exclusive
<1>2. IInv => BuildsExclude
  BY <1>1 DEF BuildsExclude
<1>. QED BY <1>2, BuildsInductive, PTL

(* Whatever failed or died on the way, `current` names a whole generation   *)
(* made from its own build's artifacts.                                     *)
THEOREM CurrentStaysWhole == Spec => []CurrentIsWhole
<1>1. ASSUME IInv, NEW b \in Run, Len(bytes[b]) = Entries + 1
      PROVE  bytes[b] = Own(b)
  <2>1. bytes[b] \in Seq(Nat \X Nat) /\ Entries + 1 \in Nat
    BY <1>1, SizesAssumption DEF IInv, CoreInv, TypeOK, CargoOK
  <2>2. bytes[b] = [i \in 1..Len(bytes[b]) |-> bytes[b][i]]
    BY <2>1
  <2>3. \A i \in 1..Entries + 1 : bytes[b][i] = <<b, i - 1>>
    BY <1>1 DEF IInv, OwnInv
  <2>. QED BY <1>1, <2>2, <2>3 DEF Own
<1>2. ASSUME IInv, NEW r \in Root, current[r] # 0
      PROVE  \E g \in gens[r] :
               g[1] = current[r] /\ files[g[2]] = Files /\ bytes[g[2]] = Own(g[2])
  <2>1. PICK g \in gens[r] : g[1] = current[r] /\ files[g[2]] = Files
                             /\ Len(bytes[g[2]]) = Entries + 1
    BY <1>2 DEF IInv, CurrentInv
  <2>2. g[2] \in Run
    BY <1>2 DEF IInv, CoreInv, TypeOK, TreeOK
  <2>. QED BY <1>1, <1>2, <2>1, <2>2
<1>3. IInv => CurrentIsWhole
  BY <1>2 DEF CurrentIsWhole
<1>. QED BY <1>3, BuildsInductive, PTL

(* `current` is only moved to the newest generation.                        *)
THEOREM CurrentMovesToLatest == Spec => CurrentIsLatest
<1>1. ASSUME IInv, IInv', NEW p \in Proc, Step(p), NEW r \in Root,
             current'[r] \notin {0, current[r]}
      PROVE  current'[r] = NewestOf(gens'[r])
  <2>. USE DEF IInv, CoreInv, TypeOK, PlaceOK, LinkOK
  <2>1. InstallCurrent(p) /\ r = root[p]
    BY <1>1, LinkFrame DEF LinkTmp, LinkTmpFails, MoveAside, InstallCurrent
  <2>2. current'[r] = next[p] /\ next[p] = published[r]
    BY <1>1, <2>1 DEF InstallCurrent, Goto, BuildInv, NextAt, Linking
  <2>3. NewestOf(gens[r]) = published[r] /\ UNCHANGED gens
    BY <1>1, <2>1, NewestIsPublished DEF GensInv, InstallCurrent, tree
  <2>. QED BY <2>2, <2>3
<1>2. ASSUME IInv, IInv', [Next]_vars
      PROVE  \A r \in Root : current'[r] \notin {0, current[r]} =>
               current'[r] = NewestOf(gens'[r])
  BY <1>1, <1>2, StepOrOutside, OutsideFrame
<1>3. IInv /\ IInv' /\ [Next]_vars =>
        [\A r \in Root : current'[r] \notin {0, current[r]} =>
           current'[r] = NewestOf(gens'[r])]_vars
  BY <1>2
<1>. QED BY <1>3, BuildsInductive, PTL DEF Spec, CurrentIsLatest

(* A generation number is given once.                                       *)
THEOREM NumbersGivenOnce == Spec => NumbersNeverReused
<1>1. ASSUME IInv, NEW p \in Proc, Step(p), NEW r \in Root,
             NEW g \in gens'[r] \ gens[r]
      PROVE  g[1] > published[r]
  <2>. USE DEF IInv, CoreInv, TypeOK, PlaceOK, TreeOK, NumbersOK
  <2>1. PublishGeneration(p) /\ r = root[p] /\ g = <<next[p], run[p]>>
    BY <1>1, GensFrame DEF PublishGeneration, Retain
  <2>2. next[p] = published[r] + 1
    BY <1>1, <2>1 DEF PublishGeneration, Goto, BuildInv, NextAt
  <2>. QED BY <1>1, <2>1, <2>2
<1>2. ASSUME IInv, [Next]_vars
      PROVE  \A r \in Root : \A g \in gens'[r] \ gens[r] : g[1] > published[r]
  BY <1>1, <1>2, StepOrOutside, OutsideFrame
<1>3. IInv /\ [Next]_vars =>
        [\A r \in Root : \A g \in gens'[r] \ gens[r] : g[1] > published[r]]_vars
  BY <1>2
<1>. QED BY <1>3, BuildsInductive, PTL DEF Spec, NumbersNeverReused
=============================================================================
