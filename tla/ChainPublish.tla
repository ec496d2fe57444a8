---------------------------- MODULE ChainPublish ----------------------------
(***************************************************************************)
(* rshooks build as the processes of a build host run it: the two lock     *)
(* files, the artifact that cargo keeps in the shared target directory,    *)
(* and the publication of a generation directory under an output root with *)
(* the `current` link to it (Unix).  A step is one call into the file      *)
(* system that others can see.  A process may fail at any call or die      *)
(* between two; time passes, and the user removes the lock of a dead       *)
(* build.  A process stands for a command line that is run again and       *)
(* again; a build is called by its number, and so is the one directory it  *)
(* creates.                                                                *)
(***************************************************************************)
EXTENDS Naturals, Sequences

CONSTANTS Proc, TargetDir, Root,
          Entries,  \* the entries #[hook] declares
          Files,    \* the files a build stages
          MaxRuns   \* bound: builds started

ASSUME SizesAssumption ==
  Entries \in Nat \ {0} /\ Files \in Nat \ {0} /\ MaxRuns \in Nat \ {0}

VARIABLES
  runs,                     \* builds started so far
  pc, run,                  \* process -> its place, its build or 0
  target, root,             \* process -> the directories it is given
  next,                     \* process -> the generation number it computed
  lock,                     \* directory -> the build in its .lock, or 0
  artifact,                 \* target directory -> cargo's <<build, step>>
  bytes,                    \* build -> what it read back, step by step
  files,                    \* build -> files in the directory it created
  old,                      \* builds with a directory past the grace period
  staging, gens,            \* root -> staging builds; <<number, build>> pairs
  current, tmp, aside,      \* root -> number linked to, or 0 (aside: by process)
  published                 \* root -> the highest number ever published

process == <<run, target, root>>
links == <<current, tmp, aside>>
tree == <<staging, gens, files, old, published>>
cargo == <<artifact, bytes>>
vars == <<runs, pc, process, next, lock, cargo, tree, links>>

Run == 1..MaxRuns
Directory == TargetDir \cup Root

Init ==
  /\ runs = 0
  /\ pc = [p \in Proc |-> "idle"] /\ run = [p \in Proc |-> 0]
  /\ target \in [Proc -> TargetDir] /\ root \in [Proc -> Root]
  /\ next = [p \in Proc |-> 0]
  /\ lock = [d \in Directory |-> 0]
  /\ artifact = [d \in TargetDir |-> <<0, 0>>]
  /\ bytes = [b \in Run |-> <<>>] /\ files = [b \in Run |-> 0] /\ old = {}
  /\ staging = [r \in Root |-> {}] /\ gens = [r \in Root |-> {}]
  /\ current = [r \in Root |-> 0] /\ tmp = [r \in Root |-> 0]
  /\ aside = [r \in Root |-> [p \in Proc |-> 0]]
  /\ published = [r \in Root |-> 0]

-----------------------------------------------------------------------------
Goto(p, from, to) == pc[p] = from /\ pc' = [pc EXCEPT ![p] = to]

(* The process is gone, with its local variables.                           *)
Ended(p) == run' = [run EXCEPT ![p] = 0] /\ next' = [next EXCEPT ![p] = 0]

Numbers(G) == {g[1] : g \in G}

(* list_generations(root)?.last(), 0 if there are none.                     *)
NewestOf(G) == CHOOSE n \in Numbers(G) \cup {0} : \A m \in Numbers(G) : m <= n

(* Dropping a LockGuard removes the file, whoever wrote it; an error is     *)
(* ignored.                                                                 *)
Unlock(d) == lock' \in {lock, [lock EXCEPT ![d] = 0]}

-----------------------------------------------------------------------------
(* run, up to the two locks.                                                *)

Start(p) ==
  /\ runs < MaxRuns /\ runs' = runs + 1
  /\ Goto(p, "idle", "target")
  /\ run' = [run EXCEPT ![p] = runs + 1]
  /\ UNCHANGED <<target, root, next, lock, cargo, tree, links>>

LockTargetAlways(p) ==
  /\ Goto(p, "target", "root")
  /\ lock' = [lock EXCEPT ![target[p]] = run[p]]
  /\ UNCHANGED <<runs, process, next, cargo, tree, links>>

LockTarget(p) ==
  /\ Goto(p, "target", "root")
  /\ lock[target[p]] = 0 /\ lock' = [lock EXCEPT ![target[p]] = run[p]]
  /\ UNCHANGED <<runs, process, next, cargo, tree, links>>

(* The wait for the target lock times out, or creating the file fails.      *)
GiveUpTarget(p) ==
  /\ Goto(p, "target", "idle")
  /\ Ended(p)
  /\ UNCHANGED <<runs, target, root, lock, cargo, tree, links>>

LockRootAlways(p) ==
  /\ Goto(p, "root", "cargo")
  /\ lock' = [lock EXCEPT ![root[p]] = run[p]]
  /\ UNCHANGED <<runs, process, next, cargo, tree, links>>

LockRoot(p) ==
  /\ Goto(p, "root", "cargo")
  /\ lock[root[p]] = 0 /\ lock' = [lock EXCEPT ![root[p]] = run[p]]
  /\ UNCHANGED <<runs, process, next, cargo, tree, links>>

(* Another build publishes to this root, or creating the file fails.        *)
GiveUpRoot(p) ==
  /\ Goto(p, "root", "unlock")
  /\ UNCHANGED <<runs, process, next, lock, cargo, tree, links>>

-----------------------------------------------------------------------------
(* run_discovery, then run_selected for each entry: cargo writes the shared *)
(* artifact and the process reads it back.                                  *)

Cargo(p) ==
  /\ Goto(p, "cargo", "read")
  /\ artifact' =
       [artifact EXCEPT ![target[p]] = <<run[p], Len(bytes[run[p]])>>]
  /\ UNCHANGED <<runs, process, next, lock, bytes, tree, links>>

ReadArtifact(p) ==
  /\ Goto(p, "read", IF Len(bytes[run[p]]) = Entries THEN "prune" ELSE "cargo")
  /\ bytes' = [bytes EXCEPT ![run[p]] = Append(@, artifact[target[p]])]
  /\ UNCHANGED <<runs, process, next, lock, artifact, tree, links>>

-----------------------------------------------------------------------------
(* publish.                                                                 *)

(* prune_stale_staging_dirs; a removal that fails is ignored.               *)
PruneStaging(p) ==
  /\ Goto(p, "prune", "create")
  /\ \E S \in SUBSET (staging[root[p]] \cap old) :
       staging' = [staging EXCEPT ![root[p]] = @ \ S]
  /\ UNCHANGED <<runs, process, next, lock, cargo, gens, files, old,
                 published, links>>

CreateStaging(p) ==
  /\ Goto(p, "create", "write")
  /\ staging' = [staging EXCEPT ![root[p]] = @ \cup {run[p]}]
  /\ UNCHANGED <<runs, process, next, lock, cargo, gens, files, old,
                 published, links>>

WriteStagedFile(p) ==
  /\ Goto(p, "write", IF files[run[p]] + 1 = Files THEN "number" ELSE "write")
  /\ files' = [files EXCEPT ![run[p]] = @ + 1]
  /\ old' = old \ {run[p]}
  /\ UNCHANGED <<runs, process, next, lock, cargo, staging, gens,
                 published, links>>

(* next_generation_number.                                                  *)
NextNumber(p) ==
  /\ Goto(p, "number", "rename")
  /\ next' = [next EXCEPT ![p] = NewestOf(gens[root[p]]) + 1]
  /\ UNCHANGED <<runs, process, lock, cargo, tree, links>>

(* rename fails on a directory that holds files, and the guard of staging   *)
(* is kept from removing it only now.                                       *)
PublishGeneration(p) ==
  LET r == root[p] IN
  /\ Goto(p, "rename", "link")
  /\ run[p] \in staging[r] /\ next[p] \notin Numbers(gens[r])
  /\ gens' = [gens EXCEPT ![r] = @ \cup {<<next[p], run[p]>>}]
  /\ staging' = [staging EXCEPT ![r] = @ \ {run[p]}]
  /\ published' = [published EXCEPT ![r] = IF next[p] > @ THEN next[p] ELSE @]
  /\ UNCHANGED <<runs, process, next, lock, cargo, files, old, links>>

-----------------------------------------------------------------------------
(* update_current and swap_current_entry.                                   *)

LinkTmpKept(p) ==
  /\ Goto(p, "link", "aside")
  /\ tmp' = [tmp EXCEPT ![root[p]] = IF @ = 0 THEN next[p] ELSE @]
  /\ UNCHANGED <<runs, process, next, lock, cargo, tree, current, aside>>

(* remove_entry(&tmp), then symlink; the link cannot be made over an entry  *)
(* that could not be removed.                                               *)
LinkTmp(p) ==
  /\ Goto(p, "link", "aside")
  /\ tmp' = [tmp EXCEPT ![root[p]] = next[p]]
  /\ UNCHANGED <<runs, process, next, lock, cargo, tree, current, aside>>

LinkTmpFails(p) ==
  /\ Goto(p, "link", "release")
  /\ tmp' \in {tmp, [tmp EXCEPT ![root[p]] = 0]}
  /\ UNCHANGED <<runs, process, next, lock, cargo, tree, current, aside>>

(* remove_entry(&old) and the rename of current, if there is one.           *)
MoveAside(p) ==
  LET r == root[p] IN
  /\ Goto(p, "aside", "swap")
  /\ aside' = [aside EXCEPT ![r][p] = current[r]]
  /\ current' = [current EXCEPT ![r] = 0]
  /\ UNCHANGED <<runs, process, next, lock, cargo, tree, tmp>>

MoveAsideFails(p) ==
  /\ Goto(p, "aside", "release")
  /\ aside' \in {aside, [aside EXCEPT ![root[p]][p] = 0]}
  /\ UNCHANGED <<runs, process, next, lock, cargo, tree, current, tmp>>

InstallCurrent(p) ==
  LET r == root[p] IN
  /\ Goto(p, "swap", "drop")
  /\ current' = [current EXCEPT ![r] = tmp[r]]
  /\ tmp' = [tmp EXCEPT ![r] = 0]
  /\ UNCHANGED <<runs, process, next, lock, cargo, tree, aside>>

InstallFails(p) ==
  /\ Goto(p, "swap", "dropFailed")
  /\ UNCHANGED <<runs, process, next, lock, cargo, tree, links>>

(* The entry moved aside is removed, whether or not the other took its      *)
(* place; an error is ignored.                                              *)
DropAside(p) ==
  /\ Goto(p, "drop", "retain") \/ Goto(p, "dropFailed", "release")
  /\ aside' \in {aside, [aside EXCEPT ![root[p]][p] = 0]}
  /\ UNCHANGED <<runs, process, next, lock, cargo, tree, current, tmp>>

-----------------------------------------------------------------------------
(* The generations outside the newest two whose grace period is over.       *)
PrunableButOne(G) ==
  {g \in G : g[2] \in old /\ g[1] <= NewestOf(G)}

Prunable(G) ==
  {g \in G : /\ g[2] \in old
             /\ \E m, n \in Numbers(G) : g[1] < m /\ m < n}

(* Each removal may succeed, fail, or fail with some of the files gone.     *)
Retain(p) ==
  LET r == root[p] IN
  /\ Goto(p, "retain", "release")
  /\ \E removed \in SUBSET Prunable(gens[r]) :
     \E gutted \in SUBSET (Prunable(gens[r]) \ removed) :
       LET B == {g[2] : g \in gutted} IN
       /\ gens' = [gens EXCEPT ![r] = @ \ removed]
       /\ files' = [b \in Run |-> IF b \in B THEN 0 ELSE files[b]]
       /\ old' = old \ B
  /\ UNCHANGED <<runs, process, next, lock, cargo, staging, published, links>>

(* _root_lock is dropped first, then _target_lock.                          *)
ReleaseRoot(p) ==
  /\ Goto(p, "release", "unlock")
  /\ Unlock(root[p])
  /\ UNCHANGED <<runs, process, next, cargo, tree, links>>

ReleaseTarget(p) ==
  /\ Goto(p, "unlock", "idle")
  /\ Unlock(target[p])
  /\ Ended(p)
  /\ UNCHANGED <<runs, target, root, cargo, tree, links>>

-----------------------------------------------------------------------------
(* An error before the generation exists: the TempDir removes the staging   *)
(* directory if it can, the guards remove the locks.                        *)
Fail(p) ==
  /\ pc[p] \in {"cargo", "read", "create", "write", "number", "rename"}
  /\ pc' = [pc EXCEPT ![p] = "release"]
  /\ staging' \in {staging, [staging EXCEPT ![root[p]] = @ \ {run[p]}]}
  /\ UNCHANGED <<runs, process, next, lock, cargo, gens, files, old,
                 published, links>>

Crash(p) ==
  /\ pc[p] # "idle" /\ pc' = [pc EXCEPT ![p] = "idle"]
  /\ Ended(p)
  /\ UNCHANGED <<runs, target, root, lock, cargo, tree, links>>

(* "If you're certain no build is running ... remove the file and retry".   *)
RemoveStaleLock(d) ==
  /\ lock[d] # 0 /\ \A p \in Proc : run[p] # lock[d]
  /\ lock' = [lock EXCEPT ![d] = 0]
  /\ UNCHANGED <<runs, pc, process, next, cargo, tree, links>>

TimePasses ==
  /\ old' = UNION {staging[r] \cup {g[2] : g \in gens[r]} : r \in Root}
  /\ UNCHANGED <<runs, pc, process, next, lock, cargo, staging, gens, files,
                 published, links>>

Build(p) ==
  \/ Start(p)
  \/ LockTarget(p) \/ GiveUpTarget(p) \/ LockRoot(p) \/ GiveUpRoot(p)
  \/ Cargo(p) \/ ReadArtifact(p)

Publish(p) ==
  \/ PruneStaging(p) \/ CreateStaging(p) \/ WriteStagedFile(p)
  \/ NextNumber(p) \/ PublishGeneration(p)
  \/ LinkTmp(p) \/ LinkTmpFails(p) \/ MoveAside(p) \/ MoveAsideFails(p)
  \/ InstallCurrent(p) \/ InstallFails(p) \/ DropAside(p)
  \/ Retain(p) \/ ReleaseRoot(p) \/ ReleaseTarget(p)

Step(p) == Build(p) \/ Publish(p) \/ Fail(p) \/ Crash(p)

Next ==
  \/ \E p \in Proc : Step(p)
  \/ \E d \in Directory : RemoveStaleLock(d)
  \/ TimePasses

Spec == Init /\ [][Next]_vars

-----------------------------------------------------------------------------
Owned == {"root", "unlock"}
Exclusive ==
  {"cargo", "read", "prune", "create", "write", "number", "rename", "link",
   "aside", "swap", "drop", "dropFailed", "retain", "release"}

PlaceOK ==
  /\ pc \in [Proc -> {"idle", "target"} \cup Owned \cup Exclusive]
  /\ target \in [Proc -> TargetDir] /\ root \in [Proc -> Root]

NumbersOK ==
  /\ runs \in 0..MaxRuns /\ run \in [Proc -> 0..MaxRuns]
  /\ next \in [Proc -> Nat] /\ published \in [Root -> Nat]

LockOK == lock \in [Directory -> 0..MaxRuns]

CargoOK ==
  /\ artifact \in [TargetDir -> Nat \X Nat]
  /\ bytes \in [Run -> Seq(Nat \X Nat)]

TreeOK ==
  /\ files \in [Run -> Nat] /\ old \in SUBSET Run
  /\ staging \in [Root -> SUBSET Run]
  /\ gens \in [Root -> SUBSET (Nat \X Run)]

LinkOK ==
  /\ current \in [Root -> Nat] /\ tmp \in [Root -> Nat]
  /\ aside \in [Root -> [Proc -> Nat]]

TypeOK == PlaceOK /\ NumbersOK /\ LockOK /\ CargoOK /\ TreeOK /\ LinkOK

(* Two builds never work in one target directory or publish to one root at  *)
(* the same time, although a lock file outlives a build that died and its   *)
(* removal asks nobody (acquire_lock_with, LockGuard::drop).                *)
BuildsExclude ==
  \A p, q \in Proc : p # q =>
    /\ pc[p] \in Owned \cup Exclusive /\ pc[q] \in Owned \cup Exclusive
         => target[p] # target[q]
    /\ pc[p] \in Exclusive /\ pc[q] \in Exclusive => root[p] # root[q]

(* What `current` names, while there is one, is a generation that exists,   *)
(* that holds every staged file, and whose files were made from what this   *)
(* build's own cargo runs left in the shared directory, whatever failed or  *)
(* died before and whatever was pruned since (publish).                     *)
Own(b) == [i \in 1..Entries + 1 |-> <<b, i - 1>>]

CurrentIsWhole ==
  \A r \in Root : current[r] # 0 =>
    \E g \in gens[r] :
      g[1] = current[r] /\ files[g[2]] = Files /\ bytes[g[2]] = Own(g[2])

(* `current` is only ever made to point at the newest generation: an entry  *)
(* that a dead or failed build left at current.tmp is not installed, and    *)
(* nobody publishes between the link and the swap (update_current).         *)
CurrentIsLatest ==
  [][\A r \in Root : current'[r] \notin {0, current[r]} =>
       current'[r] = NewestOf(gens'[r])]_vars

(* A generation number means one build for ever: it is never given again,   *)
(* not even after its directory was pruned or `current` could not be moved  *)
(* to it (next_generation_number, retain_latest_generations).               *)
NumbersNeverReused ==
  [][\A r \in Root : \A g \in gens'[r] \ gens[r] : g[1] > published[r]]_vars

(* What publish says of itself: on any failure `current` is left untouched. *)
(* A build whose second rename failed has moved the old entry aside; it     *)
(* should go on to its end with `current` as it was before.                 *)
FailureKeepsCurrent ==
  [][\A p \in Proc : pc[p] = "dropFailed" /\ pc'[p] = "release" =>
       current'[root[p]] = aside[root[p]][p]]_vars
=============================================================================
