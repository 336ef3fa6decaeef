-------------------------- MODULE CutoverLock_proofs --------------------------
(***************************************************************************)
(* Proofs about CutoverLock, for any number of activations and recoveries.  *)
(* Core is inductive for recoveries that overlap as they like, as long as   *)
(* each moves aside what it has read (CaptureIsACas); so the lock is right  *)
(* wherever its rename is the compare-and-swap its comment takes it for.    *)
(* Recoveries that do not overlap make it one; what CutoverContenders.cfg   *)
(* shows of overlapping ones is a rename that is not.                       *)
(***************************************************************************)
EXTENDS CutoverLock, TLAPS

(* A command begins.                                                     *)
LEMMA StartPrivateCore ==
  ASSUME Core, NEW a \in Private, StartPrivate(a)
  PROVE  Core'
<1> USE ProcsAssumption DEF StartPrivate, Goto, dirs, Procs, Activators
<1>1. TypeOK'
  BY DEF Core, TypeOK, Stages, Inside
<1>2. DirectoriesAreFresh'
  BY DEF Core, TypeOK, DirectoriesAreFresh, Holds, Unmade, Inside, Reads
<1>3. DirectoriesAreApart'
  BY DEF Core, TypeOK, DirectoriesAreApart
<1>4. SeenAreOver'
  BY DEF Core, TypeOK, SeenAreOver, DirectoriesAreFresh, Unmade, Reads, Running, Inside
<1>5. HoldersHold'
  BY DEF Core, TypeOK, HoldersHold, Holding, DirectoriesAreFresh, Holds, Inside
<1> QED
  BY <1>1, <1>2, <1>3, <1>4, <1>5 DEF Core

(* And a public one.                                                      *)
LEMMA StartPublicCore ==
  ASSUME Core, NEW a \in Public, StartPublic(a)
  PROVE  Core'
<1> USE ProcsAssumption DEF StartPublic, Goto, dirs, Procs, Activators
<1>1. TypeOK'
  BY DEF Core, TypeOK, Stages, Inside
<1>2. DirectoriesAreFresh'
  BY DEF Core, TypeOK, DirectoriesAreFresh, Holds, Unmade, Inside, Reads
<1>3. DirectoriesAreApart'
  BY DEF Core, TypeOK, DirectoriesAreApart
<1>4. SeenAreOver'
  BY DEF Core, TypeOK, SeenAreOver, DirectoriesAreFresh, Unmade, Reads, Running, Inside
<1>5. HoldersHold'
  BY DEF Core, TypeOK, HoldersHold, Holding, DirectoriesAreFresh, Holds, Inside
<1> QED
  BY <1>1, <1>2, <1>3, <1>4, <1>5 DEF Core

(* A recovery begins when nothing else of its kind runs.                 *)
LEMMA StartRecoveryCore ==
  ASSUME Core, NEW r \in Recoverers, StartRecovery(r)
  PROVE  Core'
<1> USE ProcsAssumption DEF StartRecovery, Goto, dirs, Procs, Activators
<1>1. TypeOK'
  BY DEF Core, TypeOK, Stages, Inside
<1>2. DirectoriesAreFresh'
  BY DEF Core, TypeOK, DirectoriesAreFresh, Holds, Unmade, Inside, Reads
<1>3. DirectoriesAreApart'
  BY DEF Core, TypeOK, DirectoriesAreApart
<1>4. SeenAreOver'
  BY DEF Core, TypeOK, SeenAreOver, DirectoriesAreFresh, Unmade, Reads, Running, Inside
<1>5. HoldersHold'
  BY DEF Core, TypeOK, HoldersHold, Holding, DirectoriesAreFresh, Holds, Inside
<1> QED
  BY <1>1, <1>2, <1>3, <1>4, <1>5 DEF Core

(* The new directory is where no other was.                              *)
LEMMA MkdirCore ==
  ASSUME Core, NEW p \in Procs, Mkdir(p)
  PROVE  Core'
<1> USE ProcsAssumption DEF Mkdir, Goto, dirs, Procs, Activators
<1>1. TypeOK'
  BY DEF Core, TypeOK, Stages, Inside
<1>2. DirectoriesAreFresh'
  BY DEF Core, TypeOK, DirectoriesAreFresh, HoldersHold, Holds, Unmade, Inside, Running,
     Reads
<1>3. DirectoriesAreApart'
  BY DEF Core, TypeOK, DirectoriesAreApart, DirectoriesAreFresh, Unmade
<1>4. SeenAreOver'
  BY DEF Core, TypeOK, SeenAreOver, DirectoriesAreFresh, Unmade, Reads, Running, Inside
<1>5. HoldersHold'
  BY DEF Core, TypeOK, HoldersHold, Holding, DirectoriesAreFresh, Holds, Inside
<1> QED
  BY <1>1, <1>2, <1>3, <1>4, <1>5 DEF Core

(* What is read of a dead owner stays true until the capture.            *)
LEMMA ObserveCore ==
  ASSUME Core, NEW r \in Recoverers, Observe(r)
  PROVE  Core'
<1> USE ProcsAssumption DEF Observe, Goto, dirs, Procs, Activators
<1>1. TypeOK'
  BY DEF Core, TypeOK, Stages, Inside
<1>2. DirectoriesAreFresh'
  BY DEF Core, TypeOK, DirectoriesAreFresh, HoldersHold, Holds, Unmade, Inside, Running,
     Reads
<1>3. DirectoriesAreApart'
  BY DEF Core, TypeOK, DirectoriesAreApart
<1>4. SeenAreOver'
  BY DEF Core, TypeOK, SeenAreOver, DirectoriesAreFresh, Unmade, Reads, Running, Inside
<1>5. HoldersHold'
  BY DEF Core, TypeOK, HoldersHold, Holding, DirectoriesAreFresh, Holds, Reads, Inside
<1> QED
  BY <1>1, <1>2, <1>3, <1>4, <1>5 DEF Core

(* An owner found replaceable is dead and still in its place.             *)
LEMMA JudgeCore ==
  ASSUME Core, NEW r \in Recoverers, Judge(r)
  PROVE  Core'
<1> USE ProcsAssumption DEF Judge, Goto, dirs, Procs, Activators
<1>1. TypeOK'
  BY DEF Core, TypeOK, Stages, Inside
<1>2. DirectoriesAreFresh'
  BY DEF Core, TypeOK, DirectoriesAreFresh, Holds, Unmade, Inside, Reads
<1>3. DirectoriesAreApart'
  BY DEF Core, TypeOK, DirectoriesAreApart
<1>4. SeenAreOver'
  BY DEF Core, TypeOK, SeenAreOver, DirectoriesAreFresh, Unmade, Replaceable, Running
<1>5. HoldersHold'
  BY DEF Core, TypeOK, HoldersHold, Holding, DirectoriesAreFresh, Holds, Inside
<1> QED
  BY <1>1, <1>2, <1>3, <1>4, <1>5 DEF Core

(* The captured directory belongs to nobody at work.                     *)
LEMMA CaptureCore ==
  ASSUME Core, NEW r \in Recoverers, Capture(r), CapturesWhatItRead
  PROVE  Core'
<1> USE ProcsAssumption DEF Capture, Goto, dirs, Procs, Activators
<1>1. TypeOK'
  BY DEF Core, TypeOK, Stages, Inside
<1>2. DirectoriesAreFresh'
  BY DEF Core, TypeOK, DirectoriesAreFresh, HoldersHold, Holds, Unmade, Inside, Running,
     Reads
<1>3. DirectoriesAreApart'
  BY DEF Core, TypeOK, DirectoriesAreApart, DirectoriesAreFresh
<1>4. SeenAreOver'
  <2>1. \E stage \in {"compare", "gone"} : pc' = [pc EXCEPT ![r] = stage]
    OBVIOUS
  <2>2. UNCHANGED <<seen, written>>
    OBVIOUS
  <2>3. \A p \in Procs : pc[p] = "gone" => pc'[p] = "gone"
    <3>1. pc[r] = "capture" /\ pc \in [Procs -> Stages]
      BY DEF Core, TypeOK
    <3> QED
      BY <2>1, <3>1
  <2>4. \A q \in Recoverers : pc'[q] \in {"judge", "capture"} => pc'[q] = pc[q]
    BY <2>1 DEF Core, TypeOK
  <2>5. ASSUME NEW q \in Recoverers
        PROVE  /\ pc'[q] = "judge" => seen[q] \in written
               /\ pc'[q] = "capture" => seen[q] \in Procs /\ pc'[seen[q]] = "gone"
    <3>1. /\ pc[q] = "judge" => seen[q] \in written
          /\ pc[q] = "capture" => seen[q] \in Procs /\ pc[seen[q]] = "gone"
      BY DEF Core, SeenAreOver
    <3> QED
      BY <2>3, <2>4, <3>1
  <2> QED
    BY <2>2, <2>5 DEF SeenAreOver
<1>5. HoldersHold'
  <2>1. pc[r] = "capture" /\ pc \in [Procs -> Stages] /\ aside \in [Recoverers -> Procs \cup {None}]
    BY DEF Core, TypeOK
  <2>2. \A p \in Procs : pc'[p] \in Holding => p # r /\ pc[p] \in Holding /\ pc'[p] = pc[p]
    BY <2>1 DEF Holding, Inside
  <2>3. CASE lock = None
    BY <2>2, <2>3 DEF Core, HoldersHold, Holds
  <2>4. CASE lock # None
    <3>1. aside'[r] = lock /\ aside[r] # lock
      BY <2>1, <2>4 DEF Core, DirectoriesAreApart
    <3>2. Reads(lock, seen[r])
      BY <2>4, <3>1 DEF CapturesWhatItRead
    <3>3. pc[seen[r]] = "gone"
      BY <2>1 DEF Core, SeenAreOver
    <3>4. \A p \in Procs : pc[p] \notin Holding
      BY <3>2, <3>3 DEF Core, HoldersHold, Holding, Holds, Reads, Inside
    <3> QED
      BY <2>2, <3>4 DEF HoldersHold
  <2> QED
    BY <2>3, <2>4
<1> QED
  BY <1>1, <1>2, <1>3, <1>4, <1>5 DEF Core

(* The owner that was captured is compared, nothing moves.                *)
LEMMA CompareCore ==
  ASSUME Core, NEW r \in Recoverers, Compare(r)
  PROVE  Core'
<1> USE ProcsAssumption DEF Compare, Goto, dirs, Procs, Activators
<1>1. TypeOK'
  BY DEF Core, TypeOK, Stages, Inside
<1>2. DirectoriesAreFresh'
  BY DEF Core, TypeOK, DirectoriesAreFresh, Holds, Unmade, Inside, Reads
<1>3. DirectoriesAreApart'
  BY DEF Core, TypeOK, DirectoriesAreApart
<1>4. SeenAreOver'
  BY DEF Core, TypeOK, SeenAreOver, DirectoriesAreFresh, Unmade, Reads, Running, Inside
<1>5. HoldersHold'
  BY DEF Core, TypeOK, HoldersHold, Holding, DirectoriesAreFresh, Holds, Inside
<1> QED
  BY <1>1, <1>2, <1>3, <1>4, <1>5 DEF Core

(* The directory that is prepared is a fresh one.                         *)
LEMMA PrepareCore ==
  ASSUME Core, NEW r \in Recoverers, Prepare(r)
  PROVE  Core'
<1> USE ProcsAssumption DEF Prepare, Goto, dirs, Procs, Activators
<1>1. TypeOK'
  BY DEF Core, TypeOK, Stages, Inside
<1>2. DirectoriesAreFresh'
  BY DEF Core, TypeOK, DirectoriesAreFresh, HoldersHold, Holds, Unmade, Inside, Reads
<1>3. DirectoriesAreApart'
  BY DEF Core, TypeOK, DirectoriesAreApart
<1>4. SeenAreOver'
  BY DEF Core, TypeOK, SeenAreOver, DirectoriesAreFresh, Unmade, Reads, Running, Inside
<1>5. HoldersHold'
  BY DEF Core, TypeOK, HoldersHold, Holding, DirectoriesAreFresh, DirectoriesAreApart,
     Holds, Unmade, Inside
<1> QED
  BY <1>1, <1>2, <1>3, <1>4, <1>5 DEF Core

(* The path is free or empty, so no process holds the lock.              *)
LEMMA InstallCore ==
  ASSUME Core, NEW r \in Recoverers, Install(r)
  PROVE  Core'
<1> USE ProcsAssumption DEF Install, Goto, dirs, Procs, Activators
<1>1. TypeOK'
  BY DEF Core, TypeOK, Stages, Inside
<1>2. DirectoriesAreFresh'
  BY DEF Core, TypeOK, DirectoriesAreFresh, HoldersHold, Holds, Unmade, Inside, Running,
     Reads
<1>3. DirectoriesAreApart'
  BY DEF Core, TypeOK, DirectoriesAreApart, DirectoriesAreFresh, Unmade
<1>4. SeenAreOver'
  BY DEF Core, TypeOK, SeenAreOver, DirectoriesAreFresh, Unmade, Reads, Running, Inside
<1>5. HoldersHold'
  BY DEF Core, TypeOK, HoldersHold, Holding, DirectoriesAreFresh, DirectoriesAreApart,
     Holds, Empty, MayRename, Unmade, Inside
<1> QED
  BY <1>1, <1>2, <1>3, <1>4, <1>5 DEF Core

(* What was moved aside is not the lock.                                 *)
LEMMA DiscardCore ==
  ASSUME Core, NEW r \in Recoverers, Discard(r)
  PROVE  Core'
<1> USE ProcsAssumption DEF Discard, Goto, dirs, Procs, Activators
<1>1. TypeOK'
  BY DEF Core, TypeOK, Stages, Inside
<1>2. DirectoriesAreFresh'
  BY DEF Core, TypeOK, DirectoriesAreFresh, Holds, Unmade, Inside, Reads
<1>3. DirectoriesAreApart'
  BY DEF Core, TypeOK, DirectoriesAreApart
<1>4. SeenAreOver'
  BY DEF Core, TypeOK, SeenAreOver, DirectoriesAreFresh, Unmade, Reads, Running, Inside
<1>5. HoldersHold'
  BY DEF Core, TypeOK, HoldersHold, Holding, DirectoriesAreFresh, DirectoriesAreApart,
     Holds
<1> QED
  BY <1>1, <1>2, <1>3, <1>4, <1>5 DEF Core

(* Put back only where no process holds the lock.                        *)
LEMMA RestoreCore ==
  ASSUME Core, NEW r \in Recoverers, Restore(r)
  PROVE  Core'
<1> USE ProcsAssumption DEF Restore, Goto, dirs, Procs, Activators
<1>1. TypeOK'
  BY DEF Core, TypeOK, Stages, Inside
<1>2. DirectoriesAreFresh'
  BY DEF Core, TypeOK, DirectoriesAreFresh, HoldersHold, Holds, Unmade, Inside, Reads
<1>3. DirectoriesAreApart'
  BY DEF Core, TypeOK, DirectoriesAreApart, DirectoriesAreFresh
<1>4. SeenAreOver'
  BY DEF Core, TypeOK, SeenAreOver, DirectoriesAreFresh, Unmade, Reads, Running, Inside
<1>5. HoldersHold'
  BY DEF Core, TypeOK, HoldersHold, Holding, DirectoriesAreFresh, DirectoriesAreApart,
     Holds, Empty, MayRename, Inside
<1> QED
  BY <1>1, <1>2, <1>3, <1>4, <1>5 DEF Core

(* A look into the lock changes nothing.                                  *)
LEMMA LookCore ==
  ASSUME Core, NEW p \in Procs, Look(p)
  PROVE  Core'
<1> USE ProcsAssumption DEF Look, Goto, dirs, Procs, Activators
<1>1. TypeOK'
  BY DEF Core, TypeOK, Stages, Inside
<1>2. DirectoriesAreFresh'
  BY DEF Core, TypeOK, DirectoriesAreFresh, Holds, Unmade, Inside, Reads
<1>3. DirectoriesAreApart'
  BY DEF Core, TypeOK, DirectoriesAreApart
<1>4. SeenAreOver'
  BY DEF Core, TypeOK, SeenAreOver, DirectoriesAreFresh, Unmade, Reads, Running, Inside
<1>5. HoldersHold'
  BY DEF Core, TypeOK, HoldersHold, Holding, DirectoriesAreFresh, Holds, Reads, Inside
<1> QED
  BY <1>1, <1>2, <1>3, <1>4, <1>5 DEF Core

(* Only an empty directory gets an owner.                                *)
LEMMA CreateCore ==
  ASSUME Core, NEW p \in Procs, Create(p)
  PROVE  Core'
<1> USE ProcsAssumption DEF Create, Goto, dirs, Procs, Activators
<1>1. TypeOK'
  BY DEF Core, TypeOK, Stages, Inside
<1>2. DirectoriesAreFresh'
  BY DEF Core, TypeOK, DirectoriesAreFresh, HoldersHold, Holds, Unmade, Inside, Running,
     Reads
<1>3. DirectoriesAreApart'
  BY DEF Core, TypeOK, DirectoriesAreApart
<1>4. SeenAreOver'
  BY DEF Core, TypeOK, SeenAreOver, DirectoriesAreFresh, Unmade, Reads, Running, Inside
<1>5. HoldersHold'
  BY DEF Core, TypeOK, HoldersHold, Holding, DirectoriesAreFresh, Holds, Empty, Inside
<1> QED
  BY <1>1, <1>2, <1>3, <1>4, <1>5 DEF Core

(* The owner writes the file it has created.                              *)
LEMMA WriteCore ==
  ASSUME Core, NEW p \in Procs, Write(p)
  PROVE  Core'
<1> USE ProcsAssumption DEF Write, Goto, dirs, Procs, Activators
<1>1. TypeOK'
  BY DEF Core, TypeOK, Stages, Inside
<1>2. DirectoriesAreFresh'
  BY DEF Core, TypeOK, DirectoriesAreFresh, Holds, Unmade, Inside, Reads
<1>3. DirectoriesAreApart'
  BY DEF Core, TypeOK, DirectoriesAreApart
<1>4. SeenAreOver'
  BY DEF Core, TypeOK, SeenAreOver, DirectoriesAreFresh, Unmade, Reads, Running, Inside
<1>5. HoldersHold'
  BY DEF Core, TypeOK, HoldersHold, Holding, DirectoriesAreFresh, Holds
<1> QED
  BY <1>1, <1>2, <1>3, <1>4, <1>5 DEF Core

(* Whoever goes to work has its owner.json in the lock.                   *)
LEMMA ConfirmCore ==
  ASSUME Core, NEW p \in Procs, Confirm(p)
  PROVE  Core'
<1> USE ProcsAssumption DEF Confirm, Goto, dirs, Procs, Activators
<1>1. TypeOK'
  BY DEF Core, TypeOK, Stages, Inside
<1>2. DirectoriesAreFresh'
  BY DEF Core, TypeOK, DirectoriesAreFresh, Holds, Unmade, Inside, Reads
<1>3. DirectoriesAreApart'
  BY DEF Core, TypeOK, DirectoriesAreApart
<1>4. SeenAreOver'
  BY DEF Core, TypeOK, SeenAreOver, DirectoriesAreFresh, Unmade, Reads, Running, Inside
<1>5. HoldersHold'
  BY DEF Core, TypeOK, HoldersHold, Holding, DirectoriesAreFresh, Holds
<1> QED
  BY <1>1, <1>2, <1>3, <1>4, <1>5 DEF Core

(* Only a process that finds its own name will retract it.                *)
LEMMA AbandonCore ==
  ASSUME Core, NEW p \in Procs, Abandon(p)
  PROVE  Core'
<1> USE ProcsAssumption DEF Abandon, Goto, dirs, Procs, Activators
<1>1. TypeOK'
  BY DEF Core, TypeOK, Stages, Inside
<1>2. DirectoriesAreFresh'
  BY DEF Core, TypeOK, DirectoriesAreFresh, Holds, Unmade, Inside, Reads
<1>3. DirectoriesAreApart'
  BY DEF Core, TypeOK, DirectoriesAreApart
<1>4. SeenAreOver'
  BY DEF Core, TypeOK, SeenAreOver, DirectoriesAreFresh, Unmade, Reads, Running, Inside
<1>5. HoldersHold'
  BY DEF Core, TypeOK, HoldersHold, Holding, DirectoriesAreFresh, Holds, Reads, Inside
<1> QED
  BY <1>1, <1>2, <1>3, <1>4, <1>5 DEF Core

(* Likewise for the release of the lock.                                  *)
LEMMA CheckReleaseCore ==
  ASSUME Core, NEW p \in Procs, CheckRelease(p)
  PROVE  Core'
<1> USE ProcsAssumption DEF CheckRelease, Goto, dirs, Procs, Activators
<1>1. TypeOK'
  BY DEF Core, TypeOK, Stages, Inside
<1>2. DirectoriesAreFresh'
  BY DEF Core, TypeOK, DirectoriesAreFresh, Holds, Unmade, Inside, Reads
<1>3. DirectoriesAreApart'
  BY DEF Core, TypeOK, DirectoriesAreApart
<1>4. SeenAreOver'
  BY DEF Core, TypeOK, SeenAreOver, DirectoriesAreFresh, Unmade, Reads, Running, Inside
<1>5. HoldersHold'
  BY DEF Core, TypeOK, HoldersHold, Holding, DirectoriesAreFresh, Holds
<1> QED
  BY <1>1, <1>2, <1>3, <1>4, <1>5 DEF Core

(* The owner.json that is removed is the process's own.                  *)
LEMMA UnlinkCore ==
  ASSUME Core, NEW p \in Procs, Unlink(p)
  PROVE  Core'
<1> USE ProcsAssumption DEF Unlink, Goto, dirs, Procs, Activators
<1>1. TypeOK'
  BY DEF Core, TypeOK, Stages, Inside
<1>2. DirectoriesAreFresh'
  BY DEF Core, TypeOK, DirectoriesAreFresh, HoldersHold, Holds, Unmade, Inside, Running,
     Reads
<1>3. DirectoriesAreApart'
  BY DEF Core, TypeOK, DirectoriesAreApart
<1>4. SeenAreOver'
  BY DEF Core, TypeOK, SeenAreOver, DirectoriesAreFresh, Unmade, Reads, Running, Inside
<1>5. HoldersHold'
  BY DEF Core, TypeOK, HoldersHold, Holding, DirectoriesAreFresh, DirectoriesAreApart,
     Holds, Inside
<1> QED
  BY <1>1, <1>2, <1>3, <1>4, <1>5 DEF Core

(* Only an empty directory is removed.                                    *)
LEMMA RmdirCore ==
  ASSUME Core, NEW p \in Procs, Rmdir(p)
  PROVE  Core'
<1> USE ProcsAssumption DEF Rmdir, Goto, dirs, Procs, Activators
<1>1. TypeOK'
  BY DEF Core, TypeOK, Stages, Inside
<1>2. DirectoriesAreFresh'
  BY DEF Core, TypeOK, DirectoriesAreFresh, Holds, Unmade, Inside, Reads
<1>3. DirectoriesAreApart'
  BY DEF Core, TypeOK, DirectoriesAreApart
<1>4. SeenAreOver'
  BY DEF Core, TypeOK, SeenAreOver, DirectoriesAreFresh, Unmade, Reads, Running, Inside
<1>5. HoldersHold'
  BY DEF Core, TypeOK, HoldersHold, Holding, DirectoriesAreFresh, Holds, Empty, Inside
<1> QED
  BY <1>1, <1>2, <1>3, <1>4, <1>5 DEF Core

(* The journal names an activation that has begun.                        *)
LEMMA WriteJournalCore ==
  ASSUME Core, NEW a \in Private, WriteJournal(a)
  PROVE  Core'
<1> USE ProcsAssumption DEF WriteJournal, Goto, dirs, Procs, Activators
<1>1. TypeOK'
  BY DEF Core, TypeOK, Stages, Inside
<1>2. DirectoriesAreFresh'
  BY DEF Core, TypeOK, DirectoriesAreFresh, HoldersHold, Holds, Unmade, Inside, Running,
     Reads
<1>3. DirectoriesAreApart'
  BY DEF Core, TypeOK, DirectoriesAreApart
<1>4. SeenAreOver'
  BY DEF Core, TypeOK, SeenAreOver, DirectoriesAreFresh, Unmade, Reads, Running, Inside
<1>5. HoldersHold'
  BY DEF Core, TypeOK, HoldersHold, Holding, DirectoriesAreFresh, Holds, Inside
<1> QED
  BY <1>1, <1>2, <1>3, <1>4, <1>5 DEF Core

(* A recovery goes to work for an activation that is over.                *)
LEMMA InspectCore ==
  ASSUME Core, NEW r \in Recoverers, Inspect(r)
  PROVE  Core'
<1> USE ProcsAssumption DEF Inspect, Goto, dirs, Procs, Activators
<1>1. TypeOK'
  BY DEF Core, TypeOK, Stages, Inside
<1>2. DirectoriesAreFresh'
  BY DEF Core, TypeOK, DirectoriesAreFresh, Holds, Unmade, Inside, Reads
<1>3. DirectoriesAreApart'
  BY DEF Core, TypeOK, DirectoriesAreApart
<1>4. SeenAreOver'
  BY DEF Core, TypeOK, SeenAreOver, DirectoriesAreFresh, Unmade, Reads, Running, Inside
<1>5. HoldersHold'
  BY DEF Core, TypeOK, HoldersHold, Holding, DirectoriesAreFresh, Holds, Inside
<1> QED
  BY <1>1, <1>2, <1>3, <1>4, <1>5 DEF Core

(* The work is over, the lock still held.                                 *)
LEMMA FinishCore ==
  ASSUME Core, NEW p \in Procs, Finish(p)
  PROVE  Core'
<1> USE ProcsAssumption DEF Finish, Goto, dirs, Procs, Activators
<1>1. TypeOK'
  BY DEF Core, TypeOK, Stages, Inside
<1>2. DirectoriesAreFresh'
  BY DEF Core, TypeOK, DirectoriesAreFresh, Holds, Unmade, Inside, Reads
<1>3. DirectoriesAreApart'
  BY DEF Core, TypeOK, DirectoriesAreApart
<1>4. SeenAreOver'
  BY DEF Core, TypeOK, SeenAreOver, DirectoriesAreFresh, Unmade, Reads, Running, Inside
<1>5. HoldersHold'
  BY DEF Core, TypeOK, HoldersHold, Holding, DirectoriesAreFresh, Holds, Inside
<1> QED
  BY <1>1, <1>2, <1>3, <1>4, <1>5 DEF Core

(* Also when it failed.                                                   *)
LEMMA FailCore ==
  ASSUME Core, NEW p \in Procs, Fail(p)
  PROVE  Core'
<1> USE ProcsAssumption DEF Fail, Goto, dirs, Procs, Activators
<1>1. TypeOK'
  BY DEF Core, TypeOK, Stages, Inside
<1>2. DirectoriesAreFresh'
  BY DEF Core, TypeOK, DirectoriesAreFresh, Holds, Unmade, Inside, Reads
<1>3. DirectoriesAreApart'
  BY DEF Core, TypeOK, DirectoriesAreApart
<1>4. SeenAreOver'
  BY DEF Core, TypeOK, SeenAreOver, DirectoriesAreFresh, Unmade, Reads, Running, Inside
<1>5. HoldersHold'
  BY DEF Core, TypeOK, HoldersHold, Holding, DirectoriesAreFresh, Holds, Inside
<1> QED
  BY <1>1, <1>2, <1>3, <1>4, <1>5 DEF Core

(* A dead process holds what it held, and can be replaced.                *)
LEMMA CrashCore ==
  ASSUME Core, NEW p \in Procs, Crash(p)
  PROVE  Core'
<1> USE ProcsAssumption DEF Crash, Goto, dirs, Procs, Activators
<1>1. TypeOK'
  BY DEF Core, TypeOK, Stages, Inside
<1>2. DirectoriesAreFresh'
  BY DEF Core, TypeOK, DirectoriesAreFresh, Holds, Unmade, Inside, Reads
<1>3. DirectoriesAreApart'
  BY DEF Core, TypeOK, DirectoriesAreApart
<1>4. SeenAreOver'
  BY DEF Core, TypeOK, SeenAreOver, DirectoriesAreFresh, Unmade, Reads, Running, Inside
<1>5. HoldersHold'
  BY DEF Core, TypeOK, HoldersHold, Holding, DirectoriesAreFresh, Holds, Inside
<1> QED
  BY <1>1, <1>2, <1>3, <1>4, <1>5 DEF Core

-----------------------------------------------------------------------------
(* Every step keeps the core, if what it captures is what it read.          *)
LEMMA CoreStep ==
  ASSUME Core, [Next]_vars, CapturesWhatItRead
  PROVE  Core'
<1>1. CASE \E a \in Private : StartPrivate(a) \/ WriteJournal(a)
  BY <1>1, StartPrivateCore, WriteJournalCore
<1>2. CASE \E a \in Public : StartPublic(a)
  BY <1>2, StartPublicCore
<1>3. CASE \E r \in Recoverers : StartRecovery(r) \/ Claim(r) \/ Inspect(r)
  BY <1>3, StartRecoveryCore, ObserveCore, JudgeCore, CaptureCore, CompareCore,
     PrepareCore, InstallCore, DiscardCore, RestoreCore, InspectCore DEF Claim
<1>4. CASE \E p \in Procs : Acquire(p)
  BY <1>4, MkdirCore, LookCore, CreateCore, WriteCore, ConfirmCore, AbandonCore DEF Acquire
<1>5. CASE \E p \in Procs : GiveUp(p) \/ Finish(p) \/ Fail(p) \/ Crash(p)
  BY <1>5, CheckReleaseCore, UnlinkCore, RmdirCore, FinishCore, FailCore, CrashCore
     DEF GiveUp
<1>6. CASE UNCHANGED vars
  BY <1>6 DEF vars, Core, TypeOK, DirectoriesAreFresh, DirectoriesAreApart, SeenAreOver,
     HoldersHold, Holds
<1> QED
  BY <1>1, <1>2, <1>3, <1>4, <1>5, <1>6 DEF Next

(* Nothing runs yet, and nothing is on the disk.                            *)
LEMMA InitInv ==
  ASSUME Init
  PROVE  IInv
<1>1. TypeOK
  BY DEF Init, TypeOK, Stages
<1>2. RecoveriesAreAlone /\ JournalHasBegun
  BY DEF Init, RecoveriesAreAlone, JournalHasBegun, Running, Procs
<1>3. DirectoriesAreFresh /\ DirectoriesAreApart
  BY ProcsAssumption DEF Init, DirectoriesAreFresh, DirectoriesAreApart
<1>4. SeenAreOver /\ ReplaceableStays /\ HoldersHold
  BY DEF Init, SeenAreOver, ReplaceableStays, HoldersHold, Holding, Inside, Procs
<1> QED
  BY <1>1, <1>2, <1>3, <1>4 DEF IInv, Core, Alone

(* Core holds for any recoveries, overlapping or not, whose captures are     *)
(* the compare-and-swap of the comment at 1963.                             *)
THEOREM CasInvariance == Spec /\ CaptureIsACas => []Core
<1>1. Init => Core
  BY InitInv DEF IInv
<1>2. Core /\ [Next]_vars /\ [CapturesWhatItRead]_vars => Core'
  <2>1. UNCHANGED vars => CapturesWhatItRead
    BY DEF vars, CapturesWhatItRead
  <2> QED
    BY <2>1, CoreStep
<1> QED
  BY <1>1, <1>2, PTL DEF Spec, CaptureIsACas

LEMMA CoreIsSafe == Core => MutualExclusion /\ ReleaseFindsItsLock
<1>1. Core => MutualExclusion
  BY DEF Core, HoldersHold, Holding, Holds, MutualExclusion
<1>2. Core => ReleaseFindsItsLock
  BY DEF Core, HoldersHold, Holding, Inside, Reads, ReleaseFindsItsLock
<1> QED
  BY <1>1, <1>2

(* The rename is the only hole: whatever recoveries overlap, two commands     *)
(* are at work together only after one of them moved aside a directory       *)
(* other than the one it had judged (finding 2 shows such a run).            *)
THEOREM OnlyTheCaptureBreaks == Spec /\ CaptureIsACas => []MutualExclusion
  BY CasInvariance, CoreIsSafe, PTL

(* And only then does release() find another's lock.                         *)
THEOREM OnlyTheCaptureLosesLocks == Spec /\ CaptureIsACas => []ReleaseFindsItsLock
  BY CasInvariance, CoreIsSafe, PTL

-----------------------------------------------------------------------------
(* The refinement of CutoverClaim.                                          *)
Holder == IF lock = None THEN None ELSE owner[lock]
AtWork == {p \in Procs : pc[p] \in Inside}

(* Calls that touch neither the owner at the path nor who is at work: the   *)
(* beginning of a command, and what it reads.                               *)
LEMMA ReadingStutters ==
  ASSUME Core, NEW p \in Procs,
         \/ p \in Private /\ StartPrivate(p)
         \/ p \in Public /\ StartPublic(p)
         \/ p \in Recoverers /\ (StartRecovery(p) \/ Observe(p) \/ Judge(p) \/ Compare(p))
         \/ Look(p) \/ Write(p) \/ Abandon(p) \/ CheckRelease(p)
  PROVE  Holder' = Holder /\ AtWork' = AtWork
<1>1. UNCHANGED <<lock, owner>> /\ pc[p] \notin Inside
  BY DEF StartPrivate, StartPublic, StartRecovery, Observe, Judge, Compare, Look, Write,
     Abandon, CheckRelease, dirs, Inside
<1>2. \E stage \in Stages \ Inside : pc' = [pc EXCEPT ![p] = stage]
  BY DEF StartPrivate, StartPublic, StartRecovery, Observe, Judge, Compare, Look, Write,
     Abandon, CheckRelease, Goto, Stages, Inside
<1> QED
  BY <1>1, <1>2 DEF Holder, AtWork, Core, TypeOK

(* A directory comes to the path where no owner is: its owner, if it has     *)
(* one, takes the claim.                                                    *)
LEMMA PuttingTakes ==
  ASSUME Core, NEW p \in Procs,
         \/ Mkdir(p) \/ Create(p)
         \/ p \in Recoverers /\ (Install(p) \/ Restore(p))
  PROVE  /\ AtWork' = AtWork
         /\ Holder' = Holder \/ (Holder = None /\ Holder' \in Procs)
<1>1. AtWork' = AtWork
  BY DEF Core, TypeOK, Mkdir, Create, Install, Restore, Goto, AtWork, Inside
<1>2. CASE Mkdir(p)
  BY <1>1, <1>2, ProcsAssumption DEF Core, TypeOK, Mkdir, Holder
<1>3. CASE Create(p)
  BY <1>1, <1>3, ProcsAssumption DEF Core, TypeOK, Create, Holder, Empty
<1>4. CASE p \in Recoverers /\ Install(p)
  BY <1>1, <1>4, ProcsAssumption DEF Core, TypeOK, Install, Holder, MayRename, Empty,
     DirectoriesAreFresh, Unmade
<1>5. CASE p \in Recoverers /\ Restore(p)
  BY <1>1, <1>5, ProcsAssumption DEF Core, TypeOK, Restore, Holder, MayRename, Empty,
     DirectoriesAreApart
<1> QED
  BY <1>1, <1>2, <1>3, <1>4, <1>5

(* What is made or removed under another name is not the lock.              *)
LEMMA AsideStutters ==
  ASSUME Core, NEW r \in Recoverers, Prepare(r) \/ Discard(r)
  PROVE  Holder' = Holder /\ AtWork' = AtWork
<1>1. AtWork' = AtWork
  BY DEF Core, TypeOK, Prepare, Discard, Goto, AtWork, Inside, Procs
<1>2. CASE Prepare(r)
  BY <1>1, <1>2 DEF Core, TypeOK, Prepare, Holder, DirectoriesAreFresh, Unmade, Procs
<1>3. CASE Discard(r)
  BY <1>1, <1>3 DEF Core, TypeOK, Discard, Holder, DirectoriesAreApart
<1> QED
  BY <1>1, <1>2, <1>3

(* The claim that is dropped is that of a dead owner, or one's own.         *)
LEMMA RemovingDrops ==
  ASSUME Core, NEW p \in Procs,
         (p \in Recoverers /\ Capture(p)) \/ Unlink(p) \/ Rmdir(p),
         CapturesWhatItRead
  PROVE  /\ AtWork' = AtWork
         /\ Holder' = Holder \/ (Holder \notin AtWork /\ Holder' = None)
<1>1. AtWork' = AtWork
  BY DEF Core, TypeOK, Capture, Unlink, Rmdir, Goto, AtWork, Inside
<1>2. CASE p \in Recoverers /\ Capture(p)
  <2>1. lock # None => Holder = seen[p] /\ ~Running(seen[p])
    BY <1>2 DEF Core, TypeOK, DirectoriesAreFresh, DirectoriesAreApart, Unmade,
       SeenAreOver, CapturesWhatItRead, Reads, Holds, Running, Capture, Holder
  <2> QED
    BY <1>1, <1>2, <2>1 DEF Capture, Holder, AtWork, Running, Inside
<1>3. CASE Unlink(p)
  <2>1. lock # None /\ Holder = p /\ p \notin AtWork
    BY <1>3 DEF Core, HoldersHold, Holding, Holds, Unlink, Holder, AtWork, Inside
  <2> QED
    BY <1>1, <1>3, <2>1 DEF Core, TypeOK, Unlink, Holder, Empty
<1>4. CASE Rmdir(p)
  BY <1>1, <1>4 DEF Rmdir, Holder, Empty
<1> QED
  BY <1>1, <1>2, <1>3, <1>4

(* Who goes to work has the claim.                                          *)
LEMMA ConfirmingEnters ==
  ASSUME Core, NEW p \in Procs, Confirm(p)
  PROVE  /\ Holder' = Holder /\ Holder = p
         /\ AtWork' = AtWork \/ AtWork' = AtWork \cup {p}
<1>1. Holder' = Holder /\ Holder = p
  BY DEF Core, HoldersHold, Holding, Holds, Confirm, Holder, dirs
<1>2. AtWork' = AtWork \/ AtWork' = AtWork \cup {p}
  BY DEF Core, TypeOK, Confirm, Goto, AtWork, Inside
<1> QED
  BY <1>1, <1>2

(* The end of the work, and its steps in between.                           *)
LEMMA WorkingLeaves ==
  ASSUME Core, NEW p \in Procs,
         \/ p \in Private /\ WriteJournal(p)
         \/ p \in Recoverers /\ Inspect(p)
         \/ Finish(p) \/ Fail(p) \/ Crash(p)
  PROVE  /\ Holder' = Holder
         /\ AtWork' = AtWork \/ AtWork' = AtWork \ {p}
<1>1. Holder' = Holder
  BY DEF WriteJournal, Inspect, Finish, Fail, Crash, Holder, dirs
<1>2. \/ pc[p] \in Inside /\ pc' = [pc EXCEPT ![p] = "cs"]
      \/ pc' = [pc EXCEPT ![p] = "release"]
      \/ pc' = [pc EXCEPT ![p] = "gone"]
  BY DEF WriteJournal, Inspect, Finish, Fail, Crash, Goto, Inside
<1>3. AtWork' = AtWork \/ AtWork' = AtWork \ {p}
  BY <1>2 DEF Core, TypeOK, AtWork, Inside
<1> QED
  BY <1>1, <1>3

(* So every step is one of CutoverClaim, or leaves it alone.                *)
LEMMA ClaimStep ==
  ASSUME Core, [Next]_vars, CapturesWhatItRead
  PROVE  [Exclusive!Next]_(Exclusive!cvars)
<1> USE DEF Exclusive!Next, Exclusive!cvars, Exclusive!Take, Exclusive!Drop,
     Exclusive!Enter, Exclusive!Leave, Holder, AtWork
<1>1. CASE \E a \in Private : StartPrivate(a)
  BY <1>1, ReadingStutters DEF Procs, Activators
<1>2. CASE \E a \in Private : WriteJournal(a)
  BY <1>2, WorkingLeaves DEF Procs, Activators
<1>3. CASE \E a \in Public : StartPublic(a)
  BY <1>3, ReadingStutters DEF Procs, Activators
<1>4. CASE \E r \in Recoverers : StartRecovery(r) \/ Observe(r) \/ Judge(r) \/ Compare(r)
  BY <1>4, ReadingStutters DEF Procs
<1>5. CASE \E r \in Recoverers : Prepare(r) \/ Discard(r)
  BY <1>5, AsideStutters
<1>6. CASE \E r \in Recoverers : Install(r) \/ Restore(r)
  BY <1>6, PuttingTakes DEF Procs
<1>7. CASE \E r \in Recoverers : Capture(r)
  BY <1>7, RemovingDrops DEF Procs
<1>8. CASE \E r \in Recoverers : Inspect(r)
  BY <1>8, WorkingLeaves DEF Procs
<1>9. CASE \E p \in Procs : Look(p) \/ Write(p) \/ Abandon(p) \/ CheckRelease(p)
  BY <1>9, ReadingStutters
<1>10. CASE \E p \in Procs : Mkdir(p) \/ Create(p)
  BY <1>10, PuttingTakes
<1>11. CASE \E p \in Procs : Confirm(p)
  BY <1>11, ConfirmingEnters
<1>12. CASE \E p \in Procs : Unlink(p) \/ Rmdir(p)
  BY <1>12, RemovingDrops
<1>13. CASE \E p \in Procs : Finish(p) \/ Fail(p) \/ Crash(p)
  BY <1>13, WorkingLeaves
<1>14. CASE UNCHANGED vars
  BY <1>14 DEF vars
<1> QED
  BY <1>1, <1>2, <1>3, <1>4, <1>5, <1>6, <1>7, <1>8, <1>9, <1>10, <1>11, <1>12, <1>13,
     <1>14 DEF Next, Claim, Acquire, GiveUp

(* Nor does anything else break the claim: with a capture that is a CAS the  *)
(* lock implements CutoverClaim, whatever recoveries overlap.               *)
THEOREM OnlyTheCaptureBreaksClaims == Spec /\ CaptureIsACas => ImplementsClaim
<1>1. Init => Exclusive!Init
  BY DEF Init, Exclusive!Init, Inside
<1>2. Core /\ [Next]_vars /\ [CapturesWhatItRead]_vars => [Exclusive!Next]_(Exclusive!cvars)
  <2>1. UNCHANGED vars => CapturesWhatItRead
    BY DEF vars, CapturesWhatItRead
  <2> QED
    BY <2>1, ClaimStep
<1> QED
  BY <1>1, <1>2, CasInvariance, PTL DEF Spec, CaptureIsACas, ImplementsClaim, Exclusive!Spec

-----------------------------------------------------------------------------
(* While recoveries do not overlap, Alone is kept as well: one lemma per      *)
(* action.                                                                   *)

(* An activation finds no recovery that goes by its journal.                *)
LEMMA StartPrivateAlone ==
  ASSUME ~Overlap, IInv, NEW a \in Private, StartPrivate(a)
  PROVE  Alone'
<1> USE ProcsAssumption DEF StartPrivate, Goto, dirs, Procs, Activators
<1>1. RecoveriesAreAlone'
  BY DEF IInv, Core, Alone, TypeOK, RecoveriesAreAlone, JournalHasBegun, Running
<1>2. JournalHasBegun'
  BY DEF IInv, Core, Alone, TypeOK, JournalHasBegun, Running, Inside
<1>3. ReplaceableStays'
  BY DEF IInv, Core, Alone, ReplaceableStays, RecoveriesAreAlone, Holds, Reads, MayRename,
     Replaceable, Running
<1> QED
  BY <1>1, <1>2, <1>3 DEF Alone

(* A public activation neither moves a directory nor is recovered.          *)
LEMMA StartPublicAlone ==
  ASSUME ~Overlap, IInv, NEW a \in Public, StartPublic(a)
  PROVE  Alone'
<1> USE ProcsAssumption DEF StartPublic, Goto, dirs, Procs, Activators
<1>1. RecoveriesAreAlone'
  BY DEF IInv, Core, Alone, TypeOK, RecoveriesAreAlone, JournalHasBegun, Running
<1>2. JournalHasBegun'
  BY DEF IInv, Core, Alone, TypeOK, JournalHasBegun, Running, Inside
<1>3. ReplaceableStays'
  BY DEF IInv, Core, Alone, TypeOK, ReplaceableStays, Holds, Reads, MayRename,
     Replaceable, Running
<1> QED
  BY <1>1, <1>2, <1>3 DEF Alone

(* The operator waits until the others, and the activation, are over.       *)
LEMMA StartRecoveryAlone ==
  ASSUME ~Overlap, IInv, NEW r \in Recoverers, StartRecovery(r)
  PROVE  Alone'
<1> USE ProcsAssumption DEF StartRecovery, Goto, dirs, Procs, Activators
<1>1. RecoveriesAreAlone'
  BY DEF IInv, Core, Alone, TypeOK, RecoveriesAreAlone, JournalHasBegun, Running, Inside
<1>2. JournalHasBegun'
  BY DEF IInv, Core, Alone, TypeOK, JournalHasBegun, Running, Inside
<1>3. ReplaceableStays'
  BY DEF IInv, Core, Alone, ReplaceableStays, MayRename, Running
<1> QED
  BY <1>1, <1>2, <1>3 DEF Alone

(* Only a free path is taken.                                               *)
LEMMA MkdirAlone ==
  ASSUME ~Overlap, IInv, NEW p \in Procs, Mkdir(p)
  PROVE  Alone'
<1> USE ProcsAssumption DEF Mkdir, Goto, dirs, Procs, Activators
<1>1. RecoveriesAreAlone'
  BY DEF IInv, Core, Alone, TypeOK, RecoveriesAreAlone, JournalHasBegun, Running, Inside
<1>2. JournalHasBegun'
  BY DEF IInv, Core, Alone, TypeOK, JournalHasBegun, Running, Inside
<1>3. ReplaceableStays'
  BY DEF IInv, Core, Alone, TypeOK, ReplaceableStays, RecoveriesAreAlone, Holds, Reads,
     MayRename, Replaceable, Running, Unmade, Inside
<1> QED
  BY <1>1, <1>2, <1>3 DEF Alone

(* The owner read is not the reader: that has written nothing yet.          *)
LEMMA ObserveAlone ==
  ASSUME ~Overlap, IInv, NEW r \in Recoverers, Observe(r)
  PROVE  Alone'
<1> USE ProcsAssumption DEF Observe, Goto, dirs, Procs, Activators
<1>1. RecoveriesAreAlone'
  BY DEF IInv, Core, Alone, TypeOK, RecoveriesAreAlone, JournalHasBegun, Running, Inside
<1>2. JournalHasBegun'
  BY DEF IInv, Core, Alone, TypeOK, JournalHasBegun, Running, Inside
<1>3. ReplaceableStays'
  BY DEF IInv, Core, Alone, TypeOK, ReplaceableStays, RecoveriesAreAlone,
     DirectoriesAreFresh, Holds, Reads, MayRename, Running, Unmade
<1> QED
  BY <1>1, <1>2, <1>3 DEF Alone

(* Judged replaceable, the owner it read is still in its place.             *)
LEMMA JudgeAlone ==
  ASSUME ~Overlap, IInv, NEW r \in Recoverers, Judge(r)
  PROVE  Alone'
<1> USE ProcsAssumption DEF Judge, Goto, dirs, Procs, Activators
<1>1. RecoveriesAreAlone'
  BY DEF IInv, Core, Alone, TypeOK, RecoveriesAreAlone, JournalHasBegun, Running
<1>2. JournalHasBegun'
  BY DEF IInv, Core, Alone, TypeOK, JournalHasBegun, Running, Inside
<1>3. ReplaceableStays'
  BY DEF IInv, Core, Alone, ReplaceableStays, RecoveriesAreAlone, Holds, Reads, MayRename,
     Replaceable, Running
<1> QED
  BY <1>1, <1>2, <1>3 DEF Alone

(* The recovery that captures runs alone.                                   *)
LEMMA CaptureAlone ==
  ASSUME ~Overlap, IInv, NEW r \in Recoverers, Capture(r)
  PROVE  Alone'
<1> USE ProcsAssumption DEF Capture, Goto, dirs, Procs, Activators
<1>1. RecoveriesAreAlone'
  BY DEF IInv, Core, Alone, TypeOK, RecoveriesAreAlone, JournalHasBegun, Running, Inside
<1>2. JournalHasBegun'
  BY DEF IInv, Core, Alone, TypeOK, JournalHasBegun, Running, Inside
<1>3. ReplaceableStays'
  BY DEF IInv, Core, Alone, TypeOK, ReplaceableStays, RecoveriesAreAlone, MayRename,
     Replaceable, Running
<1> QED
  BY <1>1, <1>2, <1>3 DEF Alone

(* Nothing moves.                                                           *)
LEMMA CompareAlone ==
  ASSUME ~Overlap, IInv, NEW r \in Recoverers, Compare(r)
  PROVE  Alone'
<1> USE ProcsAssumption DEF Compare, Goto, dirs, Procs, Activators
<1>1. RecoveriesAreAlone'
  BY DEF IInv, Core, Alone, TypeOK, RecoveriesAreAlone, JournalHasBegun, Running
<1>2. JournalHasBegun'
  BY DEF IInv, Core, Alone, TypeOK, JournalHasBegun, Running, Inside
<1>3. ReplaceableStays'
  BY DEF IInv, Core, Alone, ReplaceableStays, RecoveriesAreAlone, MayRename, Running
<1> QED
  BY <1>1, <1>2, <1>3 DEF Alone

(* Its own directory is still apart.                                        *)
LEMMA PrepareAlone ==
  ASSUME ~Overlap, IInv, NEW r \in Recoverers, Prepare(r)
  PROVE  Alone'
<1> USE ProcsAssumption DEF Prepare, Goto, dirs, Procs, Activators
<1>1. RecoveriesAreAlone'
  BY DEF IInv, Core, Alone, TypeOK, RecoveriesAreAlone, JournalHasBegun, Running
<1>2. JournalHasBegun'
  BY DEF IInv, Core, Alone, TypeOK, JournalHasBegun, Running, Inside
<1>3. ReplaceableStays'
  BY DEF IInv, Core, Alone, ReplaceableStays, RecoveriesAreAlone, MayRename, Running
<1> QED
  BY <1>1, <1>2, <1>3 DEF Alone

(* No other recovery is about to judge or to capture.                       *)
LEMMA InstallAlone ==
  ASSUME ~Overlap, IInv, NEW r \in Recoverers, Install(r)
  PROVE  Alone'
<1> USE ProcsAssumption DEF Install, Goto, dirs, Procs, Activators
<1>1. RecoveriesAreAlone'
  BY DEF IInv, Core, Alone, TypeOK, RecoveriesAreAlone, JournalHasBegun, Running, Inside
<1>2. JournalHasBegun'
  BY DEF IInv, Core, Alone, TypeOK, JournalHasBegun, Running, Inside
<1>3. ReplaceableStays'
  BY DEF IInv, Core, Alone, TypeOK, ReplaceableStays, RecoveriesAreAlone, MayRename,
     Running, Unmade, Inside
<1> QED
  BY <1>1, <1>2, <1>3 DEF Alone

(* Nor here.                                                                *)
LEMMA DiscardAlone ==
  ASSUME ~Overlap, IInv, NEW r \in Recoverers, Discard(r)
  PROVE  Alone'
<1> USE ProcsAssumption DEF Discard, Goto, dirs, Procs, Activators
<1>1. RecoveriesAreAlone'
  BY DEF IInv, Core, Alone, TypeOK, RecoveriesAreAlone, JournalHasBegun, Running
<1>2. JournalHasBegun'
  BY DEF IInv, Core, Alone, TypeOK, JournalHasBegun, Running, Inside
<1>3. ReplaceableStays'
  BY DEF IInv, Core, Alone, ReplaceableStays, RecoveriesAreAlone, MayRename, Running
<1> QED
  BY <1>1, <1>2, <1>3 DEF Alone

(* Nor here; the recovery is over.                                          *)
LEMMA RestoreAlone ==
  ASSUME ~Overlap, IInv, NEW r \in Recoverers, Restore(r)
  PROVE  Alone'
<1> USE ProcsAssumption DEF Restore, Goto, dirs, Procs, Activators
<1>1. RecoveriesAreAlone'
  BY DEF IInv, Core, Alone, TypeOK, RecoveriesAreAlone, JournalHasBegun, Running
<1>2. JournalHasBegun'
  BY DEF IInv, Core, Alone, TypeOK, JournalHasBegun, Running, Inside
<1>3. ReplaceableStays'
  BY DEF IInv, Core, Alone, ReplaceableStays, RecoveriesAreAlone, MayRename, Replaceable,
     Running
<1> QED
  BY <1>1, <1>2, <1>3 DEF Alone

(* Nothing moves.                                                           *)
LEMMA LookAlone ==
  ASSUME ~Overlap, IInv, NEW p \in Procs, Look(p)
  PROVE  Alone'
<1> USE ProcsAssumption DEF Look, Goto, dirs, Procs, Activators
<1>1. RecoveriesAreAlone'
  BY DEF IInv, Core, Alone, TypeOK, RecoveriesAreAlone, JournalHasBegun, Running
<1>2. JournalHasBegun'
  BY DEF IInv, Core, Alone, TypeOK, JournalHasBegun, Running, Inside
<1>3. ReplaceableStays'
  BY DEF IInv, Core, Alone, ReplaceableStays, Holds, Reads, MayRename, Replaceable,
     Running
<1> QED
  BY <1>1, <1>2, <1>3 DEF Alone

(* A dead owner has no empty directory to fill.                             *)
LEMMA CreateAlone ==
  ASSUME ~Overlap, IInv, NEW p \in Procs, Create(p)
  PROVE  Alone'
<1> USE ProcsAssumption DEF Create, Goto, dirs, Procs, Activators
<1>1. RecoveriesAreAlone'
  BY DEF IInv, Core, Alone, TypeOK, RecoveriesAreAlone, JournalHasBegun, Running, Inside
<1>2. JournalHasBegun'
  BY DEF IInv, Core, Alone, TypeOK, JournalHasBegun, Running, Inside
<1>3. ReplaceableStays'
  BY DEF IInv, Core, Alone, TypeOK, ReplaceableStays, Holds, Reads, Empty, MayRename,
     Replaceable, Running
<1> QED
  BY <1>1, <1>2, <1>3 DEF Alone

(* Written once, an owner is read from then on.                             *)
LEMMA WriteAlone ==
  ASSUME ~Overlap, IInv, NEW p \in Procs, Write(p)
  PROVE  Alone'
<1> USE ProcsAssumption DEF Write, Goto, dirs, Procs, Activators
<1>1. RecoveriesAreAlone'
  BY DEF IInv, Core, Alone, TypeOK, RecoveriesAreAlone, JournalHasBegun, Running
<1>2. JournalHasBegun'
  BY DEF IInv, Core, Alone, TypeOK, JournalHasBegun, Running, Inside
<1>3. ReplaceableStays'
  BY DEF IInv, Core, Alone, ReplaceableStays, Holds, Reads, MayRename, Replaceable,
     Running
<1> QED
  BY <1>1, <1>2, <1>3 DEF Alone

(* Nothing moves.                                                           *)
LEMMA ConfirmAlone ==
  ASSUME ~Overlap, IInv, NEW p \in Procs, Confirm(p)
  PROVE  Alone'
<1> USE ProcsAssumption DEF Confirm, Goto, dirs, Procs, Activators
<1>1. RecoveriesAreAlone'
  BY DEF IInv, Core, Alone, TypeOK, RecoveriesAreAlone, JournalHasBegun, Running, Inside
<1>2. JournalHasBegun'
  BY DEF IInv, Core, Alone, TypeOK, JournalHasBegun, Running, Inside
<1>3. ReplaceableStays'
  BY DEF IInv, Core, Alone, ReplaceableStays, Holds, Reads, MayRename, Replaceable,
     Running
<1> QED
  BY <1>1, <1>2, <1>3 DEF Alone

(* Nothing moves.                                                           *)
LEMMA AbandonAlone ==
  ASSUME ~Overlap, IInv, NEW p \in Procs, Abandon(p)
  PROVE  Alone'
<1> USE ProcsAssumption DEF Abandon, Goto, dirs, Procs, Activators
<1>1. RecoveriesAreAlone'
  BY DEF IInv, Core, Alone, TypeOK, RecoveriesAreAlone, JournalHasBegun, Running
<1>2. JournalHasBegun'
  BY DEF IInv, Core, Alone, TypeOK, JournalHasBegun, Running, Inside
<1>3. ReplaceableStays'
  BY DEF IInv, Core, Alone, ReplaceableStays, RecoveriesAreAlone, Holds, Reads, MayRename,
     Replaceable, Running
<1> QED
  BY <1>1, <1>2, <1>3 DEF Alone

(* Nothing moves.                                                           *)
LEMMA CheckReleaseAlone ==
  ASSUME ~Overlap, IInv, NEW p \in Procs, CheckRelease(p)
  PROVE  Alone'
<1> USE ProcsAssumption DEF CheckRelease, Goto, dirs, Procs, Activators
<1>1. RecoveriesAreAlone'
  BY DEF IInv, Core, Alone, TypeOK, RecoveriesAreAlone, JournalHasBegun, Running
<1>2. JournalHasBegun'
  BY DEF IInv, Core, Alone, TypeOK, JournalHasBegun, Running, Inside
<1>3. ReplaceableStays'
  BY DEF IInv, Core, Alone, ReplaceableStays, RecoveriesAreAlone, Holds, Reads, MayRename,
     Replaceable, Running
<1> QED
  BY <1>1, <1>2, <1>3 DEF Alone

(* Who removes an owner.json removes its own, and lives.                    *)
LEMMA UnlinkAlone ==
  ASSUME ~Overlap, IInv, NEW p \in Procs, Unlink(p)
  PROVE  Alone'
<1> USE ProcsAssumption DEF Unlink, Goto, dirs, Procs, Activators
<1>1. RecoveriesAreAlone'
  BY DEF IInv, Core, Alone, TypeOK, RecoveriesAreAlone, JournalHasBegun, Running, Inside
<1>2. JournalHasBegun'
  BY DEF IInv, Core, Alone, TypeOK, JournalHasBegun, Running, Inside
<1>3. ReplaceableStays'
  BY DEF IInv, Core, Alone, TypeOK, ReplaceableStays, HoldersHold, Holding, Holds, Reads,
     MayRename, Replaceable, Running
<1> QED
  BY <1>1, <1>2, <1>3 DEF Alone

(* An empty directory is nobody's.                                          *)
LEMMA RmdirAlone ==
  ASSUME ~Overlap, IInv, NEW p \in Procs, Rmdir(p)
  PROVE  Alone'
<1> USE ProcsAssumption DEF Rmdir, Goto, dirs, Procs, Activators
<1>1. RecoveriesAreAlone'
  BY DEF IInv, Core, Alone, TypeOK, RecoveriesAreAlone, JournalHasBegun, Running
<1>2. JournalHasBegun'
  BY DEF IInv, Core, Alone, TypeOK, JournalHasBegun, Running, Inside
<1>3. ReplaceableStays'
  BY DEF IInv, Core, Alone, ReplaceableStays, RecoveriesAreAlone, Holds, Reads, Empty,
     MayRename, Replaceable, Running
<1> QED
  BY <1>1, <1>2, <1>3 DEF Alone

(* The activation that writes the journal has begun.                        *)
LEMMA WriteJournalAlone ==
  ASSUME ~Overlap, IInv, NEW a \in Private, WriteJournal(a)
  PROVE  Alone'
<1> USE ProcsAssumption DEF WriteJournal, Goto, dirs, Procs, Activators
<1>1. RecoveriesAreAlone'
  BY DEF IInv, Core, Alone, TypeOK, RecoveriesAreAlone, JournalHasBegun, Running, Inside
<1>2. JournalHasBegun'
  BY DEF IInv, Core, Alone, TypeOK, JournalHasBegun, Running, Inside
<1>3. ReplaceableStays'
  BY DEF IInv, Core, Alone, TypeOK, ReplaceableStays, Holds, Reads, MayRename,
     Replaceable, Running
<1> QED
  BY <1>1, <1>2, <1>3 DEF Alone

(* Nothing moves.                                                           *)
LEMMA InspectAlone ==
  ASSUME ~Overlap, IInv, NEW r \in Recoverers, Inspect(r)
  PROVE  Alone'
<1> USE ProcsAssumption DEF Inspect, Goto, dirs, Procs, Activators
<1>1. RecoveriesAreAlone'
  BY DEF IInv, Core, Alone, TypeOK, RecoveriesAreAlone, JournalHasBegun, Running, Inside
<1>2. JournalHasBegun'
  BY DEF IInv, Core, Alone, TypeOK, JournalHasBegun, Running, Inside
<1>3. ReplaceableStays'
  BY DEF IInv, Core, Alone, ReplaceableStays, RecoveriesAreAlone, MayRename, Running
<1> QED
  BY <1>1, <1>2, <1>3 DEF Alone

(* The journal is cleared, no recovery begins.                              *)
LEMMA FinishAlone ==
  ASSUME ~Overlap, IInv, NEW p \in Procs, Finish(p)
  PROVE  Alone'
<1> USE ProcsAssumption DEF Finish, Goto, dirs, Procs, Activators
<1>1. RecoveriesAreAlone'
  BY DEF IInv, Core, Alone, TypeOK, RecoveriesAreAlone, JournalHasBegun, Running
<1>2. JournalHasBegun'
  BY DEF IInv, Core, Alone, TypeOK, JournalHasBegun, Running, Inside
<1>3. ReplaceableStays'
  BY DEF IInv, Core, Alone, ReplaceableStays, Holds, Reads, MayRename, Replaceable,
     Running
<1> QED
  BY <1>1, <1>2, <1>3 DEF Alone

(* Nothing moves.                                                           *)
LEMMA FailAlone ==
  ASSUME ~Overlap, IInv, NEW p \in Procs, Fail(p)
  PROVE  Alone'
<1> USE ProcsAssumption DEF Fail, Goto, dirs, Procs, Activators
<1>1. RecoveriesAreAlone'
  BY DEF IInv, Core, Alone, TypeOK, RecoveriesAreAlone, JournalHasBegun, Running, Inside
<1>2. JournalHasBegun'
  BY DEF IInv, Core, Alone, TypeOK, JournalHasBegun, Running, Inside
<1>3. ReplaceableStays'
  BY DEF IInv, Core, Alone, ReplaceableStays, Holds, Reads, MayRename, Replaceable,
     Running, Inside
<1> QED
  BY <1>1, <1>2, <1>3 DEF Alone

(* Who dies leaves its directory where it is.                               *)
LEMMA CrashAlone ==
  ASSUME ~Overlap, IInv, NEW p \in Procs, Crash(p)
  PROVE  Alone'
<1> USE ProcsAssumption DEF Crash, Goto, dirs, Procs, Activators
<1>1. RecoveriesAreAlone'
  BY DEF IInv, Core, Alone, TypeOK, RecoveriesAreAlone, JournalHasBegun, Running
<1>2. JournalHasBegun'
  BY DEF IInv, Core, Alone, TypeOK, JournalHasBegun, Running, Inside
<1>3. ReplaceableStays'
  BY DEF IInv, Core, Alone, ReplaceableStays, RecoveriesAreAlone, Holds, Reads, MayRename,
     Replaceable, Running
<1> QED
  BY <1>1, <1>2, <1>3 DEF Alone

(* An owner judged replaceable stays where it is until it is captured.        *)
LEMMA AloneIsACas ==
  ASSUME ~Overlap, IInv, [Next]_vars
  PROVE  CapturesWhatItRead
<1> USE DEF Next, Claim, Acquire, GiveUp
<1>1. ASSUME NEW r \in Recoverers, Capture(r)
      PROVE  CapturesWhatItRead
  <2>1. Reads(lock, seen[r])
    BY <1>1 DEF IInv, Alone, ReplaceableStays, Capture
  <2>2. aside' = [aside EXCEPT ![r] = lock] \/ aside' = aside
    BY <1>1 DEF Capture
  <2> QED
    BY <2>1, <2>2 DEF IInv, Core, TypeOK, CapturesWhatItRead
<1>2. CASE \A r \in Recoverers : ~Capture(r)
  <2>1. ASSUME NEW r \in Recoverers
        PROVE  aside'[r] \in {aside[r], None}
    <3>1. aside \in [Recoverers -> Procs \cup {None}]
      BY DEF IInv, Core, TypeOK
    <3>2. CASE UNCHANGED aside
      BY <3>2
    <3>3. CASE \E q \in Recoverers : Discard(q) \/ Restore(q)
      BY <3>1, <3>3 DEF Discard, Restore
    <3> QED
      BY <1>2, <3>2, <3>3
         DEF StartPrivate, StartPublic, StartRecovery, Observe, Judge, Compare, Prepare,
             Install, Look, Mkdir, Create, Write, Confirm, Abandon, CheckRelease, Unlink,
             Rmdir, WriteJournal, Inspect, Finish, Fail, Crash, dirs, vars
  <2> QED
    BY <2>1 DEF CapturesWhatItRead
<1> QED
  BY <1>1, <1>2

(* Every step of recoveries that do not overlap keeps IInv.                  *)
LEMMA NextStep ==
  ASSUME ~Overlap, IInv, [Next]_vars
  PROVE  IInv' /\ CapturesWhatItRead
<1>1. CapturesWhatItRead
  BY AloneIsACas
<1>2. Core'
  BY <1>1, CoreStep DEF IInv
<1>3. Alone'
  <2>1. CASE \E a \in Private : StartPrivate(a) \/ WriteJournal(a)
    BY <2>1, StartPrivateAlone, WriteJournalAlone
  <2>2. CASE \E a \in Public : StartPublic(a)
    BY <2>2, StartPublicAlone
  <2>3. CASE \E r \in Recoverers : StartRecovery(r) \/ Claim(r) \/ Inspect(r)
    BY <2>3, StartRecoveryAlone, ObserveAlone, JudgeAlone, CaptureAlone, CompareAlone,
       PrepareAlone, InstallAlone, DiscardAlone, RestoreAlone, InspectAlone DEF Claim
  <2>4. CASE \E p \in Procs : Acquire(p)
    BY <2>4, MkdirAlone, LookAlone, CreateAlone, WriteAlone, ConfirmAlone, AbandonAlone
       DEF Acquire
  <2>5. CASE \E p \in Procs : GiveUp(p) \/ Finish(p) \/ Fail(p) \/ Crash(p)
    BY <2>5, CheckReleaseAlone, UnlinkAlone, RmdirAlone, FinishAlone, FailAlone, CrashAlone
       DEF GiveUp
  <2>6. CASE UNCHANGED vars
    BY <2>6 DEF vars, IInv, Alone, RecoveriesAreAlone, JournalHasBegun, ReplaceableStays,
       Holds, Reads, Replaceable, Running
  <2> QED
    BY <2>1, <2>2, <2>3, <2>4, <2>5, <2>6 DEF Next
<1> QED
  BY <1>1, <1>2, <1>3 DEF IInv

(* While recoveries do not overlap, IInv holds, for any number of           *)
(* activations and recoveries of acquireReleaseCutoverLock (1883-2069).     *)
THEOREM Invariance ==
  ASSUME ~Overlap
  PROVE  Spec => []IInv
<1>1. Init => IInv
  BY InitInv
<1>2. IInv /\ [Next]_vars => IInv'
  BY NextStep
<1> QED
  BY <1>1, <1>2, PTL DEF Spec

(* Recoveries that do not overlap capture what they have read: nothing       *)
(* moves between the reading of the owner and the rename (1936-1968).       *)
THEOREM CaptureCompares ==
  ASSUME ~Overlap
  PROVE  Spec => CaptureIsACas
<1>1. IInv /\ [Next]_vars => [CapturesWhatItRead]_vars
  BY NextStep
<1> QED
  BY <1>1, Invariance, PTL DEF Spec, CaptureIsACas

(* Every step keeps the types, whoever overlaps.                             *)
LEMMA TypeStep ==
  ASSUME TypeOK, [Next]_vars
  PROVE  TypeOK'
<1> USE ProcsAssumption DEF TypeOK, Goto, dirs, Procs, Activators, Stages, Inside
<1>1. CASE \E a \in Private : StartPrivate(a) \/ WriteJournal(a)
  BY <1>1 DEF StartPrivate, WriteJournal
<1>2. CASE \E a \in Public : StartPublic(a)
  BY <1>2 DEF StartPublic
<1>3. CASE \E r \in Recoverers : Observe(r) \/ Judge(r) \/ Compare(r)
  BY <1>3 DEF Observe, Judge, Compare
<1>4. CASE \E r \in Recoverers : Capture(r) \/ Prepare(r)
  BY <1>4 DEF Capture, Prepare
<1>5. CASE \E r \in Recoverers : Install(r) \/ Discard(r) \/ Restore(r)
  BY <1>5 DEF Install, Discard, Restore
<1>6. CASE \E r \in Recoverers : StartRecovery(r) \/ Inspect(r)
  BY <1>6 DEF StartRecovery, Inspect
<1>7. CASE \E p \in Procs : Acquire(p)
  BY <1>7 DEF Acquire, Mkdir, Look, Create, Write, Confirm, Abandon
<1>8. CASE \E p \in Procs : GiveUp(p)
  BY <1>8 DEF GiveUp, CheckRelease, Unlink, Rmdir
<1>9. CASE \E p \in Procs : Finish(p) \/ Fail(p) \/ Crash(p)
  BY <1>9 DEF Finish, Fail, Crash
<1>10. CASE UNCHANGED vars
  BY <1>10 DEF vars
<1> QED
  BY <1>1, <1>2, <1>3, <1>4, <1>5, <1>6, <1>7, <1>8, <1>9, <1>10 DEF Next, Claim

(* Types of the lock, its directories and the journal, whoever overlaps.    *)
THEOREM TypeCorrect == Spec => []TypeOK
<1>1. Init => TypeOK
  BY InitInv DEF IInv, Core
<1>2. TypeOK /\ [Next]_vars => TypeOK'
  BY TypeStep
<1> QED
  BY <1>1, <1>2, PTL DEF Spec

(* At most one activation or recovery is at work on a host: who is holds     *)
(* the directory at the path of the lock, and a directory has one owner.    *)
THEOREM OneAtWork ==
  ASSUME ~Overlap
  PROVE  Spec => []MutualExclusion
<1>1. Spec => CaptureIsACas
  BY CaptureCompares
<1> QED
  BY <1>1, OnlyTheCaptureBreaks, PTL

(* Whoever is at work, or about to release, finds its own owner.json at the  *)
(* path, so release() (2058-2067) does not throw "ownership changed".       *)
THEOREM OwnLock ==
  ASSUME ~Overlap
  PROVE  Spec => []ReleaseFindsItsLock
<1>1. Spec => CaptureIsACas
  BY CaptureCompares
<1> QED
  BY <1>1, OnlyTheCaptureLosesLocks, PTL

(* The lock implements CutoverClaim: it is taken when free, entered by its   *)
(* holder only, and never taken away from a process at work.                *)
THEOREM Refinement ==
  ASSUME ~Overlap
  PROVE  Spec => ImplementsClaim
<1>1. Spec => CaptureIsACas
  BY CaptureCompares
<1> QED
  BY <1>1, OnlyTheCaptureBreaksClaims, PTL

=============================================================================
