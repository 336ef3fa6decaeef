---------------------------- MODULE CutoverLock ----------------------------
(***************************************************************************)
(* scripts/release/open-release-core.mjs: the lock that activations and     *)
(* recoveries of one host share, a directory with an owner.json inside, at  *)
(* the grain of its file-system calls, and the journal that tells a         *)
(* recovery which dead owner it may replace.                               *)
(*                                                                         *)
(* A process is one run of a command: an activation of the private service  *)
(* or of the public one, or a recovery.  It makes at most one directory,    *)
(* which bears its name here wherever it is moved to.                      *)
(***************************************************************************)
CONSTANTS
  Private, Public, Recoverers,
  None,
  Overlap  \* whether a recovery may begin beside another one or beside the
           \* activation it is to recover; otherwise the operator waits

Activators == Private \cup Public
Procs == Activators \cup Recoverers

ASSUME ProcsAssumption ==
  /\ Private \cap Public = {}
  /\ Activators \cap Recoverers = {}
  /\ None \notin Procs
  /\ Overlap \in BOOLEAN

VARIABLES
  pc,       \* the call each process makes next
  lock,     \* the directory at the path of the lock
  owner,    \* who created the owner.json of a directory
  written,  \* processes that have written theirs
  aside,    \* the directory a recovery has moved to its quarantine
  seen,     \* the owner it read before
  knows,    \* the journal it goes by
  journal   \* the activation whose journal there is

vars == <<pc, lock, owner, written, aside, seen, knows, journal>>
dirs == <<lock, owner, written, aside>>

(* Having the lock, as the rest of the program understands it.             *)
Inside == {"journal", "inspect", "cs"}

Stages == Inside \cup
  {"idle", "mkdir", "observe", "judge", "capture", "compare", "prepare", "install",
   "discard", "restore", "look", "create", "write", "confirm", "abandon", "retract",
   "release", "unlink", "rmdir", "gone"}

TypeOK ==
  /\ pc \in [Procs -> Stages]
  /\ lock \in Procs \cup {None}
  /\ owner \in [Procs -> Procs \cup {None}]
  /\ written \subseteq Procs
  /\ aside \in [Recoverers -> Procs \cup {None}]
  /\ seen \in [Recoverers -> Procs \cup {None}]
  /\ knows \in [Recoverers -> Private \cup {None}]
  /\ journal \in Private \cup {None}

Init ==
  /\ pc = [p \in Procs |-> "idle"]
  /\ lock = None
  /\ owner = [p \in Procs |-> None]
  /\ written = {}
  /\ aside = [r \in Recoverers |-> None]
  /\ seen = [r \in Recoverers |-> None]
  /\ knows = [r \in Recoverers |-> None]
  /\ journal = None

-----------------------------------------------------------------------------
Goto(p, stage) == pc' = [pc EXCEPT ![p] = stage]

(* process.kill(pid, 0).                                                   *)
Running(p) == pc[p] \notin {"idle", "gone"}

Holds(d, p) == d # None /\ owner[d] = p
Empty(d) == d # None /\ owner[d] = None

(* readFile of owner.json answers p's bytes.                               *)
Reads(d, p) == Holds(d, p) /\ p \in written

(* rename puts a directory where there is none, or an empty one.           *)
MayRename == lock = None \/ Empty(lock)

(* The call that begins each command.  activateOpenRelease looks for a      *)
(* journal before it asks for the lock, recoverPrivateRelease goes by the   *)
(* one it finds.                                                           *)
StartPrivate(a) ==
  /\ pc[a] = "idle"
  /\ Goto(a, "mkdir")
  /\ UNCHANGED <<dirs, seen, knows, journal>>

StartPublic(a) ==
  /\ pc[a] = "idle"
  /\ Goto(a, IF journal = None THEN "mkdir" ELSE "gone")
  /\ UNCHANGED <<dirs, seen, knows, journal>>

StartRecovery(r) ==
  /\ pc[r] = "idle"
  /\ journal # None
  /\ Overlap \/ ~ \E q \in Recoverers \cup {journal} : Running(q)
  /\ knows' = [knows EXCEPT ![r] = journal]
  /\ Goto(r, "mkdir")
  /\ UNCHANGED <<dirs, seen, journal>>

Mkdir(p) ==
  /\ pc[p] = "mkdir"
  /\ \/ /\ lock = None
        /\ lock' = p
        /\ Goto(p, "look")
     \/ /\ lock # None
        /\ Goto(p, IF p \in Recoverers THEN "observe" ELSE "gone")
        /\ UNCHANGED lock
  /\ UNCHANGED <<owner, written, aside, seen, knows, journal>>

(* A recovery that finds the lock taken reads its owner, asks whether that  *)
(* process lives, moves the directory aside and compares what it moved.    *)
Observe(r) ==
  /\ pc[r] = "observe"
  /\ \/ \E o \in Procs : /\ Reads(lock, o)
                         /\ seen' = [seen EXCEPT ![r] = o]
                         /\ Goto(r, "judge")
     \/ /\ ~ \E o \in Procs : Reads(lock, o)
        /\ Goto(r, "gone")
        /\ UNCHANGED seen
  /\ UNCHANGED <<dirs, knows, journal>>

MutantAnyDeadOwner(r, o) == o \in Procs /\ ~Running(o)

(* The owner the journal names, or an earlier recovery by this journal.    *)
Replaceable(r, o) ==
  /\ ~Running(o)
  /\ o = knows[r] \/ (o \in Recoverers /\ knows[o] = knows[r])

Judge(r) ==
  /\ pc[r] = "judge"
  /\ Goto(r, IF lock # None /\ Replaceable(r, seen[r]) THEN "capture" ELSE "gone")
  /\ UNCHANGED <<dirs, seen, knows, journal>>

Capture(r) ==
  /\ pc[r] = "capture"
  /\ \/ /\ lock # None
        /\ aside' = [aside EXCEPT ![r] = lock]
        /\ lock' = None
        /\ Goto(r, "compare")
     \/ /\ lock = None
        /\ Goto(r, "gone")
        /\ UNCHANGED <<aside, lock>>
  /\ UNCHANGED <<owner, written, seen, knows, journal>>

Compare(r) ==
  /\ pc[r] = "compare"
  /\ Goto(r, IF Reads(aside[r], seen[r]) THEN "prepare" ELSE "restore")
  /\ UNCHANGED <<dirs, seen, knows, journal>>

(* Its own directory is made, with its owner.json, under a private name.   *)
Prepare(r) ==
  /\ pc[r] = "prepare"
  /\ owner' = [owner EXCEPT ![r] = r]
  /\ written' = written \cup {r}
  /\ Goto(r, "install")
  /\ UNCHANGED <<lock, aside, seen, knows, journal>>

MutantInstallOverAny(r) ==
  /\ pc[r] = "install"
  /\ lock' = r
  /\ Goto(r, "discard")
  /\ UNCHANGED <<owner, written, aside, seen, knows, journal>>

Install(r) ==
  /\ pc[r] = "install"
  /\ \/ /\ MayRename
        /\ lock' = r
        /\ Goto(r, "discard")
        /\ UNCHANGED owner
     \/ /\ ~MayRename
        /\ owner' = [owner EXCEPT ![r] = None]
        /\ Goto(r, "restore")
        /\ UNCHANGED lock
  /\ UNCHANGED <<written, aside, seen, knows, journal>>

Discard(r) ==
  /\ pc[r] = "discard"
  /\ owner' = [owner EXCEPT ![aside[r]] = None]
  /\ aside' = [aside EXCEPT ![r] = None]
  /\ Goto(r, "look")
  /\ UNCHANGED <<lock, written, seen, knows, journal>>

(* What was moved is put back, or dropped when the path is taken.          *)
Restore(r) ==
  /\ pc[r] = "restore"
  /\ \/ /\ MayRename
        /\ lock' = aside[r]
        /\ UNCHANGED owner
     \/ /\ ~MayRename
        /\ owner' = [owner EXCEPT ![aside[r]] = None]
        /\ UNCHANGED lock
  /\ aside' = [aside EXCEPT ![r] = None]
  /\ Goto(r, "gone")
  /\ UNCHANGED <<written, seen, knows, journal>>

-----------------------------------------------------------------------------
(* Whoever got the path makes sure that owner.json is its own.             *)
Look(p) ==
  /\ pc[p] = "look"
  /\ Goto(p, IF Empty(lock) THEN "create"
             ELSE IF Reads(lock, p) THEN "confirm" ELSE "abandon")
  /\ UNCHANGED <<dirs, seen, knows, journal>>

(* open with 'wx', in whatever directory is at the path by now.            *)
Create(p) ==
  /\ pc[p] = "create"
  /\ \/ /\ Empty(lock)
        /\ owner' = [owner EXCEPT ![lock] = p]
        /\ Goto(p, "write")
     \/ /\ ~Empty(lock)
        /\ Goto(p, "abandon")
        /\ UNCHANGED owner
  /\ UNCHANGED <<lock, written, aside, seen, knows, journal>>

Write(p) ==
  /\ pc[p] = "write"
  /\ written' = written \cup {p}
  /\ Goto(p, "confirm")
  /\ UNCHANGED <<lock, owner, aside, seen, knows, journal>>

(* The directory at the path is synced; then the process has the lock.     *)
Confirm(p) ==
  /\ pc[p] = "confirm"
  /\ Goto(p, IF lock = None THEN "abandon"
             ELSE IF p \in Private THEN "journal"
             ELSE IF p \in Public THEN "cs" ELSE "inspect")
  /\ UNCHANGED <<dirs, seen, knows, journal>>

Abandon(p) ==
  /\ pc[p] = "abandon"
  /\ Goto(p, IF Reads(lock, p) THEN "retract" ELSE "gone")
  /\ UNCHANGED <<dirs, seen, knows, journal>>

(* release(): read and compare, unlink, rmdir.                             *)
CheckRelease(p) ==
  /\ pc[p] = "release"
  /\ Goto(p, IF Reads(lock, p) THEN "unlink" ELSE "gone")
  /\ UNCHANGED <<dirs, seen, knows, journal>>

Unlink(p) ==
  /\ pc[p] \in {"unlink", "retract"}
  /\ \/ /\ lock # None
        /\ ~Empty(lock)
        /\ owner' = [owner EXCEPT ![lock] = None]
        /\ Goto(p, "rmdir")
     \/ /\ lock = None \/ Empty(lock)
        /\ Goto(p, IF pc[p] = "retract" THEN "rmdir" ELSE "gone")
        /\ UNCHANGED owner
  /\ UNCHANGED <<lock, written, aside, seen, knows, journal>>

MutantRemoveAll(p) ==
  /\ pc[p] = "rmdir"
  /\ lock' = None
  /\ Goto(p, "gone")
  /\ UNCHANGED <<owner, written, aside, seen, knows, journal>>

Rmdir(p) ==
  /\ pc[p] = "rmdir"
  /\ lock' = IF Empty(lock) THEN None ELSE lock
  /\ Goto(p, "gone")
  /\ UNCHANGED <<owner, written, aside, seen, knows, journal>>

-----------------------------------------------------------------------------
(* createPrivateCutoverJournal, under the lock.                            *)
WriteJournal(a) ==
  /\ pc[a] = "journal"
  /\ \/ /\ journal = None
        /\ journal' = a
        /\ Goto(a, "cs")
     \/ /\ journal # None
        /\ Goto(a, "release")
        /\ UNCHANGED journal
  /\ UNCHANGED <<dirs, seen, knows>>

(* A recovery with the lock reads the journal again and asks whether its    *)
(* activation is over.                                                     *)
Inspect(r) ==
  /\ pc[r] = "inspect"
  /\ Goto(r, IF journal = knows[r] /\ ~Running(journal) THEN "cs" ELSE "release")
  /\ UNCHANGED <<dirs, seen, knows, journal>>

(* The journal is cleared when the work is done, committed or undone.      *)
OwnJournal(p) == journal # None /\ (journal = p \/ (p \in Recoverers /\ journal = knows[p]))

Finish(p) ==
  /\ pc[p] = "cs"
  /\ journal' = IF OwnJournal(p) THEN None ELSE journal
  /\ Goto(p, "release")
  /\ UNCHANGED <<dirs, seen, knows>>

(* A proof, a command or a rollback fails: the finally releases the lock.  *)
Fail(p) ==
  /\ pc[p] \in Inside
  /\ Goto(p, "release")
  /\ UNCHANGED <<dirs, seen, knows, journal>>

Crash(p) ==
  /\ Running(p)
  /\ Goto(p, "gone")
  /\ UNCHANGED <<dirs, seen, knows, journal>>

-----------------------------------------------------------------------------
Claim(r) ==
  \/ Observe(r) \/ Judge(r) \/ Capture(r) \/ Compare(r)
  \/ Prepare(r) \/ Install(r) \/ Discard(r) \/ Restore(r)

Acquire(p) == Mkdir(p) \/ Look(p) \/ Create(p) \/ Write(p) \/ Confirm(p) \/ Abandon(p)

GiveUp(p) == CheckRelease(p) \/ Unlink(p) \/ Rmdir(p)

Next ==
  \/ \E a \in Private : StartPrivate(a) \/ WriteJournal(a)
  \/ \E a \in Public : StartPublic(a)
  \/ \E r \in Recoverers : StartRecovery(r) \/ Claim(r) \/ Inspect(r)
  \/ \E p \in Procs : Acquire(p) \/ GiveUp(p) \/ Finish(p) \/ Fail(p) \/ Crash(p)

Spec == Init /\ [][Next]_vars

-----------------------------------------------------------------------------
(* Of all activations and recoveries of a host at most one is at work.     *)
MutualExclusion ==
  \A p, q \in Procs : pc[p] \in Inside /\ pc[q] \in Inside => p = q

(* A process at work finds its own owner.json at the path of the lock: no   *)
(* recovery has moved it, so its release will not fail and what it leaves   *)
(* when it dies is what its journal names.                                 *)
ReleaseFindsItsLock ==
  \A p \in Procs : pc[p] \in Inside \cup {"release", "unlink"} => Reads(lock, p)

(* The lock is an exclusive claim: taken when free, never taken from one    *)
(* that is at work.                                                        *)
Exclusive == INSTANCE CutoverClaim WITH
  holder <- IF lock = None THEN None ELSE owner[lock],
  inside <- {p \in Procs : pc[p] \in Inside}

ImplementsClaim == Exclusive!Spec

-----------------------------------------------------------------------------
(* "Renaming the whole directory is the recovery CAS" (1975-1977): what a    *)
(* recovery moves aside is the directory of the dead owner it has read.     *)
CapturesWhatItRead ==
  \A r \in Recoverers : aside'[r] \notin {aside[r], None} => Reads(aside'[r], seen[r])

CaptureIsACas == [][CapturesWhatItRead]_vars

-----------------------------------------------------------------------------
(* The inductive strengthening: Core for any recoveries whose captures are a *)
(* CAS, Alone for those that do not overlap, whose captures are.            *)

(* Before it installs its directory a process has none, or a prepared one.  *)
Unmade == {"idle", "mkdir", "observe", "judge", "capture", "compare", "prepare", "install"}

DirectoriesAreFresh ==
  \A p \in Procs : pc[p] \in Unmade =>
    /\ lock # p
    /\ \A r \in Recoverers : aside[r] # p
    /\ pc[p] # "install" => p \notin written
    /\ pc[p] = "install" => Holds(p, p) /\ p \in written

DirectoriesAreApart ==
  \A r \in Recoverers : aside[r] # None =>
    /\ aside[r] # lock
    /\ \A q \in Recoverers \ {r} : aside[q] # aside[r]

(* The owner a recovery read had begun; judged replaceable, it is over.     *)
SeenAreOver ==
  \A r \in Recoverers :
    /\ pc[r] = "judge" => seen[r] \in written
    /\ pc[r] = "capture" => seen[r] \in Procs /\ pc[seen[r]] = "gone"

(* From the moment owner.json is there until it is removed again.          *)
Holding == Inside \cup {"discard", "write", "confirm", "retract", "release", "unlink"}

HoldersHold ==
  \A p \in Procs : pc[p] \in Holding =>
    /\ Holds(lock, p)
    /\ pc[p] # "write" => p \in written

Core ==
  /\ TypeOK
  /\ DirectoriesAreFresh
  /\ DirectoriesAreApart
  /\ SeenAreOver
  /\ HoldersHold

(* A recovery runs alone, and the activation it recovers is over.          *)
RecoveriesAreAlone ==
  \A r \in Recoverers : Running(r) =>
    /\ \A q \in Recoverers : Running(q) => q = r
    /\ knows[r] \in Private
    /\ pc[knows[r]] = "gone"

JournalHasBegun == journal # None => pc[journal] # "idle"

(* An owner that a recovery may replace is dead, and nobody else moves it.  *)
ReplaceableStays ==
  \A r \in Recoverers : pc[r] \in {"judge", "capture"} =>
    /\ seen[r] \in Procs \ {r}
    /\ Replaceable(r, seen[r]) => Reads(lock, seen[r])
    /\ pc[r] = "capture" => Replaceable(r, seen[r])

Alone ==
  /\ RecoveriesAreAlone
  /\ JournalHasBegun
  /\ ReplaceableStays

IInv == Core /\ Alone

=============================================================================
