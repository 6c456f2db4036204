---------------------------- MODULE ProcessLock ----------------------------
(* The lock file that keeps one `beam dev' engine per instance             *)
(* (cli/lockfile.ts, used by cli/dev.ts). Every file-system call and every *)
(* liveness probe is a step of its own; launches interleave at each of     *)
(* them and may be killed between any two.                                 *)
(*                                                                         *)
(* A file is named for the process that created it: a launch creates at    *)
(* most one, and its pid and timestamp tell it from any other. The lock's  *)
(* name and a launch's private backup name are links to such files, so a   *)
(* writer keeps writing to its file when the file is renamed under it.     *)

CONSTANTS Launcher,   \* the launches of `beam dev', one process each
          Old,        \* the complete file of a process that is dead
          Torn,       \* a file of no readable content
          None

ASSUME NamesDistinct ==
    /\ Old \notin Launcher /\ Torn \notin Launcher /\ None \notin Launcher
    /\ Old # Torn /\ Old # None /\ Torn # None

VARIABLES lock,      \* the file under the lock's name, or None
          written,   \* the files whose record is complete
          pc,        \* the next call of each launch
          seen,      \* the owner a launch read from the lock (`existing')
          backup     \* the file a launch renamed aside

vars == <<lock, written, pc, seen, backup>>

Ended == {"refused", "left", "crashed"}

\* Mutant: the record is not validated.
OwnerUnvalidated(f) == f

\* readLockfile: the owner a file records; a missing file and one that does not
\* parse are both null.
Owner(f) == IF f \in written THEN f ELSE None

\* isProcessAlive. A launch that has not happened is in no file.
Alive(f) == f \in Launcher /\ pc[f] \notin Ended

At(p, label) == pc[p] = label
Goto(p, label) == pc' = [pc EXCEPT ![p] = label]

Init ==
    /\ lock \in {None, Old, Torn}
    /\ written = {Old}
    /\ pc = [p \in Launcher |-> "idle"]
    /\ seen = [p \in Launcher |-> None]
    /\ backup = [p \in Launcher |-> None]

-------------------------------------------------------------------------------
(* acquireLock                                                             *)

\* tryAtomicCreateLock: the exclusive open; its record is written by WriteLock.
TryAtomicCreateLock(p, eexist) ==
    /\ \/ /\ lock = None
          /\ lock' = p
          /\ Goto(p, "write")
       \/ /\ lock # None
          /\ Goto(p, eexist)
          /\ UNCHANGED lock
    /\ UNCHANGED <<written, seen, backup>>

Launch(p) == At(p, "idle") /\ TryAtomicCreateLock(p, "read")

\* The record is complete: the launch has the lock and starts its engine.
WriteLock(p) ==
    /\ At(p, "write")
    /\ written' = written \cup {p}
    /\ Goto(p, "running")
    /\ UNCHANGED <<lock, seen, backup>>

ReadExisting(p) ==
    /\ At(p, "read")
    /\ seen' = [seen EXCEPT ![p] = Owner(lock)]
    /\ Goto(p, IF Owner(lock) = None THEN "retry" ELSE "judge")
    /\ UNCHANGED <<lock, written, backup>>

\* resolveExistingWithRetry: one more create when nothing could be read.
Retry(p) == At(p, "retry") /\ TryAtomicCreateLock(p, "reread")

Reread(p) ==
    /\ At(p, "reread")
    /\ seen' = [seen EXCEPT ![p] = Owner(lock)]
    /\ Goto(p, "judge")
    /\ UNCHANGED <<lock, written, backup>>

\* Mutant: the owner's liveness is not probed.
JudgeUnprobed(p) ==
    /\ At(p, "judge")
    /\ Goto(p, IF seen[p] = None THEN "refused" ELSE "rename")
    /\ UNCHANGED <<lock, written, seen, backup>>

\* checkLiveLock, checkUnparseableLock
Judge(p) ==
    /\ At(p, "judge")
    /\ Goto(p, IF seen[p] = None \/ Alive(seen[p]) THEN "refused" ELSE "rename")
    /\ UNCHANGED <<lock, written, seen, backup>>

\* tryRenameStaleLock: whatever is under the name now is moved aside.
RenameStale(p) ==
    /\ At(p, "rename")
    /\ \/ /\ lock # None
          /\ backup' = [backup EXCEPT ![p] = lock]
          /\ lock' = None
          /\ Goto(p, "check")
       \/ /\ lock = None
          /\ Goto(p, "vanished")
          /\ UNCHANGED <<lock, backup>>
    /\ UNCHANGED <<written, seen>>

\* The lock vanished before the rename: only an exclusive create can win.
CreateVanished(p) == At(p, "vanished") /\ TryAtomicCreateLock(p, "refused")

\* Mutant: the moved file is not looked at (unlink, then create).
CheckNothing(p) ==
    /\ At(p, "check")
    /\ Goto(p, "final")
    /\ UNCHANGED <<lock, written, seen, backup>>

\* Mutant: the moved file is compared with the launch's own record.
CheckOwnRecord(p) ==
    /\ At(p, "check")
    /\ Goto(p, IF Owner(backup[p]) = p THEN "final" ELSE "restore")
    /\ UNCHANGED <<lock, written, seen, backup>>

\* handleMovedLockMismatch: is the moved file the stale one that was read?
CheckMoved(p) ==
    /\ At(p, "check")
    /\ Goto(p, IF Owner(backup[p]) = seen[p] THEN "final" ELSE "restore")
    /\ UNCHANGED <<lock, written, seen, backup>>

\* restoreMismatchedLock: a hard link, which fails when the name is taken.
RestoreMismatched(p) ==
    /\ At(p, "restore")
    /\ lock' = IF lock = None THEN backup[p] ELSE lock
    /\ Goto(p, "refused")
    /\ UNCHANGED <<written, seen, backup>>

\* finalizeStaleLockCreation
FinalCreate(p) == At(p, "final") /\ TryAtomicCreateLock(p, "refused")

-------------------------------------------------------------------------------
(* The end of an engine                                                    *)

\* runEngine returns (the command cleans up, then the exit hook does it again)
\* or ends the process itself (the exit hook alone).
Leave(p) ==
    /\ At(p, "running")
    /\ \E next \in {"cleanup", "exit"} : Goto(p, next)
    /\ UNCHANGED <<lock, written, seen, backup>>

\* releaseLock reads the owner and, when it is the process itself, unlinks.
After == [cleanup |-> "exit", exit |-> "left"]
Unlinking == [cleanup |-> "unlinkCleanup", exit |-> "unlinkExit"]

ReadOwn(p) ==
    /\ \E at \in {"cleanup", "exit"} :
          /\ At(p, at)
          /\ Goto(p, IF Owner(lock) = p THEN Unlinking[at] ELSE After[at])
    /\ UNCHANGED <<lock, written, seen, backup>>

UnlinkOwn(p) ==
    /\ \E at \in {"cleanup", "exit"} : At(p, Unlinking[at]) /\ Goto(p, After[at])
    /\ lock' = None
    /\ UNCHANGED <<written, seen, backup>>

\* The process is killed: nothing is released or restored.
Crash(p) ==
    /\ pc[p] \notin Ended \cup {"idle"}
    /\ Goto(p, "crashed")
    /\ UNCHANGED <<lock, written, seen, backup>>

Step(p) ==
    \/ Launch(p) \/ WriteLock(p) \/ ReadExisting(p) \/ Retry(p) \/ Reread(p)
    \/ Judge(p) \/ RenameStale(p) \/ CreateVanished(p) \/ CheckMoved(p)
    \/ RestoreMismatched(p) \/ FinalCreate(p)
    \/ Leave(p) \/ ReadOwn(p) \/ UnlinkOwn(p) \/ Crash(p)

Next == \E p \in Launcher : Step(p)

Spec == Init /\ [][Next]_vars

-------------------------------------------------------------------------------
(* Properties                                                              *)

File == Launcher \cup {Old, Torn}

Label == Ended \cup {"idle", "write", "read", "retry", "reread", "judge", "rename",
                     "vanished", "check", "restore", "final", "running",
                     "cleanup", "unlinkCleanup", "exit", "unlinkExit"}

\* Every variable has its type; what a launch saw is the owner of a complete
\* file (readLockfile validates before it returns).
TypeOK ==
    /\ lock \in File \cup {None}
    /\ written \in SUBSET (Launcher \cup {Old})
    /\ pc \in [Launcher -> Label]
    /\ seen \in [Launcher -> Launcher \cup {Old, None}]
    /\ backup \in [Launcher -> File \cup {None}]

\* The lock is a singleton: two engines never run at once (lockfile.ts:7, and the
\* reason replaceStaleLock gives at 230-237 for renaming instead of unlinking).
MutualExclusion ==
    \A p, q \in Launcher : At(p, "running") /\ At(q, "running") => p = q

\* There is one way to lose it, for any number of launches: a third one moved aside
\* a file that was not the stale one it had read. So two launches never overlap:
\* the check of the moved copy catches a lock re-acquired between the read and the
\* rename, and its finder gives up. Dead owners, retries, clean exits and crashes
\* are not enough either.
DisplacedFresh(p) == backup[p] \notin {None, seen[p]}

OverlapNeedsDisplacement ==
    \A p, q \in Launcher :
        p # q /\ At(p, "running") /\ At(q, "running")
            => \E r \in Launcher \ {p, q} : DisplacedFresh(r)

\* Launches do not refuse one another all: when every launch has come to an end
\* without being killed and some were refused, one of them did get the lock,
\* unless what stood in the way is a file nobody can read (the code fails closed).
SomeLaunchWins ==
    /\ \A p \in Launcher : pc[p] \in {"idle", "refused", "running", "left"}
    /\ \E p \in Launcher : At(p, "refused")
    /\ lock # Torn
    => written \cap Launcher # {}
=============================================================================
