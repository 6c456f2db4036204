--------------------------- MODULE ProcessLockProofs ---------------------------
(***************************************************************************)
(* Proofs about ProcessLock for any set of launches: type correctness, and *)
(* that the singleton is lost only through a displaced fresh lock.         *)
(***************************************************************************)
EXTENDS ProcessLock, TLAPS

-------------------------------------------------------------------------------
(* Type correctness.                                                       *)

LEMMA InitType == Init => TypeOK
  BY DEF Init, TypeOK, File, Label

LEMMA CreateType ==
    ASSUME TypeOK, NEW p \in Launcher, NEW eexist \in Label, TryAtomicCreateLock(p, eexist)
    PROVE  TypeOK'
  BY DEF TypeOK, TryAtomicCreateLock, Goto, Label, File

LEMMA StepType ==
    ASSUME TypeOK, NEW p \in Launcher, Step(p)
    PROVE  TypeOK'
<1> USE DEF TypeOK, At, Goto
<1>1. CASE Launch(p)
  BY <1>1, CreateType DEF Launch, Label
<1>2. CASE Retry(p)
  BY <1>2, CreateType DEF Retry, Label
<1>3. CASE CreateVanished(p) \/ FinalCreate(p)
  BY <1>3, CreateType DEF CreateVanished, FinalCreate, Label, Ended
<1>4. CASE ReadExisting(p) \/ Reread(p)
  BY <1>4 DEF ReadExisting, Reread, Owner, Label
<1>5. CASE WriteLock(p) \/ Judge(p) \/ CheckMoved(p) \/ Leave(p) \/ Crash(p)
  BY <1>5 DEF WriteLock, Judge, CheckMoved, Leave, Crash, Label, Ended
<1>6. CASE RenameStale(p) \/ RestoreMismatched(p)
  BY <1>6 DEF RenameStale, RestoreMismatched, Label, Ended
<1>7. CASE ReadOwn(p) \/ UnlinkOwn(p)
  BY <1>7 DEF ReadOwn, UnlinkOwn, After, Unlinking, Label, Ended
<1> QED  BY <1>1, <1>2, <1>3, <1>4, <1>5, <1>6, <1>7 DEF Step

\* Every reachable state is well typed: the calls of acquireLock and releaseLock
\* only ever meet files of the launches, the stale one and the torn one.
THEOREM TypeCorrect == Spec => []TypeOK
<1>1. TypeOK /\ [Next]_vars => TypeOK'
  BY StepType DEF Next, vars, TypeOK
<1> QED  BY <1>1, InitType, PTL DEF Spec

-------------------------------------------------------------------------------
(* How the singleton is lost.                                              *)

\* A launch that has created its file and not yet let go of it.
Holding(p) == pc[p] \in {"write", "running", "unlinkCleanup", "unlinkExit"}

\* A launch has renamed nothing before it moves the stale lock aside.
BackupInv ==
    \A p \in Launcher :
        pc[p] \in {"idle", "read", "retry", "reread", "judge", "rename", "vanished"}
            => backup[p] = None

\* What is about to be renamed was written by a process that has ended.
JudgedInv == \A p \in Launcher : At(p, "rename") => seen[p] # None /\ ~ Alive(seen[p])

\* What a launch read is the record of a complete file, and what it checks is the
\* file it moved.
SeenInv == \A p \in Launcher : seen[p] \in written \cup {None}

CheckInv == \A p \in Launcher : At(p, "check") => backup[p] # None /\ seen[p] # None

\* A restore is of a file that was not the one read.
RestoreInv == \A p \in Launcher : At(p, "restore") => DisplacedFresh(p)

\* A launch that displaced a fresh lock gives up.
GivesUpInv ==
    \A p \in Launcher :
        DisplacedFresh(p) => pc[p] \in {"check", "restore", "refused", "crashed"}

\* As long as no fresh lock is displaced, the lock is the holder's.
HoldInv ==
    (\A p \in Launcher : ~ DisplacedFresh(p)) =>
        \A p \in Launcher : Holding(p) => lock = p

Inv ==
    /\ TypeOK /\ BackupInv /\ JudgedInv /\ SeenInv /\ CheckInv /\ RestoreInv
    /\ GivesUpInv /\ HoldInv

LEMMA InitInv == Init => Inv
  BY InitType
     DEF Init, Inv, BackupInv, JudgedInv, SeenInv, CheckInv, RestoreInv, GivesUpInv, HoldInv,
         At, Holding, DisplacedFresh

\* A step is one launch's, and a launch that has ended takes none.
LEMMA StepFrame ==
    ASSUME TypeOK, NEW p \in Launcher, Step(p)
    PROVE  /\ pc[p] \notin Ended
           /\ \A q \in Launcher \ {p} :
                 pc'[q] = pc[q] /\ seen'[q] = seen[q] /\ backup'[q] = backup[q]
<1> USE DEF TypeOK, At, Goto, Ended
<1>1. CASE Launch(p) \/ Retry(p) \/ CreateVanished(p) \/ FinalCreate(p)
  BY <1>1 DEF Launch, Retry, CreateVanished, FinalCreate, TryAtomicCreateLock
<1>2. CASE ReadExisting(p) \/ Reread(p) \/ WriteLock(p) \/ Judge(p) \/ CheckMoved(p)
  BY <1>2 DEF ReadExisting, Reread, WriteLock, Judge, CheckMoved
<1>3. CASE RenameStale(p) \/ RestoreMismatched(p) \/ Crash(p)
  BY <1>3 DEF RenameStale, RestoreMismatched, Crash
<1>4. CASE Leave(p) \/ ReadOwn(p) \/ UnlinkOwn(p)
  BY <1>4 DEF Leave, ReadOwn, UnlinkOwn, Unlinking
<1> QED  BY <1>1, <1>2, <1>3, <1>4 DEF Step

\* Nothing comes back from the dead.
LEMMA DeadStayDead ==
    ASSUME TypeOK, NEW p \in Launcher, Step(p), NEW f, ~ Alive(f)
    PROVE  ~ Alive(f)'
  BY StepFrame DEF Alive, TypeOK

\* A displaced lock stays displaced: what was read does not change after the
\* rename, and there is one rename.
LEMMA DisplacedStays ==
    ASSUME Inv, NEW p \in Launcher, Step(p), NEW q \in Launcher, DisplacedFresh(q)
    PROVE  DisplacedFresh(q)'
<1> USE DEF Inv, DisplacedFresh
<1>1. CASE q # p
  BY <1>1, StepFrame
<1>2. CASE q = p
  <2>1. pc[p] \notin {"idle", "read", "retry", "reread", "judge", "rename", "vanished"}
    BY <1>2 DEF BackupInv
  <2>2. backup'[p] = backup[p] /\ seen'[p] = seen[p]
    BY <2>1 DEF Step, At, Launch, Retry, ReadExisting, Reread, Judge, RenameStale,
                CreateVanished, FinalCreate, TryAtomicCreateLock, WriteLock, CheckMoved,
                RestoreMismatched, Leave, ReadOwn, UnlinkOwn, Crash
  <2> QED
    BY <1>2, <2>2
<1> QED  BY <1>1, <1>2

LEMMA StepBackup ==
    ASSUME Inv, NEW p \in Launcher, Step(p)
    PROVE  BackupInv'
<1> USE DEF Inv, TypeOK, At, Goto
<1> SUFFICES pc'[p] \in {"idle", "read", "retry", "reread", "judge", "rename", "vanished"}
                 => backup'[p] = None
  BY StepFrame DEF BackupInv
<1>1. CASE Launch(p) \/ Retry(p) \/ CreateVanished(p) \/ FinalCreate(p)
  BY <1>1 DEF Launch, Retry, CreateVanished, FinalCreate, TryAtomicCreateLock, BackupInv
<1>2. CASE ReadExisting(p) \/ Reread(p) \/ Judge(p) \/ RenameStale(p)
  BY <1>2 DEF ReadExisting, Reread, Judge, RenameStale, BackupInv
<1>3. CASE WriteLock(p) \/ CheckMoved(p) \/ RestoreMismatched(p) \/ Crash(p)
  BY <1>3 DEF WriteLock, CheckMoved, RestoreMismatched, Crash
<1>4. CASE Leave(p) \/ ReadOwn(p) \/ UnlinkOwn(p)
  BY <1>4 DEF Leave, ReadOwn, UnlinkOwn, Unlinking, After
<1> QED  BY <1>1, <1>2, <1>3, <1>4 DEF Step

LEMMA StepJudged ==
    ASSUME Inv, NEW p \in Launcher, Step(p)
    PROVE  JudgedInv'
<1> USE DEF Inv, TypeOK, At, Goto
<1>1. ASSUME NEW q \in Launcher \ {p} PROVE (At(q, "rename") => seen[q] # None /\ ~ Alive(seen[q]))'
  <2>1. SUFFICES ASSUME pc'[q] = "rename" PROVE seen'[q] # None /\ ~ Alive(seen[q])'
    OBVIOUS
  <2>2. pc[q] = "rename" /\ seen'[q] = seen[q]
    BY <1>1, <2>1, StepFrame
  <2>3. seen[q] # None /\ ~ Alive(seen[q])
    BY <2>2 DEF JudgedInv
  <2> QED
    BY <2>2, <2>3, StepFrame DEF Alive
<1>2. pc'[p] = "rename" => seen'[p] # None /\ ~ Alive(seen[p])'
  <2>1. pc'[p] = "rename" => Judge(p)
    BY DEF Step, Launch, Retry, ReadExisting, Reread, RenameStale, CreateVanished, FinalCreate,
           TryAtomicCreateLock, WriteLock, CheckMoved, RestoreMismatched, Leave, ReadOwn,
           UnlinkOwn, Unlinking, After, Crash
  <2>2. ASSUME Judge(p), pc'[p] = "rename" PROVE seen'[p] # None /\ ~ Alive(seen[p])'
    BY <2>2, StepFrame DEF Judge, Alive
  <2> QED
    BY <2>1, <2>2
<1> QED  BY <1>1, <1>2 DEF JudgedInv

LEMMA StepSeen ==
    ASSUME Inv, NEW p \in Launcher, Step(p)
    PROVE  SeenInv'
<1> USE DEF Inv, TypeOK
<1>1. written \subseteq written'
  BY DEF Step, Launch, Retry, ReadExisting, Reread, Judge, RenameStale, CreateVanished,
         FinalCreate, TryAtomicCreateLock, WriteLock, CheckMoved, RestoreMismatched, Leave,
         ReadOwn, UnlinkOwn, Crash
<1>2. seen'[p] \in written \cup {None}
  BY DEF Step, Launch, Retry, ReadExisting, Reread, Judge, RenameStale, CreateVanished,
         FinalCreate, TryAtomicCreateLock, WriteLock, CheckMoved, RestoreMismatched, Leave,
         ReadOwn, UnlinkOwn, Crash, Owner, SeenInv
<1> QED  BY <1>1, <1>2, StepFrame DEF SeenInv

\* The calls that lead into a check or a restore.
LEMMA StepCheck ==
    ASSUME Inv, NEW p \in Launcher, Step(p)
    PROVE  CheckInv' /\ RestoreInv'
<1> USE DEF Inv, TypeOK, At, Goto
<1>1. \A q \in Launcher \ {p} :
          (At(q, "check") => backup[q] # None /\ seen[q] # None)' /\ (At(q, "restore") => DisplacedFresh(q))'
  BY StepFrame DEF CheckInv, RestoreInv, DisplacedFresh
<1>2. pc'[p] \in {"check", "restore"} => RenameStale(p) \/ CheckMoved(p)
  BY DEF Step, Launch, Retry, ReadExisting, Reread, Judge, CreateVanished, FinalCreate,
         TryAtomicCreateLock, WriteLock, RestoreMismatched, Leave, ReadOwn, UnlinkOwn,
         Unlinking, After, Crash
<1>3. CASE RenameStale(p)
  BY <1>1, <1>3 DEF RenameStale, CheckInv, RestoreInv, JudgedInv
<1>4. CASE CheckMoved(p)
  <2>1. backup[p] # None /\ seen[p] \in written \cup {None}
    BY <1>4 DEF CheckMoved, CheckInv, SeenInv
  <2>2. pc'[p] = "restore" => DisplacedFresh(p)'
    BY <1>4, <2>1 DEF CheckMoved, Owner, DisplacedFresh
  <2> QED
    BY <1>1, <1>4, <2>2 DEF CheckMoved, CheckInv, RestoreInv
<1>5. CASE pc'[p] \notin {"check", "restore"}
  BY <1>1, <1>5 DEF CheckInv, RestoreInv
<1> QED  BY <1>2, <1>3, <1>4, <1>5

LEMMA StepGivesUp ==
    ASSUME Inv, NEW p \in Launcher, Step(p)
    PROVE  GivesUpInv'
<1> USE DEF Inv, TypeOK, At, Goto, DisplacedFresh
<1>1. \A q \in Launcher \ {p} : (DisplacedFresh(q) => pc[q] \in {"check", "restore", "refused", "crashed"})'
  BY StepFrame DEF GivesUpInv
<1>2. ASSUME DisplacedFresh(p)' PROVE pc'[p] \in {"check", "restore", "refused", "crashed"}
  <2>1. CASE RenameStale(p)
    BY <1>2, <2>1 DEF RenameStale, BackupInv
  <2>2. CASE CheckMoved(p) \/ RestoreMismatched(p) \/ Crash(p)
    BY <1>2, <2>2 DEF CheckMoved, RestoreMismatched, Crash, Owner, CheckInv
  <2>3. CASE Launch(p) \/ Retry(p) \/ CreateVanished(p) \/ ReadExisting(p) \/ Reread(p) \/ Judge(p)
    BY <1>2, <2>3 DEF Launch, Retry, CreateVanished, TryAtomicCreateLock, ReadExisting, Reread,
                      Judge, BackupInv
  <2>4. CASE WriteLock(p) \/ FinalCreate(p) \/ Leave(p) \/ ReadOwn(p) \/ UnlinkOwn(p)
    BY <1>2, <2>4 DEF WriteLock, FinalCreate, TryAtomicCreateLock, Leave, ReadOwn, UnlinkOwn,
                      Unlinking, GivesUpInv
  <2> QED
    BY <2>1, <2>2, <2>3, <2>4 DEF Step
<1> QED  BY <1>1, <1>2 DEF GivesUpInv

\* One step per call, with no fresh lock displaced before or after it.
LEMMA StepHold ==
    ASSUME Inv, NEW p \in Launcher, Step(p)
    PROVE  HoldInv'
<1> USE NamesDistinct DEF Inv, TypeOK, At, Goto, Holding
<1> SUFFICES ASSUME (\A q \in Launcher : ~ DisplacedFresh(q))',
                    NEW q \in Launcher, Holding(q)'
             PROVE  lock' = q
  BY DEF HoldInv
<1>1. \A r \in Launcher : ~ DisplacedFresh(r)
  BY DisplacedStays
<1>2. \A r \in Launcher : Holding(r) => lock = r
  BY <1>1 DEF HoldInv
<1>3. q # p => Holding(q)
  BY StepFrame
<1>4. CASE Launch(p) \/ Retry(p) \/ CreateVanished(p) \/ FinalCreate(p)
  BY <1>2, <1>3, <1>4 DEF Launch, Retry, CreateVanished, FinalCreate, TryAtomicCreateLock
<1>5. CASE ReadExisting(p) \/ Reread(p) \/ WriteLock(p) \/ Judge(p) \/ CheckMoved(p)
  BY <1>2, <1>3, <1>5 DEF ReadExisting, Reread, WriteLock, Judge, CheckMoved
<1>6. CASE RenameStale(p)
  <2>1. CASE lock = None
    BY <1>2, <1>3, <1>6, <2>1 DEF RenameStale
  <2>2. CASE lock # None
    <3>1. backup'[p] = lock /\ seen'[p] = seen[p] /\ pc'[p] = "check"
      BY <1>6, <2>2 DEF RenameStale
    <3>2. lock = seen[p] /\ ~ Alive(lock)
      BY <1>6, <2>2, <3>1 DEF RenameStale, DisplacedFresh, JudgedInv
    <3>3. q # p /\ lock = q
      BY <1>2, <1>3, <3>1
    <3> QED
      BY <1>3, <3>2, <3>3 DEF Alive, Ended
  <2> QED
    BY <2>1, <2>2
<1>7. CASE RestoreMismatched(p)
  BY <1>1, <1>7 DEF RestoreMismatched, RestoreInv
<1>8. CASE Leave(p) \/ Crash(p)
  BY <1>2, <1>3, <1>8 DEF Leave, Crash
<1>9. CASE ReadOwn(p)
  BY <1>2, <1>3, <1>9 DEF ReadOwn, Owner, Unlinking, After
<1>10. CASE UnlinkOwn(p)
  <2>1. Holding(p) /\ lock = p
    BY <1>2, <1>10 DEF UnlinkOwn, Unlinking
  <2>2. q = p
    BY <1>2, <1>3, <2>1
  <2> QED
    BY <1>10, <2>2 DEF UnlinkOwn, Unlinking, After
<1> QED  BY <1>4, <1>5, <1>6, <1>7, <1>8, <1>9, <1>10 DEF Step

LEMMA StepInv ==
    ASSUME Inv, NEW p \in Launcher, Step(p)
    PROVE  Inv'
  BY StepType, StepBackup, StepJudged, StepSeen, StepCheck, StepGivesUp, StepHold DEF Inv

LEMMA Invariance == Spec => []Inv
<1>1. Inv /\ [Next]_vars => Inv'
  <2>1. ASSUME Inv, UNCHANGED vars PROVE Inv'
    BY <2>1 DEF vars, Inv, TypeOK, BackupInv, JudgedInv, SeenInv, CheckInv, RestoreInv,
                GivesUpInv, HoldInv, At, Alive, Holding, DisplacedFresh
  <2> QED
    BY <2>1, StepInv DEF Next
<1> QED  BY <1>1, InitInv, PTL DEF Spec

\* However many launches race, exit and are killed, two engines run at once only
\* if a third launch moved aside a lock that was not the stale one it had read: the
\* retry, the liveness probe, the exclusive creates and the release are sound, and
\* two launches alone exclude each other.
THEOREM OverlapOnlyByDisplacement == Spec => []OverlapNeedsDisplacement
<1>1. Inv => OverlapNeedsDisplacement
  <2> SUFFICES ASSUME Inv, NEW p \in Launcher, NEW q \in Launcher, p # q,
                      At(p, "running"), At(q, "running")
               PROVE  \E r \in Launcher \ {p, q} : DisplacedFresh(r)
    BY DEF OverlapNeedsDisplacement
  <2>1. lock # p \/ lock # q
    OBVIOUS
  <2>2. PICK r \in Launcher : DisplacedFresh(r)
    BY <2>1 DEF Inv, HoldInv, Holding, At
  <2>3. r \notin {p, q}
    BY <2>2 DEF Inv, GivesUpInv, At
  <2> QED
    BY <2>2, <2>3
<1> QED  BY <1>1, Invariance, PTL
-------------------------------------------------------------------------------
(* Somebody wins.  As long as no launch is killed, either one has created  *)
(* its file, or what the first launches found is still decided by one of   *)
(* them: the file nobody can read is left alone, the stale one is there or *)
(* in the hands of the one launch that moved it.                           *)

Created == \E p \in Launcher : p \in written \/ At(p, "write")

NothingFound == lock = None /\ \A p \in Launcher : At(p, "idle")

TornFound ==
    /\ lock = Torn
    /\ \A p \in Launcher :
          /\ pc[p] \in {"idle", "read", "retry", "reread", "judge", "refused"}
          /\ seen[p] = None

StaleFound ==
    /\ lock = Old
    /\ \A p \in Launcher :
          /\ pc[p] \in {"idle", "read", "judge", "rename"}
          /\ At(p, "judge") => seen[p] = Old
          /\ At(p, "rename") => seen[p] = Old

StaleMoved ==
    /\ lock = None
    /\ \E q \in Launcher :
          /\ pc[q] \in {"check", "final"} /\ backup[q] = Old /\ seen[q] = Old
          /\ \A p \in Launcher \ {q} : pc[p] \notin {"check", "restore", "final"}

WinInv ==
    /\ Old \in written
    /\ (\A p \in Launcher : ~ At(p, "crashed")) =>
           Created \/ NothingFound \/ TornFound \/ StaleFound \/ StaleMoved

LEMMA InitWin == Init => WinInv
<1> SUFFICES ASSUME Init PROVE NothingFound \/ TornFound \/ StaleFound
  BY DEF Init, WinInv
<1> QED  BY DEF Init, NothingFound, TornFound, StaleFound, At

\* Records are never erased, and a crash is for good.
LEMMA StepRecords ==
    ASSUME TypeOK, NEW p \in Launcher, Step(p)
    PROVE  written \subseteq written'
  BY DEF Step, Launch, Retry, ReadExisting, Reread, Judge, RenameStale, CreateVanished,
         FinalCreate, TryAtomicCreateLock, WriteLock, CheckMoved, RestoreMismatched, Leave,
         ReadOwn, UnlinkOwn, Crash

LEMMA CreatedStays ==
    ASSUME TypeOK, NEW p \in Launcher, Step(p), ~ At(p, "crashed")', Created
    PROVE  Created'
<1>1. PICK q \in Launcher : q \in written \/ At(q, "write")
  BY DEF Created
<1>2. CASE q \in written \/ q # p
  BY <1>1, <1>2, StepRecords, StepFrame DEF Created, At
<1>3. CASE q = p /\ At(p, "write")
  <2>1. WriteLock(p)
    BY <1>3 DEF Step, At, Goto, TypeOK, Launch, Retry, ReadExisting, Reread, Judge, RenameStale,
                CreateVanished, FinalCreate, WriteLock, CheckMoved, RestoreMismatched, Leave,
                ReadOwn, UnlinkOwn, Unlinking, Crash
  <2> QED  BY <2>1 DEF WriteLock, Created
<1> QED  BY <1>1, <1>2, <1>3

\* With nothing under the lock's name, an exclusive create succeeds.
LEMMA CreateWins ==
    ASSUME TypeOK, NEW p \in Launcher, NEW e, TryAtomicCreateLock(p, e), lock = None
    PROVE  Created'
  BY DEF TryAtomicCreateLock, Goto, At, Created, TypeOK

LEMMA StepNothing ==
    ASSUME TypeOK, NEW p \in Launcher, Step(p), ~ At(p, "crashed")', NothingFound
    PROVE  Created'
<1>1. Launch(p)
  BY DEF NothingFound, Step, At, Goto, TypeOK, Launch, Retry, ReadExisting, Reread, Judge,
         RenameStale, CreateVanished, FinalCreate, WriteLock, CheckMoved, RestoreMismatched,
         Leave, ReadOwn, UnlinkOwn, Unlinking, Crash
<1> QED  BY <1>1, CreateWins DEF Launch, NothingFound

LEMMA StepTorn ==
    ASSUME TypeOK, Old \in written, Torn \notin written, NEW p \in Launcher, Step(p), ~ At(p, "crashed")',
           TornFound
    PROVE  TornFound'
<1> USE DEF TornFound, TypeOK, At, Goto
<1>1. CASE Launch(p) \/ Retry(p)
  BY <1>1, NamesDistinct DEF Launch, Retry, TryAtomicCreateLock
<1>2. CASE ReadExisting(p) \/ Reread(p)
  BY <1>2 DEF ReadExisting, Reread, Owner
<1>3. CASE Judge(p)
  BY <1>3 DEF Judge
<1>4. ~ (\/ WriteLock(p) \/ RenameStale(p) \/ CreateVanished(p) \/ CheckMoved(p)
         \/ RestoreMismatched(p) \/ FinalCreate(p) \/ Leave(p) \/ ReadOwn(p) \/ UnlinkOwn(p)
         \/ Crash(p))
  BY DEF WriteLock, RenameStale, CreateVanished, CheckMoved, RestoreMismatched, FinalCreate,
         Leave, ReadOwn, UnlinkOwn, Unlinking, Crash
<1> QED  BY <1>1, <1>2, <1>3, <1>4 DEF Step

LEMMA StepStale ==
    ASSUME TypeOK, Old \in written, NEW p \in Launcher, Step(p), ~ At(p, "crashed")', StaleFound
    PROVE  StaleFound' \/ StaleMoved'
<1> USE DEF StaleFound, TypeOK, At, Goto
<1>1. CASE Launch(p)
  BY <1>1, NamesDistinct DEF Launch, TryAtomicCreateLock
<1>2. CASE ReadExisting(p)
  BY <1>2, NamesDistinct DEF ReadExisting, Owner
<1>3. CASE Judge(p)
  BY <1>3, NamesDistinct DEF Judge, Alive
<1>4. CASE RenameStale(p)
  BY <1>4, NamesDistinct DEF RenameStale, StaleMoved
<1>5. ~ (\/ WriteLock(p) \/ Retry(p) \/ Reread(p) \/ CreateVanished(p) \/ CheckMoved(p)
         \/ RestoreMismatched(p) \/ FinalCreate(p) \/ Leave(p) \/ ReadOwn(p) \/ UnlinkOwn(p)
         \/ Crash(p))
  BY DEF WriteLock, Retry, Reread, CreateVanished, CheckMoved, RestoreMismatched, FinalCreate,
         Leave, ReadOwn, UnlinkOwn, Unlinking, Crash
<1> QED  BY <1>1, <1>2, <1>3, <1>4, <1>5 DEF Step

LEMMA StepMoved ==
    ASSUME TypeOK, Old \in written, NEW p \in Launcher, Step(p), ~ At(p, "crashed")', StaleMoved
    PROVE  Created' \/ StaleMoved'
<1>1. PICK q \in Launcher :
         /\ pc[q] \in {"check", "final"} /\ backup[q] = Old /\ seen[q] = Old
         /\ \A r \in Launcher \ {q} : pc[r] \notin {"check", "restore", "final"}
  BY DEF StaleMoved
<1>2. lock = None
  BY DEF StaleMoved
<1>3. CASE Launch(p) \/ Retry(p) \/ CreateVanished(p) \/ FinalCreate(p)
  BY <1>2, <1>3, CreateWins DEF Launch, Retry, CreateVanished, FinalCreate
<1>4. CASE CheckMoved(p)
  BY <1>1, <1>2, <1>4 DEF CheckMoved, Owner, StaleMoved, TypeOK, At, Goto
<1>5. CASE UnlinkOwn(p) \/ RestoreMismatched(p)
  BY <1>1, <1>2, <1>5
  DEF UnlinkOwn, RestoreMismatched, StaleMoved, TypeOK, At, Goto, Unlinking, After
<1>6. CASE ReadExisting(p) \/ Reread(p) \/ Judge(p) \/ RenameStale(p)
  BY <1>1, <1>2, <1>6
  DEF ReadExisting, Reread, Judge, RenameStale, StaleMoved, TypeOK, At, Goto
<1>7. CASE WriteLock(p) \/ Leave(p) \/ ReadOwn(p)
  BY <1>1, <1>2, <1>7
  DEF WriteLock, Leave, ReadOwn, StaleMoved, TypeOK, At, Goto, Unlinking, After
<1>8. ~ Crash(p)
  BY DEF Crash, At, Goto, TypeOK
<1> QED  BY <1>3, <1>4, <1>5, <1>6, <1>7, <1>8 DEF Step

LEMMA StepWin ==
    ASSUME TypeOK, WinInv, NEW p \in Launcher, Step(p)
    PROVE  WinInv'
<1>1. Old \in written'
  BY StepRecords DEF WinInv
<1>2. SUFFICES ASSUME \A q \in Launcher : ~ At(q, "crashed")'
               PROVE  (Created \/ NothingFound \/ TornFound \/ StaleFound \/ StaleMoved)'
  BY <1>1 DEF WinInv
<1>3. \A q \in Launcher : ~ At(q, "crashed")
  BY <1>2, StepFrame DEF At, Ended
<1>4. Torn \notin written
  BY NamesDistinct DEF TypeOK
<1> QED
  BY <1>2, <1>3, <1>4, CreatedStays, StepNothing, StepTorn, StepStale, StepMoved DEF WinInv

\* When every launch has ended without being killed and some were refused, one
\* of them did get the lock, unless the file in the way is one nobody can read.
THEOREM RefusedOnlyForAWinner == Spec => []SomeLaunchWins
<1>1. TypeOK /\ WinInv /\ [Next]_vars => WinInv'
  <2>1. ASSUME WinInv, UNCHANGED vars PROVE WinInv'
    BY <2>1 DEF WinInv, Created, NothingFound, TornFound, StaleFound, StaleMoved, At, vars
  <2> QED  BY <2>1, StepWin DEF Next
<1>2. WinInv => SomeLaunchWins
  BY DEF WinInv, SomeLaunchWins, Created, NothingFound, TornFound, StaleFound, StaleMoved, At
<1> QED  BY <1>1, <1>2, InitWin, TypeCorrect, PTL DEF Spec
=============================================================================
