------------------------------ MODULE Updater ------------------------------
(***************************************************************************)
(* beam update (cli/update.ts): the release is chosen, downloaded and      *)
(* verified, the install directory is replaced, the wrapper rewritten, the *)
(* new version smoke-tested and the previous one kept as a backup.  A step *)
(* may fail and is rolled back, the process may be killed between any two  *)
(* of them, and the owner then renames a backup into place by hand.        *)
(* The copies of the user's data are left out.                             *)
(***************************************************************************)
EXTENDS Naturals, Sequences, Functions

CONSTANTS
    Latest,   \* versions are 1 .. Latest, released in that order
    Runs      \* bound: runs of beam update

VARIABLES
    install,  \* what the install directory holds: a version, Nothing or Partial
    place,    \* "versioned" (beam-clmm-v1.2.3) or "plain": the name of that directory
    wrapper,  \* where the beam wrapper points
    temp,     \* .beam-update-backup-*: by run, what it holds
    kept,     \* <install>.bak-<version>: the versions kept
    runs,     \* runs so far; the last is the one in hand
    run       \* [pc, from, to, place]

disk == <<install, place, wrapper, temp, kept>>
vars == <<disk, runs, run>>

Version == 1 .. Latest
Nothing == 0
Partial == Latest + 1
Place == {"versioned", "plain"}
Ended == {"none", "done", "failed", "rolledBack", "killed"}

TypeOK ==
    /\ install \in 0 .. Partial
    /\ place \in Place /\ wrapper \in Place
    /\ DOMAIN temp \subseteq 1 .. Runs /\ Range(temp) \subseteq 1 .. Partial
    /\ kept \subseteq Version
    /\ runs \in 0 .. Runs
    /\ run \in [pc : Ended \cup {"ready", "replace", "copy", "copying", "wrapper", "smoke", "keep",
                                 "prune", "rollback", "restore"},
                from : 0 .. Latest, to : 0 .. Latest, place : Place]

Init ==
    /\ install = 1 /\ place \in Place /\ wrapper = place
    /\ temp = <<>> /\ kept = {}
    /\ runs = 0 /\ run = [pc |-> "none", from |-> 0, to |-> 0, place |-> place]

At(pc) == run.pc = pc
Goto(pc) == run' = [run EXCEPT !.pc = pc]
Without(f, i) == Restrict(f, DOMAIN f \ {i})

-----------------------------------------------------------------------------
(* The release                                                             *)

Channel == {"stable", "beta", "dev", "canary"}

\* sealed: a checksum is published and the bundle downloaded and unpacked agrees
\* with it. NoRelease also stands for a source that cannot be read.
Release == [version : Version, pre : BOOLEAN, sealed : BOOLEAN]
NoRelease == [version |-> 0, pre |-> FALSE, sealed |-> FALSE]

\* The first of the releases listed that suits the channel, not the newest.
FetchGitHubRelease(channel, listed) ==
    LET suits(r) == CASE channel = "stable" -> ~r.pre [] channel = "beta" -> r.pre [] OTHER -> TRUE
        found == SelectSeq(listed, suits)
    IN  IF found = <<>> THEN NoRelease ELSE Head(found)

\* The manifest of the channel on R2; canary builds are nowhere else.
FetchLatestRelease(channel, manifest, listed) ==
    IF manifest # NoRelease THEN manifest
    ELSE IF channel = "canary" THEN NoRelease ELSE FetchGitHubRelease(channel, listed)

Newer(r, v) == r.version > v

\* The run ends with nothing changed when the download fails or is not sealed.
Verified(r) == {"failed"} \cup IF r.sealed THEN {"ready"} ELSE {}

Listed == {<<>>} \cup {<<r>> : r \in Release} \cup {<<r, s>> : r, s \in Release}

Begin ==
    /\ run.pc \in Ended /\ runs < Runs
    /\ install \in Version /\ wrapper = place
    /\ \E channel \in Channel, manifest \in Release \cup {NoRelease}, listed \in Listed :
         LET r == FetchLatestRelease(channel, manifest, listed) IN
           /\ Newer(r, install)
           /\ \E pc \in Verified(r) :
                run' = [pc |-> pc, from |-> install, to |-> r.version, place |-> place]
    /\ runs' = runs + 1
    /\ UNCHANGED disk

-----------------------------------------------------------------------------
(* Replacing the install                                                   *)

\* A bundle in a versioned directory moves to the plain one, unless the rename fails.
Migrate ==
    /\ At("ready") /\ Goto("replace")
    /\ place' \in {place, "plain"}
    /\ UNCHANGED <<install, wrapper, temp, kept, runs>>

\* atomicReplaceInstall. An error here, and in the copies of the data before it, is
\* outside the rollback: the directory keeps the name it was moved to.
MoveAway ==
    /\ At("replace")
    /\ \/ /\ temp' = [i \in DOMAIN temp \cup {runs} |-> IF i = runs THEN install ELSE temp[i]]
          /\ install' = Nothing /\ Goto("copy")
       \/ Goto("failed") /\ UNCHANGED <<temp, install>>
    /\ UNCHANGED <<place, wrapper, kept, runs>>

CopyStart ==
    /\ At("copy") /\ install' = Partial /\ Goto("copying")
    /\ UNCHANGED <<place, wrapper, temp, kept, runs>>

\* A failed copy is removed and the backup renamed back.
CopyEnd ==
    /\ At("copying")
    /\ \/ install' = run.to /\ Goto("wrapper") /\ UNCHANGED temp
       \/ install' = temp[runs] /\ temp' = Without(temp, runs) /\ Goto("failed")
    /\ UNCHANGED <<place, wrapper, kept, runs>>

RewriteWrapper ==
    /\ At("wrapper")
    /\ \/ wrapper' = place /\ Goto("smoke")
       \/ Goto("rollback") /\ UNCHANGED wrapper
    /\ UNCHANGED <<install, place, temp, kept, runs>>

\* --skip-smoke-test lets a broken version through; a sound one may still time out.
SmokeTest ==
    /\ At("smoke")
    /\ Goto("keep") \/ Goto("rollback")
    /\ UNCHANGED <<disk, runs>>

-----------------------------------------------------------------------------
(* Keeping the previous install                                            *)

\* persistPreviousInstall: an older backup of the same version makes room, then the
\* rename; when it fails the caller rolls back.
Keep ==
    /\ At("keep")
    /\ \/ /\ kept' = kept \cup {run.from} /\ temp' = Without(temp, runs) /\ Goto("prune")
       \/ /\ kept' = kept \ {run.from} /\ Goto("rollback") /\ UNCHANGED temp
    /\ UNCHANGED <<install, place, wrapper, runs>>

\* Mutant: the backup just kept counts as stale.
StaleAll == kept

Stale == kept \ {run.from}

\* The other backups go, one at a time; one that cannot be removed is an error, and
\* the caller rolls back.
Prune ==
    /\ At("prune")
    /\ \E k \in SUBSET Stale, t \in SUBSET DOMAIN temp :
         /\ kept' = kept \ k /\ temp' = Restrict(temp, DOMAIN temp \ t)
         /\ Goto(IF k = Stale /\ t = DOMAIN temp THEN "done" ELSE "rollback")
    /\ UNCHANGED <<install, place, wrapper, runs>>

-----------------------------------------------------------------------------
(* Rollback, death and recovery                                            *)

Rollback ==
    /\ At("rollback") /\ install' = Nothing /\ Goto("restore")
    /\ UNCHANGED <<place, wrapper, temp, kept, runs>>

\* The backup is renamed back if it is where it was; the old name of the directory
\* and the wrapper are restored if they can be.
Restore ==
    /\ At("restore") /\ Goto("rolledBack")
    /\ IF runs \in DOMAIN temp THEN install' = temp[runs] /\ temp' = Without(temp, runs)
       ELSE UNCHANGED <<install, temp>>
    /\ place' \in IF install' = Nothing THEN {place} ELSE {place, run.place}
    /\ wrapper' \in {wrapper, run.place}
    /\ UNCHANGED <<kept, runs>>

Kill ==
    /\ run.pc \notin Ended /\ Goto("killed")
    /\ UNCHANGED <<disk, runs>>

\* "recoverable by renaming it back into place", and the wrapper with it.
Recover ==
    /\ run.pc \in Ended /\ (install \notin Version \/ wrapper # place)
    /\ wrapper' = place
    /\ \/ install \in Version /\ UNCHANGED <<install, temp, kept>>
       \/ /\ install \notin Version
          /\ \/ \E v \in kept : install' = v /\ kept' = kept \ {v} /\ UNCHANGED temp
             \/ \E i \in DOMAIN temp : /\ install' = temp[i] /\ temp' = Without(temp, i)
                                       /\ UNCHANGED kept
    /\ UNCHANGED <<place, runs, run>>

Next ==
    \/ Begin \/ Migrate \/ MoveAway \/ CopyStart \/ CopyEnd \/ RewriteWrapper \/ SmokeTest
    \/ Keep \/ Prune \/ Rollback \/ Restore \/ Kill \/ Recover

Spec == Init /\ [][Next]_vars

-----------------------------------------------------------------------------
(* Properties                                                              *)

\* "Update never leaves the agent unrecoverable" (CHANGELOG.md): from its start
\* until it has installed another, the version that ran is whole on the disk,
\* wherever the update failed, was rolled back or was killed.
PreviousKept ==
    run.from # 0 /\ run.pc # "done" => run.from \in {install} \cup kept \cup Range(temp)

\* "a failure restores the previous install" (CHANGELOG.md): an update that ended
\* with an error left the version that ran, and a wrapper that points at it.
FailureRestores ==
    run.pc \in {"failed", "rolledBack"} => install = run.from /\ wrapper = place

=============================================================================
