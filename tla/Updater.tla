------------------------------ MODULE Updater ------------------------------
(***************************************************************************)
(* How a new release gets onto the device: updated.py checks out a release *)
(* in an overlay of the installed tree, flashes the operating system it    *)
(* needs into the spare slot and copies the overlay to `finalized'; at the *)
(* next boot launch_chffrplus.sh renames that copy into place and, when    *)
(* the release needs it, makes the spare slot the active one.              *)
(*                                                                         *)
(* Power may go at any step.  `fs' is what programs see and `disk' what a  *)
(* power loss leaves: metadata reaches it in order, at a sync or whenever  *)
(* the file system likes (WriteBack); the contents of freshly copied files *)
(* are safe only after a sync.  The overlay itself is lost at a boot.      *)
(***************************************************************************)
EXTENDS Integers

CONSTANTS
  Release,         \* heads the update branch can have
  AGNOS_VERSION    \* the operating system each release asks for (launch_env.sh)

OS == {AGNOS_VERSION[r] : r \in Release}
Slot == [boot : OS \cup {"torn"}, system : OS \cup {"torn"}, footer : OS \cup {"none"}]

ASSUME UpdaterAssumption == {"none", "torn"} \cap (Release \cup OS) = {}

\* /data: BASEDIR, STAGING_ROOT/finalized and its flag, .overlay_init and
\* STAGING_ROOT/old_openpilot; and the two slots.
Files ==
  [dir : Release \cup {"none"}, fin : Release \cup {"none", "torn"}, consistent : BOOLEAN,
   overlay_init : BOOLEAN, old : BOOLEAN, slot : [0 .. 1 -> Slot]]

VARIABLES
  pc,               \* where the launch script, or updated, is
  fs, disk,         \* the files as seen, and as a power loss leaves them
  unsynced,         \* `finalized' has contents that no sync has covered
  active,           \* the slot that boots
  merged,           \* OVERLAY_MERGED
  remote,           \* the head of the update branch on the server
  head,             \* self.branches[self.target_branch]
  user_request, first_run,
  recent,           \* UpdaterLastFetchTime is less than three days old
  UpdateAvailable,
  skipped,          \* history: the updater screen was left with the system it was to replace
  calm              \* from now on nothing fails, and nobody interferes

process == <<head, user_request, first_run>>
world == <<remote, skipped, calm>>
vars == <<pc, fs, disk, unsynced, active, merged, process, world, recent, UpdateAvailable>>

\* The steps of main's try block, from init_overlay to finalize_update.
Attempt == {"init_overlay", "wipe", "mount", "set_params", "check", "fetch", "git", "checkout",
            "agnos", "flash", "write", "finalize", "copy", "sync", "touch", "sync2"}
Updated == Attempt \cup {"idle", "reset", "sleep"}
Boot == {"boot", "swap", "agnos_init", "cleared", "updater", "updater_write"}

\* The type invariant: the installed tree, above all, is never a torn one.
TypeOK ==
  /\ pc \in Boot \cup Updated \cup {"manager"}
  /\ fs \in Files /\ disk \in Files /\ unsynced \in BOOLEAN /\ active \in 0 .. 1
  /\ merged \in Release \cup {"none", "torn"}
  /\ remote \in Release /\ head \in Release \cup {"none"}
  /\ user_request \in {"NONE", "CHECK", "FETCH"} /\ first_run \in BOOLEAN
  /\ recent \in BOOLEAN /\ UpdateAvailable \in BOOLEAN
  /\ skipped \in BOOLEAN /\ calm \in BOOLEAN

\* A device with some release on it and the system that release asks for.
Init ==
  /\ pc = "boot" /\ merged = "none" /\ unsynced = FALSE /\ active = 0
  /\ \E r \in Release : LET os == AGNOS_VERSION[r] IN
       fs = [dir |-> r, fin |-> "none", consistent |-> FALSE, overlay_init |-> FALSE, old |-> FALSE,
             slot |-> [i \in 0 .. 1 |-> [boot |-> os, system |-> os, footer |-> "none"]]]
  /\ disk = fs
  /\ remote \in Release /\ head = "none" /\ user_request = "NONE" /\ first_run = TRUE
  /\ recent = FALSE /\ UpdateAvailable = FALSE /\ skipped = FALSE /\ calm = FALSE

-----------------------------------------------------------------------------
(***************************************************************************)
(* Files and slots                                                         *)
(***************************************************************************)
\* What updated keeps in memory is gone, and manager clears the param before
\* anyone reads it again.
ProcessEnds ==
  head' = "none" /\ user_request' = "NONE" /\ first_run' = TRUE /\ UpdateAvailable' = FALSE

Goto(from, to) == pc = from /\ pc' = to

Sync(f) == fs' = f /\ disk' = f /\ unsynced' = FALSE

\* set_consistent_flag(False): it starts and ends with a sync.
Inconsistent(f) == Sync([f EXCEPT !.consistent = FALSE])

get_os_version == fs.slot[active].system

\* Mutant: get_target_slot_number takes the slot that is running.
target_slot_number_Current == active

target_slot_number == 1 - active

\* verify_partition: boot is read in full (full_check), of system only the
\* hash behind it.
verify_partition(p, os) ==
  LET s == fs.slot[target_slot_number] IN IF p = "boot" THEN s.boot = os ELSE s.footer = os

verify_agnos_update(os) == \A p \in {"boot", "system"} : verify_partition(p, os)

\* flash_agnos_update takes the partitions in order and skips those in place.
NextPartition(os) == IF verify_partition("boot", os) THEN "system" ELSE "boot"

\* The spare slot while partition p is being flashed: of system the hash is
\* cleared first; then the contents go, unless the request fails before a byte.
Flashing(p) ==
  LET s == fs.slot[target_slot_number] IN
  IF p = "boot" THEN {s, [s EXCEPT !.boot = "torn"]}
  ELSE {[s EXCEPT !.footer = "none"], [s EXCEPT !.system = "torn", !.footer = "none"]}

\* flash_partition before its image is complete.  Clearing a hash syncs.
FlashStart(os) ==
  \E s \in Flashing(NextPartition(os)) :
    LET slot == [fs.slot EXCEPT ![target_slot_number] = s] IN
    IF NextPartition(os) = "boot"
    THEN /\ fs' = [fs EXCEPT !.slot = slot] /\ disk' = [disk EXCEPT !.slot = slot]
         /\ UNCHANGED unsynced
    ELSE Sync([fs EXCEPT !.slot = slot])

\* The rest of it: the image and a sync, then its hash.
FlashEnd(os) ==
  LET p == NextPartition(os)
      written == [fs EXCEPT !.slot[target_slot_number] =
                    IF p = "boot" THEN [@ EXCEPT !.boot = os] ELSE [@ EXCEPT !.system = os]]
  IN  /\ disk' = written /\ unsynced' = FALSE
      /\ fs' = IF p = "boot" THEN written
                             ELSE [written EXCEPT !.slot[target_slot_number].footer = os]

\* update_ready on one branch, and the last lines of set_params.
update_ready == fs.consistent /\ fs.dir # head
set_params == UpdateAvailable' = update_ready

-----------------------------------------------------------------------------
(***************************************************************************)
(* launch_chffrplus.sh                                                     *)
(***************************************************************************)
launcher == <<active, merged, process, world, recent, UpdateAvailable>>

\* Mutant: the check of the flag is forgotten.
InstallReady_AnyCopy == fs.overlay_init /\ fs.fin # "none" /\ ~ fs.old

\* The checks of `launch': an overlay of this very tree, a consistent update,
\* no backup of an earlier one.
InstallReady == fs.overlay_init /\ fs.consistent /\ ~ fs.old

\* mv $DIR old_openpilot
MoveOld ==
  /\ Goto("boot", "swap") /\ fs.dir # "none" /\ InstallReady
  /\ fs' = [fs EXCEPT !.dir = "none", !.old = TRUE]
  /\ UNCHANGED <<launcher, disk, unsynced>>

\* mv finalized $DIR, and the script starts anew.  The copy was cleaned of
\* .overlay_init by git clean.
MoveNew ==
  /\ Goto("swap", "boot")
  /\ fs' = [fs EXCEPT !.dir = fs.fin, !.fin = "none", !.consistent = FALSE, !.overlay_init = FALSE]
  /\ UNCHANGED <<launcher, disk, unsynced>>

\* A boot with nothing to install.
NoInstall ==
  /\ Goto("boot", "agnos_init") /\ fs.dir # "none" /\ ~ InstallReady
  /\ UNCHANGED <<launcher, fs, disk, unsynced>>

\* agnos_init, when the running system is the one this release asks for.
StartManager ==
  /\ Goto("agnos_init", "manager") /\ get_os_version = AGNOS_VERSION[fs.dir]
  /\ skipped' = FALSE
  /\ UNCHANGED <<fs, disk, unsynced, active, merged, process, remote, calm, recent, UpdateAvailable>>

\* The release asks for another one: agnos.py --verify, and the user's
\* updater screen if the spare slot does not hold it.
VerifyAgnos ==
  /\ pc = "agnos_init" /\ get_os_version # AGNOS_VERSION[fs.dir]
  /\ pc' = IF verify_agnos_update(AGNOS_VERSION[fs.dir]) THEN "cleared" ELSE "updater"
  /\ IF pc' = "cleared" THEN Sync([fs EXCEPT !.slot[target_slot_number].footer = "none"])
                        ELSE UNCHANGED <<fs, disk, unsynced>>
  /\ UNCHANGED launcher

\* The second half of swap: abctl --set_active, then a reboot, which syncs.
SetActive ==
  /\ Goto("cleared", "boot") /\ active' = target_slot_number
  /\ Sync(fs) /\ UNCHANGED <<merged, process, world, recent, UpdateAvailable>>

\* agnos.py --swap from the updater screen: flash until it verifies, then swap.
UpdaterFlash ==
  /\ UNCHANGED launcher
  /\ LET os == AGNOS_VERSION[fs.dir] IN
     \/ /\ Goto("updater", "updater_write") /\ ~ verify_agnos_update(os) /\ FlashStart(os)
     \/ /\ Goto("updater_write", "updater") /\ FlashEnd(os)
     \/ /\ Goto("updater", "cleared") /\ verify_agnos_update(os)
        /\ Sync([fs EXCEPT !.slot[target_slot_number].footer = "none"])

Launch == MoveOld \/ MoveNew \/ NoInstall \/ StartManager \/ VerifyAgnos \/ SetActive \/ UpdaterFlash

-----------------------------------------------------------------------------
(***************************************************************************)
(* updated.py                                                              *)
(***************************************************************************)
\* manager starts it whenever the device is offroad; main invalidates what an
\* earlier instance has finalized.
Start ==
  /\ Goto("manager", "init_overlay")
  /\ Inconsistent(fs)
  /\ UNCHANGED <<active, merged, process, world, recent, UpdateAvailable>>

\* init_overlay: the overlay is kept if it is there ...
KeepOverlay ==
  /\ Goto("init_overlay", "set_params") /\ fs.overlay_init /\ merged # "none"
  /\ UNCHANGED <<fs, disk, unsynced, active, merged, process, world, recent, UpdateAvailable>>

\* ... and otherwise made anew, in three steps that power can part.
DropOverlay ==
  /\ Goto("init_overlay", "wipe") /\ ~ (fs.overlay_init /\ merged # "none")
  /\ UpdateAvailable' = FALSE /\ merged' = "none" /\ Inconsistent(fs)
  /\ UNCHANGED <<active, process, world, recent>>

WipeStaging ==
  /\ Goto("wipe", "mount")
  /\ fs' = [fs EXCEPT !.fin = "none", !.old = FALSE]
  /\ UNCHANGED <<disk, unsynced, active, merged, process, world, recent, UpdateAvailable>>

MountOverlay ==
  /\ Goto("mount", "set_params")
  /\ Sync([fs EXCEPT !.overlay_init = TRUE]) /\ merged' = fs.dir
  /\ UNCHANGED <<active, process, world, recent, UpdateAvailable>>

\* set_params, and the pause of the first round.
SetParams ==
  /\ pc = "set_params" /\ pc' = IF first_run THEN "init_overlay" ELSE "check"
  /\ first_run' = FALSE /\ set_params
  /\ UNCHANGED <<fs, disk, unsynced, active, merged, head, user_request, world, recent>>

\* Mutant: the age of the last download is not looked at.
CheckForUpdate_NoTimeOut ==
  /\ pc = "check" /\ head' = remote
  /\ \E NetworkMetered \in BOOLEAN :
       pc' = IF (NetworkMetered /\ user_request # "FETCH") \/ user_request = "CHECK"
             THEN "idle" ELSE "fetch"
  /\ UNCHANGED <<fs, disk, unsynced, active, merged, user_request, first_run, world, recent, UpdateAvailable>>

\* check_for_update, and main's decision whether to download.
CheckForUpdate ==
  /\ pc = "check" /\ head' = remote
  /\ \E NetworkMetered \in BOOLEAN :
       pc' = IF (NetworkMetered /\ recent /\ user_request # "FETCH") \/ user_request = "CHECK"
             THEN "idle" ELSE "fetch"
  /\ UNCHANGED <<fs, disk, unsynced, active, merged, user_request, first_run, world, recent, UpdateAvailable>>

\* fetch_update: the old update is void from here on.
FetchUpdate ==
  /\ Goto("fetch", "git") /\ Inconsistent(fs) /\ UpdateAvailable' = FALSE
  /\ UNCHANGED <<active, merged, process, world, recent>>

\* git fetch, then the checkout, resets and submodules.
GitCheckout ==
  /\ \/ Goto("git", "checkout") /\ merged' = "torn"
     \/ Goto("checkout", "agnos") /\ merged' = remote
  /\ UNCHANGED <<fs, disk, unsynced, active, process, world, recent, UpdateAvailable>>

\* Mutant: an update that needs another system is finalized without it.
HandleAgnosUpdate_NoFlash ==
  /\ Goto("agnos", "finalize")
  /\ UNCHANGED <<fs, disk, unsynced, active, merged, process, world, recent, UpdateAvailable>>

\* handle_agnos_update
HandleAgnosUpdate ==
  /\ UNCHANGED <<active, merged, process, world, recent, UpdateAvailable>>
  /\ LET os == AGNOS_VERSION[merged] IN
     \/ /\ Goto("agnos", "finalize") /\ get_os_version = os /\ UNCHANGED <<fs, disk, unsynced>>
     \/ /\ Goto("agnos", "flash") /\ get_os_version # os /\ Inconsistent(fs)
     \/ /\ Goto("flash", "write") /\ ~ verify_agnos_update(os) /\ FlashStart(os)
     \/ /\ Goto("write", "flash") /\ FlashEnd(os)
     \/ /\ Goto("flash", "finalize") /\ verify_agnos_update(os) /\ UNCHANGED <<fs, disk, unsynced>>

\* set_consistent_flag(False), rmtree and the first files of copytree.
StartCopy ==
  LET f == [fs EXCEPT !.consistent = FALSE]
  IN  disk' = f /\ fs' = [f EXCEPT !.fin = "torn"] /\ unsynced' = TRUE

\* Mutant: the flag goes up before the copy is on the disk.
finalize_update_NoSync ==
  /\ UNCHANGED <<active, merged, process, world, UpdateAvailable>>
  /\ \/ /\ Goto("finalize", "copy") /\ StartCopy /\ UNCHANGED recent
     \/ /\ Goto("copy", "touch") /\ fs' = [fs EXCEPT !.fin = merged] /\ unsynced' = TRUE
        /\ UNCHANGED <<disk, recent>>
     \/ /\ Goto("touch", "sync2") /\ fs' = [fs EXCEPT !.consistent = TRUE]
        /\ UNCHANGED <<disk, unsynced, recent>>
     \/ /\ Goto("sync2", "idle") /\ Sync(fs) /\ recent' = TRUE

\* finalize_update: the old copy goes and the new one begins; copytree and
\* the resets end; then set_consistent_flag(True), which is sync, touch, sync.
finalize_update ==
  /\ UNCHANGED <<active, merged, process, world, UpdateAvailable>>
  /\ \/ /\ Goto("finalize", "copy") /\ StartCopy /\ UNCHANGED recent
     \/ /\ Goto("copy", "sync") /\ fs' = [fs EXCEPT !.fin = merged] /\ unsynced' = TRUE
        /\ UNCHANGED <<disk, recent>>
     \/ /\ Goto("sync", "touch") /\ Sync(fs) /\ UNCHANGED recent
     \/ /\ Goto("touch", "sync2") /\ fs' = [fs EXCEPT !.consistent = TRUE]
        /\ UNCHANGED <<disk, unsynced, recent>>
     \/ /\ Goto("sync2", "idle") /\ Sync(fs) /\ recent' = TRUE

\* After an attempt: set_params, the request is done with, sleep.
EndOfRound ==
  /\ UNCHANGED <<fs, disk, unsynced, active, merged, head, first_run, world, recent>>
  /\ \/ Goto("idle", "reset") /\ set_params /\ UNCHANGED user_request
     \/ Goto("reset", "sleep") /\ user_request' = "NONE" /\ UNCHANGED UpdateAvailable
     \/ Goto("sleep", "init_overlay") /\ UNCHANGED <<user_request, UpdateAvailable>>

Update ==
  \/ Start \/ KeepOverlay \/ DropOverlay \/ WipeStaging \/ MountOverlay \/ SetParams
  \/ CheckForUpdate \/ FetchUpdate \/ GitCheckout \/ HandleAgnosUpdate \/ finalize_update
  \/ EndOfRound

-----------------------------------------------------------------------------
(***************************************************************************)
(* Failures and the outside                                                *)
(***************************************************************************)
\* An exception in main's try block, such as a git command without network.
Fail ==
  /\ ~ calm /\ pc \in Attempt \ {"sync", "touch", "sync2"} /\ pc' = "idle"
  /\ fs' = [fs EXCEPT !.overlay_init = FALSE]
  /\ UNCHANGED <<disk, unsynced, active, merged, process, world, recent, UpdateAvailable>>

\* The updater screen: agnos.py --swap fails, in a download or in abctl, and the
\* user may try again; or the screen's program ends, and the script goes on to
\* manager with the system that was to be replaced.
UpdaterFails ==
  /\ ~ calm
  /\ \/ pc \in {"updater_write", "cleared"} /\ pc' = "updater" /\ UNCHANGED skipped
     \/ pc \in {"updater", "updater_write"} /\ pc' = "manager" /\ skipped' = TRUE
  /\ UNCHANGED <<fs, disk, unsynced, active, merged, process, remote, calm, recent, UpdateAvailable>>

\* The car is started: manager stops updated, wherever it is, and clears the param.
GoOnroad ==
  /\ ~ calm /\ pc \in Updated /\ pc' = "manager" /\ ProcessEnds
  /\ UNCHANGED <<fs, disk, unsynced, active, merged, world, recent>>

\* HARDWARE.reboot() syncs.
Reboot ==
  /\ ~ calm /\ pc \in Updated \cup {"manager", "updater"} /\ pc' = "boot"
  /\ Sync(fs) /\ merged' = "none" /\ ProcessEnds
  /\ UNCHANGED <<active, world, recent>>

\* What a power loss leaves: unsynced contents may be gone.
Survivors ==
  {disk} \cup (IF unsynced /\ disk.fin # "none" THEN {[disk EXCEPT !.fin = "torn"]} ELSE {})

PowerLoss ==
  /\ ~ calm /\ pc' = "boot" /\ merged' = "none" /\ ProcessEnds
  /\ \E f \in Survivors : Sync(f)
  /\ UNCHANGED <<active, world, recent>>

\* The file system writes back what it has, on its own.
WriteBack ==
  /\ disk # fs /\ disk' = fs
  /\ UNCHANGED <<pc, fs, unsynced, active, merged, process, world, recent, UpdateAvailable>>

\* The user asks (SIGUSR1, SIGHUP); a release comes out or the branch is
\* changed; after that, calm.
Interfere ==
  /\ ~ calm
  /\ \/ /\ pc \in Updated /\ user_request' \in {"CHECK", "FETCH"}
        /\ UNCHANGED <<head, first_run, world>>
     \/ remote' \in Release \ {remote} /\ UNCHANGED <<process, skipped, calm>>
     \/ calm' = TRUE /\ UNCHANGED <<process, remote, skipped>>
  /\ UNCHANGED <<pc, fs, disk, unsynced, active, merged, recent, UpdateAvailable>>

\* Three days pass without a download.
ThreeDays ==
  /\ recent /\ recent' = FALSE
  /\ UNCHANGED <<pc, fs, disk, unsynced, active, merged, process, world, UpdateAvailable>>

Next ==
  \/ Launch \/ Update \/ Fail \/ UpdaterFails \/ GoOnroad \/ Reboot \/ PowerLoss \/ WriteBack
  \/ Interfere \/ ThreeDays

Spec == Init /\ [][Next]_vars

\* The script and updated go on, which includes a user who answers the updater
\* screen; and three days pass.
FairSpec == Spec /\ WF_vars(Launch) /\ WF_vars(Update) /\ WF_vars(ThreeDays)

-----------------------------------------------------------------------------
\* The system a release asks for is running, or waits whole in the spare slot.
AgnosReady(f, r) ==
  LET os == AGNOS_VERSION[r] spare == f.slot[1 - active] IN
  \/ f.slot[active].system = os
  \/ spare.boot = os /\ spare.system = os /\ spare.footer = os

\* Whatever a reboot or a power loss finds flagged .overlay_consistent is a whole
\* release and, as long as it would be installed, has a system it can run on
\* (set_consistent_flag, handle_agnos_update).  A failed attempt that leaves the
\* flag up removes .overlay_init, and then the updater screen may take its system.
ConsistentMeansWhole ==
  \A f \in {fs} \cup Survivors :
    f.consistent => f.fin \in Release /\ (f.overlay_init => AgnosReady(f, f.fin))

\* manager runs with a whole tree, on a slot that was flashed to the end, and on
\* the system that tree asks for, unless the updater screen ended without
\* replacing it: the script does not look again (launch, agnos_init).
RunsWhatItWasMadeFor ==
  pc \in Updated \cup {"manager"} =>
    /\ fs.dir \in Release
    /\ fs.slot[active].boot \in OS /\ fs.slot[active].system = fs.slot[active].boot
    /\ skipped \/ get_os_version = AGNOS_VERSION[fs.dir]

\* The updater screen, which needs a network and the user, comes up only where
\* power was lost in swap(), between the hashes and the slot, and the new system
\* is in the spare slot, only its hash is missing; or where it had started to
\* flash; or where it came up before and was left.  (swap, agnos_init)
DownloadAtBootOnlyAfterSwap ==
  pc = "updater" /\ ~ skipped /\ fs.slot[target_slot_number].system # "torn" =>
    /\ fs.slot[target_slot_number].system = AGNOS_VERSION[fs.dir]
    /\ fs.slot[target_slot_number].footer \in {"none", AGNOS_VERSION[fs.dir]}

\* Once nothing fails and nobody interferes, the latest release becomes ready
\* to install, on a metered connection too; unless a power loss between the two
\* renames has left no tree to boot.
UpdateComesThrough ==
  (calm /\ (fs.dir # "none" \/ pc = "swap")) ~> (fs.consistent /\ fs.overlay_init /\ fs.fin = remote)
=============================================================================
