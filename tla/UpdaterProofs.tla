--------------------------- MODULE UpdaterProofs ----------------------------
(***************************************************************************)
(* An update is installed whole or not at all, for every set of releases   *)
(* and systems, whenever the power goes: what is flagged is whole and can  *)
(* run, and what runs has the system it was made for, unless the updater   *)
(* screen was left before it had done its work.                            *)
(***************************************************************************)
EXTENDS Updater, TLAPS

\* The two versions of the files, and the two slots of one of them.
Running(f) == f.slot[active]
Spare(f) == f.slot[1 - active]

\* Nothing is flagged, on the disk either.
Void == ~ fs.consistent /\ ~ disk.consistent

\* A boot would install the flagged copy.
Installable(f) == f.consistent /\ f.overlay_init

\* What holds of the files as seen and as a power loss leaves them.  A hash
\* behind a system is that system's; the running slot is whole; an overlay is
\* that of the release in place, made after the backup was dropped; a flagged
\* copy is whole, and has its system if it would be installed; and the release
\* in place has its system running or in the spare slot, if only in part, or is
\* about to be replaced, or was started without it.
FilesOK(f) ==
  /\ \A i \in 0 .. 1 : f.slot[i].footer # "none" => f.slot[i].system = f.slot[i].footer
  /\ Running(f).boot \in OS /\ Running(f).system = Running(f).boot
  /\ f.overlay_init /\ f.dir # "none" => ~ f.old
  /\ f.consistent => f.fin \in Release
  /\ Installable(f) => AgnosReady(f, f.fin)
  /\ f.dir # "none" => \/ skipped \/ Installable(f)
                       \/ Running(f).system = AGNOS_VERSION[f.dir]
                       \/ Spare(f).system \in {AGNOS_VERSION[f.dir], "torn"}

\* How far the disk may be behind.
DiskOK ==
  /\ Running(disk) = Running(fs)
  /\ unsynced => Void
  /\ disk.consistent /\ fs.consistent => disk.fin = fs.fin
  /\ Installable(disk) => disk.slot = fs.slot
  /\ fs.dir # disk.dir => Installable(disk)
  /\ disk.consistent /\ ~ fs.consistent =>
       pc \in {"boot", "agnos_init", "manager"} /\ fs.dir = disk.fin /\ disk.overlay_init
  /\ pc \in Boot /\ fs.consistent => disk.consistent
  /\ pc \in {"boot", "agnos_init"} /\ fs.consistent => disk = fs

\* Where the launch script is.
LaunchOK ==
  /\ pc = "swap" => Installable(fs) /\ Installable(disk)
  /\ pc \in Boot \ {"boot", "swap"} => fs.dir # "none" /\ ~ Installable(fs)
  /\ pc \in {"cleared", "updater", "updater_write"} =>
       ~ Installable(disk) /\ get_os_version # AGNOS_VERSION[fs.dir]
  /\ pc = "cleared" => /\ Spare(fs).boot = AGNOS_VERSION[fs.dir]
                       /\ Spare(fs).system = AGNOS_VERSION[fs.dir]
  /\ pc = "updater_write" => Spare(fs).boot # AGNOS_VERSION[fs.dir] \/ Spare(fs).footer = "none"

\* Where updated is.
UpdatedOK ==
  /\ pc \in Updated \cup {"manager"} =>
       fs.dir # "none" /\ (skipped \/ get_os_version = AGNOS_VERSION[fs.dir])
  /\ pc \in {"wipe", "mount", "git", "checkout", "agnos", "flash", "write", "finalize", "copy",
             "sync", "touch"} => Void
  /\ pc = "mount" => ~ fs.old
  /\ pc \in {"agnos", "flash", "write", "finalize", "copy", "sync", "touch"} => merged \in Release
  /\ pc = "write" => Spare(fs).boot # AGNOS_VERSION[merged] \/ Spare(fs).footer = "none"
  /\ pc \in {"finalize", "copy", "sync", "touch"} => AgnosReady(fs, merged)
  /\ pc \in {"sync", "touch"} => fs.fin = merged
  /\ pc = "touch" => ~ unsynced

\* The inductive invariant.  What is flagged on the disk may be older than what
\* is seen, so the files are described twice and DiskOK relates the two; the
\* points of the two programs say what a power loss would interrupt.
UpdaterInv == TypeOK /\ FilesOK(fs) /\ FilesOK(disk) /\ DiskOK /\ LaunchOK /\ UpdatedOK

-----------------------------------------------------------------------------
\* A device starts with one release and its system in both slots.
LEMMA InitInv == Init => UpdaterInv
<1> SUFFICES ASSUME Init PROVE UpdaterInv
  OBVIOUS
<1>1. PICK r \in Release :
        fs = [dir |-> r, fin |-> "none", consistent |-> FALSE, overlay_init |-> FALSE, old |-> FALSE,
              slot |-> [i \in 0 .. 1 |-> [boot |-> AGNOS_VERSION[r], system |-> AGNOS_VERSION[r],
                                         footer |-> "none"]]]
  BY DEF Init
<1>2. AGNOS_VERSION[r] \in OS
  BY DEF OS
<1>3. fs \in Files
  BY <1>1, <1>2 DEF Files, Slot
<1>4. TypeOK
  <2>1. /\ unsynced \in BOOLEAN /\ first_run \in BOOLEAN /\ recent \in BOOLEAN
        /\ UpdateAvailable \in BOOLEAN /\ skipped \in BOOLEAN /\ calm \in BOOLEAN
    BY DEF Init
  <2> QED
    BY <1>3, <2>1 DEF Init, TypeOK, Boot
<1>5. FilesOK(fs) /\ FilesOK(disk)
  BY <1>1, <1>2 DEF Init, FilesOK, Running, Spare, Installable
<1>6. DiskOK /\ LaunchOK /\ UpdatedOK
  BY <1>1 DEF Init, DiskOK, LaunchOK, UpdatedOK, Updated, Attempt
<1> QED
  BY <1>4, <1>5, <1>6 DEF UpdaterInv

(***************************************************************************)
(* What is written to the slots                                            *)
(***************************************************************************)
\* Only the spare slot is written, and only while nothing is to be installed:
\* the disk then has the same tree, or is brought up to date, a hash perhaps apart.
SpareChanged ==
  /\ fs' \in Files /\ disk' \in Files /\ FilesOK(fs)' /\ FilesOK(disk)'
  /\ Running(fs)' = Running(fs) /\ Running(disk)' = Running(fs)
  /\ fs'.dir = fs.dir /\ disk'.dir = fs.dir
  /\ fs'.consistent = fs.consistent
  /\ disk'.consistent = fs.consistent \/ disk'.consistent = disk.consistent
  /\ disk'.consistent /\ fs'.consistent => disk'.fin = fs'.fin
  /\ ~ Installable(fs)' /\ ~ Installable(disk)'

\* The release in place does not lose its system to x.
Harmless(x) ==
  /\ x.footer # "none" => x.system = x.footer
  /\ fs.dir # "none" => \/ skipped \/ Running(fs).system = AGNOS_VERSION[fs.dir]
                        \/ x.system \in {AGNOS_VERSION[fs.dir], "torn"}

\* A spare slot s, with d on the disk, that is harmless.
LEMMA SpareReplaced ==
  ASSUME UpdaterInv, ~ Installable(fs), UNCHANGED <<active, skipped>>, NEW s \in Slot, NEW d \in Slot,
         Harmless(s), Harmless(d),
         fs' = [fs EXCEPT !.slot = [fs.slot EXCEPT ![1 - active] = s]],
         \/ disk' = [fs EXCEPT !.slot = [fs.slot EXCEPT ![1 - active] = d]]
         \/ ~ Installable(disk) /\ disk' = [disk EXCEPT !.slot = [fs.slot EXCEPT ![1 - active] = d]]
  PROVE  SpareChanged /\ Spare(fs)' = s
<1> DEFINE slots == [fs.slot EXCEPT ![1 - active] = s]
           slotd == [fs.slot EXCEPT ![1 - active] = d]
<1>1. /\ fs' = [fs EXCEPT !.slot = slots]
      /\ \/ disk' = [fs EXCEPT !.slot = slotd]
         \/ ~ Installable(disk) /\ disk' = [disk EXCEPT !.slot = slotd]
  OBVIOUS
<1> USE DEF UpdaterInv, Running, Spare
<1>2. fs.slot \in [0 .. 1 -> Slot] /\ active \in 0 .. 1 /\ 1 - active \in 0 .. 1 /\ 1 - active # active
  BY DEF TypeOK, Files
<1>3. /\ slots \in [0 .. 1 -> Slot] /\ slots[active] = Running(fs) /\ slots[1 - active] = s
      /\ slotd \in [0 .. 1 -> Slot] /\ slotd[active] = Running(fs) /\ slotd[1 - active] = d
  BY <1>2
<1>4. \A i \in 0 .. 1 : /\ slots[i].footer # "none" => slots[i].system = slots[i].footer
                        /\ slotd[i].footer # "none" => slotd[i].system = slotd[i].footer
  BY <1>2, <1>3 DEF FilesOK, Harmless
<1> HIDE DEF slots, slotd
<1>5. fs' \in Files /\ disk' \in Files
  BY <1>1, <1>3 DEF TypeOK, Files
<1>6. fs'.slot = slots /\ disk'.slot = slotd
  BY <1>1 DEF TypeOK, Files
<1>7. /\ fs'.dir = fs.dir /\ fs'.consistent = fs.consistent /\ fs'.fin = fs.fin
      /\ fs'.overlay_init = fs.overlay_init /\ fs'.old = fs.old
  BY <1>1 DEF TypeOK, Files
<1>8. \E f \in {fs, disk} :
        /\ ~ Installable(f) /\ f.dir = fs.dir
        /\ disk'.dir = f.dir /\ disk'.consistent = f.consistent /\ disk'.fin = f.fin
        /\ disk'.overlay_init = f.overlay_init /\ disk'.old = f.old
  BY <1>1 DEF TypeOK, Files, DiskOK
<1>9. /\ Running(fs)' = Running(fs) /\ Running(disk)' = Running(fs) /\ Spare(fs)' = s /\ Spare(disk)' = d
      /\ ~ Installable(fs)' /\ ~ Installable(disk)' /\ disk'.dir = fs.dir
  BY <1>3, <1>6, <1>7, <1>8 DEF Installable
<1>10. FilesOK(fs)'
  BY <1>4, <1>6, <1>7, <1>9 DEF FilesOK, Harmless
<1>11. FilesOK(disk)'
  BY <1>4, <1>6, <1>8, <1>9 DEF FilesOK, Harmless
<1>12. disk'.consistent /\ fs'.consistent => disk'.fin = fs'.fin
  BY <1>7, <1>8 DEF DiskOK
<1> QED
  BY <1>5, <1>7, <1>8, <1>9, <1>10, <1>11, <1>12 DEF SpareChanged

\* What the invariant says of the spare slot.
LEMMA SpareType ==
  ASSUME UpdaterInv
  PROVE  /\ fs.slot \in [0 .. 1 -> Slot] /\ active \in 0 .. 1 /\ 1 - active \in 0 .. 1
         /\ Spare(fs) \in Slot /\ (Spare(fs).footer # "none" => Spare(fs).system = Spare(fs).footer)
         /\ ~ Installable(fs) => Harmless(Spare(fs))
<1>1. fs.slot \in [0 .. 1 -> Slot] /\ active \in 0 .. 1 /\ 1 - active \in 0 .. 1
  BY DEF UpdaterInv, TypeOK, Files
<1> QED
  BY <1>1 DEF UpdaterInv, FilesOK, Spare, Harmless

\* Until a partition is complete.  A hash goes before its system does.
LEMMA FlashStartOK ==
  ASSUME UpdaterInv, ~ Installable(fs), ~ Installable(disk), UNCHANGED <<active, skipped>>,
         NEW os \in OS, FlashStart(os)
  PROVE  /\ SpareChanged /\ unsynced' \in BOOLEAN /\ (unsynced' => unsynced)
         /\ Spare(fs)'.boot # os \/ Spare(fs)'.footer = "none"
<1> DEFINE part == NextPartition(os)
<1>1. PICK s \in Flashing(part) :
        /\ fs' = [fs EXCEPT !.slot = [fs.slot EXCEPT ![1 - active] = s]]
        /\ \/ disk' = [fs EXCEPT !.slot = [fs.slot EXCEPT ![1 - active] = s]]
           \/ disk' = [disk EXCEPT !.slot = [fs.slot EXCEPT ![1 - active] = s]]
        /\ UNCHANGED unsynced \/ unsynced' = FALSE
  BY DEF FlashStart, Sync, target_slot_number
<1>2. part = "boot" <=> Spare(fs).boot # os
  BY DEF NextPartition, verify_partition, Spare, target_slot_number
<1>3. /\ s \in Slot /\ (s.footer # "none" => s.system = s.footer)
      /\ s.system \in {Spare(fs).system, "torn"} /\ (s.boot # os \/ s.footer = "none")
  <2>1. Spare(fs) \in Slot /\ Flashing(part) =
          IF part = "boot" THEN {Spare(fs), [Spare(fs) EXCEPT !.boot = "torn"]}
          ELSE {[Spare(fs) EXCEPT !.footer = "none"], [Spare(fs) EXCEPT !.system = "torn", !.footer = "none"]}
    BY SpareType DEF Flashing, Spare, target_slot_number
  <2> HIDE DEF part
  <2>2. CASE part = "boot"
    <3>1. s = Spare(fs) \/ s = [Spare(fs) EXCEPT !.boot = "torn"]
      BY <1>1, <2>1, <2>2
    <3> QED
      BY <1>2, <2>1, <2>2, <3>1, SpareType, UpdaterAssumption DEF Slot
  <2>3. CASE part # "boot"
    <3>1. s = [Spare(fs) EXCEPT !.footer = "none"] \/ s = [Spare(fs) EXCEPT !.system = "torn", !.footer = "none"]
      BY <1>1, <2>1, <2>3
    <3> QED
      BY <2>1, <3>1, SpareType DEF Slot
  <2> QED
    BY <2>2, <2>3
<1>4. unsynced' \in BOOLEAN /\ (unsynced' => unsynced)
  <2>1. unsynced \in BOOLEAN
    BY DEF UpdaterInv, TypeOK
  <2>2. CASE UNCHANGED unsynced
    BY <2>1, <2>2
  <2>3. CASE unsynced' = FALSE
    BY <2>3
  <2> QED
    BY <1>1, <2>2, <2>3
<1>5. Harmless(s)
  BY <1>3, SpareType DEF Harmless
<1>6. SpareChanged /\ Spare(fs)' = s
  BY <1>1, <1>3, <1>5, SpareReplaced
<1> QED
  BY <1>3, <1>4, <1>6

\* A system gets its hash only when it is on the disk.
LEMMA FlashEndOK ==
  ASSUME UpdaterInv, ~ Installable(fs), UNCHANGED <<active, skipped>>, NEW os \in OS,
         Spare(fs).boot # os \/ Spare(fs).footer = "none",
         fs.dir # "none" => \/ skipped \/ Running(fs).system = AGNOS_VERSION[fs.dir]
                            \/ os = AGNOS_VERSION[fs.dir],
         FlashEnd(os)
  PROVE  SpareChanged /\ unsynced' = FALSE
<1> DEFINE d == IF NextPartition(os) = "boot" THEN [Spare(fs) EXCEPT !.boot = os]
                ELSE [Spare(fs) EXCEPT !.system = os]
           s == IF NextPartition(os) = "boot" THEN d ELSE [d EXCEPT !.footer = os]
<1>1. NextPartition(os) = "boot" <=> Spare(fs).boot # os
  BY DEF NextPartition, verify_partition, Spare, target_slot_number
<1>2. /\ s \in Slot /\ (s.footer # "none" => s.system = s.footer) /\ s.system \in {Spare(fs).system, os}
      /\ d \in Slot /\ (d.footer # "none" => d.system = d.footer) /\ d.system \in {Spare(fs).system, os}
  BY <1>1, SpareType DEF Slot
<1>3. /\ fs' = [fs EXCEPT !.slot = [fs.slot EXCEPT ![1 - active] = s]]
      /\ disk' = [fs EXCEPT !.slot = [fs.slot EXCEPT ![1 - active] = d]]
      /\ unsynced' = FALSE
  BY SpareType DEF FlashEnd, Spare, target_slot_number
<1> HIDE DEF s, d
<1>4. Harmless(s) /\ Harmless(d)
  BY <1>2, SpareType DEF Harmless
<1> QED
  BY <1>2, <1>3, <1>4, SpareReplaced

\* swap() clears the hash before it changes the active slot.
LEMMA ClearOK ==
  ASSUME UpdaterInv, ~ Installable(fs), UNCHANGED <<active, skipped>>,
         Sync([fs EXCEPT !.slot[target_slot_number].footer = "none"])
  PROVE  /\ SpareChanged /\ unsynced' = FALSE /\ disk' = fs'
         /\ Spare(fs)'.boot = Spare(fs).boot /\ Spare(fs)'.system = Spare(fs).system
<1> DEFINE s == [Spare(fs) EXCEPT !.footer = "none"]
<1>1. s \in Slot /\ s.footer = "none" /\ s.system = Spare(fs).system /\ s.boot = Spare(fs).boot
  BY SpareType DEF Slot
<1>2. /\ fs' = [fs EXCEPT !.slot = [fs.slot EXCEPT ![1 - active] = s]]
      /\ disk' = [fs EXCEPT !.slot = [fs.slot EXCEPT ![1 - active] = s]]
      /\ unsynced' = FALSE
  BY SpareType DEF Sync, Spare, target_slot_number
<1> HIDE DEF s
<1>3. Harmless(s)
  BY <1>1, SpareType DEF Harmless
<1>4. SpareChanged /\ Spare(fs)' = s
  BY <1>1, <1>2, <1>3, SpareReplaced
<1> QED
  BY <1>1, <1>2, <1>4

(***************************************************************************)
(* Types, the files apart                                                  *)
(***************************************************************************)
\* Every step keeps the types of all variables but the files.
LEMMA OtherTypes ==
  ASSUME TypeOK, Next
  PROVE  /\ pc' \in Boot \cup Updated \cup {"manager"}
         /\ active' \in 0 .. 1 /\ merged' \in Release \cup {"none", "torn"}
         /\ remote' \in Release /\ head' \in Release \cup {"none"}
         /\ user_request' \in {"NONE", "CHECK", "FETCH"}
         /\ unsynced' \in BOOLEAN /\ first_run' \in BOOLEAN /\ recent' \in BOOLEAN
         /\ UpdateAvailable' \in BOOLEAN /\ skipped' \in BOOLEAN /\ calm' \in BOOLEAN
<1> USE DEF Next, process, world, launcher, Goto, Sync, Inconsistent, ProcessEnds
<1>1. CASE Launch
  <2> USE <1>1 DEF Launch, MoveOld, MoveNew, NoInstall, StartManager, VerifyAgnos, SetActive, UpdaterFlash
  <2>1. pc' \in Boot \cup Updated \cup {"manager"} /\ active' \in 0 .. 1
    BY DEF TypeOK, Boot, target_slot_number
  <2>2. /\ merged' \in Release \cup {"none", "torn"} /\ remote' \in Release
        /\ head' \in Release \cup {"none"} /\ user_request' \in {"NONE", "CHECK", "FETCH"}
    BY DEF TypeOK
  <2>3. unsynced' \in BOOLEAN
    BY DEF TypeOK, FlashStart, FlashEnd
  <2>4. /\ first_run' \in BOOLEAN /\ recent' \in BOOLEAN
        /\ UpdateAvailable' \in BOOLEAN /\ skipped' \in BOOLEAN /\ calm' \in BOOLEAN
    BY DEF TypeOK
  <2> QED
    BY <2>1, <2>2, <2>3, <2>4
<1>2. CASE Update
  <2> USE <1>2 DEF Update, Start, KeepOverlay, DropOverlay, WipeStaging, MountOverlay, SetParams,
        CheckForUpdate, FetchUpdate, GitCheckout, HandleAgnosUpdate, finalize_update, EndOfRound
  <2>1. pc' \in Boot \cup Updated \cup {"manager"} /\ active' \in 0 .. 1
    BY DEF TypeOK, Boot, Updated, Attempt
  <2>2. /\ merged' \in Release \cup {"none", "torn"} /\ remote' \in Release
        /\ head' \in Release \cup {"none"} /\ user_request' \in {"NONE", "CHECK", "FETCH"}
    BY DEF TypeOK, Files
  <2>3. unsynced' \in BOOLEAN
    BY DEF TypeOK, FlashStart, FlashEnd, StartCopy
  <2>4. UpdateAvailable' \in BOOLEAN
    BY DEF TypeOK, set_params, update_ready, Files
  <2>5. /\ first_run' \in BOOLEAN /\ recent' \in BOOLEAN
        /\ skipped' \in BOOLEAN /\ calm' \in BOOLEAN
    BY DEF TypeOK
  <2> QED
    BY <2>1, <2>2, <2>3, <2>4, <2>5
<1>3. CASE Fail \/ UpdaterFails \/ GoOnroad \/ Reboot \/ PowerLoss \/ WriteBack \/ Interfere \/ ThreeDays
  <2> USE <1>3 DEF Fail, UpdaterFails, GoOnroad, Reboot, PowerLoss, WriteBack, Interfere, ThreeDays
  <2>1. pc' \in Boot \cup Updated \cup {"manager"} /\ active' \in 0 .. 1
    BY DEF TypeOK, Boot, Updated, Attempt
  <2>2. /\ merged' \in Release \cup {"none", "torn"} /\ remote' \in Release
        /\ head' \in Release \cup {"none"} /\ user_request' \in {"NONE", "CHECK", "FETCH"}
    BY DEF TypeOK
  <2>3. unsynced' \in BOOLEAN
    BY DEF TypeOK
  <2>4. /\ first_run' \in BOOLEAN /\ recent' \in BOOLEAN
        /\ UpdateAvailable' \in BOOLEAN /\ skipped' \in BOOLEAN /\ calm' \in BOOLEAN
    BY DEF TypeOK
  <2> QED
    BY <2>1, <2>2, <2>3, <2>4
<1> QED
  BY <1>1, <1>2, <1>3 DEF Next

(***************************************************************************)
(* One lemma per action, about the files                                   *)
(***************************************************************************)
\* UpdaterInv without the types of the variables that are not files.
Sound ==
  fs \in Files /\ disk \in Files /\ FilesOK(fs) /\ FilesOK(disk) /\ DiskOK /\ LaunchOK /\ UpdatedOK

\* The steps that write nothing.
LEMMA QuietSound ==
  ASSUME UpdaterInv,
         \/ KeepOverlay \/ SetParams \/ CheckForUpdate \/ GitCheckout
         \/ EndOfRound \/ GoOnroad \/ Interfere \/ ThreeDays
  PROVE  Sound'
<1> USE DEF UpdaterInv, Installable, Boot, world, KeepOverlay, SetParams, CheckForUpdate, GitCheckout,
      EndOfRound, GoOnroad, Interfere, ThreeDays, Goto, launcher
<1>1. UNCHANGED <<fs, disk, unsynced, active, skipped>>
  OBVIOUS
<1>2. fs' \in Files /\ disk' \in Files /\ FilesOK(fs)' /\ FilesOK(disk)'
  BY <1>1 DEF TypeOK, FilesOK, Running, Spare, AgnosReady
<1>3. DiskOK'
  BY <1>1 DEF DiskOK, Running, Void, Boot
<1>4. LaunchOK'
  BY <1>1 DEF LaunchOK, Void, Spare, get_os_version
<1>5. UpdatedOK'
  BY <1>1 DEF TypeOK, UpdatedOK, LaunchOK, AgnosReady, Spare, Void, Updated, Attempt, get_os_version
<1> QED
  BY <1>2, <1>3, <1>4, <1>5 DEF Sound

\* A boot that installs nothing has nothing to install.
LEMMA NoInstallSound == UpdaterInv /\ NoInstall => Sound'
<1> SUFFICES ASSUME UpdaterInv, NoInstall PROVE Sound'
  OBVIOUS
<1> USE DEF UpdaterInv, Installable, Boot, world, NoInstall, Goto, launcher
<1>1. UNCHANGED <<fs, disk, unsynced, active, skipped>>
  OBVIOUS
<1>2. fs' \in Files /\ disk' \in Files /\ FilesOK(fs)' /\ FilesOK(disk)'
  BY <1>1 DEF TypeOK, FilesOK, Running, Spare, AgnosReady
<1>3. DiskOK'
  BY <1>1 DEF DiskOK, Running, Void
<1>4. LaunchOK'
  BY <1>1 DEF LaunchOK, FilesOK, InstallReady
<1>5. UpdatedOK'
  BY DEF UpdatedOK, Updated, Attempt
<1> QED
  BY <1>2, <1>3, <1>4, <1>5 DEF Sound

\* The release in place starts on its system; if the disk still has another one
\* in place, a power loss would have this one installed again.
LEMMA StartManagerSound == UpdaterInv /\ StartManager => Sound'
<1> SUFFICES ASSUME UpdaterInv, StartManager PROVE Sound'
  OBVIOUS
<1> USE DEF UpdaterInv, Installable, Boot, StartManager, Goto
<1>1. UNCHANGED <<fs, disk, unsynced, active>> /\ Running(fs).system = AGNOS_VERSION[fs.dir]
  BY DEF Running, get_os_version
<1>2. fs' \in Files /\ disk' \in Files
  BY <1>1 DEF TypeOK
<1>3. FilesOK(fs)'
  BY <1>1 DEF FilesOK, Running, Spare, AgnosReady
<1>4. FilesOK(disk)'
  BY <1>1 DEF FilesOK, DiskOK, Running, Spare, AgnosReady
<1>5. DiskOK'
  BY <1>1 DEF DiskOK, Running, Void
<1>6. LaunchOK'
  BY DEF LaunchOK
<1>7. UpdatedOK'
  BY <1>1 DEF UpdatedOK, LaunchOK, Updated, Attempt, Running, get_os_version
<1> QED
  BY <1>2, <1>3, <1>4, <1>5, <1>6, <1>7 DEF Sound

\* The old release is moved away only when a flagged one takes its place.
LEMMA MoveOldSound == UpdaterInv /\ MoveOld => Sound'
<1> SUFFICES ASSUME UpdaterInv, MoveOld PROVE Sound'
  OBVIOUS
<1> USE DEF UpdaterInv, Installable, Boot, world, MoveOld, Goto, InstallReady, launcher
<1>1. fs' \in Files /\ disk' \in Files
  BY DEF TypeOK, Files, UpdatedOK
<1>2. FilesOK(fs)' /\ FilesOK(disk)'
  BY UpdaterAssumption DEF FilesOK, Running, Spare, AgnosReady
<1>3. DiskOK'
  BY DEF DiskOK, Running, Void, Boot
<1>4. LaunchOK'
  BY DEF LaunchOK, DiskOK
<1>5. UpdatedOK'
  BY DEF UpdatedOK, Updated, Attempt
<1> QED
  BY <1>1, <1>2, <1>3, <1>4, <1>5 DEF Sound

\* The flagged release is moved in place.
LEMMA MoveNewSound == UpdaterInv /\ MoveNew => Sound'
<1> SUFFICES ASSUME UpdaterInv, MoveNew PROVE Sound'
  OBVIOUS
<1> USE DEF UpdaterInv, Installable, Boot, world, MoveNew, Goto, launcher
<1>1. fs' \in Files /\ disk' \in Files
  BY DEF TypeOK, Files, FilesOK, LaunchOK
<1>2. FilesOK(fs)' /\ FilesOK(disk)'
  BY UpdaterAssumption DEF FilesOK, Running, Spare, AgnosReady, LaunchOK
<1>3. DiskOK'
  BY DEF DiskOK, LaunchOK, Running, Void, Boot
<1>4. LaunchOK'
  BY DEF LaunchOK
<1>5. UpdatedOK'
  BY DEF UpdatedOK, Updated, Attempt
<1> QED
  BY <1>1, <1>2, <1>3, <1>4, <1>5 DEF Sound

\* The slots change roles; the spare one has the system that the release needs.
LEMMA SetActiveSound == UpdaterInv /\ SetActive => Sound'
<1> SUFFICES ASSUME UpdaterInv, SetActive PROVE Sound'
  OBVIOUS
<1> USE DEF UpdaterInv, Installable, Boot, world, SetActive, Goto, Sync, target_slot_number
<1>1. fs' \in Files /\ disk' \in Files
  BY DEF TypeOK, Files, UpdatedOK
<1>2. FilesOK(fs)' /\ FilesOK(disk)'
  <2>1. active \in 0 .. 1 /\ ~ Installable(fs) /\ fs.dir \in Release /\ Spare(fs).boot \in OS
    BY UpdaterAssumption DEF TypeOK, Files, LaunchOK, OS
  <2>2. Running(fs)' = Spare(fs) /\ Spare(fs)' = Running(fs) /\ fs' = fs /\ disk' = fs /\ skipped' = skipped
    BY <2>1 DEF Running, Spare
  <2>3. /\ \A i \in 0 .. 1 : fs.slot[i].footer # "none" => fs.slot[i].system = fs.slot[i].footer
        /\ fs.overlay_init /\ fs.dir # "none" => ~ fs.old
        /\ fs.consistent => fs.fin \in Release
    BY DEF FilesOK
  <2> QED
    BY <2>1, <2>2, <2>3 DEF FilesOK, LaunchOK, Void, Running
<1>3. DiskOK'
  BY DEF DiskOK
<1>4. LaunchOK'
  BY DEF LaunchOK
<1>5. UpdatedOK'
  BY DEF UpdatedOK, Updated, Attempt
<1> QED
  BY <1>1, <1>2, <1>3, <1>4, <1>5 DEF Sound

\* updated starts.
LEMMA StartSound == UpdaterInv /\ Start => Sound'
<1> SUFFICES ASSUME UpdaterInv, Start PROVE Sound'
  OBVIOUS
<1> USE DEF UpdaterInv, Installable, Boot, world, Start, Goto, Sync, Inconsistent
<1>1. fs' \in Files /\ disk' \in Files
  BY DEF TypeOK, Files, UpdatedOK
<1>2. FilesOK(fs)' /\ FilesOK(disk)'
  BY UpdaterAssumption DEF TypeOK, Files, FilesOK, Running, Spare, UpdatedOK, Updated, Attempt, get_os_version
<1>3. DiskOK'
  BY DEF DiskOK
<1>4. LaunchOK'
  BY DEF LaunchOK
<1>5. UpdatedOK'
  BY DEF UpdatedOK, get_os_version
<1> QED
  BY <1>1, <1>2, <1>3, <1>4, <1>5 DEF Sound

\* A new overlay drops the flag.
LEMMA DropOverlaySound == UpdaterInv /\ DropOverlay => Sound'
<1> SUFFICES ASSUME UpdaterInv, DropOverlay PROVE Sound'
  OBVIOUS
<1> USE DEF UpdaterInv, Installable, Boot, world, DropOverlay, Goto, Sync, Inconsistent
<1>1. fs' \in Files /\ disk' \in Files
  BY DEF TypeOK, Files, UpdatedOK
<1>2. FilesOK(fs)' /\ FilesOK(disk)'
  BY UpdaterAssumption DEF TypeOK, Files, FilesOK, Running, Spare, UpdatedOK, Updated, Attempt, get_os_version
<1>3. DiskOK'
  BY DEF DiskOK
<1>4. LaunchOK'
  BY DEF LaunchOK
<1>5. UpdatedOK'
  BY DEF UpdatedOK, Void, Updated, Attempt, get_os_version
<1> QED
  BY <1>1, <1>2, <1>3, <1>4, <1>5 DEF Sound

\* The staging directory goes, the flag first.
LEMMA WipeStagingSound == UpdaterInv /\ WipeStaging => Sound'
<1> SUFFICES ASSUME UpdaterInv, WipeStaging PROVE Sound'
  OBVIOUS
<1> USE DEF UpdaterInv, Installable, Boot, world, WipeStaging, Goto
<1>1. fs' \in Files /\ disk' \in Files
  BY DEF TypeOK, Files, UpdatedOK
<1>2. FilesOK(fs)' /\ FilesOK(disk)'
  BY UpdaterAssumption DEF TypeOK, Files, FilesOK, DiskOK, Running, Spare, AgnosReady, UpdatedOK, Void,
     Updated, Attempt, get_os_version
<1>3. DiskOK'
  BY DEF DiskOK, UpdatedOK, Running, Void
<1>4. LaunchOK'
  BY DEF LaunchOK
<1>5. UpdatedOK'
  BY DEF UpdatedOK, Void, Updated, Attempt, get_os_version
<1> QED
  BY <1>1, <1>2, <1>3, <1>4, <1>5 DEF Sound

\* The overlay is mounted anew over an unflagged tree.
LEMMA MountOverlaySound == UpdaterInv /\ MountOverlay => Sound'
<1> SUFFICES ASSUME UpdaterInv, MountOverlay PROVE Sound'
  OBVIOUS
<1> USE DEF UpdaterInv, Installable, Boot, world, MountOverlay, Goto, Sync
<1>1. fs' \in Files /\ disk' \in Files
  BY DEF TypeOK, Files, UpdatedOK
<1>2. FilesOK(fs)' /\ FilesOK(disk)'
  BY UpdaterAssumption DEF TypeOK, Files, FilesOK, DiskOK, Running, Spare, AgnosReady, UpdatedOK, Void,
     Updated, Attempt, get_os_version
<1>3. DiskOK'
  BY DEF DiskOK
<1>4. LaunchOK'
  BY DEF LaunchOK
<1>5. UpdatedOK'
  BY DEF UpdatedOK, Updated, Attempt, get_os_version
<1> QED
  BY <1>1, <1>2, <1>3, <1>4, <1>5 DEF Sound

\* The flag goes before the tree is fetched.
LEMMA FetchUpdateSound == UpdaterInv /\ FetchUpdate => Sound'
<1> SUFFICES ASSUME UpdaterInv, FetchUpdate PROVE Sound'
  OBVIOUS
<1> USE DEF UpdaterInv, Installable, Boot, world, FetchUpdate, Goto, Sync, Inconsistent
<1>1. fs' \in Files /\ disk' \in Files
  BY DEF TypeOK, Files, UpdatedOK
<1>2. FilesOK(fs)' /\ FilesOK(disk)'
  BY UpdaterAssumption DEF TypeOK, Files, FilesOK, Running, Spare, UpdatedOK, Updated, Attempt, get_os_version
<1>3. DiskOK'
  BY DEF DiskOK
<1>4. LaunchOK'
  BY DEF LaunchOK
<1>5. UpdatedOK'
  BY DEF UpdatedOK, Void, Updated, Attempt, get_os_version
<1> QED
  BY <1>1, <1>2, <1>3, <1>4, <1>5 DEF Sound

\* A failed attempt ends at a point where nothing is half done that is flagged.
LEMMA FailSound == UpdaterInv /\ Fail => Sound'
<1> SUFFICES ASSUME UpdaterInv, Fail PROVE Sound'
  OBVIOUS
<1> USE DEF UpdaterInv, Installable, Boot, world, Fail, process
<1>1. fs' \in Files /\ disk' \in Files
  BY DEF TypeOK, Files, UpdatedOK
<1>2. FilesOK(fs)' /\ FilesOK(disk)'
  BY UpdaterAssumption DEF TypeOK, Files, FilesOK, DiskOK, Running, Spare, AgnosReady, UpdatedOK, Void,
     Updated, Attempt, get_os_version
<1>3. DiskOK'
  BY DEF DiskOK, Running, Void, Boot, Attempt
<1>4. LaunchOK'
  BY DEF LaunchOK
<1>5. UpdatedOK'
  BY DEF UpdatedOK, Updated, get_os_version
<1> QED
  BY <1>1, <1>2, <1>3, <1>4, <1>5 DEF Sound

\* The updater screen fails, or is left: nothing is written.
LEMMA UpdaterFailsSound == UpdaterInv /\ UpdaterFails => Sound'
<1> SUFFICES ASSUME UpdaterInv, UpdaterFails PROVE Sound'
  OBVIOUS
<1> USE DEF UpdaterInv, Installable, Boot, UpdaterFails
<1>1. /\ UNCHANGED <<fs, disk, unsynced, active>> /\ pc \in {"updater", "updater_write", "cleared"}
      /\ \/ pc' = "updater" /\ skipped' = skipped
         \/ pc' = "manager" /\ skipped' = TRUE
  OBVIOUS
<1>2. fs' \in Files /\ disk' \in Files /\ FilesOK(fs)' /\ FilesOK(disk)'
  BY <1>1 DEF TypeOK, FilesOK, Running, Spare, AgnosReady
<1>3. DiskOK'
  BY <1>1 DEF DiskOK, Running, Void
<1>4. LaunchOK'
  BY <1>1 DEF LaunchOK, get_os_version
<1>5. UpdatedOK'
  BY <1>1 DEF UpdatedOK, LaunchOK, Updated, Attempt
<1> QED
  BY <1>2, <1>3, <1>4, <1>5 DEF Sound

\* A reboot syncs the disk.
LEMMA RebootSound == UpdaterInv /\ Reboot => Sound'
<1> SUFFICES ASSUME UpdaterInv, Reboot PROVE Sound'
  OBVIOUS
<1> USE DEF UpdaterInv, Installable, Boot, world, Reboot, Sync
<1>1. fs' \in Files /\ disk' \in Files
  BY DEF TypeOK, Files, UpdatedOK
<1>2. FilesOK(fs)' /\ FilesOK(disk)'
  BY UpdaterAssumption DEF TypeOK, Files, FilesOK, DiskOK, Running, Spare, AgnosReady, UpdatedOK, Void,
     Updated, Attempt, get_os_version
<1>3. DiskOK'
  BY DEF DiskOK
<1>4. LaunchOK'
  BY DEF LaunchOK
<1>5. UpdatedOK'
  BY DEF UpdatedOK, Updated, Attempt
<1> QED
  BY <1>1, <1>2, <1>3, <1>4, <1>5 DEF Sound

\* A power loss leaves the disk as it is, or with part of what was not synced.
LEMMA PowerLossSound == UpdaterInv /\ PowerLoss => Sound'
<1> SUFFICES ASSUME UpdaterInv, PowerLoss PROVE Sound'
  OBVIOUS
<1> USE DEF UpdaterInv, Installable, Boot, world, PowerLoss, Sync, Survivors
<1>1. fs' \in Files /\ disk' \in Files
  BY DEF TypeOK, Files, UpdatedOK
<1>2. FilesOK(fs)' /\ FilesOK(disk)'
  BY UpdaterAssumption DEF TypeOK, Files, FilesOK, Running, Spare, AgnosReady, DiskOK, Void
<1>3. DiskOK'
  BY DEF DiskOK
<1>4. LaunchOK'
  BY DEF LaunchOK
<1>5. UpdatedOK'
  BY DEF UpdatedOK, Updated, Attempt
<1> QED
  BY <1>1, <1>2, <1>3, <1>4, <1>5 DEF Sound

\* The kernel writes back what it likes when it likes.
LEMMA WriteBackSound == UpdaterInv /\ WriteBack => Sound'
<1> SUFFICES ASSUME UpdaterInv, WriteBack PROVE Sound'
  OBVIOUS
<1> USE DEF UpdaterInv, Installable, Boot, world, WriteBack, process
<1>1. fs' \in Files /\ disk' \in Files
  BY DEF TypeOK, Files, UpdatedOK
<1>2. FilesOK(fs)' /\ FilesOK(disk)'
  BY UpdaterAssumption DEF FilesOK, Running, Spare, AgnosReady
<1>3. DiskOK'
  BY DEF DiskOK, Void
<1>4. LaunchOK'
  BY DEF LaunchOK, Spare, Void, get_os_version
<1>5. UpdatedOK'
  BY DEF UpdatedOK, AgnosReady, Spare, Void, get_os_version
<1> QED
  BY <1>1, <1>2, <1>3, <1>4, <1>5 DEF Sound

\* The copy is flagged after it is whole and on the disk.
LEMMA finalize_updateSound == UpdaterInv /\ finalize_update => Sound'
<1> SUFFICES ASSUME UpdaterInv, finalize_update PROVE Sound'
  OBVIOUS
<1> USE DEF UpdaterInv, Installable, Boot, world, finalize_update, Goto, Sync
<1>1. CASE pc = "finalize"
  <2>1. /\ fs' = [fs EXCEPT !.consistent = FALSE, !.fin = "torn"] /\ disk' = [fs EXCEPT !.consistent = FALSE]
        /\ unsynced' = TRUE /\ UNCHANGED <<active, merged, skipped>> /\ pc' = "copy"
    BY <1>1 DEF StartCopy
  <2>2. Void' /\ fs' \in Files /\ disk' \in Files
    BY <2>1 DEF Void, TypeOK, Files
  <2>3. /\ fs'.dir = fs.dir /\ disk'.dir = fs.dir /\ fs'.slot = fs.slot /\ disk'.slot = fs.slot
        /\ fs'.overlay_init = fs.overlay_init /\ disk'.overlay_init = fs.overlay_init
        /\ fs'.old = fs.old /\ disk'.old = fs.old
    BY <2>1 DEF TypeOK, Files
  <2>4. FilesOK(fs)' /\ FilesOK(disk)'
    BY <2>1, <2>2, <2>3 DEF FilesOK, Running, Spare, Void, TypeOK, Files, UpdatedOK, Updated, Attempt, get_os_version
  <2>5. DiskOK' /\ LaunchOK' /\ UpdatedOK'
    BY <1>1, <2>1, <2>2, <2>3 DEF DiskOK, LaunchOK, UpdatedOK, Running, AgnosReady, Updated, Attempt, get_os_version
  <2> QED
    BY <2>2, <2>4, <2>5 DEF Sound
<1>2. CASE pc = "copy"
  <2> USE <1>2
  <2>1. Void' /\ fs' \in Files /\ disk' \in Files
    BY DEF Void, TypeOK, Files, UpdatedOK
  <2>2. FilesOK(fs)' /\ FilesOK(disk)'
    BY DEF TypeOK, Files, FilesOK, Running, Spare, AgnosReady, UpdatedOK
  <2>3. DiskOK' /\ LaunchOK' /\ UpdatedOK'
    BY <2>1 DEF TypeOK, Files, DiskOK, LaunchOK, UpdatedOK, Running, AgnosReady, Void, Boot, get_os_version
  <2> QED
    BY <2>1, <2>2, <2>3 DEF Sound
<1>3. CASE pc \in {"sync", "sync2"}
  <2> USE <1>3
  <2>1. fs' = fs /\ disk' = fs /\ unsynced' = FALSE /\ UNCHANGED <<active, merged, skipped>>
    OBVIOUS
  <2>2. fs' \in Files /\ disk' \in Files /\ FilesOK(fs)' /\ FilesOK(disk)'
    BY <2>1 DEF TypeOK, FilesOK, Running, Spare, AgnosReady
  <2>3. DiskOK' /\ LaunchOK' /\ UpdatedOK'
    BY <2>1 DEF TypeOK, DiskOK, LaunchOK, UpdatedOK, AgnosReady, Void, Boot, get_os_version
  <2> QED
    BY <2>2, <2>3 DEF Sound
<1>4. CASE pc = "touch"
  <2> USE <1>4
  <2>1. fs' \in Files /\ disk' \in Files
    BY DEF TypeOK, Files
  <2>2. FilesOK(fs)'
    BY DEF TypeOK, Files, FilesOK, Running, AgnosReady, UpdatedOK, Updated, Attempt, get_os_version
  <2>3. FilesOK(disk)'
    BY DEF FilesOK, Running, Spare, AgnosReady
  <2>4. DiskOK'
    BY DEF TypeOK, Files, DiskOK, UpdatedOK, Running, Boot
  <2>5. LaunchOK' /\ UpdatedOK'
    BY DEF TypeOK, Files, LaunchOK, UpdatedOK, Updated, Attempt, get_os_version
  <2> QED
    BY <2>1, <2>2, <2>3, <2>4, <2>5 DEF Sound
<1> QED
  BY <1>1, <1>2, <1>3, <1>4

\* At agnos_init a release that needs another system is not accompanied by one
\* to install; swap and the flash both start from there.
LEMMA VerifyAgnosSound == UpdaterInv /\ VerifyAgnos => Sound'
<1> SUFFICES ASSUME UpdaterInv, VerifyAgnos PROVE Sound'
  OBVIOUS
<1> USE DEF UpdaterInv, VerifyAgnos, launcher, world, Boot
<1>1. /\ fs.dir \in Release /\ ~ Installable(fs) /\ get_os_version = Running(fs).system
      /\ get_os_version # AGNOS_VERSION[fs.dir] /\ UNCHANGED <<active, skipped>>
  BY DEF TypeOK, Files, LaunchOK, get_os_version, Running
<1>2. CASE verify_agnos_update(AGNOS_VERSION[fs.dir])
  <2>1. Sync([fs EXCEPT !.slot[target_slot_number].footer = "none"]) /\ pc' = "cleared"
    BY <1>2
  <2>2. /\ SpareChanged /\ unsynced' = FALSE /\ disk' = fs'
        /\ Spare(fs)'.boot = Spare(fs).boot /\ Spare(fs)'.system = Spare(fs).system
    BY <1>1, <2>1, ClearOK
  <2>3. Spare(fs).boot = AGNOS_VERSION[fs.dir] /\ Spare(fs).system = AGNOS_VERSION[fs.dir]
    <3>1. Spare(fs).boot = AGNOS_VERSION[fs.dir] /\ Spare(fs).footer = AGNOS_VERSION[fs.dir]
      BY <1>2 DEF verify_agnos_update, verify_partition, Spare, target_slot_number
    <3> QED
      BY <1>1, <3>1, SpareType, UpdaterAssumption DEF OS
  <2>4. get_os_version' # AGNOS_VERSION[fs'.dir] /\ fs'.dir = fs.dir
    BY <1>1, <2>2 DEF SpareChanged, get_os_version, Running
  <2>5. DiskOK' /\ LaunchOK' /\ UpdatedOK'
    BY <1>1, <2>1, <2>2, <2>3, <2>4, UpdaterAssumption
       DEF SpareChanged, DiskOK, LaunchOK, UpdatedOK, Void, Updated, Attempt, Installable
  <2> QED
    BY <2>2, <2>5 DEF SpareChanged, Sound
<1>3. CASE ~ verify_agnos_update(AGNOS_VERSION[fs.dir])
  <2>1. pc = "agnos_init" /\ pc' = "updater" /\ UNCHANGED <<fs, disk, unsynced, active, skipped>>
    BY <1>3
  <2>2. ~ Installable(disk)
    <3>1. SUFFICES ASSUME Installable(disk) PROVE FALSE
      OBVIOUS
    <3>2. disk.fin = fs.dir /\ disk.slot = fs.slot /\ AgnosReady(disk, disk.fin)
      BY <1>1, <2>1, <3>1 DEF DiskOK, FilesOK, Installable
    <3>3. Spare(fs).boot = AGNOS_VERSION[fs.dir] /\ Spare(fs).footer = AGNOS_VERSION[fs.dir]
      BY <1>1, <2>1, <3>2 DEF AgnosReady, Running, Spare
    <3> QED
      BY <1>3, <3>3 DEF verify_agnos_update, verify_partition, Spare, target_slot_number
  <2>3. fs' \in Files /\ disk' \in Files /\ FilesOK(fs)' /\ FilesOK(disk)'
    BY <2>1 DEF TypeOK, FilesOK, Running, Spare, AgnosReady, Installable
  <2>4. DiskOK' /\ LaunchOK' /\ UpdatedOK'
    BY <1>1, <2>1, <2>2 DEF DiskOK, LaunchOK, UpdatedOK, Running, Void, Updated, Attempt, get_os_version, Installable
  <2> QED
    BY <2>3, <2>4 DEF Sound
<1> QED
  BY <1>2, <1>3

\* The updater at boot flashes the system of the release in place.
LEMMA UpdaterFlashSound == UpdaterInv /\ UpdaterFlash => Sound'
<1> SUFFICES ASSUME UpdaterInv, UpdaterFlash PROVE Sound'
  OBVIOUS
<1> DEFINE os == AGNOS_VERSION[fs.dir]
<1>1. /\ fs.dir \in Release /\ os \in OS /\ ~ Installable(fs) /\ ~ Installable(disk)
      /\ UNCHANGED <<active, skipped>> /\ Running(fs).system # AGNOS_VERSION[fs.dir]
      /\ fs.consistent <=> disk.consistent
  BY DEF UpdaterInv, UpdaterFlash, Goto, launcher, world, Boot, TypeOK, Files, LaunchOK, DiskOK, OS,
         get_os_version, Running
<1>2. /\ pc' = "updater_write" => Spare(fs)'.boot # os \/ Spare(fs)'.footer = "none"
      /\ pc' = "cleared" => Spare(fs)'.boot = os /\ Spare(fs)'.system = os
      /\ SpareChanged /\ (unsynced' => unsynced)
      /\ pc' \in {"updater", "updater_write", "cleared"}
  <2>1. CASE Goto("updater", "updater_write") /\ FlashStart(os)
    BY <1>1, <2>1, FlashStartOK DEF Goto
  <2>2. CASE Goto("updater_write", "updater") /\ FlashEnd(os)
    <3>1. Spare(fs).boot # os \/ Spare(fs).footer = "none"
      BY <2>2 DEF UpdaterInv, LaunchOK, Goto
    <3> QED
      BY <1>1, <2>2, <3>1, FlashEndOK DEF Goto
  <2>3. CASE /\ Goto("updater", "cleared") /\ verify_agnos_update(os)
             /\ Sync([fs EXCEPT !.slot[target_slot_number].footer = "none"])
    <3>1. Spare(fs).boot = os /\ Spare(fs).system = os
      <4>1. Spare(fs).boot = os /\ Spare(fs).footer = os
        BY <2>3 DEF verify_agnos_update, verify_partition, Spare, target_slot_number
      <4> QED
        BY <1>1, <4>1, SpareType, UpdaterAssumption
    <3> QED
      BY <1>1, <2>3, <3>1, ClearOK DEF Goto
  <2> QED
    BY <2>1, <2>2, <2>3 DEF UpdaterFlash
<1>3. DiskOK' /\ UpdatedOK'
  BY <1>1, <1>2 DEF UpdaterInv, SpareChanged, DiskOK, UpdatedOK, Void, Updated, Attempt, Installable
<1>4. get_os_version' # AGNOS_VERSION[fs'.dir] /\ fs'.dir = fs.dir
  BY <1>1, <1>2 DEF SpareChanged, Running, get_os_version
<1>5. LaunchOK'
  BY <1>1, <1>2, <1>4, UpdaterAssumption DEF SpareChanged, LaunchOK, Boot
<1> QED
  BY <1>2, <1>3, <1>5 DEF SpareChanged, Sound

\* updated flashes the system of the release it fetched, into the spare slot.
LEMMA HandleAgnosUpdateSound == UpdaterInv /\ HandleAgnosUpdate => Sound'
<1> SUFFICES ASSUME UpdaterInv, HandleAgnosUpdate PROVE Sound'
  OBVIOUS
<1> DEFINE os == AGNOS_VERSION[merged]
<1>1. /\ merged \in Release /\ os \in OS /\ Void /\ UNCHANGED <<active, merged, skipped>>
      /\ ~ Installable(fs) /\ ~ Installable(disk)
      /\ fs.dir # "none" /\ (skipped \/ Running(fs).system = AGNOS_VERSION[fs.dir])
  BY DEF UpdaterInv, HandleAgnosUpdate, Goto, world, UpdatedOK, OS, Running, Updated, Attempt,
         get_os_version, Installable, Void
<1>2. /\ pc' = "write" => Spare(fs)'.boot # os \/ Spare(fs)'.footer = "none"
      /\ pc' = "finalize" => AgnosReady(fs, merged)'
      /\ SpareChanged /\ (unsynced' => unsynced)
      /\ pc' \in {"flash", "write", "finalize"}
  <2>1. UNCHANGED <<fs, disk>> => SpareChanged
    BY <1>1 DEF UpdaterInv, TypeOK, FilesOK, DiskOK, Running, Spare, Void, Installable, SpareChanged, AgnosReady
  <2>2. CASE Goto("agnos", "finalize") /\ get_os_version = os /\ UNCHANGED <<fs, disk, unsynced>>
    BY <1>1, <2>1, <2>2 DEF Goto, AgnosReady, get_os_version
  <2>3. CASE Goto("agnos", "flash") /\ Inconsistent(fs)
    <3>1. fs' = fs /\ disk' = fs /\ unsynced' = FALSE
      BY <1>1, <2>3 DEF UpdaterInv, TypeOK, Files, Sync, Inconsistent, Void
    <3> QED
      BY <1>1, <2>3, <3>1
         DEF UpdaterInv, TypeOK, FilesOK, Goto, Running, Spare, Void, Installable, SpareChanged
  <2>4. CASE Goto("flash", "write") /\ FlashStart(os)
    BY <1>1, <2>4, FlashStartOK DEF Goto
  <2>5. CASE Goto("write", "flash") /\ FlashEnd(os)
    <3>1. Spare(fs).boot # os \/ Spare(fs).footer = "none"
      BY <2>5 DEF UpdaterInv, UpdatedOK, Goto
    <3> QED
      BY <1>1, <2>5, <3>1, FlashEndOK DEF Goto
  <2>6. CASE Goto("flash", "finalize") /\ verify_agnos_update(os) /\ UNCHANGED <<fs, disk, unsynced>>
    <3>1. Spare(fs).boot = os /\ Spare(fs).footer = os
      BY <2>6 DEF verify_agnos_update, verify_partition, Spare, target_slot_number
    <3>2. Spare(fs).system = os
      BY <1>1, <3>1, SpareType, UpdaterAssumption
    <3> QED
      BY <1>1, <2>1, <2>6, <3>1, <3>2 DEF Goto, Spare, AgnosReady
  <2> QED
    BY <2>2, <2>3, <2>4, <2>5, <2>6 DEF HandleAgnosUpdate
<1>3. Void'
  BY <1>1, <1>2 DEF SpareChanged, Void
<1>4. DiskOK' /\ LaunchOK' /\ UpdatedOK'
  BY <1>1, <1>2, <1>3 DEF SpareChanged, DiskOK, LaunchOK, UpdatedOK, Running, Void, Boot, get_os_version
<1> QED
  BY <1>2, <1>4 DEF SpareChanged, Sound

(***************************************************************************)
(* The theorems                                                            *)
(***************************************************************************)
\* Every step keeps the invariant.
LEMMA Inductive == UpdaterInv /\ [Next]_vars => UpdaterInv'
<1> SUFFICES ASSUME UpdaterInv, [Next]_vars PROVE UpdaterInv'
  OBVIOUS
<1>1. CASE Next
  <2>1. Sound'
    BY <1>1, QuietSound, NoInstallSound, StartManagerSound, MoveOldSound, MoveNewSound,
       VerifyAgnosSound, SetActiveSound, UpdaterFlashSound,
       StartSound, DropOverlaySound, WipeStagingSound, MountOverlaySound, FetchUpdateSound,
       HandleAgnosUpdateSound, finalize_updateSound, FailSound, UpdaterFailsSound, RebootSound,
       PowerLossSound, WriteBackSound
       DEF Next, Launch, Update
  <2>2. TypeOK'
    BY <1>1, <2>1, OtherTypes DEF UpdaterInv, Sound, TypeOK
  <2> QED
    BY <2>1, <2>2 DEF UpdaterInv, Sound
<1>2. CASE UNCHANGED vars
  <2> USE <1>2 DEF UpdaterInv, vars, process, world
  <2>1. TypeOK'
    BY DEF TypeOK
  <2>2. FilesOK(fs)' /\ FilesOK(disk)'
    BY DEF FilesOK, Running, Spare, AgnosReady
  <2>3. DiskOK' /\ LaunchOK' /\ UpdatedOK'
    BY DEF DiskOK, LaunchOK, UpdatedOK, Running, Spare, AgnosReady, Void, get_os_version
  <2> QED
    BY <2>1, <2>2, <2>3
<1> QED
  BY <1>1, <1>2

\* The invariant holds of every state the device can reach, for any releases and
\* systems and any number of failed updates, reboots and power losses.
THEOREM Safety == Spec => []UpdaterInv
BY InitInv, Inductive, PTL DEF Spec

\* The variables keep their types: in particular a copy under way is never taken
\* for a release, and both processes are only ever at points they have steps for.
THEOREM TypeCorrect == Spec => []TypeOK
<1>1. UpdaterInv => TypeOK
  BY DEF UpdaterInv
<1> QED
  BY Safety, <1>1, PTL

\* Whatever a power loss leaves: a release with the .overlay_consistent flag is
\* whole and, if a boot would install it, the device has its system, running or
\* ready to be swapped in (finalize_update, handle_agnos_update).
THEOREM WholeSafe == Spec => []ConsistentMeansWhole
<1>1. UpdaterInv => ConsistentMeansWhole
  BY DEF UpdaterInv, FilesOK, DiskOK, Void, Survivors, ConsistentMeansWhole, TypeOK, Files, Installable
<1> QED
  BY Safety, <1>1, PTL

\* openpilot runs only as a whole release, on a slot flashed to the end and on the
\* system it was made for, the latter unless the updater screen was left without
\* the update it asked for (launch_chffrplus.sh).
THEOREM RunsSafe == Spec => []RunsWhatItWasMadeFor
<1>1. UpdaterInv => RunsWhatItWasMadeFor
  BY DEF UpdaterInv, TypeOK, Files, FilesOK, UpdatedOK, Running, get_os_version, RunsWhatItWasMadeFor
<1> QED
  BY Safety, <1>1, PTL

\* The updater downloads a system at boot only when a swap failed, a flash was
\* cut short, or an earlier updater screen was left (launch_chffrplus.sh, agnos.py).
THEOREM DownloadSafe == Spec => []DownloadAtBootOnlyAfterSwap
<1>1. UpdaterInv => DownloadAtBootOnlyAfterSwap
  <2> SUFFICES ASSUME UpdaterInv, pc = "updater", ~ skipped, Spare(fs).system # "torn"
               PROVE  /\ Spare(fs).system = AGNOS_VERSION[fs.dir]
                      /\ Spare(fs).footer \in {"none", AGNOS_VERSION[fs.dir]}
    BY DEF DownloadAtBootOnlyAfterSwap, Spare, target_slot_number
  <2> QED
    BY SpareType DEF UpdaterInv, LaunchOK, Boot, Harmless, Running, get_os_version
<1> QED
  BY Safety, <1>1, PTL
=============================================================================
