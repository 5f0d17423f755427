# HyprDebian: TLA+ models and proofs

HyprDebian is a Debian derivative: an installer, a live CD, and a set of `hd-*`
packages with the programs that keep an installed machine running. Most of the
repository is packaging, settings and rendering. This project models what has state:
the Python and shell programs whose files must survive interruptions, changing files
and other programs, and the C++ programs that wait for events, the boot loader and the
dialogs of the desktop.

All paths below are relative to the root of the repository.

## 1. Inventory

| Part | State | Operations | What is hard | What makes it correct |
|---|---|---|---|---|
| **hd-backup** (`packages/hd-backup/hd-backup`): filesets to a series of drives or tapes | SQLite: files, symlinks, filesets, tarballs, carriers, links between them; `backup-<n>.tar` on each carrier | `update-filesets`, `write`, `add-`/`remove-` of carriers, filesets, backups; reports | files change while it scans and writes; a carrier runs full inside an item; a command dies between tar and the database; record numbers are reused | what the database places on a carrier is there, whole; a restore gives the fileset |
| **hd-backup-vm**, **hd-restore-vm**: a VM as a chain of ZFS streams | backup folder: streams, `<vm>.sequence`, XML, NVRAM; ZFS snapshots; the frozen guest | one run: freeze, snapshot, thaw, send, commit, prune; cleanup; restore | signals and power cuts at each step; three renames that commit; disks that come and go; folders of older versions | the folder restores the last finished run; the next run finds its base; the guest is thawed |
| **hd-backup-vms**, `-prep`, `-load`, `-unload`, **blockwrite** | none that lasts | loop over VMs; mount, tape load; re-blocking a stream | a part of the tape blocks that is never written | no byte lost or added |
| **hd-repo-update** (`packages/hd-repo`) | per suite: inbox, pool, `Packages`, `Release`; a lock | check every file of the inboxes, move them into pools, make and sign indices | breaks off between pool and index; files that arrive under it | signed indices match the pools; no package leaves a suite |
| **update-repo.py**, **hd-buildserver** | checkout, `last-built`, ISO upload | build, list pools, copy, update, upload ISO, record the commit | fails at any step; other uploads; a file copied in part | a commit that counts as built is published; a failed night is tried again |
| **update-bootloader.py**, **update-esps**, `mkuki.py` (`packages/hd-bootloader`) | one or two EFI system partitions: kernel images, `assets.efi`, `BOOTX64.EFI` | build, sign, rename, remove | interrupted between renames; kernels that come and go; two partitions | the menu never names an image that is gone |
| **bootloader.cpp** with `graphical.cpp` or `text.cpp` | the loaded images, the menu, the rows of the front end, the countdown, the MOK table | load assets, build and draw the menu, keys, timeout, boot, fail | keys race the timer; slots that are refused; labels blended over old ones; memory that goes while pointers stay; any call of the firmware fails | what starts is what the screen highlights; a machine that nobody touches boots |
| **hd-secboot**, **hd-up**, **hd-reboot-check**, **hd-firmware** (`packages/hd-base`) | signing keys, firmware state; ZFS snapshots, apt | enrol, sign; snapshot, upgrade, prune, restart | half an upgrade, keys that are enrolled but not used | a machine that upgrades boots |
| **hd-config-update**, **hd-config-remove**, **hd-link-repo**, **hd-sync-skel** | shared settings files, apt sources | read, change, replace | two writers; a failed apt update | no entry of another package is lost |
| network tools (`hd-network-*`) | templates | render | formatting | - |
| **hd-installer** (`packages/hd-installer`) | answers, tasks and their dependencies | ask, run tasks in order, mark them done | failing task, retry, dependency order | a task runs after what it needs |
| **hd-dashboard**, **hd-report** | reports per machine on a server | report, age, show | late and repeated reports | what is shown is the last report |
| **hd-battery**, **hd-shutdown**, **hd-plymouth-handoff**, **hd-mount-helper**, **hd-mode-select** | timers, the session, mounts | poll, warn, end, hand over | a program that refuses to end; charger pulled and put back | one warning per crossing; the session ends |
| **hd-menu**, **hd-message** (`packages/hd-desktop/common`, `menu`, `message`) | the dialog read from stdin, the theme, the window with two buffers, the selection, the word being typed, the key that repeats | events of the compositor, keys, repeats, the pause in the typing, frames | events come in batches; a buffer is the compositor's until it is released; timers that expired before the event that stops them | the screen shows the selection; the answer is what was chosen; the last frame is drawn |
| themes, launcher cache, art | files | render, draw | layout | - |
| kernel, live CD, VM and test scripts, third-party packages | - | external tools in sequence | - | - |

Interactions: `hd-buildserver` calls `update-repo.py`, which copies over `scp` and runs
`hd-repo-update` over `ssh` (RepoPublish composes the three). Kernel and initramfs hooks
run `update-esps`, which runs `update-bootloader.py` for each partition with the keys of
`hd-secboot`. `hd-backup-vms` calls `hd-backup-vm` for each VM; the folder it writes is
an ordinary path of a fileset of `hd-backup`. `update-bootloader.py` writes the `assets.efi`
that `bootloader.cpp` reads, in the form that its front end takes (`EspUpdate!Shows`,
`Bootloader!BuildSlot`). The scripts of the desktop start `hd-menu` or `hd-message` with
JSON on its stdin and go by what it prints and its exit status; a window shares its two
buffers with the compositor. Otherwise the programs share nothing but files.

The hazards - what can go wrong and a test would hardly reach - are listed with their
lines in `PROJECT.json`, for the parts that are modelled. Of the others, the ones to
start from: `hd-link-repo:146` (killed between the new source and the check of it),
`dependencies.sh:56` (a task that is the condition of an `if` runs without errexit, so it
may fail in the middle and count as done), `hd-shutdown:233` (pids of windows that are
gone by then), `hd-battery:305` (a charger that changes while the battery cannot be read).

## 2. Modules

| Module | Models | Used for |
|---|---|---|
| `HdBackup` | `hd-backup`: update-filesets, write, carriers, the files, tar | TLC, proofs |
| `MCHdBackup` | its small instance: two paths, two carriers, files and symlinks | 2 runs |
| `HdBackup_proofs` | theorems about `HdBackup` | tlapm |
| `VmBackup` | `hd-backup-vm`: every step of a run and of its cleanup; of `hd-restore-vm`, where the streams of a folder lead | TLC, proofs |
| `BackupPoint` | what a folder of backups promises: the abstract specification | refinement |
| `MCVmBackup` | two disks in two pools | 2 runs |
| `VmBackup_proofs` | theorems about `VmBackup` | tlapm |
| `RepoPublish` | `hd-buildserver`, `update-repo.py`, `hd-repo-update` and the repository they share | TLC, proofs |
| `MCRepoPublish` | two suites, two packages, two commits | 2 runs |
| `RepoPublish_proofs` | theorems about `RepoPublish` | tlapm |
| `EspUpdate` | `update-esps`, `update-bootloader.py`, the keys of `hd-secboot`, which rows `bootloader.cpp` shows | TLC, proofs |
| `MCEspUpdate` | two partitions, a kernel of Debian and one of hd-kernel | 2 runs |
| `EspUpdate_proofs` | theorems about `EspUpdate` | tlapm |
| `BootScreen` | what `bootloader.cpp` reads of `assets.efi`, and where the front ends put the menu: operators without state | `Bootloader` |
| `BootMenu` | what a boot menu promises: the abstract specification | refinement |
| `Bootloader` | `bootloader.cpp` with either front end, from `efi_main` to the UKI or back to the firmware | TLC, proofs |
| `MCBootloader` | three slots, six files, two consoles, three graphics outputs; machines on which the menu does not fit | 2 runs |
| `Bootloader_proofs` | theorems about `Bootloader` | tlapm |
| `DesktopInput` | the JSON, the theme and its scaling, `find_option`: operators without state | `Dialog` |
| `DesktopLayout` | the sizes of the two renderers, the rows that fit, the wrapping | `Dialog` |
| `LatestFrame` | what a window promises: the abstract specification | refinement |
| `Dialog` | `hd-menu` and `hd-message` from start to exit, with the compositor and the clock | TLC, proofs |
| `MCDialog` | a menu that scrolls, a message that wraps, inputs with errors, three setups | 2 runs |
| `Induction` | induction over numbers and sequences, and what a fold goes through: lemmas without a model | proofs |
| `DesktopInput_proofs` | lemmas about `DesktopInput` and `DesktopLayout`: what is read and laid out is typed, rows fit, a text is wrapped whole | proofs |
| `Dialog_proofs` | theorems about `Dialog` | tlapm |

A definition carries the name of the function it stands for where there is one; the
lines are in the `map` of `PROJECT.json`. Operators that a comment calls *Mutant* are
plausible bugs of the definition they precede; no specification uses them.

### HdBackup

State: `disk` (the version of each path), `rows`, `filesetLinks`, `tarballLinks`,
`tarballs`, `carrier` (the SQLite tables), `media` (what really is in each
`backup-<n>.tar`), and for each process `pc` with `scan` or `job` (locals of
`update-filesets` or `write`). `writes` numbers the recorded writes: the order of the
timestamps.

| Actions | Code |
|---|---|
| `ScanStart`, `ScanItem`, `ScanSkip`, `RemoveMissingFiles`, `RemoveMissingSymlinks` | the scan with the records loaded once, `find_match`, `mark_other_records_off_disk`, `remove_missing_items` |
| `WritePrepare` .. `WriteFileList`, `WriteRefused` | `write_prepare`, the delete list, the file list with `lstat` |
| `TarOpen`, `TarItem`, `TarFull`, `TarFailed` | tar with its pipe, which may run full at any item or vanish from under it |
| `WriteUpdateDb` | `write_determine_written` and the one transaction that records a write |
| `AddCarrier`, `RemoveCarrier`, `Die` | the commands on carriers; a command that dies between any two steps |
| `Change`, `Delete`, `Reappear`, `Revert` | the files themselves |

Abstractions: paths are numbers in sorting order; a version stands for contents, size
and mtime; the scan commits per item, where the code commits per 100 (finer: every
state of the code between commits is one of the model). Bytes are left out, so
the carrier may run full anywhere and `DetermineWritten` may return any prefix that
the sizes allow. `AllowGrowth` says whether a file may change its size between the file
list and tar. `Revert` moves a saved copy of a version that was backed up back over its file;
it is only in `SpecOldCopies`.

### VmBackup

State: `snaps`, the folder (`streams`, `sequence`, `xml`, `nvram`), `guest`, `attached`,
and `run` (class `Run`) at step `pc`; for the properties, `left`: the guest was left frozen.
Every step of a run is an action; `Interrupt` sends it through `CleanupThaw`,
`CleanupSnapshots`, `CleanupFiles` (the `finally` of the code), which a second signal may end
anywhere (`InterruptCleanup`, `hd-backup-vm:349`), and `PowerCut` ends it with what was not
flushed lost. A stream is the pair of snapshots it goes between, so `LeadsTo` says what
`zfs receive` of the folder would give. `Init` also holds folders of the version that recorded
no base.

The guest agent need not thaw the guest: the run ignores its answer, counts the guest as thawed
and never asks again (`Thaw`, 166-167, 284-285). `Nvrams` is what a run finds of the NVRAM
(`run.vars`): none in the XML, one that is not there, or one to copy. Only the last is
copied (`PlacedVars`, 248-251, 317-319); otherwise the file of an earlier run stays.

`Windows` lists the weak points at which a run may be interrupted: `place` (between
the XML and the sequence file), `recorded` (between the sequence file and `finished`)
and `legacy` (the first run on an old folder, where it would leave a snapshot). With
`Windows = {}` a run may be interrupted everywhere else. The properties do not hold at the weak
points: section 3 says what happens there.

`BackupPoint` is the promise of the folder: it has one backup, of all of its disks at the same
moment, which is only replaced as a whole by a later one, or moved away. The mapping is `Point`:
for each disk of the XML the snapshots that its streams lead to (`Restored`), one if the promise is
kept. The streams are those that `hd-restore-vm` finds, all in the folder, whether or not the
sequence file counts them (`Taken`; those a run is writing are left out until its XML is in
place: a restore next to a run is not modelled). So placing the XML is the step that replaces the
backup. A power cut, or a second signal in the cleanup, leaves streams of a run that did not
finish. The disks that have one are `Cut`, and for them the promise is less: a restore fails at a
stream that is cut off, or gives the disk at the later moment of the stream, not with the
others, until another run is done with the disk. `Spoil` and `Mend` are the steps of `BackupPoint`
for this; all others of the code are stutters.

### RepoPublish

State: `head`, `inbox`, `pool`, `index`, `release` (per suite), `isoUpload`, `iso`, `sums`
(SHA256SUMS), `lastBuilt`, a `job` for the server and each developer, and `update`, the
`hd-repo-update` that holds the lock; for the properties, `unfinished`: the suites that one which
broke off had still to make.

| Actions | Code |
|---|---|
| `Start`, `List`, `Copy`, `Copied`, `CopyIso`, `PublishIso`, `PublishSums`, `IsoDiffers`, `Store`, `ManualEnd`, `Fail` | `hd-buildserver` around `update-repo.py`: the build of the head, `only_new`, `scp`, the ISO with its sha256 and the two renames, `last-built` |
| `StartUpdate`, `UpdateRefused`, `RemoveOld`, `Install`, `ClearInbox`, `PlacePackages`, `PlaceRelease`, `EndUpdate` | `hd-repo-update`, file by file and suite by suite |
| `UpdateBreaks` | it breaks off wherever it is |

A file is its package, the commit it was built from, and whether it is whole. `Glob`
gives the order in which the shell sorts two versions of a name. Of a file that is not whole yet,
`StartUpdate` may see the control part (`dpkg-deb -f`, `hd-repo-update:76`), and then takes it.
`List` looks at all pools in one step, where the code asks for one suite after the other
(`update-repo.py:113-121`); what `--only-new` then leaves out is older either way.
`undisturbed` marks a run, for `StoredIsPublished`, that started when nobody else was at work, no
suite was `unfinished`, and no inbox held a file older than the one of its package in the pool, or
one whose name sorts behind that of the commit (`Undisturbed`), and that nobody joined since.

### EspUpdate

State: `place` (the kernels of `/boot` in the order of their installation), `modules`,
`initrd`, `frontend`; `keys`, `db`, `pk` (`/etc/hyprdebian/secboot` and the firmware);
`ukis`, `assets`, `loader` on each partition; `pc` and `run` of the update, and `updated`,
the keys that the last update that finished signed with; for the properties, `outdated`: the
kernels that once got a module while their initrd had none.

| Actions | Code |
|---|---|
| `InstallKernel`, `RemoveKernel`, `AddModule`, `RemoveDkms`, `MakeInitrd` | dpkg, DKMS and `update-initramfs`, whose hooks start an update |
| `SwitchFrontend` | the postinst of the package of the other frontend |
| `Generate`, `Store`, `Clear`, `Enable`, `Disable` | the options of `hd-secboot` |
| `Start`, `NextEsp`, `End` | `update-esps`: one partition after the other; `find_kernels` |
| `BuildUki`, `BuiltUkis`, `KeepUki`, `PlaceAssets`, `PlaceLoader`, `RemoveUki` | `build_ukis`, `keep_ukis`, `build_efi` twice, `remove_old_ukis`, file by file |
| `Interrupt` | an update ends where it is: a signal, a tool that fails, a full ESP, a power cut |

`Written` is what `unchanged` and `sign` make of a file: the old one stays when only
its signature could differ and that verifies. Between two updates anything may change,
whether or not a hook would start an update: it may have failed. `Windows` is as in
`VmBackup`: with `{}` no update ends between `assets.efi` and `BOOTX64.EFI` when the
frontend was switched. A kernel stands for the file name of its UKI: where several kernels have the
same, `find_kernels` takes the newest (`update-bootloader.py:287-311`), which is the one meant.

Two guards are the owner's, not the code's: Secure Boot is turned on after an update
finished with the keys (`packages/hd-base/man/hd-secboot.7`: "Sign the EFI files that are
to boot with the db key before Secure Boot is turned on"), and keys are moved away, for
`--generate` to make others, in setup mode only. `hd-secboot` itself checks that db holds
the key (`DbHasKey`), not that the ESPs are signed.

A module comes to a kernel whose initrd may be there already, and nothing in the repository makes
that initrd again: `has_zfs` looks in `/lib/modules` only (`update-bootloader.py:260-268`), so an
update may build a UKI that does not mount the root. `MakeInitrd` comes when it likes, or not at all.

### Bootloader

State: `file` and `display`, which never change; `pc`; `memory` and `assets` (what the
firmware has loaded, and whether the loader reads it); `mok`, `timeout`; `slot`, `menu`,
`menuCount`, `selected`; `rows`, `labelWidth`, `background`, `area`, `size` (the statics of
the front end); `screen` and `showing`; `keys`, `timer`; `running` and `status`. What was on
the screen when a key was pressed (`seen`), and whether a key was pressed at the menu
(`touched`), are there for the properties only.

| Actions | Code |
|---|---|
| `Start`, `LoadAssets`, `CheckAssets`, `ReadMok`, `ReadConfig` | `efi_main` up to `frontend::init`, `load_assets`, `parse_config`, `build_mok_table` |
| `InitFrontend`, `BuildSlot`, `DrawMenu` | `frontend::init`, `build_menu` slot by slot with `parse_slot`, `uki_exists` and `add_row`, `draw_menu` |
| `StartLoop`, `HandleKey`, `TimedOut` | `run_key_loop` with `up` and `down` |
| `UnloadAssets`, `InstallTable`, `LoadUki`, `StartUki`, `UkiReturns` | the end of `efi_main`, `unload_assets`, `boot` |
| `ShowError`, `Acknowledge` | `fail` |
| `Press`, `Expire` | the user and the timer of the firmware |

Abstractions: a call of the firmware fails whenever it likes. A section says what it
holds instead of its bytes; its offset and size are kept, since each range check
depends on them. A row of the screen is the slot of its label and the looks that can be seen
there. `Draw` follows `draw_row`: it redraws the background under the label that is drawn, in the
size of that label and no further than the background reaches (`Redrawn`), and blends the label onto
what is there. So a label that is smaller than the one before it, or that goes beyond the background,
leaves a part of the old look (`Cleans`), and one that is higher than its row gets into the next
(`Spoils`). `add_row` takes labels of any sizes; so does the model. `MenuFits(file, display)` says when
none of this can happen: the output has pixels that `blit` can draw on, the two labels of a row are
of one size and fit the row, and the work area is on the background. That is how `graphical.py`
makes them for the resolution of the configuration; a display may be another. The banner is not
modelled, nor is the drawing of the background before the rows. `ConIn->Reset` succeeds
(`StartLoop`): its result is ignored (678, 737), and a key that it leaves would answer the menu.

`BootMenu` is the promise to the one who sits before it: entries are offered, one is
highlighted, the highlight moves by a row, and what starts is highlighted. The
mapping (`Offered`, `Highlighted`) takes the entries from the labels on the screen, not from
`menu` and `selected`. `Fail` at any point is `GiveUp`; all other steps are `Offer`
(`DrawMenu`), `Move`, `Start` (`StartUki`) or stutter.

### Dialog

State: `pc`, `exit`; `dialog`, `theme`, `lock` (the start); `selected`, `scroll`, `rows`; `typed`
and its `timer`; `result`, `running`, `printed`; `keymap`, `shift`, `repeat_key`, `repeat_rate`,
`expired` (the keyboard); `configured`, `dirty`, `size`, `scale`, `buffers`; `surface` and `lent` (what
the compositor has); `inbox`, `batch`, `polled`, `left` (the loop). `held`, `answers` and `events`
are there for the properties and the bounds.

| Actions | Code |
|---|---|
| `ReadInput`, `TakeLock`, `LoadTheme`, `Connect` | the two `main.cpp`, `read_menu` and `read_message`, `load_theme` with the scaling of `hd-display`, the constructor of `Window` |
| `Poll`, `Dispatched`, `Repeat`, `Repeated`, `TimerRead`, `Break` | `Window::run`, `Window::repeat`: all events of a batch, then the repeats, then the pause |
| `Configure`, `SetScale`, `Release` | the listeners, with `destroy_buffers`, `redraw` and `draw_if_possible` in the same step |
| `KeyDown`, `KeyUp`, `Leave`, `SetRepeat`, `SetKeymap`, `Modifiers`, `Closed` | `key_event`, `stop_repeat`, `set_repeat`, `set_keymap`, and `App::key`, `App::close` of each program (`AppKey`, `Cancel`) |
| `Send`, `SendRelease`, `Tick`, `Pause` | the compositor and the two timers |

Abstractions: sizes are in pixels with characters of one width; a frame is the selection,
the rows it is scrolled to, its size and its scale. Requests reach the compositor in the
step that makes them. Events and expirations come while the loop waits, or, for a timer it
was woken by, also until it is read: elsewhere nothing looks at them.

`LatestFrame` is the promise of a window: it shows frames in the order in which they
were wanted, and the last one comes to the screen. `wanted` is the selection at the size and
scale there are now, `shown` the surface that was committed.

## 3. What the runs show

| Run | Expect | Shows |
|---|---|---|
| `hd_backup` | pass | `OneRecordOnDisk`, `LinksResolve`: the tables stay consistent although a scan uses records loaded at its start and numbers are given out again. `RecordedIsOnCarrier`: what the database says is on a carrier is there, also after full carriers and dead commands. `RecordedNeverOverwritten`: no tarball the database knows is written again. `RestoreExact`: after an up-to-date scan and a write that did not run full, a restore gives every path as on disk. |
| `hd_backup_old_copies` | violation of `RestoreExact` | version 1 is written, then version 2; a saved copy of version 1 is moved back over its file (mtime included) and matches its old record; a third write skips it, and a restore gives version 2. |
| `vm_backup` | pass | `ImplementsBackupPoint`: all streams in the folder, which is what a restore takes, lead to the snapshots of one run, and only a later run replaces that backup, as a whole; of a disk for which a run left a stream (`Cut`) a restore fails or gives the later moment. `BaseKept`: the base snapshot of the next run is still there. `FinishedSet`: XML and sequence file of a finished run are its own, the NVRAM too if there was one to copy, and no stream is left that does not count. `FrozenBriefly`: the guest is frozen only around the snapshot, unless a thaw failed or a second signal prevented it (`left`). |
| `vm_backup_leftover` | violation of `RestoresLastBackup` | a power cut, or a second signal in the cleanup, leaves a stream of a run that did not finish; `hd-restore-vm` takes it, and mixes two moments or fails. |
| `repo_publish` | pass | `IndicesMatch`: signed index = index = pool, of every suite but those that the update at work, or one that broke off, has still to make. `NoPackageLost`: a suite loses the last whole file of a package only to one that was copied in part. `StoredIsPublished`: a commit recorded after an undisturbed run is in the signed indices. `IsoVerifies`: the ISO and SHA256SUMS belong together, unless the build was not recorded. `TriedAgain` (liveness): unless a broken file stays in an inbox, the head is built and recorded in the end. |
| `repo_publish_breaks` | violation of `OnlyUploadedCounts` | when `hd-repo-update` breaks off between pools and indices, the next night finds nothing new, skips it and records the commit. |
| `esp_update` | pass | `RowsMountRoot`: the menu of an ESP never names a UKI that is gone, nor one that cannot mount the root unless the module of its kernel once came after its initrd (`outdated`). `WayBack`: the UKI of a kernel that lost its module is neither removed nor built again while the menu has a slot. `FirmwareAccepts`: with Secure Boot on, all files are signed with the key in db. |
| `esp_menu` | pass | `ShowsMenu`: wherever an update ended, also with a switch of the frontend, but not between its two renames, every bootloader shows a row. |
| `bootloader` | pass | `HighlightIsSelection`: the rows on the screen are the entries, each with the label of its slot, and the bar is on the selected one only. `RowsFit`: every row is inside the console, or the work area and the screen. `PointersValid`: no pointer outlives its image. `MokHandedOver`: a UKI gets the MOK exactly if there is one. `OnlyKeysSeen`, `KeyStopsCountdown`: only keys pressed at what is shown answer it, and one of them ends the countdown for good. `UnattendedBoots` (liveness): an untouched machine with a console boots or says why not. `ImplementsBootMenu`: what starts is what the screen highlights. |
| `bootloader_upright` | violation of `BarMoves` | on a display that the background does not cover, the bar of a row that was left is not drawn over, so two rows have it. |
| `dialog` | pass | `NoLostFrame`: the screen is up to date, or a frame is due and both buffers are away. `BuffersKept`: a buffer is busy exactly while the compositor has it. `SelectionShown`: unless a frame is due, what Enter chooses is among the rows on the screen. `TypedIsSelected`, `RepeatIsHeld`: a pause or a release that was read ends the word or the repeating, whatever else the batch held. `ExitTellsAnswer`: the exit status is that of the last answer of the batch, and each Enter prints a value. `TextWhole`: wrapping loses no character. `ImplementsLatestFrame` (safety and liveness). |
| `dialog_answers` | violation of `OneAnswer` | events of the batch that come after the one that quits are handled: a value is printed, and the exit status is that of a menu closed without a choice. |

Each violation quotes, in `PROJECT.json` under `findings`, the line of the repository it
disagrees with.

### Further counterexamples

The properties above hold with exceptions: a weak point that is left out, a set of things that are
excepted, a display on which the menu fits. What happens in each exception is shown by a
configuration of its own, next to those of the runs (`tlc -config VmBackupPlace.cfg MCVmBackup`,
and so on; TLC takes seconds):

| Configuration | Violates | What the code says, and what it does |
|---|---|---|
| `HdBackupGrowth` | `RecordedIsOnCarrier` | "An item is on the carrier when it ends within the bytes that were written" (`hd-backup:911-912`). A file that grows between the file list and tar makes the sizes say that more is on the full carrier than is. |
| `VmBackupPlace` | `XmlHasStreams` | "so the folder never holds an XML with disks that have no streams" (`hd-backup-vm:232-233`). A run interrupted after the XML went in place (316) leaves it so. |
| `VmBackupRecorded` | `BaseKept` | "so the next run continues from the last backup that did finish" (`docs/packages/hd-backup.md:116`). A run interrupted between the sequence file (333) and `finished` (335) destroys the snapshots and streams it just recorded. |
| `VmBackupLegacy` | `ContinuesLastBackup` | The same line. The first run on a folder of an older version takes the newest earlier snapshot as the base (299-304), also one that a run left to which no stream leads. |
| `VmBackupFrozen` | `NeverLeftFrozen` | "Never leaves the guest frozen" (`hd-backup-vm:201`). What the guest agent answers is ignored (166-167, 284-285), and a second signal ends the cleanup before the thaw (349). |
| `VmBackupNvram` | `NvramOfBackup` | "the NVRAM of the backup copied in place" (`man/hd-restore-vm.8:31-32`). A VM whose NVRAM is not there keeps the `_VARS.fd` of an earlier run (317-319), which is restored. |
| `RepoPublishClients` | `ClientsSeeMatch` | "clients never see indices without the signed Release that matches them" (`hd-repo-update:121-122`). Between the two `mv` (152-153) they do, and after an update that broke off there. |
| `RepoPublishHalf` | `BadUploadRefused` | "so a bad upload leaves the repository as it was" (`hd-repo-update:69-70`). `dpkg-deb -f` (76) takes a file of which the rest is still to come, and it replaces the whole one in the pool. |
| `RepoPublishNames` | `OnlyOlderRemoved` | "Older versions of the same package in that pool are removed" (`docs/packages/hd-repo.md:116`). Files are added in the order of their names (75): 1.9 waits from a night that broke off, is added after 1.10 and removes it (111). |
| `EspUpdateSwitch` | `ShowsMenu` | "an order that leaves a bootable ESP" (`update-bootloader.py:63-64`, `docs/packages/hd-bootloader.md:151`). Between `assets.efi` (625-636) and `BOOTX64.EFI` (639), after a switch, the assets are of one frontend and the bootloader of the other, which takes none of the rows. |
| `EspUpdateKept` | `KeptMountsRoot` | "its initrd holds the ZFS module that the kernel lost" (`update-bootloader.py:75-76`). The UKI that is kept as the way back was built of an initrd older than the module (260-268, 279-284). |
| `BootloaderSmall` | `RowsApart` | "each label is centred in its row" (`graphical.cpp:300-301`). On a small display the labels are higher than the rows (318, 322), and one is drawn over the next. |
| `BootloaderBltOnly` | `MenuIsSeen` | "Returns false if there is no display to show the menu on" (`bootloader.hpp:47-49`). On an output without a frame buffer nothing is drawn (`graphical.cpp:205-209`), and the countdown boots unseen. |
| `BootloaderWide` | `LabelsFitBuffers` | "Wider than any text console" (`text.cpp:23-24`). On a console of 300 columns a label of 260 characters is taken (126) into a buffer of 257 (40, 144). |
| `BootloaderNoConsole` | `NeverCrashes` | `bootloader.hpp:47-49` again. `fail` uses the console without a check that there is one (`bootloader.cpp:670-676`). |

### Bounds, and why they are enough

- `hd_backup`: two paths, of which one changes and keeps its neighbour (before or after
  it in the sort: kinds change the order), two versions of which one is a symlink,
  three record numbers per table (so numbers are reused), two carriers of which one is
  added later, two recorded writes plus any number that die. One process: the
  documentation describes one command at a time, and with two the properties do not
  hold (see the hazards). A record needs at least two writes to be superseded and one
  dead write to leave a foreign tarball; both happen.
- `hd_backup_old_copies`: one path, one carrier, three recorded writes: the two versions, and
  the one that skips.
- `vm_backup`: three runs: one that finishes, one that breaks, one that has to live
  with both; two disks, so that one can leave and come back; two pools, so that a
  snapshot can be half done. The NVRAM is there or missing at each run.
- `repo_publish`: two commits, of which the second raises one version; a package in both
  suites and one in one; the server and one developer, one failure (also of `hd-repo-update`
  itself) and one upload by hand, all of which may overlap. The run takes about three minutes.
  Three commits are what it takes to see why `undisturbed` looks at the
  inboxes: a run of the first one, overtaken by an upload of the second, breaks off and leaves
  its file in the inbox, and the night that builds the third, in which the package is the same,
  moves it over the newer one (`hd-repo-update:111` compares no versions). Then the commit is
  recorded and its package is not in the index, until the next one raises the version.
- `esp_update` and `esp_menu`: two ESPs, so that one is done while the other is not; one kernel
  of each kind, which come, go and get or lose their module and their initrd in any order, and a
  menu of two rows (with full menus and any number of kernels the proofs hold). The two runs ask
  for different things, and with everything at once there are too many states: `esp_update`
  has keys, made once, and one frontend; `esp_menu` has no keys and two frontends.
- `bootloader`: three slots, so that a slot can be refused between two that are taken;
  files with every kind of error in a section; a console with room for two rows, one that
  is not there, an output that can and one that cannot take the size of the background, one of
  them larger than it with the work area on it; three keys, so that the bar goes down, up and
  Enter comes, at any time of the start. Numbers
  end at 9 (`MaxNumber`): the check for a number that is too large happens. The menu fits on
  all displays (`MCBootloaderAssumption`, which TLC evaluates); where it does not, see
  `bootloader_upright` and the further counterexamples.
- `dialog`: three events besides the first ones and the releases, all of which may be in one
  batch, so two presses of Enter can be read together, and a batch has an event before and one
  after each other one; two sizes and two scales, so
  buffers are destroyed while the compositor has one or both; menus of three options in
  boxes for one row and more; one repeat between two reads.
- A run of `RepoPublish` may really stop: head built, nobody uploads. So may the boot loader
  and the dialogs, when they end or wait for a key. These do not check for deadlock. The
  others do.

### Fairness

In `RepoPublish`, `WF(ServerSteps)`: `hd-buildserver.timer` starts the
build every night, so a run that can start does, and a run that goes on takes its next
step or ends. `WF(UpdateSteps)`: `hd-repo-update` is a script without waits. Developers,
pushes and failures are not fair. Without the assumption on the timer `TriedAgain` would
say nothing; a stronger assumption is not needed. `TriedAgain` has a premise: a file that
was copied in part and stays in an inbox refuses every later update of its suite until
somebody removes it.

In `Bootloader`, `WF(Program)`: the loader has no step that waits for anything but a key or
the timer, and the calls of the firmware return (`UkiReturns` is not fair: a UKI may run for
ever). `WF(Expire)`: time passes. Nobody has to press a key. `UnattendedBoots` excepts a
firmware that has no timer (`bootloader.cpp:520-521`), which waits for a key, and a machine without
a console, on which `fail` crashes (`BootloaderNoConsole.cfg`).

In `Dialog`, `WF(Program)` is the same for the loop. `SF(ReleaseSuperseded)`: a compositor
that has both buffers gives one back, as it only shows the last one. It is strong because
the model lets releases come only while the loop waits (`SendRelease`), where the code would
find them at its next poll. The user is not fair.

## 4. What is proved

`HdBackup_proofs`, for every number of paths, versions, record numbers, filesets,
backups, carriers and writes:

| Theorem | Assumes | States |
|---|---|---|
| `TypeCorrect` | - | `Spec => []TypeOK`, for any number of processes |
| `Recorded` | `OneCommand`, `NoGrowth` | `Spec => []RecordedIsOnCarrier` |
| `LinksAlwaysResolve` | `OneCommand`, `NoGrowth` | `Spec => []LinksResolve` |
| `OneRecord` | `OneCommand`, `NoGrowth` | `Spec => []OneRecordOnDisk` |
| `NeverOverwritten` | `OneCommand`, `NoGrowth` | `Spec => RecordedNeverOverwritten` |
| `RestoresExactly` | `OneCommand`, `NoGrowth` | `Spec => RestoreExact` |

`VmBackup_proofs`, for every set of disks, their pools and any number of runs:

| Theorem | Assumes | States |
|---|---|---|
| `TypeCorrect` | - | `Spec => []TypeOK` |
| `ThawedInTime` | - | `Spec => []FrozenBriefly` |
| `OneBackup` | `NoWindows` | `Spec => ImplementsBackupPoint` |
| `BaseStaysThere` | `NoWindows` | `Spec => []BaseKept` |
| `OneSet` | `NoWindows` | `Spec => []FinishedSet` |
| `XmlAlwaysHasStreams` | `NoWindows` | `Spec => []XmlHasStreams` |

`RepoPublish_proofs`, for every number of suites, packages, versions and commits:

| Theorem | Assumes | States |
|---|---|---|
| `TypeCorrect` | - | `Spec => []TypeOK` |
| `IsoStaysVerified` | - | `Spec => []IsoVerifies` |
| `IndicesAlwaysMatch` | - | `Spec => []IndicesMatch` |
| `PackagesStay` | - | `Spec => NoPackageLost` |
| `RecordedIsPublished` | `VersionsGrow` | `Spec => StoredIsPublished` |

`EspUpdate_proofs`, for every set of kernels and ESPs, any number of rows and keys:

| Theorem | Assumes | States |
|---|---|---|
| `TypeCorrect` | - | `Spec => []TypeOK` |
| `RowsMount` | - | `Spec => []RowsMountRoot` |
| `TheWayBack` | - | `Spec => WayBack` |
| `MenuShown` | `Windows = {}` | `Spec => []ShowsMenu` |
| `Accepted` | - | `Spec => []FirmwareAccepts` |

`Bootloader_proofs`, for every number of slots, every `assets.efi`, display and number of keys:

| Theorem | Assumes | States |
|---|---|---|
| `TypeCorrect` | - | `Spec => []TypeOK` |
| `KeysSeen` | - | `Spec => []OnlyKeysSeen` |
| `CountdownStops` | - | `Spec => KeyStopsCountdown` |
| `PointersStayValid` | - | `Spec => []PointersValid` |
| `HandedOver` | - | `Spec => []MokHandedOver` |
| `RowsAlwaysFit` | - | `Spec => []RowsFit` |
| `HighlightFollows` | `MenuFits(file, display)` | `Spec => []HighlightIsSelection` |
| `MenuImplemented` | `MenuFits(file, display)` | `Spec => ImplementsBootMenu` |

`Dialog_proofs`, for every menu, message, theme and setup, any keys and sizes:

| Theorem | Assumes | States |
|---|---|---|
| `TypeCorrect` | - | `Spec => []TypeOK` |
| `FrameNeverLost` | - | `Spec => []NoLostFrame` |
| `TypedFinds` | - | `Spec => []TypedIsSelected` |
| `SelectionSeen` | - | `Spec => []SelectionShown` |
| `RepeatsHeld` | - | `Spec => []RepeatIsHeld` |
| `AnswersTold` | - | `Spec => []ExitTellsAnswer` |
| `BuffersSafe` | - | `Spec => []BuffersKept` |
| `TextKept` | - | `Spec => []TextWhole` |
| `ImplementsLatestFrames` | - | `Spec => Latest!Init /\ [][Latest!Next]_(Latest!vars)` |

`MenuFits(file, display)` is about the machine at hand and not about all of them: a premise of the
theorem, in terms of its `assets.efi` and its display (section 2). Every text console fits. On outputs
that do not fit, `bootloader_upright`, `BootloaderSmall.cfg` and `BootloaderBltOnly.cfg` show what
is on the screen instead.

`VersionsGrow`: a later commit takes no version back; without it the file of a
version that was taken back may wait in an inbox, and be moved over the one of the commit. That
file names sort like versions is not assumed: `undisturbed` excludes a night that starts with
a file in an inbox that sorts behind the one of its commit.

`OneCommand` (at most one process) is how the documentation uses the tool; nothing in
the code enforces it. `NoGrowth` (`AllowGrowth = FALSE`) excludes what
`HdBackupGrowth.cfg` shows to break them. `ConstantsAssumption` types the constants; TLC evaluates it.

`NoWindows` (`Windows = {}`): no run is interrupted at the weak points of section 2, which
`VmBackupPlace.cfg`, `VmBackupRecorded.cfg` and `VmBackupLegacy.cfg` show to break the properties.
Signals, failures and power cuts everywhere else are in, and second signals in the cleanup;
`ThawedInTime` and `TypeCorrect` hold with the weak points too.

Hardly any of these invariants is inductive. For `HdBackup`, `SafeInv` adds three facts:

- `RecordsNotNewer`: a record is never newer than its file. Without it a tar could copy
  an older state than the one it is recorded for.
- `ScanInv`: the records a scan loaded at its start still are the records of the
  paths it has left to visit. This is what makes it safe to decide by the loaded copy
  (`OneRecordOnDisk`, `LinksResolve`), and it fails with a second process.
- `WriteInv`: a write has a tarball of its own, its list names records that exist, and
  what it took off the list is on the carrier. So recording a prefix of the list
  keeps `RecordedIsOnCarrier`, and overwriting the tarball of a write that died touches
  none that is recorded.

The proof has a lemma per kind of step (`SafeInvDisk`, ... ) and, in it, a step per
action and conjunct.

`RestoresExactly` is about the sum of all tarballs of a backup, so `ExactInv` adds what each of them
still stands for. `RecordsInv`: a state of a path has one record, and the one that counts as on disk
is the newest. `TarInv`, of the tarballs: they have different times (`TimesInv`); what is in one stays
in the fileset (`MembersInv`), is no newer than the file it was copied from (`CopiesNotNewer`), is
there once, and whole if a record says so (`WholeInv`); and what a later tarball writes or deletes
again was no longer the newest state of its path (`ReplacedInv`). The last is the heart of it: the
last tarball that touches a path decides what a restore gives, and by `ReplacedInv` the tarball that
holds the newest state is never overruled. `WorkInv` ties what a write has read (its delete list,
its file list) to tables that only it may change until it records, and the items of its file to its
list; its lemmas are `WorkNext` and, for the write that records, `TarInvUpdateDb`. `RestoreStep`
puts them together. TLC checked `ExactInv` on `hd_backup` before it was proved.

For `VmBackup`, `FolderInv` says how a folder and the run on it fit: until the run is
recorded, the sequence file is the one it started from (`PhaseInv`); the snapshots of the
run's number are its own, so the cleanup takes no other (`SnapInv`); no stream has a number
that is still to be given out, and the disks the run is done with have streams that lead to
its snapshot (`StreamInv`). `BaseInv` is what a later run relies on: the streams that count
lead to the state of the XML, and the base snapshot exists for exactly the disks of the
XML. It is broken only between the renames of the XML and of the sequence file
(`Committing`), where `CommitInv` says that the streams already lead to the new snapshot.
`OldSnaps` covers folders of old versions, which have no base recorded. The lemmas about
chains (`LeadsToLinked`, `Extended`, `AlikeLinked`) are what keeps a chain whole when a
stream is added behind it or a number that is not part of it is removed. `OneBackup` needs more.
No two streams of a disk have the same number (`OneStream`), so streams that lead to a snapshot lead
to one (`LeadsToOne`). `CutInv`: the disks that are `Cut` are those with a stream that does not count
and is not of the run at work. `LaterInv`: such streams are of a later run than the XML. So of a disk
that is not cut the streams lead to the snapshot of the XML, and of one that is to a later one or
nowhere (`BackupInv`); nothing is cut when a run commits (`NothingCut`), and what a step does to the
cut disks while the XML stays is a `Spoil` or a `Mend` (`CutNext`, `BackupNext`). `XmlLater`
has the snapshot of the run that places the XML later, also in a folder of an old version.

For `RepoPublish`, `IndicesInv` says that while pools change all suites are still to be
made, so the only suites without a matching index are those the update has left to do, or
those that one which broke off left (`unfinished`, until an update ends: it makes all).
`WaitingInv` says that what is still to be moved is in its inbox, and that a file leaves its
inbox only after it reached the pool; so a package is always in one of the two, and only a file
that is not whole takes the place of the last whole one (`WholeOrHalf`). `IsoInv` follows the two
renames of the ISO and of SHA256SUMS.

For `RecordedIsPublished`, `QuietInv` follows a run of the build server while it is undisturbed: no
file anywhere is newer than those of its commit, and no inbox holds anything older than the pool; the
update takes all that is in the inboxes of its suites (`AllTaken`); and each package of the commit is
in the pool or on its way there, still to be copied or in an inbox the update will empty
(`OnItsWay`). Files that a broken upload left may wait in the same inbox: none sorts behind that of the
commit (`SortsLast`), so it is moved last, and where it is in the pool already no other waits
(`PublishedLast`). No suite is as an update that broke off left it (`FinishedInv`). `CommitsInv` (nothing is built of a commit to
come) makes a run that starts newest, `LockInv` says whose update it is, `HandInv` that the file in
hand sorts before those of its package that are left. With `IndicesInv`, the index has what the pool
has when the commit is recorded.

For `Dialog`, nothing bounds the number of items, events, keys or letters, so its proofs need
induction over sequences. `Induction` gets it from one fact of the library, that every set of naturals
has a least element (a rule with a predicate as a parameter could not be used): `FoldExists` and
`FoldTrace` say that a `FoldLeft` goes through one state for each element, as the next follows from
the last, and the operators of the model that go through sequences are folds (`Down`, `Joined`,
`WithoutReleases`, `monitor_size`). `DesktopInput_proofs` has what follows for what is read:
`MenuTyped`, `MessageTyped` (a dialog that is read has items, and its selection is one),
`ThemeLoaded` (also when it is scaled by the size of a monitor), `RowsFit` and `ScrolledShows`.
For the text of a message, `TotalOfBoth` says that the total of two lists of numbers is that of
both; so `Characters` counts lines as they are put together, `WordAdded` shows that a word adds
its own characters to the lines and never makes one too wide (`Narrow`), and `TextWrapped` goes
through the words of a paragraph and the paragraphs of a text. `CutWhenFull` is the arithmetic of
the box: a box lower than the output has room for all lines. With the size of the frame on the
screen (`ViewsInv`) that is `TextKept`. It needs that a line and a character are a pixel at least.

`TypeInv` adds the types of the queues and of what is read. `FrameInv` adds that buffers which are
made are of the size and the scale there are (`Fit`): what makes them anew is what makes the frame due.
`TypedInv` needs only that the letters typed are small ones and that there are none before the
first configure. `RowsInv`: the frame on the screen has as many rows as fit its size, and
the selected option is among them. `RepeatInv` counts the keys that are down as the
batch is handled: those that were down before it, changed by the part that is handled, hold the
key that repeats, and the rest of the batch leads to `held`; so a release that was read with a
press ends the repeating it starts. `AnswerInv`: the program runs exactly until there is an answer,
so the key that repeats is then not one that chooses. `KeptInv`: no release of a buffer is in the
queues twice, nor while the compositor has it, also after both queues lost the releases of buffers
that were destroyed (`KeptEvents`). `ImplementsLatestFrames` is a step of `LatestFrame` or a
stutter per action: with `NoLostFrame`, a frame that is drawn is the one wanted.

For `EspUpdate`, `RowsInv` says what an update has written so far (`WrittenInv`): the UKIs
of the rows up to `todo` are there and verify, then `assets.efi` names exactly the rows,
and a kernel that could have kept its UKI found no slot (`NoSlotLeft`). So what
`RemoveUki` takes is named by nobody and is no way back. `SystemInv` (a module was there
when an initrd was made, or the kernel is `outdated`) makes every other UKI mount the root. `MenuInv` lets the two frontends
differ only between the two renames. `SignedInv` counts the ESPs that are done: with
keys, those behind the update are signed with them, and `updated` never runs ahead of
`keys`, so new keys always ask for a new update. Its stability, `SignedStays`, is what
makes an update safe to interrupt under Secure Boot.

For `Bootloader`, `KeysInv` adds what was pressed when: until the loop waits nobody touched
the menu, and then a key that was pressed is still there or has ended the countdown.
`ImagesInv` ties the views of the front end to `assets`, and `assets` to an image that is
trusted; every phase of the program says which images it may find. `MokInv` carries the
table from the section that was checked to the UKI. `RowsInv` says that the rows that were
taken fit; that a later, wider label widens the earlier rows is why it has `labelWidth`.
For the highlight, `EntriesInv` orders the rows by their slots, with `menuCount < slot` in
`TypeInv`, so that what a refused slot left is behind all entries; `DrawingInv` says, from
`MenuFits`, that both images of a row are of one size and fit it, and that the work area is on the
background. Then a label is inside its row (`PlaceInRow`), drawing it leaves nothing of the one
before it (`LabelsCleaned`) and does not touch another row (`RowsDoNotMeet`); so `ScreenInv` can say
what is on the screen, row by row (`MenuScreen`). `MenuImplemented` goes from there: with `Inv`, `Offered` is the
entries of the menu and `Highlighted` the selected row, and each action maps to one of
`BootMenu` or a stutter.

Only model-checked: liveness (`TriedAgain`, `UnattendedBoots`, the fairness of `LatestFrame`: the
last frame comes to the screen), as it needs `ENABLED`, which the prover does not know.

## 5. What is not modelled

- Of the modelled programs: reports, formatting, prompts, settings files, the arithmetic
  of tar sizes (its result is `DetermineWritten`), tapes as devices (a tape is a
  carrier whose files have numbers), docker, gpg and the firmware of drives.
- Of the boot loader and the dialogs: pixels, colours, fonts (characters are of one width),
  the banner and the background as pictures, and the search for globals of Wayland.
- External programs are modelled by what the code relies on: tar writes items in list
  order, `zfs snapshot` of several volumes of one pool is one step, `os.replace` and
  `mv` within a file system are one step, `fsync` makes what came before it durable.
  A firmware call of the boot loader fails or does what UEFI says; `libwayland` drops the
  events of objects that were destroyed, and the compositor releases a buffer that another
  one replaced.
- The other parts of the inventory, see `components` in `PROJECT.json` for the reason:
  formatting, external tools in sequence, or planned below.

## 6. Plan

The order is by what is lost when the code is wrong: backups, then the repository
every machine installs from, then booting, then the rest.

1. `HdBackup`, `VmBackup`, `RepoPublish` with their runs (done), `HdBackup_proofs` (done).
2. `EspUpdate` with its runs and `EspUpdate_proofs` (done). Left: two updates at once, with
   their temporary files; the half-way states of `hd-secboot --store`.
3. `BootScreen`, `Bootloader` with its run, `BootMenu` and `Bootloader_proofs` (done).
4. `DesktopInput`, `DesktopLayout`, `Dialog` with its run, `LatestFrame`, and `Induction`,
   `DesktopInput_proofs`, `Dialog_proofs` (done).
5. `VmBackup_proofs` and `RepoPublish_proofs` (done).
6. Abstract specifications: `BackupPoint`, a folder of backups that only ever moves from one
   whole backup to the next, implemented by `VmBackup` (done). Left: a suite that only moves
   from one signed index to the next (implemented by `RepoPublish`).
7. `SharedConfig`: `hd-config-update`, `hd-config-remove` and `hd-link-repo` with two
   writers. `Session`: `hd-shutdown`, `hd-plymouth-handoff` and `hd-battery`, with
   timeouts and liveness. `Installer`: the task executor and its dependencies.
8. Pure algorithms (`blockwrite`) against reference definitions on bounded inputs.
