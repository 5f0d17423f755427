------------------------------ MODULE VmBackup ------------------------------
(***************************************************************************)
(* hd-backup-vm: nightly backups of a virtual machine as a chain of ZFS    *)
(* streams per disk, and what hd-restore-vm makes of the folder.           *)
(*                                                                         *)
(* A run freezes the guest, snapshots its disks, thaws it, writes a stream *)
(* per disk and commits: the XML and the NVRAM, then the sequence file,    *)
(* and only then it destroys the snapshot the streams before it ended at.  *)
(* A signal, an error or a power cut may come between any two steps; disks *)
(* are added to the VM and removed.  The lock allows one run at a time.    *)
(*                                                                         *)
(* Abstractions.  A snapshot is the number of the run that took it (its    *)
(* timestamp), a stream the snapshots it goes from and to: what a restore  *)
(* gives is the snapshot the streams lead to.  Temporary files are left    *)
(* out.  A thaw or a zfs destroy may fail: the code ignores both.          *)
(***************************************************************************)
EXTENDS Integers, FiniteSets

CONSTANTS
  Disks, Pools, PoolOf,   \* the ZFS volumes of the VM, and their pools
  MaxRuns,                \* bound: runs that are started
  Nvrams,                 \* bound: what runs find of the NVRAM
  Windows                 \* the weak points at which a run may be interrupted

ASSUME ConstantsAssumption ==
  /\ PoolOf \in [Disks -> Pools]
  /\ MaxRuns \in Nat \ {0}
  /\ Nvrams \subseteq {"none", "missing", "there"}   \* the XML names one, and it is there
  /\ Windows \subseteq {"place", "recorded", "legacy"}

Times == 1 .. MaxRuns
NoSnap == 0
Whole == 0               \* what a full stream is from
Stream == [disk : Disks, seq : 0 .. MaxRuns, from : Times \cup {Whole}, to : Times,
           whole : BOOLEAN]
Sequence == [next : 0 .. MaxRuns, base : Times \cup {NoSnap}]
Run == [snap : Times, datasets : SUBSET Disks, vars : Nvrams, seq : 0 .. MaxRuns,
        base : Times \cup {NoSnap}, frozen : BOOLEAN, finished : BOOLEAN,
        snapshots : SUBSET (Disks \X Times), outFiles : SUBSET Disks,
        pools : SUBSET Pools, todo : SUBSET Disks]
None == [none |-> TRUE]
NoXml == [disks |-> {}, at |-> NoSnap, nvram |-> FALSE]

VARIABLES
  attached,    \* the disks of the VM in libvirt
  guest,       \* "off", "running" or "frozen"
  snaps,       \* the backup snapshots: <<disk, time>>
  streams,     \* the stream files in the backup folder
  sequence,    \* <vm>.sequence: the next number, and the last snapshot
  xml, nvram,  \* <vm>.xml and <vm>_VARS.fd: the run they are of
  runs,        \* how many runs were started
  pc, run      \* the step of the run, and class Run

\* For the properties: the guest was left frozen, by a thaw that the guest agent
\* did not do or a signal in the cleanup.
VARIABLE left

folder == <<streams, sequence, xml, nvram>>
vars == <<attached, guest, snaps, folder, runs, pc, run, left>>

-----------------------------------------------------------------------------
\* A folder of a version that did not record the base snapshot yet.
LegacyFolder ==
  /\ snaps = Disks \X {1}
  /\ streams = {[disk |-> d, seq |-> 0, from |-> Whole, to |-> 1, whole |-> TRUE] : d \in Disks}
  /\ sequence = [next |-> 1, base |-> NoSnap]
  /\ xml = [disks |-> Disks, at |-> 1, nvram |-> TRUE] /\ nvram = 1
  /\ runs = 1

NewFolder ==
  /\ snaps = {} /\ streams = {}
  /\ sequence = [next |-> 0, base |-> NoSnap]
  /\ xml = NoXml /\ nvram = NoSnap
  /\ runs = 0

Init ==
  /\ attached = Disks
  /\ guest \in {"off", "running"}
  /\ LegacyFolder \/ NewFolder
  /\ pc = "idle" /\ run = None /\ left = FALSE

-----------------------------------------------------------------------------
(* The VM and the admin.                                                   *)

ChangeDisks ==
  /\ \E d \in Disks : attached' \in {attached \cup {d}, attached \ {d}} \ {attached}
  /\ UNCHANGED <<guest, snaps, folder, runs, pc, run, left>>

StartOrStopGuest ==
  /\ guest' = IF guest = "off" THEN "running" ELSE "off"
  /\ left' = FALSE
  /\ UNCHANGED <<attached, snaps, folder, runs, pc, run>>

\* "Move that folder away to start a new backup with a full stream."
MoveFolder ==
  /\ pc = "idle"
  /\ streams' = {} /\ sequence' = [next |-> 0, base |-> NoSnap]
  /\ xml' = NoXml /\ nvram' = NoSnap
  /\ UNCHANGED <<attached, guest, snaps, runs, pc, run, left>>

-----------------------------------------------------------------------------
(* The run.                                                                *)

Start ==
  /\ pc = "idle" /\ runs < MaxRuns
  /\ attached # {}
  /\ \E found \in Nvrams :
       run' = [snap |-> runs + 1, datasets |-> attached, vars |-> found, seq |-> sequence.next,
               base |-> sequence.base, frozen |-> FALSE, finished |-> FALSE,
               snapshots |-> {}, outFiles |-> {}, pools |-> {PoolOf[d] : d \in attached},
               todo |-> attached]
  /\ runs' = runs + 1
  /\ pc' = "domstate"
  /\ UNCHANGED <<attached, guest, snaps, folder, left>>

\* Mutant: the guest only counts as frozen once the agent answered.
NotYetFrozen == FALSE

MarksFrozen == guest # "off"

\* For libvirt, a frozen guest is running.  The run counts the guest as frozen before it asks the guest agent.
MarkFrozen ==
  /\ pc = "domstate"
  /\ run' = [run EXCEPT !.frozen = MarksFrozen]
  /\ pc' = IF guest = "off" THEN "snapshot" ELSE "freeze"
  /\ UNCHANGED <<attached, guest, snaps, folder, runs, left>>

\* Without an answer of the guest agent, the snapshot is crash-consistent.
FreezeGuest ==
  /\ pc = "freeze"
  /\ guest' \in {guest, IF guest = "running" THEN "frozen" ELSE guest}
  /\ pc' = "snapshot"
  /\ UNCHANGED <<attached, snaps, folder, runs, run, left>>

\* The guest agent may not answer; the run never asks again.
Thaw ==
  /\ guest' \in {guest, IF guest = "frozen" THEN "running" ELSE guest}
  /\ left' = (guest' = "frozen")

\* All disks of a pool in one step.
SnapshotPool ==
  /\ pc = "snapshot"
  /\ \E pool \in run.pools :
       /\ snaps' = snaps \cup {<<d, run.snap>> : d \in {e \in run.datasets : PoolOf[e] = pool}}
       /\ run' = [run EXCEPT !.pools = @ \ {pool}]
  /\ pc' = "snapshotted"
  /\ UNCHANGED <<attached, guest, folder, runs, left>>

RecordSnapshots ==
  /\ pc = "snapshotted"
  /\ run' = [run EXCEPT !.snapshots = {s \in snaps : s[2] = run.snap}]
  /\ pc' = IF run.pools = {} THEN "thaw" ELSE "snapshot"
  /\ UNCHANGED <<attached, guest, snaps, folder, runs, left>>

ThawGuest ==
  /\ pc = "thaw"
  /\ IF run.frozen THEN Thaw ELSE UNCHANGED <<guest, left>>
  /\ run' = [run EXCEPT !.frozen = FALSE]
  /\ pc' = "send"
  /\ UNCHANGED <<attached, snaps, folder, runs>>

\* Mutant: a stream that an interrupted run left counts as earlier.
HasAnyStreams(d) == \E s \in streams : s.disk = d /\ s.seq <= run.seq

HasEarlierStreams(d) == \E s \in streams : s.disk = d /\ s.seq < run.seq

\* Sequence files from before the base was recorded: the newest earlier snapshot.
NewestEarlier(d) ==
  LET earlier == {t \in Times : <<d, t>> \in snaps /\ t # run.snap}
  IN  IF earlier = {} THEN NoSnap ELSE CHOOSE t \in earlier : \A u \in earlier : u <= t
PrevSnap(d) == IF run.base = NoSnap THEN NewestEarlier(d) ELSE run.base
BaseGone(d) == HasEarlierStreams(d) /\ <<d, PrevSnap(d)>> \notin snaps

StreamFrom(d) == IF HasEarlierStreams(d) THEN PrevSnap(d) ELSE Whole

\* The file is opened, which cuts off one that an earlier run left.
OpenStream ==
  /\ pc = "send"
  /\ \E d \in run.todo :
       /\ ~BaseGone(d)
       /\ streams' = {s \in streams : s.disk # d \/ s.seq # run.seq} \cup
            {[disk |-> d, seq |-> run.seq, from |-> StreamFrom(d), to |-> run.snap,
              whole |-> FALSE]}
       /\ run' = [run EXCEPT !.outFiles = @ \cup {d}, !.todo = @ \ {d}]
  /\ pc' = "sending"
  /\ UNCHANGED <<attached, guest, snaps, sequence, xml, nvram, runs, left>>

\* "The base snapshot of ... is gone, so the backups cannot be continued."
Refuse ==
  /\ pc = "send"
  /\ \E d \in run.todo : BaseGone(d) /\ run' = [run EXCEPT !.outFiles = @ \cup {d}]
  /\ pc' = "cleanup"
  /\ UNCHANGED <<attached, guest, snaps, folder, runs, left>>

\* The stream is flushed to disk before the next one starts.
EndStream ==
  /\ pc = "sending"
  /\ streams' = {IF s.seq = run.seq /\ s.disk \in run.outFiles THEN [s EXCEPT !.whole = TRUE]
                 ELSE s : s \in streams}
  /\ pc' = "send"
  /\ UNCHANGED <<attached, guest, snaps, sequence, xml, nvram, runs, run, left>>

PlacedVars == IF run.vars = "there" THEN run.snap ELSE nvram

PlaceXml ==
  /\ pc = "send" /\ run.todo = {}
  /\ xml' = [disks |-> run.datasets, at |-> run.snap, nvram |-> run.vars # "none"]
  /\ pc' = "vars"
  /\ UNCHANGED <<attached, guest, snaps, streams, sequence, nvram, runs, run, left>>

\* Without an NVRAM to copy, the file of an earlier run stays.
PlaceVars ==
  /\ pc = "vars"
  /\ nvram' = PlacedVars
  /\ pc' = "record"
  /\ UNCHANGED <<attached, guest, snaps, streams, sequence, xml, runs, run, left>>

\* Mutants: two numbers for one run, and the base its streams start at.
TwoNumbers == [next |-> run.seq + 2, base |-> run.snap]
OldBase == [next |-> run.seq + 1, base |-> run.base]

NextSequence == [next |-> run.seq + 1, base |-> run.snap]

\* The next number and the new base, in one step.
RecordSequence ==
  /\ pc = "record"
  /\ sequence' = NextSequence
  /\ pc' = "recorded"
  /\ UNCHANGED <<attached, guest, snaps, streams, xml, nvram, runs, run, left>>

Finish ==
  /\ pc = "recorded"
  /\ run' = [run EXCEPT !.finished = TRUE, !.todo = run.datasets]
  /\ pc' = "prune"
  /\ UNCHANGED <<attached, guest, snaps, folder, runs, left>>

\* The current snapshot is the new base; a zfs destroy that fails is ignored.
Prune ==
  /\ pc = "prune"
  /\ \E d \in run.todo :
       /\ snaps' \in {snaps, {s \in snaps : s[1] # d \/ s[2] = run.snap}}
       /\ run' = [run EXCEPT !.todo = @ \ {d}]
  /\ UNCHANGED <<attached, guest, folder, runs, pc, left>>

End ==
  /\ pc = "prune" /\ run.todo = {}
  /\ pc' = "idle" /\ run' = None
  /\ UNCHANGED <<attached, guest, snaps, folder, runs, left>>

-----------------------------------------------------------------------------
(* A run that does not finish.                                             *)

Cleaning == {"cleanup", "cleanSnaps", "cleanFiles"}

\* The first run on a folder of an old version, with snapshots it may leave.
Legacy == run.base = NoSnap /\ run.seq > 0
MayLeaveSnaps == Legacy => "legacy" \in Windows

\* SIGTERM, SIGHUP, Ctrl-C or an error: the cleanup runs on the way out.
Interrupt ==
  /\ pc \notin {"idle"} \cup Cleaning
  /\ pc \in {"vars", "record"} => "place" \in Windows
  /\ pc = "recorded" => "recorded" \in Windows
  /\ pc = "snapshotted" => MayLeaveSnaps
  /\ pc' = "cleanup"
  /\ UNCHANGED <<attached, guest, snaps, folder, runs, run, left>>

\* Mutant: the snapshots go, finished or not.
AlwaysCleanSnaps == "cleanSnaps"

AfterThaw == IF run.finished THEN "cleanFiles" ELSE "cleanSnaps"

CleanupThaw ==
  /\ pc = "cleanup"
  /\ IF run.frozen THEN Thaw ELSE UNCHANGED <<guest, left>>
  /\ run' = [run EXCEPT !.frozen = FALSE]
  /\ pc' = AfterThaw
  /\ UNCHANGED <<attached, snaps, folder, runs>>

\* A snapshot that zfs does not destroy stays.
CleanupSnapshots ==
  /\ pc = "cleanSnaps"
  /\ \E gone \in SUBSET run.snapshots :
       /\ gone = run.snapshots \/ MayLeaveSnaps
       /\ snaps' = snaps \ gone
  /\ pc' = "cleanFiles"
  /\ UNCHANGED <<attached, guest, folder, runs, run, left>>

\* The streams this run opened, and those of its number that it found.
Own == {s \in streams : s.disk \in run.outFiles /\ s.seq = run.seq}

CleanupFiles ==
  /\ pc = "cleanFiles"
  /\ streams' = IF run.finished THEN streams ELSE streams \ Own
  /\ pc' = "idle" /\ run' = None
  /\ UNCHANGED <<attached, guest, snaps, sequence, xml, nvram, runs, left>>

\* A second signal, in the cleanup, ends it where it is.
InterruptCleanup ==
  /\ pc \in Cleaning
  /\ pc # "cleanFiles" => MayLeaveSnaps
  /\ left' = (left \/ (guest = "frozen" /\ pc = "cleanup"))
  /\ \E gone \in SUBSET Own :
       /\ pc # "cleanFiles" \/ run.finished => gone = {}
       /\ streams' = streams \ gone
  /\ pc' = "idle" /\ run' = None
  /\ UNCHANGED <<attached, guest, snaps, sequence, xml, nvram, runs>>

\* Until the folder is flushed, a stream may not be in it after a power cut, and
\* until it is flushed again, the sequence file may be the old one.
PowerCut ==
  /\ pc # "idle"
  /\ pc \in {"vars", "record"} => "place" \in Windows
  /\ pc \notin {"domstate", "freeze", "recorded", "prune"} => MayLeaveSnaps
  /\ guest' = "off" /\ left' = FALSE
  /\ \E lost \in SUBSET Own :
       /\ sequence.next > run.seq => lost = {}
       /\ streams' = streams \ lost
  /\ sequence' \in {sequence} \cup
       {old \in {[next |-> run.seq, base |-> run.base]} : pc = "recorded" /\ "place" \in Windows}
  /\ pc' = "idle" /\ run' = None
  /\ UNCHANGED <<attached, snaps, xml, nvram, runs>>

-----------------------------------------------------------------------------
Next ==
  \/ ChangeDisks \/ StartOrStopGuest \/ MoveFolder
  \/ Start \/ MarkFrozen \/ FreezeGuest \/ SnapshotPool \/ RecordSnapshots \/ ThawGuest
  \/ OpenStream \/ Refuse \/ EndStream
  \/ PlaceXml \/ PlaceVars \/ RecordSequence \/ Finish \/ Prune \/ End
  \/ Interrupt \/ CleanupThaw \/ CleanupSnapshots \/ CleanupFiles \/ InterruptCleanup \/ PowerCut

Spec == Init /\ [][Next]_vars

-----------------------------------------------------------------------------
(* Properties.                                                             *)

\* Every variable has its type.
TypeOK ==
  /\ attached \subseteq Disks
  /\ guest \in {"off", "running", "frozen"}
  /\ snaps \subseteq Disks \X Times
  /\ streams \subseteq Stream
  /\ sequence \in Sequence
  /\ xml \in [disks : SUBSET Disks, at : Times \cup {NoSnap}, nvram : BOOLEAN]
  /\ nvram \in Times \cup {NoSnap}
  /\ runs \in 0 .. MaxRuns
  /\ pc \in {"idle", "domstate", "freeze", "snapshot", "snapshotted", "thaw", "send",
             "sending", "vars", "record", "recorded", "prune"} \cup Cleaning
  /\ run \in Run \cup {None}
  /\ left \in BOOLEAN

\* S, the streams of a disk in order, are whole, and each starts where the one
\* before it ended: receiving them gives the snapshot t.
Before(r, s, S) == r.seq < s.seq /\ \A q \in S : q.seq <= r.seq \/ s.seq <= q.seq
LeadsTo(S, t) ==
  /\ \E s \in S : s.to = t /\ \A r \in S : r.seq <= s.seq
  /\ \A s \in S :
       /\ s.whole
       /\ IF \A r \in S : s.seq <= r.seq THEN s.from = Whole
          ELSE \E r \in S : Before(r, s, S) /\ r.to = s.from
StreamsOf(d) == {s \in streams : s.disk = d}
Counted(d) == {s \in StreamsOf(d) : s.seq < sequence.next}

Committing == pc \in {"vars", "record"}
Recorded == pc \in {"recorded", "prune"} \/ (pc \in Cleaning /\ run.finished)

\* What hd-restore-vm finds: every stream in the folder, also one of a run that did
\* not finish.  While a run is at work, those it is writing are left out until its
\* XML is in place: a restore next to a run is not modelled.
Taken(d) ==
  IF pc = "idle" \/ Committing \/ Recorded THEN StreamsOf(d) ELSE StreamsOf(d) \ Own
Restored == [d \in xml.disks |-> {t \in Times : LeadsTo(Taken(d), t)}]

\* The disks with a stream that a run left which ended without all of its cleanup.
Cut == IF Committing THEN {} ELSE {d \in xml.disks : Taken(d) # Counted(d)}

\* There is one backup, of all of its disks at the same moment, which is only replaced
\* as a whole, when the XML of a later run is placed.  A restore gives each disk at
\* that moment, but one for which a run left a stream: such a restore fails or gives
\* a later moment, until another run is done with the disk.
Point == INSTANCE BackupPoint
           WITH Points <- Times, disks <- xml.disks, point <- xml.at, cut <- Cut,
                restored <- Restored
ImplementsBackupPoint == Point!Spec

\* "It restores the disks in the XML of the last finished backup": between two runs,
\* every disk at the moment of that backup.  Not after a power cut
\* (VmBackupLeftover.cfg).
RestoresLastBackup ==
  pc = "idle" => \A d \in xml.disks : Restored[d] = {xml.at}

\* "The next run continues from the last backup that did finish": the streams that
\* count are one chain, to the moment of the XML.  Not on a folder of an old version (VmBackupLegacy.cfg).
ContinuesLastBackup ==
  ~Committing => \A d \in xml.disks : LeadsTo(Counted(d), xml.at)

\* Every disk of the XML has a stream, so a restore finds one for each of them:
\* "the folder never holds an XML with disks that have no streams".  With the window "place", it may (VmBackupPlace.cfg).
XmlHasStreams ==
  \A d \in xml.disks : StreamsOf(d) # {}

\* The next run finds the snapshot that the streams of the last finished one end
\* at: "the next run continues from the last backup that did finish".
BaseKept ==
  ~Committing /\ sequence.base # NoSnap =>
    \A d \in xml.disks : <<d, sequence.base>> \in snaps

\* When a run has finished, the XML and the sequence file are of that run, the NVRAM
\* too if there was one to copy, and a restore, which takes every stream it finds,
\* meets no other ones.
FinishedSet ==
  pc = "prune" => /\ xml.at = sequence.base
                  /\ run.vars = "there" => nvram = sequence.base
                  /\ \A d \in xml.disks : StreamsOf(d) = Counted(d)

\* The NVRAM of the backup is what a restore copies in place, if its XML names one.  It may be an earlier one (VmBackupNvram.cfg).
NvramOfBackup ==
  pc = "idle" /\ xml.nvram => nvram \in {NoSnap, xml.at}

\* The guest is only frozen while its disks are snapshotted, however the run ends,
\* unless it was left so: by a thaw that the guest agent did not do, or a signal in
\* the cleanup before the thaw.
FrozenBriefly ==
  guest = "frozen" => left \/ pc \in {"snapshot", "snapshotted", "thaw", "cleanup"}

\* "Never leaves the guest frozen."  It may (VmBackupFrozen.cfg).
NeverLeftFrozen == pc = "idle" => guest # "frozen"
=============================================================================
