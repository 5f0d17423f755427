------------------------------ MODULE HdBackup ------------------------------
(***************************************************************************)
(* hd-backup: incremental backups of filesets on a series of carriers.     *)
(*                                                                         *)
(* The database (records, links, tarballs, carriers) is the only index of  *)
(* what is on which carrier.  update-filesets brings it in line with the   *)
(* disk, item by item; write reads it, lets tar copy the unwritten items   *)
(* to a carrier and only then records what it wrote.  Meanwhile the files  *)
(* keep changing, tar runs into the end of the carrier, any command may    *)
(* die between two steps, and nothing keeps two commands apart.            *)
(*                                                                         *)
(* Abstractions.  A path is a number, in the order write sorts paths; the  *)
(* contents, size and mtime of an item are its version, and KindOf(v)      *)
(* says what an item of that version is.  A label is a number, in          *)
(* alphabetical order.  Bytes are left out: a carrier may run full at any  *)
(* item.  The scan commits item by item (the code commits 100 at a time).  *)
(***************************************************************************)
EXTENDS Integers, FiniteSets

CONSTANTS
  Procs,           \* processes that run hd-backup commands
  Paths,           \* paths, as numbers in sorting order
  ChangingPaths,   \* bound: the paths whose files change during the run
  KindOf,          \* KindOf[v]: what an item with contents v is
  Filesets, FilesetPaths,    \* the paths a fileset covers
  Backups, BackupFileset,    \* the fileset of a backup
  Carriers, CarrierBackup,   \* labels, and the backup each is for
  StartCarriers,   \* the labels that were added when the backup was set up
  MaxVersion,      \* bound: versions of a path
  MaxNumber,       \* bound: record numbers of a kind
  MaxWrites,       \* bound: writes that are started and recorded
  AllowGrowth      \* a file may grow between the file list and tar

Versions == 1 .. MaxVersion
Kinds == {"file", "symlink"}
Numbers == 1 .. MaxNumber
Keys == Kinds \X Numbers

ASSUME ConstantsAssumption ==
  /\ Paths \subseteq Nat /\ ChangingPaths \subseteq Paths /\ Carriers \subseteq Nat
  /\ MaxVersion \in Nat \ {0} /\ MaxNumber \in Nat /\ MaxWrites \in Nat
  /\ KindOf \in [Versions -> Kinds \cup {"special"}]
  /\ FilesetPaths \in [Filesets -> SUBSET Paths]
  /\ BackupFileset \in [Backups -> Filesets]
  /\ CarrierBackup \in [Carriers -> Backups]
  /\ StartCarriers \subseteq Carriers
  /\ AllowGrowth \in BOOLEAN

Absent == 0
NoPath == -1
Torn == -2

\* A row of the files or symlinks table; a number that is not in use is a free row.
Row == [path : Paths \cup {NoPath}, version : Versions \cup {Absent}, onDisk : BOOLEAN]
FreeRow == [path |-> NoPath, version |-> Absent, onDisk |-> FALSE]

\* A row of the tarballs table.  written orders the tarballs in time.
Tarball == [carrier : Carriers, idx : 0 .. MaxWrites, written : 1 .. MaxWrites]

\* A tarball on a carrier: whole items, an item that was cut off, its delete list.
TarFile == [items : SUBSET (Paths \X Versions), cut : Paths \cup {NoPath},
            deletes : SUBSET Paths]
EmptyTar == [items |-> {}, cut |-> NoPath, deletes |-> {}]

\* A line of the file list: the record, its path and what lstat found.
Item == [key : Keys, path : Paths, seen : Versions]

Scan == [fileset : Filesets, rows : [Keys -> Row], todo : SUBSET Paths]
Job == [backup : Backups, carrier : Carriers, idx : 0 .. MaxWrites,
        deletes : SUBSET Paths, list : SUBSET Item, todo : SUBSET Item,
        grew : BOOLEAN, full : BOOLEAN]
None == [none |-> TRUE]

\* Where a command is in update-filesets, and in write.
Scanning == {"scan", "symlinks"}
Writing == {"prepared", "deletes", "listed", "tar", "tarred"}

VARIABLES
  disk,        \* disk[x]: the version of path x, or Absent
  newest,      \* newest[x]: the newest version path x ever had
  rows,        \* the tables files and symlinks
  filesetLinks, tarballLinks, tarballs,
  carrier,     \* carrier[c]: "unknown", "open" or "full" in the database
  media,       \* media[c][n]: the file backup-n.tar on carrier c
  writes,      \* the time: how many writes were recorded
  pc, scan, job     \* the command each process runs, and its local state

database == <<rows, filesetLinks, tarballLinks, tarballs, carrier, writes>>
environment == <<disk, newest>>
vars == <<environment, database, media, pc, scan, job>>

-----------------------------------------------------------------------------
(* Queries.                                                                *)

InUse(k) == rows[k] # FreeRow
InNoTarball(k) == \A t \in tarballs : <<k, t>> \notin tarballLinks
InTarballOfBackup(k, b) ==
  \E t \in tarballs : <<k, t>> \in tarballLinks /\ CarrierBackup[t.carrier] = b
InTarballOfFileset(k, f) ==
  \E b \in Backups : BackupFileset[b] = f /\ InTarballOfBackup(k, b)

ItemExists(kind, x) == disk[x] # Absent /\ KindOf[disk[x]] = kind

ItemsNotInBackup(f, b) ==
  {k \in Keys : /\ InUse(k) /\ <<k, f>> \in filesetLinks
                /\ rows[k].onDisk /\ ~InTarballOfBackup(k, b)}

FindMatch(table, x, v) ==
  {k \in Keys : table[k].path = x /\ k[1] = KindOf[v] /\ table[k].version = v}

FindUnwritten(kind, x) ==
  {k \in Keys : k[1] = kind /\ rows[k].path = x /\ InNoTarball(k)}

Lowest(S, k) == k \in S /\ \A j \in S : k[2] <= j[2]

\* SQLite gives a new row the number after the highest one in use, so the
\* number of a deleted row can come back.
NextKey(kind, k) ==
  /\ k[1] = kind
  /\ \A n \in Numbers : InUse(<<kind, n>>) => n < k[2]
  /\ IF k[2] = 1 THEN TRUE ELSE InUse(<<kind, k[2] - 1>>)

\* The first carrier of the backup, by label, that is not full.
PickedCarrier(b, c) ==
  LET available == {d \in Carriers : CarrierBackup[d] = b /\ carrier[d] = "open"}
  IN  c \in available /\ \A d \in available : c <= d

\* Mutant: the highest index itself, without the + 1.
NextIndexHighest(c, n) ==
  /\ \A t \in tarballs : t.carrier = c => t.idx <= n
  /\ IF n = 0 THEN TRUE ELSE \E t \in tarballs : t.carrier = c /\ t.idx = n

\* The tarball index after the highest one on the carrier.
NextIndex(c, n) ==
  /\ \A t \in tarballs : t.carrier = c => t.idx < n
  /\ n = 0 \/ \E t \in tarballs : t.carrier = c /\ t.idx = n - 1

\* tar writes the symlinks first, then the files, each sorted by path.
Before(i, j) ==
  \/ i.key[1] = "symlink" /\ j.key[1] = "file"
  \/ i.key[1] = j.key[1] /\ i.path < j.path

-----------------------------------------------------------------------------
Init ==
  /\ disk = [x \in Paths |-> 1]
  /\ newest = [x \in Paths |-> 1]
  /\ rows = [k \in Keys |-> FreeRow]
  /\ filesetLinks = {} /\ tarballLinks = {} /\ tarballs = {}
  /\ carrier = [c \in Carriers |-> IF c \in StartCarriers THEN "open" ELSE "unknown"]
  /\ media = [c \in Carriers |-> [n \in 0 .. MaxWrites |-> EmptyTar]]
  /\ writes = 0
  /\ pc = [p \in Procs |-> "idle"]
  /\ scan = [p \in Procs |-> None]
  /\ job = [p \in Procs |-> None]

Idle(p) ==
  /\ pc' = [pc EXCEPT ![p] = "idle"]
  /\ scan' = [scan EXCEPT ![p] = None]
  /\ job' = [job EXCEPT ![p] = None]

-----------------------------------------------------------------------------
(* The files, and the owner of the carriers.                               *)

Change(x) ==
  /\ newest[x] < MaxVersion
  /\ disk' = [disk EXCEPT ![x] = newest[x] + 1]
  /\ newest' = [newest EXCEPT ![x] = newest[x] + 1]
  /\ UNCHANGED <<database, media, pc, scan, job>>

Delete(x) ==
  /\ disk[x] # Absent
  /\ disk' = [disk EXCEPT ![x] = Absent]
  /\ UNCHANGED <<newest, database, media, pc, scan, job>>

\* The newest state of a deleted file comes back, like a file moved away and back.
Reappear(x) ==
  /\ disk[x] = Absent
  /\ disk' = [disk EXCEPT ![x] = newest[x]]
  /\ UNCHANGED <<newest, database, media, pc, scan, job>>

BackedUp(x, v) == \E t \in tarballs : <<x, v>> \in media[t.carrier][t.idx].items

\* Between two commands, an older state comes back, mtime included, like a saved copy
\* moved over the file, when backups hold both it and the newest state.  Not a step of
\* Next: see SpecOldCopies.
Revert(x) ==
  /\ \A p \in Procs : pc[p] = "idle"
  /\ BackedUp(x, newest[x])
  /\ \E v \in Versions : v < newest[x] /\ BackedUp(x, v) /\ disk' = [disk EXCEPT ![x] = v]
  /\ UNCHANGED <<newest, database, media, pc, scan, job>>

\* add-carrier: an empty carrier, with a label that is not in the database.
AddCarrier(c) ==
  /\ \E p \in Procs : pc[p] = "idle"
  /\ carrier[c] = "unknown"
  /\ \A n \in 0 .. MaxWrites : media[c][n] = EmptyTar
  /\ carrier' = [carrier EXCEPT ![c] = "open"]
  /\ UNCHANGED <<environment, rows, filesetLinks, tarballLinks, tarballs, writes,
                 media, pc, scan, job>>

\* remove-carrier: the carrier leaves the database with its tarballs.
RemoveCarrier(c) ==
  /\ \E p \in Procs : pc[p] = "idle"
  /\ carrier[c] # "unknown"
  /\ tarballLinks' = {l \in tarballLinks : l[2].carrier # c}
  /\ tarballs' = {t \in tarballs : t.carrier # c}
  /\ carrier' = [carrier EXCEPT ![c] = "unknown"]
  /\ UNCHANGED <<environment, rows, filesetLinks, writes, media, pc, scan, job>>

-----------------------------------------------------------------------------
(* update-filesets                                                         *)

\* The records are loaded once, at the start of the scan of a path.
ScanStart(p, f) ==
  /\ pc[p] = "idle"
  /\ pc' = [pc EXCEPT ![p] = "scan"]
  /\ scan' = [scan EXCEPT ![p] = [fileset |-> f, rows |-> rows, todo |-> FilesetPaths[f]]]
  /\ UNCHANGED <<environment, database, media, job>>

\* os.walk visits the paths in some fixed order.
NextPath(p, x) == x \in scan[p].todo /\ \A y \in scan[p].todo : x <= y

Scanned(p, x) ==
  /\ scan' = [scan EXCEPT ![p].todo = @ \ {x}]
  /\ UNCHANGED <<environment, tarballLinks, tarballs, carrier, writes, media, pc, job>>

\* The item is gone, is of a type that is not backed up, or cannot be read.
ScanSkip(p, x) ==
  /\ pc[p] = "scan" /\ NextPath(p, x)
  /\ Scanned(p, x)
  /\ UNCHANGED <<rows, filesetLinks>>

\* The record to use: one that matches, else one that was never written, else a new one.
ChosenKey(p, x, k) ==
  LET v == disk[x]
      match == FindMatch(scan[p].rows, x, v)
      unwritten == FindUnwritten(KindOf[v], x)
  IN  \/ Lowest(match, k)
      \/ match = {} /\ Lowest(unwritten, k)
      \/ match = {} /\ unwritten = {} /\ NextKey(KindOf[v], k)

\* Mutant: the other records of the path stay on disk.
ScanRowOnly(p, x, k, j) ==
  IF j # k THEN rows[j]
  ELSE IF FindMatch(scan[p].rows, x, disk[x]) # {} THEN [rows[k] EXCEPT !.onDisk = TRUE]
  ELSE [path |-> x, version |-> disk[x], onDisk |-> TRUE]

\* An UPDATE of a row that another process deleted changes nothing.
ScanRow(p, x, k, j) ==
  LET matched == FindMatch(scan[p].rows, x, disk[x]) # {}
      other == scan[p].rows[j].path = x /\ scan[p].rows[j].onDisk
  IN  IF j = k
        THEN IF matched
               THEN IF InUse(k) THEN [rows[k] EXCEPT !.onDisk = TRUE] ELSE FreeRow
               ELSE [path |-> x, version |-> disk[x], onDisk |-> TRUE]
        ELSE IF other /\ InUse(j) THEN [rows[j] EXCEPT !.onDisk = FALSE] ELSE rows[j]

ScanItem(p, x) ==
  /\ pc[p] = "scan" /\ NextPath(p, x)
  /\ disk[x] # Absent /\ KindOf[disk[x]] \in Kinds
  /\ \E k \in Keys :
       /\ ChosenKey(p, x, k)
       /\ rows' = [j \in Keys |-> ScanRow(p, x, k, j)]
       /\ filesetLinks' = filesetLinks \cup {<<k, scan[p].fileset>>}
  /\ Scanned(p, x)

\* Mutant: the links stay.
NoLinks(gone, f) == {}

\* An item in no tarball of a backup of the fileset leaves the fileset, an item in
\* no tarball at all leaves every fileset.
StaleLinks(gone, f) ==
  {l \in filesetLinks :
     /\ l[1] \in gone
     /\ (l[2] = f /\ ~InTarballOfFileset(l[1], f)) \/ InNoTarball(l[1])}

\* What is gone from disk leaves the fileset, or the database, or is marked.
RemoveMissing(p, kind) ==
  LET f == scan[p].fileset
      gone == {k \in Keys : /\ InUse(k) /\ <<k, f>> \in filesetLinks
                            /\ k[1] = kind /\ ~ItemExists(kind, rows[k].path)}
  IN  /\ rows' = [k \in Keys |->
                    IF k \notin gone THEN rows[k]
                    ELSE IF InNoTarball(k) THEN FreeRow
                    ELSE [rows[k] EXCEPT !.onDisk = FALSE]]
      /\ filesetLinks' = filesetLinks \ StaleLinks(gone, f)
      /\ UNCHANGED <<environment, tarballLinks, tarballs, carrier, writes, media>>

RemoveMissingFiles(p) ==
  /\ pc[p] = "scan" /\ scan[p].todo = {}
  /\ RemoveMissing(p, "file")
  /\ pc' = [pc EXCEPT ![p] = "symlinks"]
  /\ UNCHANGED <<scan, job>>

RemoveMissingSymlinks(p) ==
  /\ pc[p] = "symlinks"
  /\ RemoveMissing(p, "symlink")
  /\ Idle(p)

-----------------------------------------------------------------------------
(* write                                                                   *)

WritePrepare(p, b) ==
  /\ pc[p] = "idle"
  /\ writes < MaxWrites
  /\ \E c \in Carriers, n \in 0 .. MaxWrites - 1 :
       /\ PickedCarrier(b, c)
       /\ NextIndex(c, n)
       /\ job' = [job EXCEPT ![p] =
                    [backup |-> b, carrier |-> c, idx |-> n, deletes |-> {},
                     list |-> {}, todo |-> {}, grew |-> FALSE, full |-> FALSE]]
  /\ pc' = [pc EXCEPT ![p] = "prepared"]
  /\ UNCHANGED <<environment, database, media, scan>>

\* Mutant: a path is deleted when one of its records is not on disk.
DeleteListAny(f, b) ==
  {rows[k].path : k \in {j \in Keys : /\ InUse(j) /\ <<j, f>> \in filesetLinks
                                      /\ ~rows[j].onDisk /\ InTarballOfBackup(j, b)}}

\* A path is deleted when none of its records is on disk.
DeleteList(f, b) ==
  {rows[k].path : k \in {j \in Keys : /\ InUse(j) /\ <<j, f>> \in filesetLinks
                                      /\ ~rows[j].onDisk /\ InTarballOfBackup(j, b)}}
    \ {rows[k].path : k \in {j \in Keys : rows[j].onDisk}}

WriteDeleteList(p) ==
  LET b == job[p].backup
  IN  /\ pc[p] = "prepared"
      /\ job' = [job EXCEPT ![p].deletes = DeleteList(BackupFileset[b], b)]
      /\ pc' = [pc EXCEPT ![p] = "deletes"]
      /\ UNCHANGED <<environment, database, media, scan>>

\* The items to write, by what lstat says of their paths.
ToWrite(b) == ItemsNotInBackup(BackupFileset[b], b)
Mismatch(k) ==
  LET v == disk[rows[k].path]
  IN  IF v = Absent THEN TRUE ELSE (k[1] = "symlink") # (KindOf[v] = "symlink")

WriteFileList(p) ==
  LET keys == ToWrite(job[p].backup)
      list == {[key |-> k, path |-> rows[k].path, seen |-> disk[rows[k].path]] : k \in keys}
  IN  /\ pc[p] = "deletes"
      /\ \A k \in keys : ~Mismatch(k)
      /\ job' = [job EXCEPT ![p].list = list, ![p].todo = list]
      /\ pc' = [pc EXCEPT ![p] = "listed"]
      /\ UNCHANGED <<environment, database, media, scan>>

\* "Update the fileset first."
WriteRefused(p) ==
  /\ pc[p] = "deletes"
  /\ \E k \in ToWrite(job[p].backup) : Mismatch(k)
  /\ Idle(p)
  /\ UNCHANGED <<environment, database, media>>

\* tar opens backup-<idx>.tar, or the tape at file <idx>, and writes the delete list.
TarOpen(p) ==
  /\ pc[p] = "listed"
  /\ media' = [media EXCEPT ![job[p].carrier][job[p].idx] =
                 [EmptyTar EXCEPT !.deletes = job[p].deletes]]
  /\ pc' = [pc EXCEPT ![p] = "tar"]
  /\ UNCHANGED <<environment, database, scan, job>>

NextItem(p, i) == i \in job[p].todo /\ \A j \in job[p].todo : ~Before(j, i)
Grows(i) == AllowGrowth /\ disk[i.path] # i.seen

\* tar copies the next item as it is on disk now.
TarItem(p) ==
  /\ pc[p] = "tar"
  /\ \E i \in job[p].todo :
       /\ NextItem(p, i)
       /\ disk[i.path] # Absent
       /\ media' = [media EXCEPT ![job[p].carrier][job[p].idx].items =
                      @ \cup {<<i.path, disk[i.path]>>}]
       /\ job' = [job EXCEPT ![p].todo = @ \ {i}, ![p].grew = @ \/ Grows(i)]
  /\ UNCHANGED <<environment, database, pc, scan>>

\* An item that is gone is an error of tar: the write fails, the database is not changed.
TarFailed(p) ==
  /\ pc[p] = "tar"
  /\ \E i \in job[p].todo : NextItem(p, i) /\ disk[i.path] = Absent
  /\ Idle(p)
  /\ UNCHANGED <<environment, database, media>>

\* The carrier runs full, in the middle of an item or after the last one.
TarFull(p) ==
  /\ pc[p] = "tar"
  /\ \/ /\ job[p].todo = {}
        /\ job' = [job EXCEPT ![p].full = TRUE]
        /\ media' = media
     \/ \E i \in job[p].todo :
          /\ NextItem(p, i)
          /\ disk[i.path] # Absent
          /\ media' = [media EXCEPT ![job[p].carrier][job[p].idx].cut = i.path]
          /\ job' = [job EXCEPT ![p].full = TRUE, ![p].grew = @ \/ Grows(i)]
  /\ pc' = [pc EXCEPT ![p] = "tarred"]
  /\ UNCHANGED <<environment, database, scan>>

\* Mutant: the item that was cut off counts as written too.
DetermineWrittenCut(j, written) ==
  IF j.full
    THEN written = (j.list \ j.todo) \cup {i \in j.todo : \A k \in j.todo : ~Before(k, i)}
    ELSE written = j.list

\* On a full carrier, the items that end within the bytes written, by the sizes
\* at the time of the file list: never more than are whole, unless a file grew.
DetermineWritten(j, written) ==
  IF j.full
    THEN /\ written \subseteq (IF j.grew THEN j.list ELSE j.list \ j.todo)
         /\ \A a \in written, i \in j.list : Before(i, a) => i \in written
    ELSE written = j.list

\* Mutant: record numbers counted from 0.
LinksFromZero(written, t) == {<<<<i.key[1], i.key[2] - 1>>, t>> : i \in written}

Links(written, t) == {<<i.key, t>> : i \in written}

Tarred(p) == IF pc[p] = "tar" THEN job[p].todo = {} ELSE pc[p] = "tarred"

WriteUpdateDb(p) ==
  /\ Tarred(p)
  /\ writes < MaxWrites
  /\ \E written \in SUBSET job[p].list :
       LET t == [carrier |-> job[p].carrier, idx |-> job[p].idx, written |-> writes + 1]
       IN  /\ DetermineWritten(job[p], written)
           /\ tarballs' = tarballs \cup {t}
           /\ tarballLinks' = tarballLinks \cup Links(written, t)
  /\ carrier' = IF job[p].full THEN [carrier EXCEPT ![job[p].carrier] = "full"] ELSE carrier
  /\ writes' = writes + 1
  /\ Idle(p)
  /\ UNCHANGED <<environment, rows, filesetLinks, media>>

\* A command dies: a signal, a power cut, an SQL error, a full /tmp.
Die(p) ==
  /\ pc[p] # "idle"
  /\ Idle(p)
  /\ UNCHANGED <<environment, database, media>>

-----------------------------------------------------------------------------
Update(p) ==
  \/ \E f \in Filesets : ScanStart(p, f)
  \/ \E x \in Paths : ScanSkip(p, x) \/ ScanItem(p, x)
  \/ RemoveMissingFiles(p)
  \/ RemoveMissingSymlinks(p)

Write(p) ==
  \/ \E b \in Backups : WritePrepare(p, b)
  \/ WriteDeleteList(p)
  \/ WriteFileList(p)
  \/ WriteRefused(p)
  \/ TarOpen(p)
  \/ TarItem(p)
  \/ TarFailed(p)
  \/ TarFull(p)
  \/ WriteUpdateDb(p)

Environment ==
  \/ \E x \in ChangingPaths : Change(x) \/ Delete(x) \/ Reappear(x)
  \/ \E c \in Carriers : AddCarrier(c) \/ RemoveCarrier(c)

Next ==
  \/ Environment
  \/ \E p \in Procs : Update(p) \/ Write(p) \/ Die(p)

Spec == Init /\ [][Next]_vars

\* The same when saved copies may be moved back over their files.
SpecOldCopies == Init /\ [][Next \/ \E x \in ChangingPaths : Revert(x)]_vars

-----------------------------------------------------------------------------
(* Properties.                                                             *)

\* Every variable has its type.
TypeOK ==
  /\ disk \in [Paths -> Versions \cup {Absent}]
  /\ newest \in [Paths -> Versions]
  /\ rows \in [Keys -> Row]
  /\ filesetLinks \subseteq Keys \X Filesets
  /\ tarballLinks \subseteq Keys \X Tarball
  /\ tarballs \subseteq Tarball
  /\ carrier \in [Carriers -> {"unknown", "open", "full"}]
  /\ media \in [Carriers -> [0 .. MaxWrites -> TarFile]]
  /\ writes \in 0 .. MaxWrites
  /\ pc \in [Procs -> {"idle"} \cup Scanning \cup Writing]
  /\ scan \in [Procs -> Scan \cup {None}]
  /\ job \in [Procs -> Job \cup {None}]

\* Whatever versions and kinds a path went through, at most one of its records
\* counts as on disk (mark_other_records_off_disk).
OneRecordOnDisk ==
  \A j, k \in Keys :
    rows[j].onDisk /\ rows[k].onDisk /\ rows[j].path = rows[k].path => j = k

\* No link outlives its record or its tarball: a record number that is given
\* out again would inherit it (remove_missing_items, remove_carrier).
LinksResolve ==
  /\ \A l \in filesetLinks : InUse(l[1])
  /\ \A l \in tarballLinks : InUse(l[1]) /\ l[2] \in tarballs

\* An item the database places in a tarball is whole in that file of that
\* carrier, in the recorded state or a newer one (write_determine_written).
RecordedIsOnCarrier ==
  \A l \in tarballLinks : \E v \in Versions :
    /\ v >= rows[l[1]].version
    /\ <<rows[l[1]].path, v>> \in media[l[2].carrier][l[2].idx].items

\* No write changes the file of a tarball that the database knows (write_prepare).
RecordedNeverOverwritten ==
  [][\A t \in tarballs : t \in tarballs' =>
       media'[t.carrier][t.idx] = media[t.carrier][t.idx]]_vars

TarballsOf(b) == {t \in tarballs : CarrierBackup[t.carrier] = b}
FileOf(t) == media[t.carrier][t.idx]
Touches(t, x) == FileOf(t).cut = x \/ \E v \in Versions : <<x, v>> \in FileOf(t).items
IsLast(t, S) == t \in S /\ \A u \in S : u.written <= t.written

\* What a restore of backup b leaves at path x: the tarballs are extracted in
\* the order they were written, then the last delete list runs.
Extracted(b, x) ==
  LET touching == {t \in TarballsOf(b) : Touches(t, x)}
  IN  IF touching = {} THEN Absent
      ELSE LET t == CHOOSE u \in touching : IsLast(u, touching)
           IN  IF FileOf(t).cut = x THEN Torn
               ELSE CHOOSE v \in Versions : <<x, v>> \in FileOf(t).items
Restored(b, x) ==
  IF \E t \in TarballsOf(b) : IsLast(t, TarballsOf(b)) /\ x \in FileOf(t).deletes
    THEN Absent ELSE Extracted(b, x)

BackedUpType(x) == disk[x] # Absent /\ KindOf[disk[x]] \in Kinds

\* The database describes the fileset as it is on disk.
ScanCurrent(f) ==
  \A x \in FilesetPaths[f] :
    IF BackedUpType(x)
      THEN \E k \in FindMatch(rows, x, disk[x]) : rows[k].onDisk /\ <<k, f>> \in filesetLinks
      ELSE \A k \in Keys : rows[k].path = x => ~rows[k].onDisk

\* When a write that did not run full is recorded, and nothing changed since
\* the scan, a restore of the backup gives every path of the fileset as it is on
\* disk, and nothing the backup holds a record of and that is gone from disk.
RestoreExact ==
  [][\A p \in Procs, b \in Backups :
       /\ Tarred(p) /\ writes' # writes
       /\ job[p].backup = b /\ ~job[p].full /\ ScanCurrent(BackupFileset[b])
       => \A x \in FilesetPaths[BackupFileset[b]] :
            IF BackedUpType(x) THEN Restored(b, x)' = disk[x]
            ELSE (\E k \in Keys : rows[k].path = x /\ InTarballOfBackup(k, b))
                   => Restored(b, x)' = Absent
    ]_vars
=============================================================================
