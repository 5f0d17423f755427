-------------------------- MODULE HdBackup_proofs --------------------------
(***************************************************************************)
(* Proofs about hd-backup, for any number of paths, records, carriers and  *)
(* writes.                                                                 *)
(***************************************************************************)
EXTENDS HdBackup, TLAPS

\* A row is free, or describes a version of a path.
RowsOK == \A k \in Keys : InUse(k) => rows[k].path \in Paths /\ rows[k].version \in Versions

\* A process that scans or writes has the local state of that command.
LocalOK == \A p \in Procs : /\ pc[p] \in Scanning => scan[p] \in Scan
                            /\ pc[p] \in Writing => job[p] \in Job

TypeInv == TypeOK /\ RowsOK /\ LocalOK

-----------------------------------------------------------------------------
LEMMA FreeRowIsRow == FreeRow \in Row
BY DEF FreeRow, Row

\* A file system step leaves everything but the disk alone.
LEMMA TypeInvDisk ==
  ASSUME TypeInv, NEW x \in Paths, Change(x) \/ Delete(x) \/ Reappear(x)
  PROVE  TypeInv'
<1>1. newest[x] \in Versions /\ newest[x] < MaxVersion => newest[x] + 1 \in Versions
  BY ConstantsAssumption DEF Versions
<1>2. disk' \in [Paths -> Versions \cup {Absent}] /\ newest' \in [Paths -> Versions]
  <2>1. CASE Change(x) BY <1>1, <2>1 DEF Change, TypeInv, TypeOK
  <2>2. CASE Delete(x) BY <2>2 DEF Delete, TypeInv, TypeOK
  <2>3. CASE Reappear(x) BY <2>3 DEF Reappear, TypeInv, TypeOK
  <2>. QED BY <2>1, <2>2, <2>3
<1>3. UNCHANGED <<database, media, pc, scan, job>>
  BY DEF Change, Delete, Reappear
<1>. QED
  BY <1>2, <1>3 DEF TypeInv, TypeOK, RowsOK, LocalOK, InUse, database

LEMMA TypeInvCarriers ==
  ASSUME TypeInv, NEW c \in Carriers, AddCarrier(c) \/ RemoveCarrier(c)
  PROVE  TypeInv'
<1>1. tarballLinks' \subseteq tarballLinks /\ tarballs' \subseteq tarballs
  BY DEF AddCarrier, RemoveCarrier
<1>2. carrier' \in [Carriers -> {"unknown", "open", "full"}]
  BY DEF AddCarrier, RemoveCarrier, TypeInv, TypeOK
<1>3. UNCHANGED <<environment, rows, filesetLinks, writes, media, pc, scan, job>>
  BY DEF AddCarrier, RemoveCarrier
<1>. QED
  BY <1>1, <1>2, <1>3 DEF TypeInv, TypeOK, RowsOK, LocalOK, InUse, environment

LEMMA TypeInvIdle ==
  ASSUME TypeInv, NEW p \in Procs, Idle(p)
  PROVE  /\ pc' \in [Procs -> {"idle"} \cup Scanning \cup Writing]
         /\ scan' \in [Procs -> Scan \cup {None}]
         /\ job' \in [Procs -> Job \cup {None}]
         /\ LocalOK'
BY DEF Idle, TypeInv, TypeOK, LocalOK, Scanning, Writing

LEMMA TypeInvUpdate ==
  ASSUME TypeInv, NEW p \in Procs, Update(p)
  PROVE  TypeInv'
<1>1. ASSUME NEW f \in Filesets, ScanStart(p, f) PROVE TypeInv'
  <2>1. FilesetPaths[f] \in SUBSET Paths BY ConstantsAssumption
  <2>2. [fileset |-> f, rows |-> rows, todo |-> FilesetPaths[f]] \in Scan
    BY <2>1 DEF Scan, TypeInv, TypeOK
  <2>3. /\ scan' \in [Procs -> Scan \cup {None}]
        /\ pc' \in [Procs -> {"idle"} \cup Scanning \cup Writing]
        /\ LocalOK'
    BY <1>1, <2>2 DEF ScanStart, TypeInv, TypeOK, LocalOK, Scanning, Writing
  <2>. QED
    BY <1>1, <2>3 DEF ScanStart, environment, database, TypeInv, TypeOK, RowsOK, InUse
<1>2. ASSUME NEW x \in Paths, pc[p] = "scan", Scanned(p, x)
      PROVE  /\ scan' \in [Procs -> Scan \cup {None}]
             /\ LocalOK'
  <2>1. scan[p] \in Scan BY <1>2 DEF TypeInv, LocalOK, Scanning
  <2>2. [scan[p] EXCEPT !.todo = @ \ {x}] \in Scan BY <2>1 DEF Scan
  <2>3. scan' = [scan EXCEPT ![p] = [scan[p] EXCEPT !.todo = @ \ {x}]] BY <1>2 DEF Scanned
  <2>4. pc' = pc /\ job' = job BY <1>2 DEF Scanned
  <2>5. scan' \in [Procs -> Scan \cup {None}] BY <2>2, <2>3 DEF TypeInv, TypeOK
  <2>6. ASSUME NEW q \in Procs, pc[q] \in Scanning PROVE scan'[q] \in Scan
    BY <2>2, <2>3, <2>6 DEF TypeInv, TypeOK, LocalOK
  <2>. QED BY <2>4, <2>5, <2>6 DEF LocalOK, TypeInv
<1>3. ASSUME NEW x \in Paths, ScanSkip(p, x) PROVE TypeInv'
  BY <1>2, <1>3 DEF ScanSkip, Scanned, environment, TypeInv, TypeOK, RowsOK, InUse
<1>4. ASSUME NEW x \in Paths, ScanItem(p, x) PROVE TypeInv'
  <2>1. PICK k \in Keys :
          /\ ChosenKey(p, x, k)
          /\ rows' = [j \in Keys |-> ScanRow(p, x, k, j)]
          /\ filesetLinks' = filesetLinks \cup {<<k, scan[p].fileset>>}
    BY <1>4 DEF ScanItem
  <2>2. scan[p].fileset \in Filesets BY <1>4 DEF ScanItem, TypeInv, LocalOK, Scanning, Scan
  <2>3. disk[x] \in Versions BY <1>4 DEF ScanItem, TypeInv, TypeOK
  <2>4. ASSUME NEW j \in Keys
        PROVE  /\ ScanRow(p, x, k, j) \in Row
               /\ ScanRow(p, x, k, j) # FreeRow =>
                    /\ ScanRow(p, x, k, j).path \in Paths
                    /\ ScanRow(p, x, k, j).version \in Versions
    <3>1. rows[j] \in Row /\ (InUse(j) => rows[j].path \in Paths /\ rows[j].version \in Versions)
      BY DEF TypeInv, TypeOK, RowsOK
    <3>2. [path |-> x, version |-> disk[x], onDisk |-> TRUE] \in Row BY <2>3 DEF Row
    <3>3. ASSUME NEW b \in BOOLEAN, InUse(j)
          PROVE  /\ [rows[j] EXCEPT !.onDisk = b] \in Row
                 /\ [rows[j] EXCEPT !.onDisk = b].path \in Paths
                 /\ [rows[j] EXCEPT !.onDisk = b].version \in Versions
      BY <3>1, <3>3 DEF Row
    <3>. QED BY <2>3, <3>1, <3>2, <3>3, FreeRowIsRow DEF ScanRow, InUse
  <2>5. rows' \in [Keys -> Row] /\ RowsOK' BY <2>1, <2>4 DEF RowsOK, InUse
  <2>6. filesetLinks' \subseteq Keys \X Filesets BY <2>1, <2>2 DEF TypeInv, TypeOK
  <2>. QED BY <1>2, <1>4, <2>5, <2>6 DEF ScanItem, Scanned, environment, TypeInv, TypeOK
<1>5. ASSUME NEW kind \in Kinds, RemoveMissing(p, kind)
      PROVE  rows' \in [Keys -> Row] /\ RowsOK' /\ filesetLinks' \subseteq filesetLinks
  <2>1. ASSUME NEW k \in Keys
        PROVE  \/ rows'[k] \in {rows[k], FreeRow}
               \/ InUse(k) /\ rows'[k] = [rows[k] EXCEPT !.onDisk = FALSE]
    BY <1>5 DEF RemoveMissing
  <2>2. ASSUME NEW k \in Keys
        PROVE  /\ rows'[k] \in Row
               /\ rows'[k] # FreeRow => rows'[k].path \in Paths /\ rows'[k].version \in Versions
    <3>1. rows[k] \in Row /\ (InUse(k) => rows[k].path \in Paths /\ rows[k].version \in Versions)
      BY DEF TypeInv, TypeOK, RowsOK
    <3>2. ASSUME InUse(k)
          PROVE  /\ [rows[k] EXCEPT !.onDisk = FALSE] \in Row
                 /\ [rows[k] EXCEPT !.onDisk = FALSE].path \in Paths
                 /\ [rows[k] EXCEPT !.onDisk = FALSE].version \in Versions
      BY <3>1, <3>2 DEF Row
    <3>. QED BY <2>1, <3>1, <3>2, FreeRowIsRow DEF InUse
  <2>3. rows' = [k \in Keys |-> rows'[k]] BY <1>5 DEF RemoveMissing
  <2>. QED BY <1>5, <2>2, <2>3 DEF RemoveMissing, RowsOK, InUse
<1>6. ASSUME RemoveMissingFiles(p) PROVE TypeInv'
  <2>1. pc' \in [Procs -> {"idle"} \cup Scanning \cup Writing] /\ LocalOK'
    BY <1>6 DEF RemoveMissingFiles, TypeInv, TypeOK, LocalOK, Scanning, Writing
  <2>. QED BY <1>5, <1>6, <2>1
       DEF RemoveMissingFiles, RemoveMissing, environment, TypeInv, TypeOK, Kinds
<1>7. ASSUME RemoveMissingSymlinks(p) PROVE TypeInv'
  BY <1>5, <1>7, TypeInvIdle
  DEF RemoveMissingSymlinks, RemoveMissing, environment, TypeInv, TypeOK, Kinds
<1>. QED BY <1>1, <1>3, <1>4, <1>6, <1>7 DEF Update

\* What a process that writes may do to its job, its step and the file it writes.
LEMMA TypeInvJob ==
  ASSUME TypeInv, NEW p \in Procs, NEW j \in Job, NEW q \in Writing,
         job' = [job EXCEPT ![p] = j], pc' = [pc EXCEPT ![p] = q], scan' = scan
  PROVE  /\ pc' \in [Procs -> {"idle"} \cup Scanning \cup Writing]
         /\ scan' \in [Procs -> Scan \cup {None}]
         /\ job' \in [Procs -> Job \cup {None}]
         /\ LocalOK'
BY DEF TypeInv, TypeOK, LocalOK, Scanning, Writing

LEMMA TypeInvMedia ==
  ASSUME TypeInv, NEW c \in Carriers, NEW n \in 0 .. MaxWrites, NEW f \in TarFile,
         media' = [media EXCEPT ![c][n] = f]
  PROVE  media' \in [Carriers -> [0 .. MaxWrites -> TarFile]]
BY DEF TypeInv, TypeOK

LEMMA TypeInvWrite ==
  ASSUME TypeInv, NEW p \in Procs, Write(p)
  PROVE  TypeInv'
<1>. USE ConstantsAssumption
<1>0. /\ disk \in [Paths -> Versions \cup {Absent}]
      /\ rows \in [Keys -> Row]
      /\ pc \in [Procs -> {"idle"} \cup Scanning \cup Writing]
      /\ \A k \in Keys : InUse(k) => rows[k].path \in Paths /\ rows[k].version \in Versions
  BY DEF TypeInv, TypeOK, RowsOK
<1>1. ASSUME NEW b \in Backups, WritePrepare(p, b) PROVE TypeInv'
  <2>1. PICK c \in Carriers, n \in 0 .. MaxWrites - 1 :
          job' = [job EXCEPT ![p] =
                    [backup |-> b, carrier |-> c, idx |-> n, deletes |-> {},
                     list |-> {}, todo |-> {}, grew |-> FALSE, full |-> FALSE]]
    BY <1>1 DEF WritePrepare
  <2>2. [backup |-> b, carrier |-> c, idx |-> n, deletes |-> {},
         list |-> {}, todo |-> {}, grew |-> FALSE, full |-> FALSE] \in Job
    BY DEF Job
  <2>. QED BY <1>1, <2>1, <2>2, TypeInvJob
           DEF WritePrepare, environment, database, TypeInv, TypeOK, RowsOK, InUse, Writing
<1>2. ASSUME WriteDeleteList(p) PROVE TypeInv'
  <2>1. job[p] \in Job BY <1>2 DEF WriteDeleteList, TypeInv, LocalOK, Writing
  <2>2. \A f, b : DeleteList(f, b) \subseteq Paths
    <3>1. ASSUME NEW f, NEW b, NEW x \in DeleteList(f, b) PROVE x \in Paths
      <4>1. PICK k \in Keys : InUse(k) /\ x = rows[k].path BY DEF DeleteList
      <4>. QED BY <1>0, <4>1
    <3>. QED BY <3>1
  <2>3. [job[p] EXCEPT !.deletes = DeleteList(BackupFileset[job[p].backup], job[p].backup)] \in Job
    BY <2>1, <2>2 DEF Job
  <2>4. job' = [job EXCEPT ![p] =
          [job[p] EXCEPT !.deletes = DeleteList(BackupFileset[job[p].backup], job[p].backup)]]
    BY <1>2, <2>1 DEF WriteDeleteList
  <2>. QED BY <1>2, <2>3, <2>4, TypeInvJob
           DEF WriteDeleteList, environment, database, TypeInv, TypeOK, RowsOK, InUse, Writing
<1>3. ASSUME WriteFileList(p) PROVE TypeInv'
  <2>. DEFINE keys == ToWrite(job[p].backup)
              list == {[key |-> k, path |-> rows[k].path, seen |-> disk[rows[k].path]] : k \in keys}
  <2>1. job[p] \in Job BY <1>3 DEF WriteFileList, TypeInv, LocalOK, Writing
  <2>2. ASSUME NEW k \in keys
        PROVE  [key |-> k, path |-> rows[k].path, seen |-> disk[rows[k].path]] \in Item
    <3>1. k \in Keys /\ rows[k].path \in Paths BY <1>0 DEF ToWrite, ItemsNotInBackup
    <3>2. disk[rows[k].path] \in Versions BY <1>0, <1>3, <3>1 DEF WriteFileList, Mismatch
    <3>. QED BY <3>1, <3>2 DEF Item
  <2>3. [job[p] EXCEPT !.list = list, !.todo = list] \in Job
    <3>1. list \in SUBSET Item BY <2>2
    <3>2. \A S \in SUBSET Item : [job[p] EXCEPT !.list = S, !.todo = S] \in Job BY <2>1 DEF Job
    <3>. QED BY <3>1, <3>2
  <2>4. job' = [job EXCEPT ![p] = [job[p] EXCEPT !.list = list, !.todo = list]]
    BY <1>3 DEF WriteFileList
  <2>. QED BY <1>3, <2>3, <2>4, TypeInvJob
           DEF WriteFileList, environment, database, TypeInv, TypeOK, RowsOK, InUse, Writing
<1>4. ASSUME WriteRefused(p) \/ TarFailed(p) PROVE TypeInv'
  BY <1>4, TypeInvIdle
  DEF WriteRefused, TarFailed, environment, database, TypeInv, TypeOK, RowsOK, InUse
<1>5. ASSUME TarOpen(p) PROVE TypeInv'
  <2>1. job[p] \in Job BY <1>5 DEF TarOpen, TypeInv, LocalOK, Writing
  <2>2. [EmptyTar EXCEPT !.deletes = job[p].deletes] \in TarFile
    BY <2>1 DEF Job, EmptyTar, TarFile
  <2>3. media' \in [Carriers -> [0 .. MaxWrites -> TarFile]]
    <3>1. job[p].carrier \in Carriers /\ job[p].idx \in 0 .. MaxWrites BY <2>1 DEF Job
    <3>. QED BY <1>5, <2>2, <3>1, TypeInvMedia DEF TarOpen
  <2>4. job' = [job EXCEPT ![p] = job[p]] BY <1>5 DEF TarOpen, TypeInv, TypeOK
  <2>. QED BY <1>5, <2>1, <2>3, <2>4, TypeInvJob
           DEF TarOpen, environment, database, TypeInv, TypeOK, RowsOK, InUse, Writing
<1>6. ASSUME TarItem(p) PROVE TypeInv'
  <2>1. job[p] \in Job BY <1>6 DEF TarItem, TypeInv, LocalOK, Writing
  <2>2. job[p].carrier \in Carriers /\ job[p].idx \in 0 .. MaxWrites BY <2>1 DEF Job
  <2>. DEFINE file == media[job[p].carrier][job[p].idx]
  <2>3. file \in TarFile BY <2>2 DEF TypeInv, TypeOK
  <2>4. PICK i \in job[p].todo :
          /\ disk[i.path] # Absent
          /\ media' = [media EXCEPT ![job[p].carrier][job[p].idx].items =
                         @ \cup {<<i.path, disk[i.path]>>}]
          /\ job' = [job EXCEPT ![p].todo = @ \ {i}, ![p].grew = @ \/ Grows(i)]
    BY <1>6 DEF TarItem
  <2>5. i.path \in Paths /\ disk[i.path] \in Versions BY <1>0, <2>1, <2>4 DEF Job, Item
  <2>6. [file EXCEPT !.items = @ \cup {<<i.path, disk[i.path]>>}] \in TarFile
    BY <2>3, <2>5 DEF TarFile
  <2>7. media' \in [Carriers -> [0 .. MaxWrites -> TarFile]]
    BY <2>2, <2>4, <2>6, TypeInvMedia
  <2>8. job[p].grew \in BOOLEAN /\ Grows(i) \in BOOLEAN BY <2>1 DEF Job, Grows
  <2>9. [job[p] EXCEPT !.todo = @ \ {i}, !.grew = @ \/ Grows(i)] \in Job
    BY <2>1, <2>8 DEF Job
  <2>10. job' = [job EXCEPT ![p] = [job[p] EXCEPT !.todo = @ \ {i}, !.grew = @ \/ Grows(i)]]
    BY <2>4 DEF TypeInv, TypeOK
  <2>11. pc' = [pc EXCEPT ![p] = "tar"] /\ scan' = scan BY <1>0, <1>6 DEF TarItem
  <2>. QED BY <1>6, <2>7, <2>9, <2>10, <2>11, TypeInvJob
           DEF TarItem, environment, database, TypeInv, TypeOK, RowsOK, InUse, Writing
<1>7. ASSUME TarFull(p) PROVE TypeInv'
  <2>1. job[p] \in Job BY <1>7 DEF TarFull, TypeInv, LocalOK, Writing
  <2>2. job[p].carrier \in Carriers /\ job[p].idx \in 0 .. MaxWrites BY <2>1 DEF Job
  <2>. DEFINE file == media[job[p].carrier][job[p].idx]
  <2>3. file \in TarFile BY <2>2 DEF TypeInv, TypeOK
  <2>4. pc' = [pc EXCEPT ![p] = "tarred"] /\ scan' = scan BY <1>7 DEF TarFull
  <2>5. CASE job' = [job EXCEPT ![p].full = TRUE] /\ media' = media
    <3>1. job' = [job EXCEPT ![p] = [job[p] EXCEPT !.full = TRUE]] BY <2>5
    <3>2. [job[p] EXCEPT !.full = TRUE] \in Job BY <2>1 DEF Job
    <3>. QED BY <1>7, <2>4, <2>5, <3>1, <3>2, TypeInvJob
             DEF TarFull, environment, database, TypeInv, TypeOK, RowsOK, InUse, Writing
  <2>6. ASSUME NEW i \in job[p].todo,
               media' = [media EXCEPT ![job[p].carrier][job[p].idx].cut = i.path],
               job' = [job EXCEPT ![p].full = TRUE, ![p].grew = @ \/ Grows(i)]
        PROVE  TypeInv'
    <3>1. i.path \in Paths BY <2>1 DEF Job, Item
    <3>2. [file EXCEPT !.cut = i.path] \in TarFile BY <2>3, <3>1 DEF TarFile
    <3>3. media' \in [Carriers -> [0 .. MaxWrites -> TarFile]]
      BY <2>2, <2>6, <3>2, TypeInvMedia
    <3>4. job[p].grew \in BOOLEAN /\ Grows(i) \in BOOLEAN BY <2>1 DEF Job, Grows
    <3>5. [job[p] EXCEPT !.full = TRUE, !.grew = @ \/ Grows(i)] \in Job
      BY <2>1, <3>4 DEF Job
    <3>6. job' = [job EXCEPT ![p] = [job[p] EXCEPT !.full = TRUE, !.grew = @ \/ Grows(i)]]
      BY <2>6 DEF TypeInv, TypeOK
    <3>. QED BY <1>7, <2>4, <3>3, <3>5, <3>6, TypeInvJob
             DEF TarFull, environment, database, TypeInv, TypeOK, RowsOK, InUse, Writing
  <2>. QED BY <1>7, <2>5, <2>6 DEF TarFull
<1>8. ASSUME WriteUpdateDb(p) PROVE TypeInv'
  <2>. DEFINE t == [carrier |-> job[p].carrier, idx |-> job[p].idx, written |-> writes + 1]
  <2>1. job[p] \in Job BY <1>8 DEF WriteUpdateDb, Tarred, TypeInv, LocalOK, Writing
  <2>2. writes' \in 0 .. MaxWrites /\ t \in Tarball
    BY <1>8, <2>1 DEF WriteUpdateDb, TypeInv, TypeOK, Job, Tarball
  <2>3. PICK written \in SUBSET job[p].list :
          /\ tarballs' = tarballs \cup {t}
          /\ tarballLinks' = tarballLinks \cup Links(written, t)
    BY <1>8 DEF WriteUpdateDb
  <2>4. Links(written, t) \subseteq Keys \X Tarball
    BY <2>1, <2>2, <2>3 DEF Links, Job, Item
  <2>5. carrier' \in [Carriers -> {"unknown", "open", "full"}]
    BY <1>8, <2>1 DEF WriteUpdateDb, TypeInv, TypeOK, Job
  <2>. QED BY <1>8, <2>2, <2>3, <2>4, <2>5, TypeInvIdle
           DEF WriteUpdateDb, environment, TypeInv, TypeOK, RowsOK, InUse
<1>. QED BY <1>1, <1>2, <1>3, <1>4, <1>5, <1>6, <1>7, <1>8 DEF Write

LEMMA TypeInvInit == Init => TypeInv
BY ConstantsAssumption, FreeRowIsRow
DEF Init, TypeInv, TypeOK, RowsOK, LocalOK, InUse, Versions, EmptyTar, TarFile, Absent,
    Scanning, Writing

LEMMA TypeInvNext == TypeInv /\ [Next]_vars => TypeInv'
<1>1. ASSUME TypeInv, Environment PROVE TypeInv'
  BY <1>1, ConstantsAssumption, TypeInvDisk, TypeInvCarriers DEF Environment
<1>2. ASSUME TypeInv, NEW p \in Procs, Die(p) PROVE TypeInv'
  BY <1>2, TypeInvIdle DEF Die, environment, database, TypeInv, TypeOK, RowsOK, InUse
<1>3. ASSUME TypeInv, UNCHANGED vars PROVE TypeInv'
  BY <1>3 DEF vars, environment, database, TypeInv, TypeOK, RowsOK, LocalOK, InUse
<1>. QED BY <1>1, <1>2, <1>3, TypeInvUpdate, TypeInvWrite DEF Next

\* Every command keeps the tables, the carriers and its own state well-typed,
\* with any number of processes.
THEOREM TypeCorrect == Spec => []TypeOK
<1>1. TypeInv => TypeOK BY DEF TypeInv
<1>. QED BY <1>1, TypeInvInit, TypeInvNext, PTL DEF Spec

-----------------------------------------------------------------------------
(* What one command at a time guarantees.  Nothing in the code keeps two    *)
(* commands apart, or a file from growing while it is written: these are    *)
(* the assumptions under which the database tells the truth.                *)

OneCommand == \A p, q \in Procs : p = q
NoGrowth == AllowGrowth = FALSE

\* The files never go back, so no record is newer than its file.
RecordsNotNewer ==
  /\ \A x \in Paths : disk[x] \in {Absent, newest[x]}
  /\ \A k \in Keys : InUse(k) => rows[k].version <= newest[rows[k].path]

\* The records a scan loaded are the records of the paths it still has to visit.
ScanInv == \A p \in Procs : pc[p] = "scan" =>
  \A k \in Keys :
    /\ scan[p].rows[k] # FreeRow => InUse(k)
    /\ rows[k].path \in scan[p].todo \/ scan[p].rows[k].path \in scan[p].todo
         => rows[k] = scan[p].rows[k]

OnCarrier(i, c, n) ==
  \E v \in Versions : v >= rows[i.key].version /\ <<i.path, v>> \in media[c][n].items

\* A write has a tarball of its own; what it has read from disk is in it.
JobInv(j, at) ==
  /\ \A t \in tarballs : ~ (t.carrier = j.carrier /\ t.idx = j.idx)
  /\ j.todo \subseteq j.list
  /\ \A i \in j.list : InUse(i.key) /\ rows[i.key].path = i.path
  /\ ~j.grew /\ (j.full <=> at = "tarred")
  /\ at = "listed" => j.todo = j.list
  /\ at \in {"tar", "tarred"} => \A i \in j.list \ j.todo : OnCarrier(i, j.carrier, j.idx)
WriteInv == \A p \in Procs : pc[p] \in Writing => JobInv(job[p], pc[p])

TableInv == LinksResolve /\ RecordedIsOnCarrier /\ OneRecordOnDisk
SafeInv == TypeInv /\ RecordsNotNewer /\ ScanInv /\ WriteInv /\ TableInv

\* A scan does not meet a write, and a write does not meet a scan.
LEMMA Alone ==
  ASSUME OneCommand, NEW p \in Procs
  PROVE  /\ pc'[p] # "scan" => ScanInv'
         /\ pc'[p] \notin Writing => WriteInv'
         /\ (pc'[p] \in Writing => JobInv(job[p], pc[p])') => WriteInv'
BY DEF OneCommand, ScanInv, WriteInv

LEMMA SafeInvDisk ==
  ASSUME SafeInv, NEW x \in Paths, Change(x) \/ Delete(x) \/ Reappear(x)
  PROVE  SafeInv'
<1>1. UNCHANGED <<rows, filesetLinks, tarballLinks, tarballs, media, pc, scan, job>>
  BY DEF Change, Delete, Reappear, database
<1>2. ScanInv' /\ WriteInv' /\ TableInv'
  <2>1. ScanInv' BY <1>1 DEF SafeInv, ScanInv, InUse
  <2>2. WriteInv' BY <1>1 DEF SafeInv, WriteInv, JobInv, OnCarrier, InUse
  <2>3. TableInv'
    BY <1>1 DEF SafeInv, TableInv, LinksResolve, RecordedIsOnCarrier, OneRecordOnDisk, InUse
  <2>. QED BY <2>1, <2>2, <2>3
<1>3. /\ disk \in [Paths -> Versions \cup {Absent}] /\ newest \in [Paths -> Versions]
      /\ \A k \in Keys : rows[k] \in Row
      /\ \A k \in Keys : InUse(k) => rows[k].path \in Paths /\ rows[k].version \in Versions
  BY DEF SafeInv, TypeInv, TypeOK, RowsOK
<1>4. \A y \in Paths : disk'[y] \in {Absent, newest'[y]} /\ newest[y] <= newest'[y]
  BY <1>3 DEF Change, Delete, Reappear, SafeInv, RecordsNotNewer, Versions
<1>5. ASSUME NEW k \in Keys, InUse(k) PROVE rows[k].version <= newest'[rows[k].path]
  <2>1. rows[k].version <= newest[rows[k].path] /\ newest[rows[k].path] <= newest'[rows[k].path]
    BY <1>3, <1>4, <1>5 DEF SafeInv, RecordsNotNewer
  <2>2. newest[rows[k].path] \in Int /\ newest'[rows[k].path] \in Int /\ rows[k].version \in Int
    BY <1>3, <1>5, TypeInvDisk DEF SafeInv, TypeInv, TypeOK, Versions
  <2>. QED BY <2>1, <2>2
<1>. QED BY <1>1, <1>2, <1>4, <1>5, TypeInvDisk DEF SafeInv, RecordsNotNewer, InUse

LEMMA SafeInvCarriers ==
  ASSUME OneCommand, SafeInv, NEW c \in Carriers, AddCarrier(c) \/ RemoveCarrier(c)
  PROVE  SafeInv'
<1>1. /\ \A l \in tarballLinks' : l \in tarballLinks /\ (l[2] \in tarballs => l[2] \in tarballs')
      /\ UNCHANGED <<disk, newest, rows, filesetLinks, media, pc, scan, job>>
  BY DEF AddCarrier, RemoveCarrier, environment
<1>2. TableInv'
  BY <1>1 DEF SafeInv, TableInv, LinksResolve, RecordedIsOnCarrier, OneRecordOnDisk, InUse
<1>3. \A p \in Procs : pc[p] = "idle"
  BY DEF OneCommand, AddCarrier, RemoveCarrier
<1>4. ScanInv' /\ WriteInv' BY <1>1, <1>3 DEF ScanInv, WriteInv, Writing
<1>. QED BY <1>1, <1>2, <1>4, TypeInvCarriers DEF SafeInv, RecordsNotNewer, InUse

\* A command that ends, in whatever way, leaves what is in the tables alone.
LEMMA SafeInvIdle ==
  ASSUME OneCommand, SafeInv, NEW p \in Procs, Idle(p), UNCHANGED <<environment, database, media>>
  PROVE  SafeInv'
<1>1. pc'[p] = "idle" BY DEF Idle, SafeInv, TypeInv, TypeOK
<1>2. ScanInv' /\ WriteInv' BY <1>1, Alone DEF Writing
<1>3. TypeInv' BY TypeInvIdle DEF SafeInv, environment, database, TypeInv, TypeOK, RowsOK, InUse
<1>. QED BY <1>2, <1>3 DEF SafeInv, TableInv, RecordsNotNewer, LinksResolve,
              RecordedIsOnCarrier, OneRecordOnDisk, InUse, environment, database

\* What the scan of an item does to the records: k describes it now, in place of a
\* free row or of a record of the path that is in no tarball, unless k already did;
\* the other records of the path are off the disk.
ScanStep(p, x, k) ==
  /\ rows'[k] \in Row /\ rows'[k].path = x /\ rows'[k].version = disk[x] /\ rows'[k].onDisk
  /\ k[1] = KindOf[disk[x]]
  /\ \/ InUse(k) /\ rows[k].path = x /\ rows[k].version = disk[x]
     \/ /\ \A j \in Keys : InUse(j) /\ rows[j].path = x /\ j[1] = KindOf[disk[x]]
                           => rows[j].version # disk[x]
        /\ InUse(k) => rows[k].path = x /\ InNoTarball(k)
  /\ \A j \in Keys \ {k} :
       \/ rows'[j] = rows[j] /\ ~(rows[j].path = x /\ rows[j].onDisk)
       \/ InUse(j) /\ rows[j].path = x /\ rows'[j] = [rows[j] EXCEPT !.onDisk = FALSE]
  /\ filesetLinks' = filesetLinks \cup {<<k, scan[p].fileset>>}

LEMMA ScanItemRows ==
  ASSUME SafeInv, NEW p \in Procs, NEW x \in Paths, ScanItem(p, x)
  PROVE  \E k \in Keys : ScanStep(p, x, k)
<1>0. /\ pc[p] = "scan" /\ x \in scan[p].todo /\ scan[p] \in Scan
      /\ disk[x] \in Versions /\ disk[x] = newest[x] /\ KindOf[disk[x]] \in Kinds
      /\ TypeInv /\ rows' \in [Keys -> Row]
  <2>1. TypeInv' BY TypeInvUpdate DEF SafeInv, Update
  <2>2. disk[x] \in Versions /\ disk[x] = newest[x] /\ KindOf[disk[x]] \in Kinds
    BY DEF ScanItem, SafeInv, RecordsNotNewer, TypeInv, TypeOK
  <2>. QED BY <2>1, <2>2 DEF ScanItem, NextPath, SafeInv, TypeInv, TypeOK, LocalOK, Scanning
<1>1. PICK k \in Keys :
        /\ ChosenKey(p, x, k)
        /\ rows' = [j \in Keys |-> ScanRow(p, x, k, j)]
        /\ filesetLinks' = filesetLinks \cup {<<k, scan[p].fileset>>}
  BY DEF ScanItem
<1>. DEFINE matched == FindMatch(scan[p].rows, x, disk[x]) # {}
<1>2. \A j \in Keys : /\ scan[p].rows[j] # FreeRow => InUse(j)
                      /\ rows[j].path \in scan[p].todo \/ scan[p].rows[j].path \in scan[p].todo
                           => rows[j] = scan[p].rows[j]
  BY <1>0 DEF SafeInv, ScanInv
<1>3. x # NoPath /\ x # FreeRow.path BY ConstantsAssumption DEF NoPath, FreeRow
<1>4. \A j \in Keys : /\ rows[j] \in Row
                      /\ InUse(j) => rows[j].path \in Paths /\ rows[j].version \in Versions
  BY <1>0 DEF TypeInv, TypeOK, RowsOK
<1>5. ASSUME matched PROVE InUse(k) /\ rows[k].path = x /\ rows'[k] = [rows[k] EXCEPT !.onDisk = TRUE]
  <2>1. scan[p].rows[k].path = x BY <1>1, <1>5 DEF ChosenKey, Lowest, FindMatch
  <2>2. InUse(k) /\ rows[k] = scan[p].rows[k] BY <1>0, <1>2, <1>3, <2>1
  <2>. QED BY <1>1, <1>5, <2>1, <2>2 DEF ScanRow
<1>6. ASSUME ~matched
      PROVE  /\ rows'[k] = [path |-> x, version |-> disk[x], onDisk |-> TRUE]
             /\ ~InUse(k) \/ InNoTarball(k)
             /\ ~InUse(k) \/ rows[k].path = x
  <2>1. ASSUME NextKey(KindOf[disk[x]], k) PROVE ~InUse(k)
    <3>1. k[2] \in Numbers /\ k = <<KindOf[disk[x]], k[2]>> BY <2>1 DEF NextKey, Keys
    <3>. QED BY <2>1, <3>1, ConstantsAssumption DEF NextKey, Numbers
  <2>2. k \in FindUnwritten(KindOf[disk[x]], x) \/ NextKey(KindOf[disk[x]], k)
    BY <1>1, <1>6 DEF ChosenKey, Lowest
  <2>3. rows'[k] = [path |-> x, version |-> disk[x], onDisk |-> TRUE]
    BY <1>1, <1>6 DEF ScanRow
  <2>. QED BY <2>1, <2>2, <2>3 DEF FindUnwritten
<1>7. ASSUME NEW j \in Keys, j # k
      PROVE  \/ rows'[j] = rows[j] /\ ~(rows[j].path = x /\ rows[j].onDisk)
             \/ /\ InUse(j) /\ rows[j].path = x
                /\ rows'[j] = [rows[j] EXCEPT !.onDisk = FALSE]
  <2>1. CASE scan[p].rows[j].path = x /\ scan[p].rows[j].onDisk
    BY <1>0, <1>1, <1>2, <1>3, <1>7, <2>1 DEF ScanRow
  <2>2. CASE ~(scan[p].rows[j].path = x /\ scan[p].rows[j].onDisk)
    BY <1>0, <1>1, <1>2, <1>7, <2>2 DEF ScanRow
  <2>. QED BY <2>1, <2>2
<1>8. rows'[k].path = x /\ rows'[k].version = disk[x] /\ rows'[k].onDisk /\ k[1] = KindOf[disk[x]]
  <2>1. CASE matched
    <3>1. rows[k].version = disk[x] /\ k[1] = KindOf[disk[x]]
      BY <1>0, <1>1, <1>2, <1>5, <2>1 DEF ChosenKey, Lowest, FindMatch
    <3>. QED BY <1>4, <1>5, <2>1, <3>1 DEF Row
  <2>2. CASE ~matched
    BY <1>1, <1>6, <2>2 DEF ChosenKey, Lowest, FindUnwritten, NextKey
  <2>. QED BY <2>1, <2>2
<1>9. ASSUME ~matched, NEW j \in Keys, InUse(j), rows[j].path = x, j[1] = KindOf[disk[x]]
      PROVE  rows[j].version # disk[x]
  BY <1>0, <1>2, <1>9 DEF FindMatch
<1>10. ASSUME matched PROVE InUse(k) /\ rows[k].path = x /\ rows[k].version = disk[x]
  BY <1>4, <1>5, <1>8, <1>10 DEF Row
<1>. HIDE DEF matched
<1>. QED BY <1>0, <1>1, <1>6, <1>7, <1>8, <1>9, <1>10 DEF ScanStep

LEMMA SafeInvScanItem ==
  ASSUME OneCommand, SafeInv, NEW p \in Procs, NEW x \in Paths, ScanItem(p, x)
  PROVE  SafeInv'
<1>0. /\ pc[p] = "scan" /\ x \in scan[p].todo /\ scan[p] \in Scan
      /\ disk[x] \in Versions /\ disk[x] = newest[x]
      /\ TypeInv /\ TypeInv'
      /\ UNCHANGED <<environment, tarballLinks, tarballs, carrier, writes, media, pc, job>>
  <2>1. TypeInv' BY TypeInvUpdate DEF SafeInv, Update
  <2>2. disk[x] \in Versions /\ disk[x] = newest[x]
    BY DEF ScanItem, SafeInv, RecordsNotNewer, TypeInv, TypeOK
  <2>. QED BY <2>1, <2>2 DEF ScanItem, Scanned, NextPath, SafeInv, TypeInv, LocalOK, Scanning
<1>1. PICK k \in Keys : ScanStep(p, x, k) BY ScanItemRows
<1>2. \A j \in Keys : /\ scan[p].rows[j] # FreeRow => InUse(j)
                      /\ rows[j].path \in scan[p].todo \/ scan[p].rows[j].path \in scan[p].todo
                           => rows[j] = scan[p].rows[j]
  BY <1>0 DEF SafeInv, ScanInv
<1>3. x # NoPath /\ x # FreeRow.path BY ConstantsAssumption DEF NoPath, FreeRow
<1>4. \A j \in Keys : /\ rows[j] \in Row
                      /\ InUse(j) => rows[j].path \in Paths /\ rows[j].version \in Versions
  BY <1>0 DEF TypeInv, TypeOK, RowsOK
<1>5. rows'[k].path = x /\ rows'[k].version = disk[x] /\ rows'[k].onDisk /\ rows'[k] # FreeRow
  BY <1>1, <1>3 DEF ScanStep
<1>6. \/ InUse(k) /\ rows[k].path = x /\ rows[k].version = disk[x]
      \/ InUse(k) => rows[k].path = x /\ InNoTarball(k)
  BY <1>1 DEF ScanStep
<1>7. InUse(k) => rows[k].path = x BY <1>6
<1>8. ASSUME NEW j \in Keys, j # k
      PROVE  \/ rows'[j] = rows[j] /\ ~(rows[j].path = x /\ rows[j].onDisk)
             \/ /\ InUse(j) /\ rows[j].path = x
                /\ rows'[j] = [rows[j] EXCEPT !.onDisk = FALSE]
  BY <1>1, <1>8 DEF ScanStep
<1>9. ASSUME NEW j \in Keys, j # k
      PROVE  /\ rows'[j].path = rows[j].path /\ rows'[j].version = rows[j].version
             /\ InUse(j) => InUse(j)'
  <2>1. CASE rows'[j] = rows[j] BY <2>1 DEF InUse
  <2>2. CASE /\ InUse(j) /\ rows[j].path = x
             /\ rows'[j] = [rows[j] EXCEPT !.onDisk = FALSE]
    <3>1. rows[j] \in Row BY <1>4
    <3>2. rows'[j].path = rows[j].path /\ rows'[j].version = rows[j].version BY <2>2, <3>1 DEF Row
    <3>. QED BY <1>3, <2>2, <3>2 DEF InUse
  <2>. QED BY <1>8, <1>9, <2>1, <2>2
\* A record that is in a tarball keeps its number, its path and its version.
<1>10. ASSUME NEW l \in tarballLinks
       PROVE  /\ l[1] \in Keys /\ InUse(l[1])' /\ rows'[l[1]].path = rows[l[1]].path
              /\ rows'[l[1]].version = rows[l[1]].version
  <2>1. l[1] \in Keys /\ l[2] \in tarballs /\ InUse(l[1]) /\ l = <<l[1], l[2]>>
    BY <1>0 DEF SafeInv, TableInv, LinksResolve, TypeInv, TypeOK
  <2>2. CASE l[1] # k BY <1>9, <2>1, <2>2
  <2>3. CASE l[1] = k
    <3>1. rows[k].path = x /\ rows[k].version = disk[x] BY <1>6, <2>1, <2>3 DEF InNoTarball
    <3>. QED BY <1>5, <2>1, <2>3, <3>1 DEF InUse
  <2>. QED BY <2>2, <2>3
<1>11. RecordsNotNewer'
  <2>1. ASSUME NEW j \in Keys, InUse(j)' PROVE rows'[j].version <= newest'[rows'[j].path]
    <3>1. CASE j # k
      <4>1. InUse(j) BY <1>4, <1>8, <2>1, <3>1 DEF InUse
      <4>. QED BY <1>0, <1>9, <3>1, <4>1 DEF SafeInv, RecordsNotNewer, environment
    <3>2. CASE j = k BY <1>0, <1>5, <3>2 DEF environment, Versions
    <3>. QED BY <3>1, <3>2
  <2>. QED BY <1>0, <2>1 DEF SafeInv, RecordsNotNewer, environment
<1>12. ScanInv'
  <2>1. scan'[p].rows = scan[p].rows /\ scan'[p].todo = scan[p].todo \ {x}
    BY <1>0 DEF ScanItem, Scanned, SafeInv, TypeInv, TypeOK, Scan
  <2>2. ASSUME NEW j \in Keys
        PROVE  /\ scan[p].rows[j] # FreeRow => InUse(j)'
               /\ rows'[j].path \in scan[p].todo \ {x} \/ scan[p].rows[j].path \in scan[p].todo \ {x}
                    => rows'[j] = scan[p].rows[j]
    <3>1. CASE j # k BY <1>2, <1>8, <1>9, <3>1
    <3>2. CASE j = k
      <4>1. scan[p].rows[k].path \notin scan[p].todo \ {x}
        <5>1. CASE ~InUse(k)
          BY <1>2, <1>4, <5>1, ConstantsAssumption, <1>0 DEF FreeRow, Scan, NoPath
        <5>2. CASE InUse(k) BY <1>0, <1>2, <1>7, <5>2
        <5>. QED BY <5>1, <5>2
      <4>. QED BY <1>5, <3>2, <4>1 DEF InUse
    <3>. QED BY <3>1, <3>2
  <2>. QED BY <2>1, <2>2 DEF OneCommand, ScanInv
<1>13. WriteInv' BY <1>0, Alone DEF Writing
<1>14. LinksResolve'
  <2>1. \A l \in tarballLinks' : InUse(l[1])' /\ l[2] \in tarballs'
    BY <1>0, <1>10 DEF SafeInv, TableInv, LinksResolve
  <2>2. ASSUME NEW l \in filesetLinks' PROVE InUse(l[1])'
    <3>1. CASE l \in filesetLinks
      BY <1>0, <1>5, <1>9, <3>1 DEF SafeInv, TableInv, LinksResolve, TypeInv, TypeOK, InUse
    <3>2. CASE l = <<k, scan[p].fileset>> BY <1>5, <3>2 DEF InUse
    <3>. QED BY <1>1, <3>1, <3>2 DEF ScanStep
  <2>. QED BY <2>1, <2>2 DEF LinksResolve
<1>15. RecordedIsOnCarrier'
  BY <1>0, <1>10 DEF SafeInv, TableInv, RecordedIsOnCarrier
<1>16. OneRecordOnDisk'
  <2>1. ASSUME NEW j \in Keys, rows'[j].onDisk, rows'[j].path = x PROVE j = k
    BY <1>4, <1>8, <2>1 DEF Row
  <2>2. ASSUME NEW j \in Keys, rows'[j].onDisk, rows'[j].path # x
        PROVE  rows[j].onDisk /\ rows[j].path = rows'[j].path
    BY <1>4, <1>5, <1>8, <2>2 DEF Row
  <2>. QED BY <2>1, <2>2 DEF SafeInv, TableInv, OneRecordOnDisk
<1>. QED BY <1>0, <1>11, <1>12, <1>13, <1>14, <1>15, <1>16 DEF SafeInv, TableInv

\* What the end of a scan does to the records: one that is in use afterwards only
\* may have lost its mark, one that is in a tarball is still there, and so is its
\* place in the fileset of the backup it was written for.
RemovalStep ==
  /\ \A k \in Keys : /\ rows'[k].onDisk => rows[k].onDisk /\ InUse(k)'
                     /\ InUse(k)' => /\ InUse(k) /\ rows'[k].path = rows[k].path
                                     /\ rows'[k].version = rows[k].version
  /\ \A l \in tarballLinks : l[1] \in Keys /\ InUse(l[1])'
  /\ \A l \in filesetLinks' : InUse(l[1])'
  /\ \A k \in Keys, t \in tarballs, f \in Filesets :
       /\ <<k, t>> \in tarballLinks /\ <<k, f>> \in filesetLinks
       /\ BackupFileset[CarrierBackup[t.carrier]] = f
       => <<k, f>> \in filesetLinks'

LEMMA RemoveMissingRows ==
  ASSUME SafeInv, NEW p \in Procs, NEW kind \in Kinds, RemoveMissing(p, kind)
  PROVE  RemovalStep
<1>. DEFINE gone == {k \in Keys : /\ InUse(k) /\ <<k, scan[p].fileset>> \in filesetLinks
                                  /\ k[1] = kind /\ ~ItemExists(kind, rows[k].path)}
<1>1. \A k \in Keys : /\ rows[k] \in Row
                      /\ InUse(k) => rows[k].path \in Paths /\ rows[k].version \in Versions
  BY DEF SafeInv, TypeInv, TypeOK, RowsOK
<1>2. /\ rows' = [k \in Keys |-> IF k \notin gone THEN rows[k]
                                 ELSE IF InNoTarball(k) THEN FreeRow
                                 ELSE [rows[k] EXCEPT !.onDisk = FALSE]]
      /\ filesetLinks' \subseteq filesetLinks
      /\ \A l \in filesetLinks' : ~(l[1] \in gone /\ InNoTarball(l[1]))
  BY DEF RemoveMissing, StaleLinks
<1>3. ASSUME NEW k \in Keys, ~(k \in gone /\ InNoTarball(k))
      PROVE  /\ rows'[k].path = rows[k].path /\ rows'[k].version = rows[k].version
             /\ rows'[k].onDisk => rows[k].onDisk
             /\ InUse(k) => InUse(k)'
             /\ InUse(k)' => InUse(k)
  <2>1. CASE k \notin gone BY <1>2, <2>1 DEF InUse
  <2>2. CASE k \in gone
    <3>1. rows'[k] = [rows[k] EXCEPT !.onDisk = FALSE] BY <1>2, <1>3, <2>2
    <3>2. rows[k].path # NoPath BY <1>1, <2>2, ConstantsAssumption DEF NoPath
    <3>. QED BY <1>1, <2>2, <3>1, <3>2 DEF Row, InUse, FreeRow
  <2>. QED BY <2>1, <2>2
<1>4. ASSUME NEW k \in Keys, k \in gone /\ InNoTarball(k)
      PROVE  ~InUse(k)' /\ ~rows'[k].onDisk
  BY <1>2, <1>4 DEF InUse, FreeRow
<1>5. ASSUME NEW l \in tarballLinks
      PROVE  /\ l[1] \in Keys /\ l[2] \in tarballs /\ InUse(l[1])
             /\ ~(l[1] \in gone /\ InNoTarball(l[1]))
  <2>1. l[1] \in Keys /\ l[2] \in tarballs /\ l = <<l[1], l[2]>> /\ InUse(l[1])
    BY DEF SafeInv, TableInv, LinksResolve, TypeInv, TypeOK
  <2>. QED BY <2>1 DEF InNoTarball
<1>6. ASSUME NEW k \in Keys, rows'[k].onDisk PROVE rows[k].onDisk /\ InUse(k)'
  <2>1. ~(k \in gone /\ InNoTarball(k)) /\ rows[k].onDisk BY <1>3, <1>4, <1>6
  <2>2. InUse(k) BY <2>1 DEF InUse, FreeRow
  <2>. QED BY <1>3, <2>1, <2>2
<1>7. ASSUME NEW l \in filesetLinks' PROVE InUse(l[1])'
  <2>1. l \in filesetLinks /\ l[1] \in Keys /\ InUse(l[1])
    BY <1>2 DEF SafeInv, TableInv, LinksResolve, TypeInv, TypeOK
  <2>. QED BY <1>2, <1>3, <2>1
<1>8. ASSUME NEW k \in Keys, NEW t \in tarballs, NEW f \in Filesets,
             <<k, t>> \in tarballLinks, <<k, f>> \in filesetLinks,
             BackupFileset[CarrierBackup[t.carrier]] = f
      PROVE  <<k, f>> \in filesetLinks'
  <2>1. ~InNoTarball(k) BY <1>8 DEF InNoTarball
  <2>2. CarrierBackup[t.carrier] \in Backups
    BY ConstantsAssumption DEF SafeInv, TypeInv, TypeOK, Tarball
  <2>3. InTarballOfFileset(k, f) BY <1>8, <2>2 DEF InTarballOfFileset, InTarballOfBackup
  <2>4. <<k, f>> \notin StaleLinks(gone, scan[p].fileset)
    BY <2>1, <2>3 DEF StaleLinks
  <2>. QED BY <1>8, <2>4 DEF RemoveMissing
<1>9. ASSUME NEW k \in Keys, InUse(k)'
      PROVE  InUse(k) /\ rows'[k].path = rows[k].path /\ rows'[k].version = rows[k].version
  BY <1>3, <1>4, <1>9
<1>10. \A l \in tarballLinks : l[1] \in Keys /\ InUse(l[1])' BY <1>3, <1>5
<1>. HIDE DEF gone
<1>. QED BY <1>6, <1>7, <1>8, <1>9, <1>10 DEF RemovalStep

LEMMA SafeInvRemoveMissing ==
  ASSUME OneCommand, SafeInv, NEW p \in Procs, NEW kind \in Kinds, RemoveMissing(p, kind),
         TypeInv', ScanInv', WriteInv'
  PROVE  SafeInv'
<1>1. UNCHANGED <<environment, tarballLinks, tarballs, media>> BY DEF RemoveMissing
<1>2. /\ \A k \in Keys : /\ rows'[k].onDisk => rows[k].onDisk /\ InUse(k)'
                         /\ InUse(k)' => /\ InUse(k) /\ rows'[k].path = rows[k].path
                                         /\ rows'[k].version = rows[k].version
      /\ \A l \in tarballLinks : l[1] \in Keys /\ InUse(l[1])'
      /\ \A l \in filesetLinks' : InUse(l[1])'
  BY RemoveMissingRows DEF RemovalStep
<1>3. RecordsNotNewer' BY <1>1, <1>2 DEF SafeInv, RecordsNotNewer, environment
<1>4. LinksResolve' BY <1>1, <1>2 DEF SafeInv, TableInv, LinksResolve
<1>5. RecordedIsOnCarrier' BY <1>1, <1>2 DEF SafeInv, TableInv, RecordedIsOnCarrier
<1>6. OneRecordOnDisk' BY <1>2 DEF SafeInv, TableInv, OneRecordOnDisk
<1>. QED BY <1>3, <1>4, <1>5, <1>6 DEF SafeInv, TableInv

LEMMA SafeInvUpdate ==
  ASSUME OneCommand, SafeInv, NEW p \in Procs, Update(p)
  PROVE  SafeInv'
<1>. TypeInv' BY TypeInvUpdate DEF SafeInv
<1>1. ASSUME NEW f \in Filesets, ScanStart(p, f) PROVE SafeInv'
  <2>1. pc'[p] = "scan" /\ scan'[p] = [fileset |-> f, rows |-> rows, todo |-> FilesetPaths[f]]
    BY <1>1 DEF ScanStart, SafeInv, TypeInv, TypeOK
  <2>2. UNCHANGED <<environment, database, media, job>> BY <1>1 DEF ScanStart
  <2>3. ScanInv'
    BY <2>1, <2>2 DEF OneCommand, ScanInv, InUse, database
  <2>4. WriteInv' BY <2>1, Alone DEF Writing
  <2>. QED BY <2>2, <2>3, <2>4 DEF SafeInv, TableInv, RecordsNotNewer, LinksResolve,
                  RecordedIsOnCarrier, OneRecordOnDisk, InUse, environment, database
<1>2. ASSUME NEW x \in Paths, ScanSkip(p, x) PROVE SafeInv'
  <2>1. /\ pc[p] = "scan" /\ pc' = pc /\ scan[p] \in Scan
        /\ UNCHANGED <<environment, database, media>>
    BY <1>2 DEF ScanSkip, Scanned, database, SafeInv, TypeInv, LocalOK, Scanning
  <2>2. scan'[p].rows = scan[p].rows /\ scan'[p].todo \subseteq scan[p].todo
    BY <1>2, <2>1 DEF ScanSkip, Scanned, Scan, SafeInv, TypeInv, TypeOK
  <2>3. ScanInv' BY <2>1, <2>2 DEF OneCommand, SafeInv, ScanInv, InUse, database
  <2>4. WriteInv' BY <2>1, Alone DEF Writing
  <2>. QED BY <2>1, <2>3, <2>4 DEF SafeInv, TableInv, RecordsNotNewer, LinksResolve,
                  RecordedIsOnCarrier, OneRecordOnDisk, InUse, environment, database
<1>3. ASSUME NEW x \in Paths, ScanItem(p, x) PROVE SafeInv'
  BY <1>3, SafeInvScanItem
<1>4. ASSUME RemoveMissingFiles(p) \/ RemoveMissingSymlinks(p) PROVE SafeInv'
  <2>1. pc'[p] \in {"symlinks", "idle"}
    BY <1>4 DEF RemoveMissingFiles, RemoveMissingSymlinks, Idle, SafeInv, TypeInv, TypeOK
  <2>2. ScanInv' /\ WriteInv' BY <2>1, Alone DEF Writing
  <2>3. PICK kind \in Kinds : RemoveMissing(p, kind)
    BY <1>4 DEF RemoveMissingFiles, RemoveMissingSymlinks, Kinds
  <2>. QED BY <2>2, <2>3, SafeInvRemoveMissing
<1>. QED BY <1>1, <1>2, <1>3, <1>4 DEF Update

\* A step of a write that leaves the tables and the files on the carriers alone.
LEMMA SafeInvJob ==
  ASSUME OneCommand, SafeInv, NEW p \in Procs, TypeInv', pc'[p] \in Writing,
         UNCHANGED <<environment, database>>,
         (JobInv(job[p], pc[p]))', RecordedIsOnCarrier'
  PROVE  SafeInv'
<1>1. ScanInv' /\ WriteInv' BY Alone DEF Writing
<1>2. LinksResolve' /\ OneRecordOnDisk' /\ RecordsNotNewer'
  BY DEF SafeInv, TableInv, LinksResolve, OneRecordOnDisk, RecordsNotNewer, InUse,
         environment, database
<1>. QED BY <1>1, <1>2 DEF SafeInv, TableInv

\* A write changes no file that holds a recorded tarball.
LEMMA RecordedUntouched ==
  ASSUME OneCommand, SafeInv, Next, NEW t \in tarballs
  PROVE  media'[t.carrier][t.idx] = media[t.carrier][t.idx]
<1>1. t.carrier \in Carriers /\ t.idx \in 0 .. MaxWrites
  BY DEF SafeInv, TypeInv, TypeOK, Tarball
<1>2. ASSUME NEW p \in Procs, TarOpen(p) \/ TarItem(p) \/ TarFull(p)
      PROVE  media'[t.carrier][t.idx] = media[t.carrier][t.idx]
  <2>1. pc[p] \in Writing /\ job[p] \in Job
    BY <1>2 DEF TarOpen, TarItem, TarFull, SafeInv, TypeInv, LocalOK, Writing
  <2>2. ~ (t.carrier = job[p].carrier /\ t.idx = job[p].idx)
    BY <2>1 DEF SafeInv, WriteInv, JobInv
  <2>3. CASE media' = media BY <2>3
  <2>4. ASSUME NEW f, media' = [media EXCEPT ![job[p].carrier][job[p].idx] = f]
        PROVE  media'[t.carrier][t.idx] = media[t.carrier][t.idx]
    BY <1>1, <2>1, <2>2, <2>4 DEF SafeInv, TypeInv, TypeOK, Job
  <2>5. CASE TarOpen(p) BY <2>4, <2>5 DEF TarOpen
  <2>6. CASE TarItem(p)
    <3>1. PICK i \in job[p].todo :
            media' = [media EXCEPT ![job[p].carrier][job[p].idx].items =
                        @ \cup {<<i.path, disk[i.path]>>}]
      BY <2>6 DEF TarItem
    <3>. QED BY <1>1, <2>1, <2>2, <3>1 DEF SafeInv, TypeInv, TypeOK, Job
  <2>7. CASE TarFull(p)
    <3>1. ASSUME NEW i \in job[p].todo,
                 media' = [media EXCEPT ![job[p].carrier][job[p].idx].cut = i.path]
          PROVE  media'[t.carrier][t.idx] = media[t.carrier][t.idx]
      BY <1>1, <2>1, <2>2, <3>1 DEF SafeInv, TypeInv, TypeOK, Job
    <3>. QED BY <2>3, <2>7, <3>1 DEF TarFull
  <2>. QED BY <1>2, <2>5, <2>6, <2>7
<1>3. CASE Environment BY <1>3 DEF Environment, Change, Delete, Reappear, AddCarrier, RemoveCarrier
<1>4. ASSUME NEW p \in Procs, Update(p) \/ Die(p) PROVE media' = media
  BY <1>4 DEF Update, ScanStart, ScanSkip, ScanItem, Scanned, RemoveMissingFiles,
              RemoveMissingSymlinks, RemoveMissing, Die
<1>5. ASSUME NEW p \in Procs, Write(p), ~ (TarOpen(p) \/ TarItem(p) \/ TarFull(p))
      PROVE  media' = media
  BY <1>5 DEF Write, WritePrepare, WriteDeleteList, WriteFileList, WriteRefused, TarFailed,
              WriteUpdateDb
<1>. QED BY <1>2, <1>3, <1>4, <1>5 DEF Next

\* What is recorded stays on its carrier when only unrecorded files change.
LEMMA RecordedStays ==
  ASSUME OneCommand, SafeInv, Next, UNCHANGED <<rows, tarballs, tarballLinks>>
  PROVE  RecordedIsOnCarrier'
<1>1. \A l \in tarballLinks : l[2] \in tarballs BY DEF SafeInv, TableInv, LinksResolve
<1>. QED BY <1>1, RecordedUntouched DEF SafeInv, TableInv, RecordedIsOnCarrier

LEMMA SafeInvPrepare ==
  ASSUME OneCommand, SafeInv, NEW p \in Procs, Next,
         (\E b \in Backups : WritePrepare(p, b)) \/ WriteDeleteList(p) \/ WriteFileList(p)
  PROVE  SafeInv'
<1>1. /\ TypeInv' /\ RecordedIsOnCarrier'
      /\ UNCHANGED <<environment, database, media>>
      /\ pc'[p] \in Writing
  <2>1. /\ UNCHANGED <<environment, database, media>>
        /\ pc'[p] \in Writing
    BY DEF WritePrepare, WriteDeleteList, WriteFileList, SafeInv, TypeInv, TypeOK, Writing
  <2>. QED BY <2>1, TypeInvNext, RecordedStays DEF database, SafeInv
<1>2. ASSUME NEW b \in Backups, WritePrepare(p, b) PROVE (JobInv(job[p], pc[p]))'
  <2>1. PICK c \in Carriers, n \in 0 .. MaxWrites - 1 :
          /\ NextIndex(c, n)
          /\ job' = [job EXCEPT ![p] =
                    [backup |-> b, carrier |-> c, idx |-> n, deletes |-> {},
                     list |-> {}, todo |-> {}, grew |-> FALSE, full |-> FALSE]]
    BY <1>2 DEF WritePrepare
  <2>2. job'[p] = [backup |-> b, carrier |-> c, idx |-> n, deletes |-> {},
                   list |-> {}, todo |-> {}, grew |-> FALSE, full |-> FALSE]
    BY <2>1 DEF SafeInv, TypeInv, TypeOK
  <2>3. pc'[p] = "prepared" /\ tarballs' = tarballs
    BY <1>1, <1>2 DEF WritePrepare, SafeInv, TypeInv, TypeOK, database
  <2>4. \A t \in tarballs : ~ (t.carrier = c /\ t.idx = n)
    BY <2>1, ConstantsAssumption DEF NextIndex, SafeInv, TypeInv, TypeOK, Tarball
  <2>. QED BY <2>2, <2>3, <2>4 DEF JobInv
<1>3. ASSUME WriteDeleteList(p) PROVE (JobInv(job[p], pc[p]))'
  <2>1. job[p] \in Job /\ JobInv(job[p], pc[p]) /\ pc[p] = "prepared" /\ pc'[p] = "deletes"
    BY <1>3 DEF WriteDeleteList, SafeInv, TypeInv, TypeOK, LocalOK, WriteInv, Writing
  <2>2. /\ job'[p].list = job[p].list /\ job'[p].todo = job[p].todo
        /\ job'[p].carrier = job[p].carrier /\ job'[p].idx = job[p].idx
        /\ job'[p].grew = job[p].grew /\ job'[p].full = job[p].full
    BY <1>3, <2>1 DEF WriteDeleteList, SafeInv, TypeInv, TypeOK, Job
  <2>. QED BY <1>1, <2>1, <2>2 DEF JobInv, InUse, database
<1>4. ASSUME WriteFileList(p) PROVE (JobInv(job[p], pc[p]))'
  <2>. DEFINE list == {[key |-> k, path |-> rows[k].path, seen |-> disk[rows[k].path]]
                         : k \in ToWrite(job[p].backup)}
  <2>1. job[p] \in Job /\ JobInv(job[p], pc[p]) /\ pc[p] = "deletes" /\ pc'[p] = "listed"
    BY <1>4 DEF WriteFileList, SafeInv, TypeInv, TypeOK, LocalOK, WriteInv, Writing
  <2>2. job'[p] = [job[p] EXCEPT !.list = list, !.todo = list]
    BY <1>4 DEF WriteFileList, SafeInv, TypeInv, TypeOK
  <2>3. /\ job'[p].list = list /\ job'[p].todo = list
        /\ job'[p].carrier = job[p].carrier /\ job'[p].idx = job[p].idx
        /\ job'[p].grew = job[p].grew /\ job'[p].full = job[p].full
    <3>1. \A S : /\ [job[p] EXCEPT !.list = S, !.todo = S].list = S
                 /\ [job[p] EXCEPT !.list = S, !.todo = S].todo = S
                 /\ [job[p] EXCEPT !.list = S, !.todo = S].carrier = job[p].carrier
                 /\ [job[p] EXCEPT !.list = S, !.todo = S].idx = job[p].idx
                 /\ [job[p] EXCEPT !.list = S, !.todo = S].grew = job[p].grew
                 /\ [job[p] EXCEPT !.list = S, !.todo = S].full = job[p].full
      BY <2>1 DEF Job
    <3>. QED BY <2>2, <3>1
  <2>4. \A i \in list : InUse(i.key) /\ rows[i.key].path = i.path
    <3>1. ASSUME NEW k \in ToWrite(job[p].backup) PROVE InUse(k) BY DEF ToWrite, ItemsNotInBackup
    <3>2. ASSUME NEW i \in list PROVE InUse(i.key) /\ rows[i.key].path = i.path
      <4>1. PICK k \in ToWrite(job[p].backup) :
              i = [key |-> k, path |-> rows[k].path, seen |-> disk[rows[k].path]]
        OBVIOUS
      <4>. QED BY <3>1, <4>1
    <3>. QED BY <3>2
  <2>. QED BY <1>1, <2>1, <2>3, <2>4 DEF JobInv, InUse, database
<1>. QED BY <1>1, <1>2, <1>3, <1>4, SafeInvJob

LEMMA SafeInvTar ==
  ASSUME OneCommand, NoGrowth, SafeInv, NEW p \in Procs, Next,
         TarOpen(p) \/ TarItem(p) \/ TarFull(p)
  PROVE  SafeInv'
<1>1. /\ TypeInv' /\ RecordedIsOnCarrier'
      /\ UNCHANGED <<environment, database>>
      /\ pc[p] \in Writing /\ pc'[p] \in Writing
      /\ job[p] \in Job /\ JobInv(job[p], pc[p])
  <2>1. /\ UNCHANGED <<environment, database>>
        /\ pc[p] \in Writing /\ pc'[p] \in Writing
    BY DEF TarOpen, TarItem, TarFull, SafeInv, TypeInv, TypeOK, Writing
  <2>. QED BY <2>1, TypeInvNext, RecordedStays
           DEF database, SafeInv, TypeInv, LocalOK, WriteInv
<1>. DEFINE c == job[p].carrier
            n == job[p].idx
<1>2. c \in Carriers /\ n \in 0 .. MaxWrites /\ media[c][n] \in TarFile
  <2>1. c \in Carriers /\ n \in 0 .. MaxWrites BY <1>1 DEF Job
  <2>. QED BY <2>1 DEF SafeInv, TypeInv, TypeOK
<1>3. CASE TarOpen(p)
  <2>1. pc[p] = "listed" /\ pc'[p] = "tar" /\ job' = job
    BY <1>3 DEF TarOpen, SafeInv, TypeInv, TypeOK
  <2>2. (JobInv(job[p], pc[p]))' BY <1>1, <2>1 DEF JobInv, InUse, database
  <2>. QED BY <1>1, <2>2, SafeInvJob
<1>4. CASE TarItem(p)
  <2>1. PICK i \in job[p].todo :
          /\ disk[i.path] # Absent
          /\ media' = [media EXCEPT ![job[p].carrier][job[p].idx].items =
                         @ \cup {<<i.path, disk[i.path]>>}]
          /\ job' = [job EXCEPT ![p].todo = @ \ {i}, ![p].grew = @ \/ Grows(i)]
    BY <1>4 DEF TarItem
  <2>2. pc[p] = "tar" /\ pc'[p] = "tar" BY <1>4 DEF TarItem
  <2>3. ~Grows(i) BY DEF Grows, NoGrowth
  <2>4. job'[p] = [job[p] EXCEPT !.todo = @ \ {i}, !.grew = @ \/ Grows(i)]
    BY <2>1 DEF SafeInv, TypeInv, TypeOK
  <2>5. /\ job'[p].list = job[p].list /\ job'[p].todo = job[p].todo \ {i}
        /\ job'[p].carrier = c /\ job'[p].idx = n
        /\ ~job'[p].grew /\ job'[p].full = job[p].full
    BY <1>1, <2>3, <2>4 DEF Job, JobInv
  <2>6. media'[c][n].items = media[c][n].items \cup {<<i.path, disk[i.path]>>}
    BY <1>2, <2>1 DEF SafeInv, TypeInv, TypeOK, TarFile
  <2>7. /\ i \in job[p].list /\ i.path \in Paths /\ i.key \in Keys
        /\ InUse(i.key) /\ rows[i.key].path = i.path
    BY <1>1, <2>1 DEF JobInv, Job, Item
  <2>8. disk[i.path] \in Versions /\ disk[i.path] >= rows[i.key].version
    <3>1. disk[i.path] \in Versions /\ disk[i.path] = newest[i.path]
      BY <2>1, <2>7 DEF SafeInv, RecordsNotNewer, TypeInv, TypeOK
    <3>2. rows[i.key].version <= newest[i.path] /\ rows[i.key].version \in Versions
      BY <2>7 DEF SafeInv, RecordsNotNewer, TypeInv, RowsOK
    <3>. QED BY <3>1, <3>2 DEF Versions
  <2>9. rows' = rows /\ tarballs' = tarballs BY <1>1 DEF database
  <2>10. ASSUME NEW j \in job'[p].list \ job'[p].todo PROVE OnCarrier(j, c, n)'
    <3>1. CASE j = i BY <2>5, <2>6, <2>8, <2>9, <3>1 DEF OnCarrier
    <3>2. CASE j # i
      <4>1. OnCarrier(j, c, n) BY <1>1, <2>2, <2>5, <2>10, <3>2 DEF JobInv
      <4>. QED BY <2>5, <2>6, <2>9, <4>1 DEF OnCarrier
    <3>. QED BY <3>1, <3>2
  <2>11. (JobInv(job[p], pc[p]))' BY <1>1, <2>2, <2>5, <2>9, <2>10 DEF JobInv, InUse, OnCarrier
  <2>. QED BY <1>1, <2>11, SafeInvJob
<1>5. CASE TarFull(p)
  <2>1. pc[p] = "tar" /\ pc'[p] = "tarred" BY <1>5 DEF TarFull, SafeInv, TypeInv, TypeOK
  <2>2. /\ job'[p].list = job[p].list /\ job'[p].todo = job[p].todo
        /\ job'[p].carrier = c /\ job'[p].idx = n
        /\ ~job'[p].grew /\ job'[p].full
        /\ media'[c][n].items = media[c][n].items
    <3>1. CASE job' = [job EXCEPT ![p].full = TRUE] /\ media' = media
      BY <1>1, <3>1 DEF Job, JobInv, SafeInv, TypeInv, TypeOK
    <3>2. ASSUME NEW i \in job[p].todo,
                 media' = [media EXCEPT ![job[p].carrier][job[p].idx].cut = i.path],
                 job' = [job EXCEPT ![p].full = TRUE, ![p].grew = @ \/ Grows(i)]
          PROVE  /\ job'[p].list = job[p].list /\ job'[p].todo = job[p].todo
                 /\ job'[p].carrier = c /\ job'[p].idx = n
                 /\ ~job'[p].grew /\ job'[p].full
                 /\ media'[c][n].items = media[c][n].items
      <4>1. ~Grows(i) BY DEF Grows, NoGrowth
      <4>2. job'[p] = [job[p] EXCEPT !.full = TRUE, !.grew = @ \/ Grows(i)]
        BY <3>2 DEF SafeInv, TypeInv, TypeOK
      <4>3. media'[c][n].items = media[c][n].items
        BY <1>2, <3>2 DEF SafeInv, TypeInv, TypeOK, TarFile
      <4>. QED BY <1>1, <4>1, <4>2, <4>3 DEF Job, JobInv
    <3>. QED BY <1>5, <3>1, <3>2 DEF TarFull
  <2>3. rows' = rows /\ tarballs' = tarballs BY <1>1 DEF database
  <2>4. \A j \in job[p].list \ job[p].todo : OnCarrier(j, c, n)'
    BY <1>1, <2>1, <2>2, <2>3 DEF JobInv, OnCarrier
  <2>5. (JobInv(job[p], pc[p]))' BY <1>1, <2>1, <2>2, <2>3, <2>4 DEF JobInv, InUse, OnCarrier
  <2>. QED BY <1>1, <2>5, SafeInvJob
<1>. QED BY <1>3, <1>4, <1>5

LEMMA SafeInvUpdateDb ==
  ASSUME OneCommand, SafeInv, NEW p \in Procs, WriteUpdateDb(p), TypeInv'
  PROVE  SafeInv'
<1>1. /\ pc[p] \in Writing /\ job[p] \in Job /\ JobInv(job[p], pc[p])
      /\ UNCHANGED <<environment, rows, filesetLinks, media>>
      /\ pc'[p] = "idle"
  <2>1. pc[p] \in {"tar", "tarred"} BY DEF WriteUpdateDb, Tarred
  <2>. QED BY <2>1 DEF WriteUpdateDb, Idle, SafeInv, TypeInv, TypeOK, LocalOK, WriteInv, Writing
<1>2. ScanInv' /\ WriteInv' BY <1>1, Alone DEF Writing
<1>. DEFINE t == [carrier |-> job[p].carrier, idx |-> job[p].idx, written |-> writes + 1]
<1>3. PICK written \in SUBSET job[p].list :
        /\ DetermineWritten(job[p], written)
        /\ tarballs' = tarballs \cup {t}
        /\ tarballLinks' = tarballLinks \cup Links(written, t)
  BY DEF WriteUpdateDb
<1>4. written \subseteq job[p].list \ job[p].todo
  <2>1. CASE job[p].full BY <1>1, <1>3, <2>1 DEF DetermineWritten, JobInv
  <2>2. CASE ~job[p].full
    <3>1. job[p].todo = {} BY <1>1, <2>2 DEF WriteUpdateDb, Tarred, JobInv
    <3>. QED BY <1>3, <3>1
  <2>. QED BY <2>1, <2>2
<1>5. \A i \in written : /\ InUse(i.key) /\ rows[i.key].path = i.path
                         /\ OnCarrier(i, t.carrier, t.idx)
  BY <1>1, <1>4 DEF JobInv, WriteUpdateDb, Tarred
<1>6. LinksResolve'
  BY <1>1, <1>3, <1>5 DEF SafeInv, TableInv, LinksResolve, Links, InUse
<1>7. RecordedIsOnCarrier'
  <2>1. ASSUME NEW i \in written
        PROVE  \E v \in Versions : /\ v >= rows[i.key].version
                                   /\ <<rows[i.key].path, v>> \in media[t.carrier][t.idx].items
    BY <1>5 DEF OnCarrier
  <2>2. ASSUME NEW l \in Links(written, t)
        PROVE  \E v \in Versions : /\ v >= rows[l[1]].version
                                   /\ <<rows[l[1]].path, v>> \in media[l[2].carrier][l[2].idx].items
    BY <2>1, <2>2 DEF Links
  <2>. QED BY <1>1, <1>3, <2>2 DEF SafeInv, TableInv, RecordedIsOnCarrier
<1>8. OneRecordOnDisk' /\ RecordsNotNewer'
  BY <1>1 DEF SafeInv, TableInv, OneRecordOnDisk, RecordsNotNewer, InUse, environment
<1>. QED BY <1>2, <1>6, <1>7, <1>8 DEF SafeInv, TableInv

LEMMA SafeInvInit == Init => SafeInv
<1>. SUFFICES ASSUME Init PROVE SafeInv OBVIOUS
<1>1. TypeInv BY TypeInvInit
<1>2. RecordsNotNewer /\ ScanInv /\ WriteInv
  BY DEF Init, RecordsNotNewer, ScanInv, WriteInv, Writing, InUse
<1>3. TableInv
  BY DEF Init, TableInv, LinksResolve, RecordedIsOnCarrier, OneRecordOnDisk, FreeRow
<1>. QED BY <1>1, <1>2, <1>3 DEF SafeInv

LEMMA SafeInvNext ==
  ASSUME OneCommand, NoGrowth
  PROVE  SafeInv /\ [Next]_vars => SafeInv'
<1>1. ASSUME SafeInv, Environment PROVE SafeInv'
  BY <1>1, ConstantsAssumption, SafeInvDisk, SafeInvCarriers DEF Environment
<1>2. ASSUME SafeInv, NEW p \in Procs, Update(p) PROVE SafeInv'
  BY <1>2, SafeInvUpdate
<1>3. ASSUME SafeInv, NEW p \in Procs, Write(p) PROVE SafeInv'
  <2>1. Next /\ TypeInv' BY <1>3, TypeInvWrite DEF Next, SafeInv
  <2>2. CASE WriteRefused(p) \/ TarFailed(p)
    BY <1>3, <2>2, SafeInvIdle DEF WriteRefused, TarFailed
  <2>. QED BY <1>3, <2>1, <2>2, SafeInvPrepare, SafeInvTar, SafeInvUpdateDb DEF Write
<1>4. ASSUME SafeInv, NEW p \in Procs, Die(p) PROVE SafeInv'
  BY <1>4, SafeInvIdle DEF Die
<1>5. ASSUME SafeInv, UNCHANGED vars PROVE SafeInv'
  <2>1. TypeInv' BY <1>5, TypeInvNext DEF SafeInv
  <2>2. ScanInv' BY <1>5 DEF SafeInv, ScanInv, InUse, vars, database
  <2>3. WriteInv' BY <1>5 DEF SafeInv, WriteInv, JobInv, OnCarrier, InUse, vars, database
  <2>4. RecordsNotNewer' /\ TableInv'
    BY <1>5 DEF SafeInv, RecordsNotNewer, TableInv, LinksResolve, RecordedIsOnCarrier,
                OneRecordOnDisk, InUse, vars, database, environment
  <2>. QED BY <2>1, <2>2, <2>3, <2>4 DEF SafeInv
<1>. QED BY <1>1, <1>2, <1>3, <1>4, <1>5 DEF Next

\* One command at a time, and files that do not grow while they are written: what
\* the database places on a carrier is there, in the recorded state or a newer one.
THEOREM Recorded ==
  ASSUME OneCommand, NoGrowth
  PROVE  Spec => []RecordedIsOnCarrier
<1>1. SafeInv /\ [Next]_vars => SafeInv' BY SafeInvNext
<1>2. SafeInv => RecordedIsOnCarrier BY DEF SafeInv, TableInv
<1>. QED BY <1>1, <1>2, SafeInvInit, PTL DEF Spec

\* One command at a time: no link outlives its record or its tarball, so a record
\* number that is given out again inherits nothing.
THEOREM LinksAlwaysResolve ==
  ASSUME OneCommand, NoGrowth
  PROVE  Spec => []LinksResolve
<1>1. SafeInv /\ [Next]_vars => SafeInv' BY SafeInvNext
<1>2. SafeInv => LinksResolve BY DEF SafeInv, TableInv
<1>. QED BY <1>1, <1>2, SafeInvInit, PTL DEF Spec

\* One command at a time: a path has at most one record that counts as on disk.
THEOREM OneRecord ==
  ASSUME OneCommand, NoGrowth
  PROVE  Spec => []OneRecordOnDisk
<1>1. SafeInv /\ [Next]_vars => SafeInv' BY SafeInvNext
<1>2. SafeInv => OneRecordOnDisk BY DEF SafeInv, TableInv
<1>. QED BY <1>1, <1>2, SafeInvInit, PTL DEF Spec

\* One command at a time: no step of a write changes the file of a tarball that is
\* in the database before and after it.
THEOREM NeverOverwritten ==
  ASSUME OneCommand, NoGrowth
  PROVE  Spec => RecordedNeverOverwritten
<1>1. SafeInv /\ [Next]_vars => SafeInv' BY SafeInvNext
<1>2. SafeInv /\ [Next]_vars =>
        [\A t \in tarballs : t \in tarballs' =>
           media'[t.carrier][t.idx] = media[t.carrier][t.idx]]_vars
  BY RecordedUntouched
<1>. QED BY <1>1, <1>2, SafeInvInit, PTL DEF Spec, RecordedNeverOverwritten
-----------------------------------------------------------------------------
(* What the tarballs of a backup hold.                                      *)

Linked(k, t) == t \in tarballs /\ <<k, t>> \in tarballLinks
BackupOf(t) == CarrierBackup[t.carrier]

\* A record has the table of its kind, and no other record describes the same
\* state of the path; none is newer than the one that counts as on disk.
RecordsInv ==
  /\ \A k \in Keys : InUse(k) => k[1] = KindOf[rows[k].version]
  /\ \A j, k \in Keys :
       InUse(j) /\ InUse(k) /\ rows[j].path = rows[k].path =>
         /\ rows[j].version = rows[k].version => j = k
         /\ rows[k].onDisk => rows[j].version <= rows[k].version

\* The tarballs were written one after the other.
TimesInv == /\ \A t \in tarballs : t.written <= writes
            /\ \A t, u \in tarballs : t.written = u.written => t = u

\* An item in a fileset's tarball stays in the fileset.
MembersInv ==
  \A k \in Keys, t \in tarballs :
    Linked(k, t) => <<k, BackupFileset[BackupOf(t)]>> \in filesetLinks

\* No file on a carrier is newer than what it was copied from.
CopiesNotNewer ==
  \A c \in Carriers, n \in 0 .. MaxWrites :
    \A i \in media[c][n].items : i[2] <= newest[i[1]]

OneVersion(file) == \A i, j \in file.items : i[1] = j[1] => i = j

\* A tarball holds a path once, and whole where a record says that it does.
WholeInv == \A t \in tarballs : /\ OneVersion(FileOf(t))
                                /\ \A k \in Keys : Linked(k, t) => FileOf(t).cut # rows[k].path

\* What a later tarball of the backup replaces is not the newest state of its path.
ReplacedInv ==
  \A t, u \in tarballs, k \in Keys :
    /\ BackupOf(t) = BackupOf(u) /\ t.written < u.written
    /\ Linked(k, t) /\ Touches(u, rows[k].path)
    => rows[k].version < newest[rows[k].path]

\* The file a write has opened holds its delete list and what it has copied so far.
FileInv(j, at, file) ==
  /\ file.deletes = j.deletes /\ OneVersion(file)
  /\ \A x \in file.items : \E i \in j.list \ j.todo : i.path = x[1]
  /\ file.cut # NoPath => at = "tarred" /\ \E i \in j.todo : i.path = file.cut

\* A write has read the tables as they are.
WorkInv(j, at) ==
  /\ CarrierBackup[j.carrier] = j.backup
  /\ at # "prepared" => j.deletes = DeleteList(BackupFileset[j.backup], j.backup)
  /\ \A i, l \in j.list : i.path = l.path => i = l
  /\ at \in {"listed", "tar", "tarred"} => {i.key : i \in j.list} = ToWrite(j.backup)
  /\ at \in {"tar", "tarred"} => FileInv(j, at, media[j.carrier][j.idx])

TarInv == TimesInv /\ MembersInv /\ CopiesNotNewer /\ WholeInv /\ ReplacedInv
ExactInv ==
  /\ SafeInv /\ RecordsInv /\ TarInv
  /\ \A p \in Procs : pc[p] \in Writing => WorkInv(job[p], pc[p])

\* The step leaves the recorded tarballs as they are, or removes some of them.
Kept ==
  /\ tarballs' \subseteq tarballs /\ writes' = writes
  /\ \A t \in tarballs' : media'[t.carrier][t.idx] = media[t.carrier][t.idx]
  /\ \A k \in Keys, t \in tarballs' : <<k, t>> \in tarballLinks' =>
       /\ <<k, t>> \in tarballLinks
       /\ rows'[k].path = rows[k].path /\ rows'[k].version = rows[k].version
       /\ \A f \in Filesets : BackupFileset[BackupOf(t)] = f /\ <<k, f>> \in filesetLinks
                                => <<k, f>> \in filesetLinks'
  /\ \A x \in Paths : newest[x] <= newest'[x]

LEMMA BackupIsOne ==
  ASSUME NEW t \in Tarball
  PROVE  BackupOf(t) \in Backups /\ BackupFileset[BackupOf(t)] \in Filesets
BY ConstantsAssumption DEF BackupOf, Tarball

LEMMA TarInvKept ==
  ASSUME SafeInv, TypeInv', TarInv, Kept, CopiesNotNewer'
  PROVE  TarInv'
<1>1. /\ tarballs' \subseteq tarballs /\ writes' = writes
      /\ \A t \in tarballs' : FileOf(t)' = FileOf(t)
      /\ \A t \in tarballs : t \in Tarball
      /\ \A k \in Keys : rows'[k] \in Row /\ rows[k] \in Row
  BY DEF Kept, FileOf, SafeInv, TypeInv, TypeOK
<1>2. ASSUME NEW k \in Keys, NEW t \in tarballs', Linked(k, t)'
      PROVE  /\ Linked(k, t) /\ InUse(k)
             /\ rows'[k].path = rows[k].path /\ rows'[k].version = rows[k].version
  BY <1>1, <1>2 DEF Kept, Linked, SafeInv, TableInv, LinksResolve
<1>3. TimesInv' BY <1>1 DEF TarInv, TimesInv
<1>4. MembersInv'
  <2>1. ASSUME NEW k \in Keys, NEW t \in tarballs', Linked(k, t)'
        PROVE  <<k, BackupFileset[BackupOf(t)]>> \in filesetLinks'
    <3>1. <<k, BackupFileset[BackupOf(t)]>> \in filesetLinks
      BY <1>1, <1>2, <2>1 DEF TarInv, MembersInv
    <3>2. BackupFileset[BackupOf(t)] \in Filesets BY <1>1, BackupIsOne
    <3>. QED BY <2>1, <3>1, <3>2 DEF Kept, Linked
  <2>. QED BY <2>1 DEF MembersInv, BackupOf
<1>5. WholeInv'
  BY <1>1, <1>2 DEF TarInv, WholeInv, OneVersion
<1>6. ReplacedInv'
  <2>1. ASSUME NEW t \in tarballs', NEW u \in tarballs', NEW k \in Keys,
               BackupOf(t) = BackupOf(u), t.written < u.written,
               Linked(k, t)', Touches(u, rows[k].path)'
        PROVE  rows'[k].version < newest'[rows'[k].path]
    <3>1. /\ Linked(k, t) /\ InUse(k)
          /\ rows'[k].path = rows[k].path /\ rows'[k].version = rows[k].version
      BY <1>2, <2>1
    <3>2. Touches(u, rows[k].path) BY <1>1, <2>1, <3>1 DEF Touches
    <3>3. rows[k].version < newest[rows[k].path]
      BY <1>1, <2>1, <3>1, <3>2 DEF TarInv, ReplacedInv
    <3>4. rows[k].path \in Paths /\ rows[k].version \in Versions
      BY <3>1 DEF SafeInv, TypeInv, RowsOK
    <3>5. newest[rows[k].path] \in Int /\ newest'[rows[k].path] \in Int
      BY <3>4 DEF SafeInv, TypeInv, TypeOK, Versions
    <3>6. newest[rows[k].path] <= newest'[rows[k].path] BY <3>4 DEF Kept
    <3>. QED BY <3>1, <3>3, <3>4, <3>5, <3>6 DEF Versions
  <2>. QED BY <2>1 DEF ReplacedInv, BackupOf
<1>. QED BY <1>3, <1>4, <1>5, <1>6 DEF TarInv

\* Records are loaded, marked and removed: what they say of a state stays true.
LEMMA RecordsInvFewer ==
  ASSUME RecordsInv,
         \A k \in Keys : /\ rows'[k].onDisk => rows[k].onDisk
                         /\ InUse(k)' => /\ InUse(k) /\ rows'[k].path = rows[k].path
                                         /\ rows'[k].version = rows[k].version
  PROVE  RecordsInv'
BY DEF RecordsInv

LEMMA RecordsInvScan ==
  ASSUME SafeInv, RecordsInv, NEW p \in Procs, NEW x \in Paths, ScanItem(p, x)
  PROVE  RecordsInv'
<1>1. PICK k \in Keys : ScanStep(p, x, k) BY ScanItemRows
<1>2. disk[x] = newest[x] /\ newest[x] \in Versions
  BY DEF ScanItem, SafeInv, RecordsNotNewer, TypeInv, TypeOK
<1>3. \A j \in Keys : /\ rows[j] \in Row
                      /\ InUse(j) => rows[j].path \in Paths /\ rows[j].version \in Versions
  BY DEF SafeInv, TypeInv, TypeOK, RowsOK
<1>4. rows'[k].path = x /\ rows'[k].version = newest[x] /\ rows'[k].onDisk /\ k[1] = KindOf[newest[x]]
  BY <1>1, <1>2 DEF ScanStep
<1>5. ASSUME NEW j \in Keys \ {k}, InUse(j)'
      PROVE  /\ InUse(j) /\ rows'[j].path = rows[j].path /\ rows'[j].version = rows[j].version
             /\ rows'[j].onDisk => rows[j].onDisk /\ rows[j].path # x
  <2>1. CASE rows'[j] = rows[j] /\ ~(rows[j].path = x /\ rows[j].onDisk)
    BY <1>5, <2>1 DEF InUse
  <2>2. CASE InUse(j) /\ rows[j].path = x /\ rows'[j] = [rows[j] EXCEPT !.onDisk = FALSE]
    BY <1>3, <2>2 DEF Row
  <2>. QED BY <1>1, <2>1, <2>2 DEF ScanStep
\* No other record describes the state that k describes now.
<1>6. ASSUME NEW j \in Keys \ {k}, InUse(j)', rows'[j].path = x
      PROVE  rows'[j].version < newest[x] /\ ~rows'[j].onDisk
  <2>1. /\ InUse(j) /\ rows[j].path = x /\ rows'[j].version = rows[j].version
        /\ ~rows'[j].onDisk
    BY <1>5, <1>6
  <2>2. rows[j].version # newest[x]
    <3>1. CASE InUse(k) /\ rows[k].path = x /\ rows[k].version = disk[x]
      BY <1>2, <2>1, <3>1 DEF RecordsInv
    <3>2. CASE \A i \in Keys : InUse(i) /\ rows[i].path = x /\ i[1] = KindOf[disk[x]]
                                 => rows[i].version # disk[x]
      BY <1>2, <2>1, <3>2 DEF RecordsInv
    <3>. QED BY <1>1, <3>1, <3>2 DEF ScanStep
  <2>3. rows[j].version \in Versions /\ rows[j].version <= newest[x]
    BY <1>3, <2>1 DEF SafeInv, RecordsNotNewer
  <2>. QED BY <1>2, <2>1, <2>2, <2>3 DEF Versions
<1>7. \A j \in Keys : InUse(j)' => j[1] = KindOf[rows'[j].version]
  BY <1>4, <1>5 DEF RecordsInv
<1>8. ASSUME NEW j \in Keys, NEW l \in Keys, InUse(j)', InUse(l)', rows'[j].path = rows'[l].path
      PROVE  /\ rows'[j].version = rows'[l].version => j = l
             /\ rows'[l].onDisk => rows'[j].version <= rows'[l].version
  <2>1. CASE j = k /\ l = k BY <1>2, <1>4, <2>1 DEF Versions
  <2>2. CASE j # k /\ l # k BY <1>5, <1>8, <2>2 DEF RecordsInv
  <2>3. CASE j # k /\ l = k
    <3>1. rows'[j].version < newest[x] BY <1>4, <1>6, <1>8, <2>3
    <3>2. rows'[j].version \in Versions BY <1>3, <1>5, <1>8, <2>3
    <3>. QED BY <1>2, <1>4, <2>3, <3>1, <3>2 DEF Versions
  <2>4. CASE j = k /\ l # k
    <3>1. rows'[l].version < newest[x] /\ ~rows'[l].onDisk BY <1>4, <1>6, <1>8, <2>4
    <3>2. rows'[l].version \in Versions BY <1>3, <1>5, <1>8, <2>4
    <3>3. rows'[j].version # rows'[l].version BY <1>2, <1>4, <2>4, <3>1, <3>2 DEF Versions
    <3>. QED BY <3>1, <3>3
  <2>. QED BY <2>1, <2>2, <2>3, <2>4
<1>. QED BY <1>7, <1>8 DEF RecordsInv

\* Every step but the one that records a tarball leaves the recorded ones alone.
LEMMA KeptUntilRecorded ==
  ASSUME OneCommand, SafeInv, Next, \A p \in Procs : ~WriteUpdateDb(p)
  PROVE  Kept
<1>1. \A t \in tarballs : media'[t.carrier][t.idx] = media[t.carrier][t.idx]
  BY RecordedUntouched
<1>2. newest \in [Paths -> Versions] BY DEF SafeInv, TypeInv, TypeOK
<1>3. \A x \in Paths : newest[x] <= newest[x] BY <1>2 DEF Versions
<1>4. CASE UNCHANGED <<newest, database>> BY <1>1, <1>3, <1>4 DEF Kept, database
<1>5. ASSUME NEW x \in Paths, Change(x) \/ Delete(x) \/ Reappear(x) PROVE Kept
  <2>1. \A y \in Paths : newest[y] <= newest'[y]
    BY <1>2, <1>3, <1>5 DEF Change, Delete, Reappear, Versions
  <2>2. UNCHANGED database BY <1>5 DEF Change, Delete, Reappear
  <2>. QED BY <1>1, <2>1, <2>2 DEF Kept, database
<1>6. ASSUME NEW c \in Carriers, AddCarrier(c) \/ RemoveCarrier(c) PROVE Kept
  <2>1. /\ tarballs' \subseteq tarballs /\ tarballLinks' \subseteq tarballLinks
        /\ UNCHANGED <<newest, rows, filesetLinks, writes>>
    BY <1>6 DEF AddCarrier, RemoveCarrier, environment
  <2>. QED BY <1>1, <1>3, <2>1 DEF Kept
<1>7. ASSUME NEW p \in Procs, NEW x \in Paths, ScanItem(p, x) PROVE Kept
  <2>1. PICK k \in Keys : ScanStep(p, x, k) BY <1>7, ScanItemRows
  <2>2. UNCHANGED <<newest, tarballLinks, tarballs, writes>>
    BY <1>7 DEF ScanItem, Scanned, environment
  <2>3. filesetLinks \subseteq filesetLinks' BY <2>1 DEF ScanStep
  <2>4. ASSUME NEW j \in Keys, NEW t \in tarballs, <<j, t>> \in tarballLinks
        PROVE  rows'[j].path = rows[j].path /\ rows'[j].version = rows[j].version
    <3>1. CASE j = k
      <4>1. InUse(k) /\ ~InNoTarball(k)
        BY <2>4, <3>1 DEF InNoTarball, SafeInv, TableInv, LinksResolve
      <4>. QED BY <2>1, <3>1, <4>1 DEF ScanStep
    <3>2. CASE j # k
      <4>1. rows[j] \in Row BY DEF SafeInv, TypeInv, TypeOK
      <4>. QED BY <2>1, <3>2, <4>1 DEF ScanStep, Row
    <3>. QED BY <3>1, <3>2
  <2>. QED BY <1>1, <1>3, <2>2, <2>3, <2>4 DEF Kept
<1>8. ASSUME NEW p \in Procs, NEW kind \in Kinds, RemoveMissing(p, kind) PROVE Kept
  <2>1. RemovalStep BY <1>8, RemoveMissingRows
  <2>2. UNCHANGED <<newest, tarballLinks, tarballs, writes>>
    BY <1>8 DEF RemoveMissing, environment
  <2>3. ASSUME NEW k \in Keys, NEW t \in tarballs, <<k, t>> \in tarballLinks
        PROVE  rows'[k].path = rows[k].path /\ rows'[k].version = rows[k].version
    BY <2>1, <2>3 DEF RemovalStep
  <2>. QED BY <1>1, <1>3, <2>1, <2>2, <2>3 DEF Kept, RemovalStep, BackupOf
<1>9. ASSUME NEW p \in Procs, Update(p) PROVE Kept
  <2>1. \A f \in Filesets : ScanStart(p, f) => UNCHANGED <<newest, database>>
    BY DEF ScanStart, environment
  <2>2. \A x \in Paths : ScanSkip(p, x) => UNCHANGED <<newest, database>>
    BY DEF ScanSkip, Scanned, environment, database
  <2>. QED BY <1>4, <1>7, <1>8, <1>9, <2>1, <2>2
           DEF Update, RemoveMissingFiles, RemoveMissingSymlinks, Kinds
<1>10. ASSUME NEW p \in Procs, Write(p) \/ Die(p) PROVE Kept
  <2>1. UNCHANGED <<newest, database>>
    BY <1>10 DEF Write, WritePrepare, WriteDeleteList, WriteFileList, WriteRefused, TarOpen,
                 TarItem, TarFailed, TarFull, Die, environment
  <2>. QED BY <1>4, <2>1
<1>. QED BY <1>5, <1>6, <1>9, <1>10, ConstantsAssumption DEF Next, Environment

\* tar copies what is on the disk now, which is the newest state of its path.
LEMMA CopiesNext ==
  ASSUME SafeInv, CopiesNotNewer, Next
  PROVE  CopiesNotNewer'
<1>1. /\ newest \in [Paths -> Versions] /\ newest' \in [Paths -> Versions]
      /\ media \in [Carriers -> [0 .. MaxWrites -> TarFile]]
      /\ \A c \in Carriers, n \in 0 .. MaxWrites :
           media[c][n] \in TarFile /\ media[c][n].items \subseteq Paths \X Versions
  <2>1. TypeInv' BY TypeInvNext DEF SafeInv
  <2>2. \A file \in TarFile : file.items \subseteq Paths \X Versions BY DEF TarFile
  <2>3. newest \in [Paths -> Versions] /\ newest' \in [Paths -> Versions]
    BY <2>1 DEF SafeInv, TypeInv, TypeOK
  <2>4. media \in [Carriers -> [0 .. MaxWrites -> TarFile]] BY DEF SafeInv, TypeInv, TypeOK
  <2>. HIDE DEF TarFile
  <2>. QED BY <2>2, <2>3, <2>4
<1>2. ASSUME \A x \in Paths : newest[x] <= newest'[x], media' = media PROVE CopiesNotNewer'
  <2>1. ASSUME NEW c \in Carriers, NEW n \in 0 .. MaxWrites, NEW i \in media[c][n].items
        PROVE  i[2] <= newest'[i[1]]
    <3>1. i[1] \in Paths /\ i[2] \in Versions BY <1>1
    <3>2. i[2] <= newest[i[1]] /\ newest[i[1]] <= newest'[i[1]]
      BY <1>2, <3>1 DEF CopiesNotNewer
    <3>3. newest[i[1]] \in Int /\ newest'[i[1]] \in Int BY <1>1, <3>1 DEF Versions
    <3>. QED BY <3>1, <3>2, <3>3 DEF Versions
  <2>. QED BY <1>2, <2>1 DEF CopiesNotNewer
<1>3. \A x \in Paths : newest[x] <= newest[x] BY <1>1 DEF Versions
<1>4. CASE Environment
  <2>1. media' = media BY <1>4 DEF Environment, Change, Delete, Reappear, AddCarrier, RemoveCarrier
  <2>2. ASSUME NEW x \in Paths, Change(x) PROVE \A y \in Paths : newest[y] <= newest'[y]
    BY <1>1, <2>2 DEF Change, Versions
  <2>3. (\E x \in Paths : Change(x)) \/ newest' = newest
    BY <1>4, ConstantsAssumption
    DEF Environment, Delete, Reappear, AddCarrier, RemoveCarrier, environment
  <2>. QED BY <1>2, <1>3, <2>1, <2>2, <2>3
<1>5. ASSUME NEW p \in Procs, TarOpen(p) \/ TarItem(p) \/ TarFull(p) PROVE CopiesNotNewer'
  <2>. DEFINE c == job[p].carrier
              n == job[p].idx
  <2>1. /\ newest' = newest /\ job[p] \in Job
        /\ c \in Carriers /\ n \in 0 .. MaxWrites /\ media[c][n] \in TarFile
    <3>1. job[p] \in Job
      BY <1>5 DEF TarOpen, TarItem, TarFull, SafeInv, TypeInv, LocalOK, Writing
    <3>2. c \in Carriers /\ n \in 0 .. MaxWrites BY <3>1 DEF Job
    <3>. QED BY <1>1, <1>5, <3>1, <3>2 DEF TarOpen, TarItem, TarFull, environment
  <2>2. ASSUME NEW file, media' = [media EXCEPT ![c][n] = file],
               \A i \in file.items : i \in media[c][n].items \/ i[2] <= newest[i[1]]
        PROVE  CopiesNotNewer'
    <3>1. ASSUME NEW d \in Carriers, NEW m \in 0 .. MaxWrites, NEW i \in media'[d][m].items
          PROVE  i[2] <= newest[i[1]]
      <4>1. CASE d = c /\ m = n
        <5>1. media'[d][m] = file BY <1>1, <2>1, <2>2, <4>1
        <5>. QED BY <2>1, <2>2, <3>1, <5>1 DEF CopiesNotNewer
      <4>2. CASE ~(d = c /\ m = n)
        <5>1. media'[d][m] = media[d][m] BY <1>1, <2>1, <2>2, <4>2
        <5>. QED BY <3>1, <5>1 DEF CopiesNotNewer
      <4>. QED BY <4>1, <4>2
    <3>. QED BY <2>1, <3>1 DEF CopiesNotNewer
  <2>3. CASE TarOpen(p)
    <3>. DEFINE file == [EmptyTar EXCEPT !.deletes = job[p].deletes]
    <3>1. file.items = {} BY DEF EmptyTar
    <3>2. media' = [media EXCEPT ![c][n] = file] BY <2>3 DEF TarOpen
    <3>. HIDE DEF file
    <3>. QED BY <2>2, <3>1, <3>2
  <2>4. CASE TarItem(p)
    <3>1. PICK i \in job[p].todo :
            /\ disk[i.path] # Absent
            /\ media' = [media EXCEPT ![job[p].carrier][job[p].idx].items =
                           @ \cup {<<i.path, disk[i.path]>>}]
      BY <2>4 DEF TarItem
    <3>. DEFINE file == [media[c][n] EXCEPT !.items = @ \cup {<<i.path, disk[i.path]>>}]
    <3>2. i.path \in Paths /\ disk[i.path] = newest[i.path]
      BY <2>1, <3>1 DEF Job, Item, SafeInv, RecordsNotNewer
    <3>3. file.items = media[c][n].items \cup {<<i.path, disk[i.path]>>}
      BY <2>1 DEF TarFile
    <3>4. media' = [media EXCEPT ![c][n] = file] BY <3>1
    <3>5. \A j \in file.items : j \in media[c][n].items \/ j[2] <= newest[j[1]]
      BY <1>3, <3>2, <3>3
    <3>. HIDE DEF file
    <3>. QED BY <2>2, <3>4, <3>5
  <2>5. CASE TarFull(p)
    <3>1. CASE media' = media BY <1>2, <1>3, <2>1, <3>1
    <3>2. ASSUME NEW i \in job[p].todo,
                 media' = [media EXCEPT ![job[p].carrier][job[p].idx].cut = i.path]
          PROVE  CopiesNotNewer'
      <4>. DEFINE file == [media[c][n] EXCEPT !.cut = i.path]
      <4>1. file.items = media[c][n].items BY <2>1 DEF TarFile
      <4>2. media' = [media EXCEPT ![c][n] = file] BY <3>2
      <4>. HIDE DEF file
      <4>. QED BY <2>2, <4>1, <4>2
    <3>. QED BY <2>5, <3>1, <3>2 DEF TarFull
  <2>. QED BY <1>5, <2>3, <2>4, <2>5
<1>6. ASSUME NEW p \in Procs, Update(p) \/ Die(p) PROVE media' = media /\ newest' = newest
  BY <1>6 DEF Update, ScanStart, ScanSkip, ScanItem, Scanned, RemoveMissingFiles,
              RemoveMissingSymlinks, RemoveMissing, Die, environment
<1>7. ASSUME NEW p \in Procs, Write(p), ~ (TarOpen(p) \/ TarItem(p) \/ TarFull(p))
      PROVE  media' = media /\ newest' = newest
  BY <1>7 DEF Write, WritePrepare, WriteDeleteList, WriteFileList, WriteRefused, TarFailed,
              WriteUpdateDb, environment
<1>. QED BY <1>2, <1>3, <1>4, <1>5, <1>6, <1>7 DEF Next

LEMMA RecordsInvNext ==
  ASSUME SafeInv, RecordsInv, Next
  PROVE  RecordsInv'
<1>1. CASE UNCHANGED rows BY <1>1 DEF RecordsInv, InUse
<1>2. ASSUME NEW p \in Procs, NEW x \in Paths, ScanItem(p, x) PROVE RecordsInv'
  BY <1>2, RecordsInvScan
<1>3. ASSUME NEW p \in Procs, NEW kind \in Kinds, RemoveMissing(p, kind) PROVE RecordsInv'
  <2>1. RemovalStep BY <1>3, RemoveMissingRows
  <2>. QED BY <2>1, RecordsInvFewer DEF RemovalStep
<1>4. CASE Environment
  <2>1. UNCHANGED rows
    BY <1>4 DEF Environment, Change, Delete, Reappear, AddCarrier, RemoveCarrier, database
  <2>. QED BY <1>1, <2>1
<1>5. ASSUME NEW p \in Procs, Update(p) PROVE RecordsInv'
  <2>1. \A f \in Filesets : ScanStart(p, f) => UNCHANGED rows BY DEF ScanStart, database
  <2>2. \A x \in Paths : ScanSkip(p, x) => UNCHANGED rows BY DEF ScanSkip
  <2>. QED BY <1>1, <1>2, <1>3, <1>5, <2>1, <2>2
           DEF Update, RemoveMissingFiles, RemoveMissingSymlinks, Kinds
<1>6. ASSUME NEW p \in Procs, Write(p) \/ Die(p) PROVE UNCHANGED rows
  BY <1>6 DEF Write, WritePrepare, WriteDeleteList, WriteFileList, WriteRefused, TarOpen,
              TarItem, TarFailed, TarFull, WriteUpdateDb, Die, database
<1>. QED BY <1>1, <1>4, <1>5, <1>6 DEF Next

\* What a write has listed: the records that are on disk and in no tarball of its backup.
LEMMA ListedItems ==
  ASSUME ExactInv, NEW p \in Procs, pc[p] \in {"listed", "tar", "tarred"}, NEW i \in job[p].list
  PROVE  /\ i.key \in Keys /\ i.path \in Paths /\ InUse(i.key) /\ rows[i.key].path = i.path
         /\ <<i.key, BackupFileset[job[p].backup]>> \in filesetLinks
         /\ rows[i.key].onDisk /\ ~InTarballOfBackup(i.key, job[p].backup)
<1>1. pc[p] \in Writing BY DEF Writing
<1>2. job[p] \in Job /\ JobInv(job[p], pc[p]) /\ WorkInv(job[p], pc[p])
  BY <1>1 DEF ExactInv, SafeInv, TypeInv, LocalOK, WriteInv
<1>3. i.key \in Keys /\ i.path \in Paths BY <1>2 DEF Job, Item
<1>4. i.key \in ToWrite(job[p].backup) BY <1>2 DEF WorkInv
<1>. QED BY <1>2, <1>3, <1>4 DEF JobInv, ToWrite, ItemsNotInBackup

\* Nothing but the write itself changes what it has read from the tables.
LEMMA WorkInvIs ==
  ASSUME NEW p \in Procs, UNCHANGED <<rows, filesetLinks, tarballLinks, tarballs>>,
         CarrierBackup[job'[p].carrier] = job'[p].backup,
         pc'[p] # "prepared" =>
           job'[p].deletes = DeleteList(BackupFileset[job'[p].backup], job'[p].backup),
         \A i, l \in job'[p].list : i.path = l.path => i = l,
         pc'[p] \in {"listed", "tar", "tarred"} =>
           {i.key : i \in job'[p].list} = ToWrite(job'[p].backup),
         pc'[p] \in {"tar", "tarred"} =>
           FileInv(job'[p], pc'[p], media'[job'[p].carrier][job'[p].idx])
  PROVE  (WorkInv(job[p], pc[p]))'
<1>1. ASSUME NEW b
      PROVE  /\ ToWrite(b)' = ToWrite(b)
             /\ DeleteList(BackupFileset[b], b)' = DeleteList(BackupFileset[b], b)
  BY DEF ToWrite, ItemsNotInBackup, DeleteList, InTarballOfBackup, InUse
<1>. QED BY <1>1 DEF WorkInv

LEMMA WorkNext ==
  ASSUME OneCommand, ExactInv, Next, NEW p \in Procs, pc'[p] \in Writing
  PROVE  (WorkInv(job[p], pc[p]))'
<1>. USE DEF Writing
<1>0. /\ TypeInv /\ TypeInv' /\ SafeInv
      /\ \A q \in Procs : q = p
      /\ pc[p] \in Writing => job[p] \in Job /\ JobInv(job[p], pc[p]) /\ WorkInv(job[p], pc[p])
      /\ job \in [Procs -> Job \cup {None}] /\ pc \in [Procs -> {"idle"} \cup Scanning \cup Writing]
  <2>1. TypeInv' BY TypeInvNext DEF ExactInv, SafeInv
  <2>. QED BY <2>1 DEF OneCommand, ExactInv, SafeInv, TypeInv, TypeOK, LocalOK, WriteInv
<1>1. CASE UNCHANGED <<rows, filesetLinks, tarballLinks, tarballs, media, pc, job>>
  <2>1. pc'[p] = pc[p] /\ job'[p] = job[p] /\ media' = media BY <1>1
  <2>2. WorkInv(job[p], pc[p]) BY <1>0, <2>1
  <2>. QED BY <1>1, <2>1, <2>2, WorkInvIs DEF WorkInv
<1>2. CASE Environment
  <2>1. ASSUME NEW c \in Carriers, AddCarrier(c) \/ RemoveCarrier(c) PROVE FALSE
    BY <1>0, <2>1 DEF AddCarrier, RemoveCarrier
  <2>. QED BY <1>1, <1>2, <2>1 DEF Environment, Change, Delete, Reappear, database
<1>3. ASSUME Update(p) \/ Die(p) \/ WriteRefused(p) \/ TarFailed(p) \/ WriteUpdateDb(p) PROVE FALSE
  <2>1. pc[p] \notin Writing => pc'[p] \notin Writing
    BY <1>0, <1>3 DEF Update, ScanStart, ScanSkip, ScanItem, Scanned, RemoveMissingFiles,
         RemoveMissingSymlinks, Die, WriteRefused, TarFailed, WriteUpdateDb, Idle, Tarred
  <2>2. pc[p] \in Writing => pc'[p] \notin Writing
    BY <1>0, <1>3 DEF Update, ScanStart, ScanSkip, ScanItem, Scanned, RemoveMissingFiles,
         RemoveMissingSymlinks, Die, WriteRefused, TarFailed, WriteUpdateDb, Idle, Tarred
  <2>. QED BY <2>1, <2>2
<1>4. ASSUME NEW b \in Backups, WritePrepare(p, b) PROVE (WorkInv(job[p], pc[p]))'
  <2>1. PICK c \in Carriers, n \in 0 .. MaxWrites - 1 :
          /\ PickedCarrier(b, c)
          /\ job' = [job EXCEPT ![p] =
                    [backup |-> b, carrier |-> c, idx |-> n, deletes |-> {},
                     list |-> {}, todo |-> {}, grew |-> FALSE, full |-> FALSE]]
    BY <1>4 DEF WritePrepare
  <2>2. job'[p] = [backup |-> b, carrier |-> c, idx |-> n, deletes |-> {},
                   list |-> {}, todo |-> {}, grew |-> FALSE, full |-> FALSE]
    BY <1>0, <2>1
  <2>3. pc'[p] = "prepared" BY <1>0, <1>4 DEF WritePrepare
  <2>4. CarrierBackup[c] = b BY <2>1 DEF PickedCarrier
  <2>. QED BY <2>2, <2>3, <2>4 DEF WorkInv
<1>5. CASE WriteDeleteList(p)
  <2>1. pc[p] = "prepared" /\ pc'[p] = "deletes" /\ UNCHANGED <<database, media>>
    BY <1>0, <1>5 DEF WriteDeleteList
  <2>2. /\ job'[p].backup = job[p].backup /\ job'[p].carrier = job[p].carrier
        /\ job'[p].list = job[p].list
        /\ job'[p].deletes = DeleteList(BackupFileset[job[p].backup], job[p].backup)
    BY <1>0, <1>5, <2>1 DEF WriteDeleteList, Job
  <2>3. WorkInv(job[p], pc[p]) BY <1>0, <2>1
  <2>. QED BY <2>1, <2>2, <2>3, WorkInvIs DEF WorkInv, database
<1>6. CASE WriteFileList(p)
  <2>. DEFINE b == job[p].backup
              list == {[key |-> k, path |-> rows[k].path, seen |-> disk[rows[k].path]]
                         : k \in ToWrite(job[p].backup)}
  <2>1. pc[p] = "deletes" /\ pc'[p] = "listed" /\ UNCHANGED <<database, media>>
    BY <1>0, <1>6 DEF WriteFileList
  <2>2. job'[p] = [job[p] EXCEPT !.list = list, !.todo = list] BY <1>0, <1>6 DEF WriteFileList
  <2>3. /\ job'[p].backup = b /\ job'[p].carrier = job[p].carrier
        /\ job'[p].deletes = job[p].deletes /\ job'[p].list = list
    <3>1. \A S : /\ [job[p] EXCEPT !.list = S, !.todo = S].list = S
                 /\ [job[p] EXCEPT !.list = S, !.todo = S].backup = b
                 /\ [job[p] EXCEPT !.list = S, !.todo = S].carrier = job[p].carrier
                 /\ [job[p] EXCEPT !.list = S, !.todo = S].deletes = job[p].deletes
      BY <1>0, <2>1 DEF Job
    <3>. QED BY <2>2, <3>1
  <2>4. \A i, l \in list : i.path = l.path => i = l
    <3>1. ASSUME NEW j \in ToWrite(b), NEW k \in ToWrite(b), rows[j].path = rows[k].path PROVE j = k
      BY <1>0, <3>1 DEF ToWrite, ItemsNotInBackup, SafeInv, TableInv, OneRecordOnDisk
    <3>. QED BY <3>1
  <2>5. {i.key : i \in list} = ToWrite(b)
    <3>1. ASSUME NEW k \in ToWrite(b) PROVE \E i \in list : i.key = k
      <4>1. [key |-> k, path |-> rows[k].path, seen |-> disk[rows[k].path]] \in list BY <3>1
      <4>. QED BY <4>1
    <3>2. \A i \in list : i.key \in ToWrite(b) OBVIOUS
    <3>. QED BY <3>1, <3>2
  <2>6. WorkInv(job[p], pc[p]) BY <1>0, <2>1
  <2>. HIDE DEF list
  <2>. QED BY <2>1, <2>3, <2>4, <2>5, <2>6, WorkInvIs DEF WorkInv, database
<1>7. CASE TarOpen(p)
  <2>1. /\ pc[p] = "listed" /\ pc'[p] = "tar" /\ job' = job /\ UNCHANGED database
        /\ job[p].carrier \in Carriers /\ job[p].idx \in 0 .. MaxWrites
    <3>1. pc[p] = "listed" /\ pc'[p] = "tar" /\ job' = job /\ UNCHANGED database
      BY <1>0, <1>7 DEF TarOpen
    <3>. QED BY <1>0, <3>1 DEF Job
  <2>2. media'[job[p].carrier][job[p].idx] = [EmptyTar EXCEPT !.deletes = job[p].deletes]
    BY <1>0, <1>7, <2>1 DEF TarOpen, TypeInv, TypeOK
  <2>3. /\ media'[job[p].carrier][job[p].idx].deletes = job[p].deletes
        /\ media'[job[p].carrier][job[p].idx].items = {}
        /\ media'[job[p].carrier][job[p].idx].cut = NoPath
    BY <2>2 DEF EmptyTar
  <2>4. FileInv(job[p], "tar", media'[job[p].carrier][job[p].idx])
    BY <2>3 DEF FileInv, OneVersion
  <2>5. WorkInv(job[p], pc[p]) BY <1>0, <2>1
  <2>. QED BY <2>1, <2>4, <2>5, WorkInvIs DEF WorkInv, database
<1>8. CASE TarItem(p)
  <2>. DEFINE c == job[p].carrier
              n == job[p].idx
  <2>1. /\ pc[p] = "tar" /\ pc'[p] = "tar" /\ UNCHANGED database
        /\ c \in Carriers /\ n \in 0 .. MaxWrites /\ media[c][n] \in TarFile
    <3>1. pc[p] = "tar" /\ pc'[p] = "tar" /\ UNCHANGED database BY <1>0, <1>8 DEF TarItem
    <3>2. c \in Carriers /\ n \in 0 .. MaxWrites BY <1>0, <3>1 DEF Job
    <3>3. media \in [Carriers -> [0 .. MaxWrites -> TarFile]] BY <1>0 DEF TypeInv, TypeOK
    <3>4. media[c][n] \in TarFile BY <3>2, <3>3
    <3>. QED BY <3>1, <3>2, <3>4
  <2>2. PICK i \in job[p].todo :
          /\ media' = [media EXCEPT ![job[p].carrier][job[p].idx].items =
                         @ \cup {<<i.path, disk[i.path]>>}]
          /\ job' = [job EXCEPT ![p].todo = @ \ {i}, ![p].grew = @ \/ Grows(i)]
    BY <1>8 DEF TarItem
  <2>3. job'[p] = [job[p] EXCEPT !.todo = @ \ {i}, !.grew = @ \/ Grows(i)] BY <1>0, <2>2
  <2>4. /\ job'[p].backup = job[p].backup /\ job'[p].carrier = c /\ job'[p].idx = n
        /\ job'[p].deletes = job[p].deletes /\ job'[p].list = job[p].list
        /\ job'[p].todo = job[p].todo \ {i}
    BY <1>0, <2>1, <2>3 DEF Job
  <2>5. /\ media'[c][n].items = media[c][n].items \cup {<<i.path, disk[i.path]>>}
        /\ media'[c][n].deletes = media[c][n].deletes /\ media'[c][n].cut = media[c][n].cut
    BY <1>0, <2>1, <2>2 DEF TypeInv, TypeOK, TarFile
  <2>6. /\ job[p].todo \subseteq job[p].list
        /\ \A l, m \in job[p].list : l.path = m.path => l = m
        /\ \A x \in media[c][n].items : \E l \in job[p].list \ job[p].todo : l.path = x[1]
        /\ OneVersion(media[c][n]) /\ media[c][n].cut = NoPath
        /\ media[c][n].deletes = job[p].deletes
    BY <1>0, <2>1 DEF JobInv, WorkInv, FileInv
  <2>7. \A x \in media[c][n].items : x[1] # i.path BY <2>2, <2>6
  <2>8. OneVersion(media'[c][n])
    <3>1. ASSUME NEW x \in media'[c][n].items, NEW y \in media'[c][n].items, x[1] = y[1]
          PROVE  x = y
      <4>1. CASE x \in media[c][n].items /\ y \in media[c][n].items
        BY <2>6, <3>1, <4>1 DEF OneVersion
      <4>. DEFINE new == <<i.path, disk[i.path]>>
      <4>2. new[1] = i.path OBVIOUS
      <4>3. x \in media[c][n].items \/ x = new BY <2>5
      <4>4. y \in media[c][n].items \/ y = new BY <2>5
      <4>. HIDE DEF new
      <4>. QED BY <2>7, <3>1, <4>1, <4>2, <4>3, <4>4
    <3>. QED BY <3>1 DEF OneVersion
  <2>9. \A x \in media'[c][n].items : \E l \in job'[p].list \ job'[p].todo : l.path = x[1]
    <3>1. ASSUME NEW x \in media'[c][n].items
          PROVE  \E l \in job[p].list \ (job[p].todo \ {i}) : l.path = x[1]
      <4>1. CASE x \in media[c][n].items BY <2>6, <4>1
      <4>2. CASE x = <<i.path, disk[i.path]>> BY <2>2, <2>6, <4>2
      <4>. QED BY <2>5, <3>1, <4>1, <4>2
    <3>. QED BY <2>4, <3>1
  <2>10. FileInv(job'[p], "tar", media'[c][n]) BY <2>4, <2>5, <2>6, <2>8, <2>9 DEF FileInv
  <2>11. WorkInv(job[p], pc[p]) BY <1>0, <2>1
  <2>. QED BY <2>1, <2>4, <2>10, <2>11, WorkInvIs DEF WorkInv, database
<1>9. CASE TarFull(p)
  <2>. DEFINE c == job[p].carrier
              n == job[p].idx
  <2>1. /\ pc[p] = "tar" /\ pc'[p] = "tarred" /\ UNCHANGED database
        /\ c \in Carriers /\ n \in 0 .. MaxWrites /\ media[c][n] \in TarFile
    <3>1. pc[p] = "tar" /\ pc'[p] = "tarred" /\ UNCHANGED database BY <1>0, <1>9 DEF TarFull
    <3>2. c \in Carriers /\ n \in 0 .. MaxWrites BY <1>0, <3>1 DEF Job
    <3>3. media \in [Carriers -> [0 .. MaxWrites -> TarFile]] BY <1>0 DEF TypeInv, TypeOK
    <3>4. media[c][n] \in TarFile BY <3>2, <3>3
    <3>. QED BY <3>1, <3>2, <3>4
  <2>2. media[c][n].cut = NoPath BY <1>0, <2>1 DEF WorkInv, FileInv
  <2>3. /\ job'[p].backup = job[p].backup /\ job'[p].carrier = c /\ job'[p].idx = n
        /\ job'[p].deletes = job[p].deletes /\ job'[p].list = job[p].list
        /\ job'[p].todo = job[p].todo
        /\ media'[c][n].items = media[c][n].items
        /\ media'[c][n].deletes = media[c][n].deletes
        /\ media'[c][n].cut = NoPath \/ \E i \in job[p].todo : i.path = media'[c][n].cut
    <3>1. CASE job' = [job EXCEPT ![p].full = TRUE] /\ media' = media
      BY <1>0, <2>1, <2>2, <3>1 DEF Job
    <3>2. ASSUME NEW i \in job[p].todo,
                 media' = [media EXCEPT ![job[p].carrier][job[p].idx].cut = i.path],
                 job' = [job EXCEPT ![p].full = TRUE, ![p].grew = @ \/ Grows(i)]
          PROVE  /\ job'[p].backup = job[p].backup /\ job'[p].carrier = c /\ job'[p].idx = n
                 /\ job'[p].deletes = job[p].deletes /\ job'[p].list = job[p].list
                 /\ job'[p].todo = job[p].todo
                 /\ media'[c][n].items = media[c][n].items
                 /\ media'[c][n].deletes = media[c][n].deletes
                 /\ \E l \in job[p].todo : l.path = media'[c][n].cut
      <4>1. job'[p] = [job[p] EXCEPT !.full = TRUE, !.grew = @ \/ Grows(i)] BY <1>0, <3>2
      <4>2. /\ media'[c][n].items = media[c][n].items
            /\ media'[c][n].deletes = media[c][n].deletes /\ media'[c][n].cut = i.path
        BY <1>0, <2>1, <3>2 DEF TypeInv, TypeOK, TarFile
      <4>. QED BY <1>0, <2>1, <4>1, <4>2 DEF Job
    <3>. QED BY <1>9, <3>1, <3>2 DEF TarFull
  <2>4. FileInv(job[p], "tar", media[c][n]) /\ WorkInv(job[p], pc[p]) BY <1>0, <2>1 DEF WorkInv
  <2>5. FileInv(job'[p], "tarred", media'[c][n]) BY <2>3, <2>4 DEF FileInv, OneVersion
  <2>. QED BY <2>1, <2>3, <2>4, <2>5, WorkInvIs DEF WorkInv, database
<1>. QED BY <1>0, <1>2, <1>3, <1>4, <1>5, <1>6, <1>7, <1>8, <1>9 DEF Next, Write

\* What a write records is whole in its file, in the state of the record or a newer one.
LEMMA RecordedItems ==
  ASSUME ExactInv, NEW p \in Procs, Tarred(p), NEW written \in SUBSET job[p].list,
         DetermineWritten(job[p], written)
  PROVE  written \subseteq job[p].list \ job[p].todo
<1>1. pc[p] \in Writing BY DEF Tarred, Writing
<1>2. JobInv(job[p], pc[p]) BY <1>1 DEF ExactInv, SafeInv, WriteInv
<1>3. CASE job[p].full BY <1>2, <1>3 DEF DetermineWritten, JobInv
<1>4. CASE ~job[p].full BY <1>2, <1>4 DEF DetermineWritten, Tarred, JobInv
<1>. QED BY <1>3, <1>4

\* A record in a tarball of the backup is older than the listed one of its path.
LEMMA ListedIsNewer ==
  ASSUME ExactInv, NEW p \in Procs, pc[p] \in {"listed", "tar", "tarred"}, NEW i \in job[p].list,
         NEW k \in Keys, InTarballOfBackup(k, job[p].backup), InUse(k), rows[k].path = i.path
  PROVE  rows[k].version < newest[i.path]
<1>1. /\ i.key \in Keys /\ InUse(i.key) /\ rows[i.key].path = i.path
      /\ rows[i.key].onDisk /\ i.key # k
  BY ListedItems
<1>2. rows[k].version <= rows[i.key].version /\ rows[k].version # rows[i.key].version
  BY <1>1 DEF ExactInv, RecordsInv
<1>3. rows[i.key].version <= newest[i.path]
  BY <1>1 DEF ExactInv, SafeInv, RecordsNotNewer
<1>4. /\ rows[k].version \in Versions /\ rows[i.key].version \in Versions
      /\ newest[i.path] \in Versions
  <2>1. i.path \in Paths BY ListedItems
  <2>. QED BY <1>1, <2>1 DEF ExactInv, SafeInv, TypeInv, TypeOK, RowsOK
<1>. QED BY <1>2, <1>3, <1>4 DEF Versions

\* What a write copies or cuts off has a path of its list.
LEMMA TouchedIsListed ==
  ASSUME ExactInv, NEW p \in Procs, pc[p] \in {"tar", "tarred"}, NEW x \in Paths,
         \/ media[job[p].carrier][job[p].idx].cut = x
         \/ \E v \in Versions : <<x, v>> \in media[job[p].carrier][job[p].idx].items
  PROVE  \E i \in job[p].list : i.path = x
<1>. DEFINE file == media[job[p].carrier][job[p].idx]
<1>1. pc[p] \in Writing BY DEF Writing
<1>2. JobInv(job[p], pc[p]) /\ WorkInv(job[p], pc[p])
  BY <1>1 DEF ExactInv, SafeInv, WriteInv
<1>3. FileInv(job[p], pc[p], file) /\ job[p].todo \subseteq job[p].list
  BY <1>2 DEF WorkInv, JobInv
<1>4. CASE file.cut = x
  <2>1. file.cut # NoPath BY <1>4, ConstantsAssumption DEF NoPath
  <2>. QED BY <1>3, <1>4, <2>1 DEF FileInv
<1>5. ASSUME NEW v \in Versions, <<x, v>> \in file.items PROVE \E i \in job[p].list : i.path = x
  <2>1. <<x, v>>[1] = x OBVIOUS
  <2>. QED BY <1>3, <1>5, <2>1 DEF FileInv
<1>. QED BY <1>4, <1>5

\* The tarball that is recorded follows those before it, and replaces only what is
\* not the newest state of its path.
LEMMA TarInvUpdateDb ==
  ASSUME OneCommand, ExactInv, NEW p \in Procs, WriteUpdateDb(p), SafeInv', CopiesNotNewer'
  PROVE  TarInv'
<1>. DEFINE b == job[p].backup
            t == [carrier |-> job[p].carrier, idx |-> job[p].idx, written |-> writes + 1]
<1>1. /\ pc[p] \in {"tar", "tarred"} /\ pc[p] \in Writing /\ job[p] \in Job
      /\ JobInv(job[p], pc[p]) /\ WorkInv(job[p], pc[p])
      /\ UNCHANGED <<rows, filesetLinks, media, newest>> /\ writes' = writes + 1
  <2>1. pc[p] \in {"tar", "tarred"} /\ pc[p] \in Writing
    BY DEF WriteUpdateDb, Tarred, Writing
  <2>. QED BY <2>1 DEF WriteUpdateDb, environment, ExactInv, SafeInv, TypeInv, LocalOK, WriteInv
<1>2. PICK written \in SUBSET job[p].list :
        /\ DetermineWritten(job[p], written)
        /\ tarballs' = tarballs \cup {t}
        /\ tarballLinks' = tarballLinks \cup Links(written, t)
  BY DEF WriteUpdateDb
<1>3. written \subseteq job[p].list \ job[p].todo BY <1>2, RecordedItems DEF WriteUpdateDb
<1>4. /\ t.carrier = job[p].carrier /\ t.idx = job[p].idx /\ t.written = writes + 1
      /\ BackupOf(t) = b /\ t \notin tarballs /\ FileOf(t) = media[job[p].carrier][job[p].idx]
  BY <1>1 DEF JobInv, WorkInv, BackupOf, FileOf
<1>5. /\ \A u \in tarballs : u \in Tarball /\ u.written \in Int /\ u.written <= writes
      /\ writes \in Int
      /\ t \in tarballs' /\ \A u \in tarballs' : u \in tarballs \/ u = t
  BY <1>2 DEF ExactInv, SafeInv, TypeInv, TypeOK, Tarball, TarInv, TimesInv
<1>6. \A k \in Keys, u \in tarballs' :
        Linked(k, u)' => \/ u \in tarballs /\ Linked(k, u)
                         \/ u = t /\ \E i \in written : i.key = k
  <2>1. ASSUME NEW k \in Keys, NEW u \in tarballs', <<k, u>> \in tarballLinks'
        PROVE  \/ u \in tarballs /\ <<k, u>> \in tarballLinks
               \/ u = t /\ \E i \in written : i.key = k
    <3>1. CASE <<k, u>> \in tarballLinks
      <4>1. <<k, u>>[2] = u OBVIOUS
      <4>. QED BY <3>1, <4>1 DEF ExactInv, SafeInv, TableInv, LinksResolve
    <3>2. CASE <<k, u>> \in Links(written, t) BY <3>2 DEF Links
    <3>. QED BY <1>2, <2>1, <3>1, <3>2
  <2>. QED BY <2>1 DEF Linked
<1>7. \A i \in job[p].list :
        /\ i.key \in Keys /\ i.path \in Paths /\ InUse(i.key) /\ rows[i.key].path = i.path
        /\ <<i.key, BackupFileset[b]>> \in filesetLinks
  BY <1>1, ListedItems
<1>. HIDE DEF t
<1>8. TimesInv'
  <2>1. \A u \in tarballs' : u.written <= writes' BY <1>1, <1>4, <1>5
  <2>2. ASSUME NEW u \in tarballs', NEW v \in tarballs', u.written = v.written PROVE u = v
    <3>1. CASE u \in tarballs /\ v \in tarballs BY <2>2, <3>1 DEF ExactInv, TarInv, TimesInv
    <3>2. CASE u = t \/ v = t BY <1>4, <1>5, <2>2, <3>2
    <3>. QED BY <1>5, <3>1, <3>2
  <2>. QED BY <2>1, <2>2 DEF TimesInv
<1>9. MembersInv'
  <2>1. ASSUME NEW k \in Keys, NEW u \in tarballs', Linked(k, u)'
        PROVE  <<k, BackupFileset[BackupOf(u)]>> \in filesetLinks
    <3>1. CASE u \in tarballs /\ Linked(k, u) BY <3>1 DEF ExactInv, TarInv, MembersInv
    <3>2. CASE u = t /\ \E i \in written : i.key = k BY <1>4, <1>7, <3>2
    <3>. QED BY <1>6, <2>1, <3>1, <3>2
  <2>. QED BY <1>1, <2>1 DEF MembersInv, BackupOf
<1>10. WholeInv'
  <2>1. FileInv(job[p], pc[p], FileOf(t)) BY <1>1, <1>4 DEF WorkInv
  <2>2. \A i, l \in job[p].list : i.path = l.path => i = l BY <1>1 DEF WorkInv
  <2>3. ASSUME NEW u \in tarballs'
        PROVE  OneVersion(FileOf(u)) /\ \A k \in Keys : Linked(k, u)' => FileOf(u).cut # rows[k].path
    <3>1. CASE u \in tarballs
      BY <1>4, <1>6, <3>1 DEF ExactInv, TarInv, WholeInv
    <3>2. CASE u = t
      <4>1. ASSUME NEW i \in written PROVE FileOf(t).cut # rows[i.key].path
        <5>1. i \in job[p].list /\ i \notin job[p].todo /\ rows[i.key].path = i.path
          BY <1>3, <1>7
        <5>2. i.path # NoPath
          <6>1. i.path \in Paths BY <1>7, <5>1
          <6>. QED BY <6>1, ConstantsAssumption DEF NoPath
        <5>3. job[p].todo \subseteq job[p].list BY <1>1 DEF JobInv
        <5>. QED BY <2>1, <2>2, <5>1, <5>2, <5>3 DEF FileInv
      <4>. QED BY <1>4, <1>6, <2>1, <3>2, <4>1 DEF FileInv
    <3>. QED BY <1>5, <3>1, <3>2
  <2>4. \A u : FileOf(u)' = FileOf(u) BY <1>1 DEF FileOf
  <2>. QED BY <1>1, <2>3, <2>4 DEF WholeInv, OneVersion
<1>11. ReplacedInv'
  <2>1. ASSUME NEW v \in tarballs', NEW u \in tarballs', NEW k \in Keys,
               BackupOf(v) = BackupOf(u), v.written < u.written,
               Linked(k, v)', Touches(u, rows[k].path)
        PROVE  rows[k].version < newest[rows[k].path]
    <3>1. v \in tarballs /\ v # t BY <1>4, <1>5, <2>1
    <3>2. Linked(k, v) /\ InUse(k)
      BY <1>6, <2>1, <3>1 DEF Linked, ExactInv, SafeInv, TableInv, LinksResolve
    <3>3. CASE u \in tarballs
      BY <2>1, <3>1, <3>2, <3>3 DEF ExactInv, TarInv, ReplacedInv
    <3>4. CASE u = t
      <4>1. rows[k].path \in Paths BY <3>2 DEF ExactInv, SafeInv, TypeInv, RowsOK
      <4>2. PICK i \in job[p].list : i.path = rows[k].path
        <5>1. \/ media[job[p].carrier][job[p].idx].cut = rows[k].path
              \/ \E w \in Versions : <<rows[k].path, w>> \in media[job[p].carrier][job[p].idx].items
          BY <1>4, <2>1, <3>4 DEF Touches
        <5>. QED BY <1>1, <4>1, <5>1, TouchedIsListed
      <4>3. InTarballOfBackup(k, b)
        BY <1>4, <2>1, <3>1, <3>2, <3>4 DEF InTarballOfBackup, Linked, BackupOf
      <4>. QED BY <1>1, <3>2, <4>2, <4>3, ListedIsNewer
    <3>. QED BY <1>5, <3>3, <3>4
  <2>2. \A u, x : Touches(u, x)' = Touches(u, x) BY <1>1 DEF Touches, FileOf
  <2>. QED BY <1>1, <2>1, <2>2 DEF ReplacedInv, BackupOf
<1>. QED BY <1>8, <1>9, <1>10, <1>11 DEF TarInv

LEMMA ExactInvInit == Init => ExactInv
<1>. SUFFICES ASSUME Init PROVE ExactInv OBVIOUS
<1>1. RecordsInv BY DEF Init, RecordsInv, InUse
<1>2. CopiesNotNewer BY DEF Init, CopiesNotNewer, EmptyTar
<1>3. TarInv BY <1>2 DEF Init, TarInv, TimesInv, MembersInv, WholeInv, ReplacedInv
<1>. QED BY <1>1, <1>3, SafeInvInit DEF Init, ExactInv, Writing

LEMMA ExactInvNext ==
  ASSUME OneCommand, NoGrowth
  PROVE  ExactInv /\ [Next]_vars => ExactInv'
<1>1. ASSUME ExactInv, Next PROVE ExactInv'
  <2>1. SafeInv' /\ TypeInv' BY <1>1, SafeInvNext DEF ExactInv, SafeInv
  <2>2. RecordsInv' BY <1>1, RecordsInvNext DEF ExactInv
  <2>3. CopiesNotNewer' BY <1>1, CopiesNext DEF ExactInv, TarInv
  <2>4. TarInv'
    <3>1. CASE \A p \in Procs : ~WriteUpdateDb(p)
      <4>1. Kept BY <1>1, <3>1, KeptUntilRecorded DEF ExactInv
      <4>. QED BY <1>1, <2>1, <2>3, <4>1, TarInvKept DEF ExactInv
    <3>2. CASE \E p \in Procs : WriteUpdateDb(p) BY <1>1, <2>1, <2>3, <3>2, TarInvUpdateDb
    <3>. QED BY <3>1, <3>2
  <2>5. \A p \in Procs : pc'[p] \in Writing => (WorkInv(job[p], pc[p]))' BY <1>1, WorkNext
  <2>. QED BY <2>1, <2>2, <2>4, <2>5 DEF ExactInv
<1>2. ASSUME ExactInv, UNCHANGED vars PROVE ExactInv'
  <2>1. SafeInv' /\ TypeInv' BY <1>2, SafeInvNext DEF ExactInv, SafeInv
  <2>2. UNCHANGED <<disk, newest, rows, filesetLinks, tarballLinks, tarballs, carrier, writes,
                    media, pc, scan, job>>
    BY <1>2 DEF vars, environment, database
  <2>3. RecordsInv' BY <1>2, <2>2 DEF ExactInv, RecordsInv, InUse
  <2>4. CopiesNotNewer' BY <1>2, <2>2 DEF ExactInv, TarInv, CopiesNotNewer
  <2>5. Kept
    <3>1. newest \in [Paths -> Versions] BY <1>2 DEF ExactInv, SafeInv, TypeInv, TypeOK
    <3>. QED BY <2>2, <3>1 DEF Kept, Versions
  <2>6. TarInv' BY <1>2, <2>1, <2>4, <2>5, TarInvKept DEF ExactInv
  <2>7. ASSUME NEW p \in Procs, pc'[p] \in Writing PROVE (WorkInv(job[p], pc[p]))'
    <3>1. WorkInv(job[p], pc[p]) BY <1>2, <2>2, <2>7 DEF ExactInv
    <3>2. job'[p] = job[p] /\ pc'[p] = pc[p] /\ media' = media BY <2>2
    <3>. QED BY <2>2, <3>1, <3>2, WorkInvIs DEF WorkInv
  <2>. QED BY <2>1, <2>3, <2>6, <2>7 DEF ExactInv
<1>. QED BY <1>1, <1>2

\* A restore ends with the last tarball: what it deletes is gone, and a path it does
\* not delete is in the state of the last tarball that touches it.
LEMMA RestoredIs ==
  ASSUME TimesInv', NEW b \in Backups, NEW x \in Paths, NEW t, NEW u, NEW v \in Versions,
         tarballs' \subseteq Tarball,
         IsLast(t, TarballsOf(b)'), x \notin FileOf(t).deletes',
         u \in TarballsOf(b)', Touches(u, x)',
         \A w \in TarballsOf(b)' : Touches(w, x)' => w.written <= u.written,
         FileOf(u).cut' # x,
         \A w \in Versions : <<x, w>> \in FileOf(u).items' <=> w = v
  PROVE  Restored(b, x)' = v
<1>. DEFINE touching == {w \in TarballsOf(b)' : Touches(w, x)'}
<1>1. \A w \in TarballsOf(b)' : w \in tarballs' /\ w.written \in Int
  BY DEF TarballsOf, Tarball
<1>2. \A w : IsLast(w, TarballsOf(b)') => w = t
  BY <1>1 DEF IsLast, TimesInv
<1>3. \A w : IsLast(w, touching) <=> w = u
  BY <1>1 DEF IsLast, TimesInv
<1>4. (CHOOSE w \in touching : IsLast(w, touching)) = u BY <1>3 DEF IsLast
<1>5. touching # {} /\ touching = {w \in TarballsOf(b) : Touches(w, x)}' OBVIOUS
<1>. HIDE DEF touching
<1>6. (CHOOSE w \in Versions : <<x, w>> \in FileOf(u).items') = v OBVIOUS
<1>7. Extracted(b, x)' = v BY <1>4, <1>5, <1>6 DEF Extracted
<1>. QED BY <1>2, <1>7 DEF Restored

\* The step that records a tarball which did not run full, after a scan.
LEMMA RestoreStep ==
  ASSUME OneCommand, NoGrowth, ExactInv, ExactInv', NEW p \in Procs, WriteUpdateDb(p),
         NEW b \in Backups, job[p].backup = b, ~job[p].full, ScanCurrent(BackupFileset[b]),
         NEW x \in FilesetPaths[BackupFileset[b]]
  PROVE  IF BackedUpType(x) THEN Restored(b, x)' = disk[x]
         ELSE (\E k \in Keys : rows[k].path = x /\ InTarballOfBackup(k, b))
                => Restored(b, x)' = Absent
<1>. DEFINE f == BackupFileset[b]
            file == media[job[p].carrier][job[p].idx]
<1>0. PICK t : t = [carrier |-> job[p].carrier, idx |-> job[p].idx, written |-> writes + 1]
  OBVIOUS
<1>1. /\ pc[p] \in {"tar", "tarred"} /\ pc[p] \in Writing /\ job[p] \in Job
      /\ JobInv(job[p], pc[p]) /\ WorkInv(job[p], pc[p])
      /\ UNCHANGED <<rows, filesetLinks, media, newest, disk>> /\ writes' = writes + 1
  <2>1. pc[p] \in {"tar", "tarred"} /\ pc[p] \in Writing
    BY DEF WriteUpdateDb, Tarred, Writing
  <2>. QED BY <2>1 DEF WriteUpdateDb, environment, ExactInv, SafeInv, TypeInv, LocalOK, WriteInv
<1>2. pc[p] = "tar" /\ job[p].todo = {}
  BY <1>1 DEF JobInv, WriteUpdateDb, Tarred
<1>3. PICK written \in SUBSET job[p].list :
        /\ DetermineWritten(job[p], written)
        /\ tarballs' = tarballs \cup {t}
        /\ tarballLinks' = tarballLinks \cup Links(written, t)
  BY <1>0 DEF WriteUpdateDb
<1>4. /\ t.written = writes + 1 /\ BackupOf(t) = b /\ FileOf(t) = file /\ FileOf(t)' = file
      /\ t.carrier = job[p].carrier /\ t.idx = job[p].idx
  BY <1>0, <1>1 DEF WorkInv, BackupOf, FileOf
<1>5. x \in Paths /\ f \in Filesets BY ConstantsAssumption
<1>6. /\ FileInv(job[p], "tar", file)
      /\ job[p].deletes = DeleteList(f, b)
      /\ {i.key : i \in job[p].list} = ToWrite(b)
  BY <1>1, <1>2 DEF WorkInv
<1>7. file.deletes = DeleteList(f, b) /\ file.cut = NoPath BY <1>6 DEF FileInv
<1>8. /\ \A u \in tarballs : u \in Tarball /\ u.written \in Int /\ u.written <= writes
      /\ writes \in Int /\ tarballs' \subseteq Tarball
      /\ \A u \in tarballs' : u \in tarballs \/ u = t
  BY <1>3 DEF ExactInv, SafeInv, TypeInv, TypeOK, Tarball, TarInv, TimesInv
<1>9. t \in TarballsOf(b)' /\ IsLast(t, TarballsOf(b)')
  BY <1>3, <1>4, <1>8 DEF TarballsOf, IsLast, BackupOf
<1>10. \A u : FileOf(u)' = FileOf(u) BY <1>1 DEF FileOf
<1>11. ASSUME ~BackedUpType(x), NEW k \in Keys, rows[k].path = x, InTarballOfBackup(k, b)
       PROVE  Restored(b, x)' = Absent
  <2>1. PICK u \in tarballs : <<k, u>> \in tarballLinks /\ BackupOf(u) = b
    BY <1>11 DEF InTarballOfBackup, BackupOf
  <2>2. InUse(k) /\ <<k, f>> \in filesetLinks
    <3>1. <<k, u>>[1] = k OBVIOUS
    <3>2. InUse(k) BY <2>1, <3>1 DEF ExactInv, SafeInv, TableInv, LinksResolve
    <3>. QED BY <2>1, <3>2 DEF ExactInv, TarInv, MembersInv, Linked
  <2>3. \A j \in Keys : rows[j].path = x => ~rows[j].onDisk BY <1>11 DEF ScanCurrent
  <2>4. x \in DeleteList(f, b) BY <1>11, <2>2, <2>3 DEF DeleteList
  <2>. QED BY <1>4, <1>7, <1>9, <2>4 DEF Restored
<1>12. ASSUME BackedUpType(x) PROVE Restored(b, x)' = disk[x]
  <2>1. PICK k \in Keys : /\ rows[k].path = x /\ rows[k].version = disk[x]
                          /\ rows[k].onDisk /\ <<k, f>> \in filesetLinks
    BY <1>12 DEF ScanCurrent, FindMatch
  <2>2. disk[x] = newest[x] /\ newest[x] \in Versions /\ InUse(k)
    <3>1. disk[x] = newest[x] /\ newest[x] \in Versions
      BY <1>5, <1>12 DEF BackedUpType, ExactInv, SafeInv, RecordsNotNewer, TypeInv, TypeOK
    <3>2. InUse(k) BY <2>1 DEF InUse, FreeRow
    <3>. QED BY <3>1, <3>2
  <2>3. x \notin file.deletes BY <1>7, <2>1 DEF DeleteList
\* k is in the list of the write when it is in no tarball of the backup.
  <2>4. ASSUME NEW i \in job[p].list, i.path = x PROVE i.key = k /\ ~InTarballOfBackup(k, b)
    <3>1. /\ i.key \in Keys /\ rows[i.key].path = i.path /\ rows[i.key].onDisk
          /\ ~InTarballOfBackup(i.key, b)
      BY <1>1, ListedItems
    <3>. QED BY <2>1, <2>4, <3>1 DEF ExactInv, SafeInv, TableInv, OneRecordOnDisk
  <2>5. ASSUME NEW u \in TarballsOf(b)', Touches(u, x)',
               \A w \in TarballsOf(b)' : Touches(w, x)' => w.written <= u.written,
               FileOf(u).cut # x, OneVersion(FileOf(u)),
               NEW v \in Versions, v >= rows[k].version, <<x, v>> \in FileOf(u).items
        PROVE  Restored(b, x)' = disk[x]
    <3>1. u \in Tarball /\ u.carrier \in Carriers /\ u.idx \in 0 .. MaxWrites
      BY <1>8, <2>5 DEF TarballsOf, Tarball
    <3>2. <<x, v>>[1] = x /\ <<x, v>>[2] = v OBVIOUS
    <3>3. v <= newest[x]
      BY <2>5, <3>1, <3>2 DEF ExactInv, TarInv, CopiesNotNewer, FileOf
    <3>4. v = newest[x] BY <2>1, <2>2, <2>5, <3>3 DEF Versions
    <3>5. ASSUME NEW w \in Versions, <<x, w>> \in FileOf(u).items PROVE w = v
      <4>1. <<x, w>>[1] = x /\ <<x, w>>[2] = w OBVIOUS
      <4>2. <<x, w>> = <<x, v>> BY <2>5, <3>2, <3>5, <4>1 DEF OneVersion
      <4>. QED BY <3>2, <4>1, <4>2
    <3>6. \A w \in Versions : <<x, w>> \in FileOf(u).items' <=> w = v BY <1>10, <2>5, <3>5
    <3>7. FileOf(u).cut' # x /\ x \notin FileOf(t).deletes' BY <1>4, <1>10, <2>3, <2>5
    <3>8. TimesInv' BY DEF ExactInv, TarInv
    <3>9. Restored(b, x)' = v BY <1>5, <1>8, <1>9, <2>5, <3>6, <3>7, <3>8, RestoredIs
    <3>. QED BY <2>2, <3>4, <3>9
  <2>6. CASE InTarballOfBackup(k, b)
    <3>1. PICK u \in tarballs : <<k, u>> \in tarballLinks /\ BackupOf(u) = b
      BY <2>6 DEF InTarballOfBackup, BackupOf
    <3>2. PICK v \in Versions : v >= rows[k].version /\ <<x, v>> \in FileOf(u).items
      <4>1. <<k, u>>[1] = k /\ <<k, u>>[2] = u OBVIOUS
      <4>. QED BY <2>1, <3>1, <4>1 DEF ExactInv, SafeInv, TableInv, RecordedIsOnCarrier, FileOf
    <3>3. FileOf(u).cut # x /\ OneVersion(FileOf(u))
      BY <2>1, <3>1 DEF ExactInv, TarInv, WholeInv, Linked
    <3>4. u \in TarballsOf(b)' BY <1>3, <3>1 DEF TarballsOf, BackupOf
    <3>5. Touches(u, x)' BY <1>10, <3>2 DEF Touches
\* No later tarball of the backup touches x.
    <3>6. ASSUME NEW w \in TarballsOf(b)', Touches(w, x)' PROVE w.written <= u.written
      <4>1. w \in tarballs' /\ BackupOf(w) = b /\ w.written \in Int /\ u.written \in Int
        BY <1>8, <3>1, <3>6 DEF TarballsOf, BackupOf, Tarball
      <4>2. Touches(w, x) BY <1>10, <3>6 DEF Touches
      <4>3. CASE w \in tarballs
        <5>1. ~ (u.written < w.written)
          BY <2>1, <2>2, <3>1, <4>1, <4>2, <4>3 DEF ExactInv, TarInv, ReplacedInv, Linked, Versions
        <5>. QED BY <4>1, <5>1
      <4>4. CASE w = t
        <5>1. \/ media[job[p].carrier][job[p].idx].cut = x
              \/ \E y \in Versions : <<x, y>> \in media[job[p].carrier][job[p].idx].items
          BY <1>4, <4>2, <4>4 DEF Touches
        <5>2. PICK i \in job[p].list : i.path = x BY <1>1, <1>5, <5>1, TouchedIsListed
        <5>. QED BY <2>4, <2>6, <5>2
      <4>. QED BY <1>8, <4>1, <4>3, <4>4
    <3>. QED BY <2>5, <3>2, <3>3, <3>4, <3>5, <3>6
  <2>7. CASE ~InTarballOfBackup(k, b)
    <3>1. k \in ToWrite(b) BY <2>1, <2>2, <2>7 DEF ToWrite, ItemsNotInBackup
    <3>2. PICK i \in job[p].list : i.key = k BY <1>6, <3>1
    <3>3. i.path = x /\ OnCarrier(i, job[p].carrier, job[p].idx)
      BY <1>1, <1>2, <2>1, <3>2 DEF JobInv
    <3>4. PICK v \in Versions : v >= rows[k].version /\ <<x, v>> \in FileOf(t).items
      BY <1>4, <3>2, <3>3 DEF OnCarrier
    <3>5. Touches(t, x)' BY <1>10, <3>4 DEF Touches
    <3>6. \A w \in TarballsOf(b)' : w.written <= t.written BY <1>9 DEF IsLast
    <3>7. FileOf(t).cut # x
      <4>1. x # NoPath BY <1>5, ConstantsAssumption DEF NoPath
      <4>. QED BY <1>4, <1>7, <4>1
    <3>8. OneVersion(FileOf(t)) BY <1>4, <1>6 DEF FileInv
    <3>. QED BY <1>9, <2>5, <3>4, <3>5, <3>6, <3>7, <3>8
  <2>. QED BY <2>6, <2>7
<1>. QED BY <1>11, <1>12

\* One command at a time, files that do not grow while they are written and that
\* never go back to an older state: when a write that did not run full is recorded
\* and the database describes the fileset as it is on disk, a restore of the backup
\* gives every path as it is, and nothing that it holds and that is gone from disk.
THEOREM RestoresExactly ==
  ASSUME OneCommand, NoGrowth
  PROVE  Spec => RestoreExact
<1>1. ExactInv /\ [Next]_vars => ExactInv' BY ExactInvNext
<1>2. ASSUME ExactInv, ExactInv', [Next]_vars,
             NEW p \in Procs, NEW b \in Backups, Tarred(p), writes' # writes,
             job[p].backup = b, ~job[p].full, ScanCurrent(BackupFileset[b])
      PROVE  \A x \in FilesetPaths[BackupFileset[b]] :
               IF BackedUpType(x) THEN Restored(b, x)' = disk[x]
               ELSE (\E k \in Keys : rows[k].path = x /\ InTarballOfBackup(k, b))
                      => Restored(b, x)' = Absent
  <2>1. Next BY <1>2 DEF vars, database
  <2>2. ~Environment
    BY <1>2 DEF Environment, Change, Delete, Reappear, AddCarrier, RemoveCarrier, database
  <2>3. \A q \in Procs : ~Update(q)
    BY <1>2 DEF Update, ScanStart, ScanSkip, ScanItem, Scanned, RemoveMissingFiles,
                RemoveMissingSymlinks, RemoveMissing, database
  <2>4. PICK q \in Procs : WriteUpdateDb(q)
    BY <1>2, <2>1, <2>2, <2>3
    DEF Next, Write, WritePrepare, WriteDeleteList, WriteFileList, WriteRefused, TarOpen,
        TarItem, TarFailed, TarFull, Die, database
  <2>5. WriteUpdateDb(p) BY <2>4 DEF OneCommand
  <2>. QED BY <1>2, <2>5, RestoreStep
<1>3. ExactInv /\ ExactInv' /\ [Next]_vars =>
        [\A p \in Procs, b \in Backups :
           /\ Tarred(p) /\ writes' # writes
           /\ job[p].backup = b /\ ~job[p].full /\ ScanCurrent(BackupFileset[b])
           => \A x \in FilesetPaths[BackupFileset[b]] :
                IF BackedUpType(x) THEN Restored(b, x)' = disk[x]
                ELSE (\E k \in Keys : rows[k].path = x /\ InTarballOfBackup(k, b))
                       => Restored(b, x)' = Absent
        ]_vars
  BY <1>2
<1>. QED BY <1>1, <1>3, ExactInvInit, PTL DEF Spec, RestoreExact
=============================================================================
