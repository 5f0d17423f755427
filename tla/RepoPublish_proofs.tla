------------------------- MODULE RepoPublish_proofs -------------------------
(***************************************************************************)
(* Proofs about the package repository, for any uploaders, suites,         *)
(* packages, versions, commits and runs that break off.                    *)
(***************************************************************************)
EXTENDS RepoPublish, TLAPS

-----------------------------------------------------------------------------
(* Types                                                                   *)

LEMMA ServerUploads == Server \in Uploaders
BY DEF Uploaders

LEMMA NothingIsTyped == NoJob \in Job /\ NoUpdate \in RepoUpdate /\ NoIso \in Iso
BY ConstantsAssumption, ServerUploads DEF NoJob, Job, NoUpdate, RepoUpdate, NoIso, Iso, Commits

\* The same run at another step.
LEMMA JobStep ==
  ASSUME TypeOK, NEW u \in Uploaders,
         NEW s \in {"idle", "build", "copy", "copying", "update", "wait", "iso", "publish", "sums",
                   "store"}
  PROVE  [job EXCEPT ![u].step = s] \in [Uploaders -> Job]
<1>1. job[u] \in Job /\ job \in [Uploaders -> Job] BY DEF TypeOK
<1>2. [job[u] EXCEPT !.step = s] \in Job BY <1>1 DEF Job
<1>. QED BY <1>1, <1>2

LEMMA JobEnds ==
  ASSUME TypeOK, NEW u \in Uploaders
  PROVE  [job EXCEPT ![u] = NoJob] \in [Uploaders -> Job]
BY NothingIsTyped DEF TypeOK

LEMMA TypeStart ==
  ASSUME TypeOK, NEW u \in Uploaders, Start(u)
  PROVE  TypeOK'
<1>1. ASSUME NEW v \in Uploaders
      PROVE  job'[v] \in Job
  <2>1. job[v] \in Job BY DEF TypeOK
  <2>2. [job[v] EXCEPT !.undisturbed = FALSE] \in Job BY <2>1 DEF Job
  <2>3. [step |-> "build", commit |-> head, new |-> {}, todo |-> {}, file |-> {},
         undisturbed |-> Undisturbed] \in Job
    <3>1. Undisturbed \in BOOLEAN BY DEF Undisturbed
    <3>. QED BY <3>1 DEF TypeOK, Job
  <2>. QED BY <2>2, <2>3, NothingIsTyped DEF Start
<1>2. job' \in [Uploaders -> Job] BY <1>1 DEF Start
<1>3. manual' \in 0 .. MaxManual BY ConstantsAssumption DEF Start, TypeOK
<1>. QED BY <1>2, <1>3 DEF Start, TypeOK, repository, isos

LEMMA TypeList ==
  ASSUME TypeOK, NEW u \in Uploaders, List(u)
  PROVE  TypeOK'
<1>1. job[u] \in Job /\ job \in [Uploaders -> Job] BY DEF TypeOK
<1>2. New(u) \in SUBSET Upload BY DEF New
<1>3. ASSUME NEW s \in {"iso", "copy"}
      PROVE  [job[u] EXCEPT !.step = s, !.new = New(u), !.todo = New(u)] \in Job
  BY <1>1, <1>2 DEF Job
<1>4. job' \in [Uploaders -> Job] BY <1>1, <1>3 DEF List
<1>. QED BY <1>4 DEF List, TypeOK, repository, isos

LEMMA TypeCopy ==
  ASSUME TypeOK, NEW u \in Uploaders, Copy(u) \/ Copied(u)
  PROVE  TypeOK'
<1>1. job[u] \in Job /\ job \in [Uploaders -> Job] /\ inbox \in [Suites -> SUBSET Deb] BY DEF TypeOK
<1>2. CASE Copy(u)
  <2>1. PICK l \in job[u].todo :
          /\ inbox' = [inbox EXCEPT ![l[1]] =
               {d \in @ : ~At(d, PathOf(u, l))} \cup
               {[package |-> l[2], commit |-> job[u].commit, whole |-> FALSE]}]
          /\ job' = [job EXCEPT ![u].step = "copying", ![u].todo = @ \ {l}, ![u].file = {l}]
    BY <1>2 DEF Copy
  <2>2. l \in Upload /\ l[1] \in Suites /\ l[2] \in Packages /\ job[u].commit \in Commits
    BY <1>1 DEF Job, Upload
  <2>3. [package |-> l[2], commit |-> job[u].commit, whole |-> FALSE] \in Deb BY <2>2 DEF Deb
  <2>4. inbox' \in [Suites -> SUBSET Deb] BY <1>1, <2>1, <2>2, <2>3
  <2>5. [job[u] EXCEPT !.step = "copying", !.todo = @ \ {l}, !.file = {l}] \in Job
    BY <1>1, <2>2 DEF Job
  <2>6. job' \in [Uploaders -> Job] BY <1>1, <2>1, <2>5
  <2>. QED BY <1>2, <2>4, <2>6 DEF Copy, TypeOK, isos
<1>3. CASE Copied(u)
  <2>1. PICK l \in job[u].file :
          inbox' = [inbox EXCEPT ![l[1]] =
            {IF At(d, PathOf(u, l)) THEN [d EXCEPT !.commit = job[u].commit, !.whole = TRUE] ELSE d
               : d \in @}]
    BY <1>3 DEF Copied
  <2>2. l \in Upload /\ l[1] \in Suites /\ job[u].commit \in Commits BY <1>1 DEF Job, Upload
  <2>3. \A d \in inbox[l[1]] : d \in Deb /\ [d EXCEPT !.commit = job[u].commit, !.whole = TRUE] \in Deb
    BY <1>1, <2>2 DEF Deb
  <2>4. inbox' \in [Suites -> SUBSET Deb] BY <1>1, <2>1, <2>2, <2>3
  <2>5. \A s \in {"update", "copy"} : [job[u] EXCEPT !.step = s, !.file = {}] \in Job
    BY <1>1 DEF Job
  <2>6. job' \in [Uploaders -> Job] BY <1>1, <1>3, <2>5 DEF Copied
  <2>. QED BY <1>3, <2>4, <2>6 DEF Copied, TypeOK, isos
<1>. QED BY <1>2, <1>3

LEMMA TypeServer ==
  ASSUME TypeOK, CopyIso \/ PublishIso \/ PublishSums \/ IsoDiffers \/ Store
  PROVE  TypeOK'
<1>1. job[Server] \in Job BY ServerUploads DEF TypeOK
<1>2. job[Server].commit \in Commits BY <1>1 DEF Job
<1>3. CASE CopyIso
  <2>1. isoUpload' \in Iso BY <1>2, <1>3 DEF CopyIso, Iso, Commits
  <2>2. broken' \in 0 .. MaxBroken BY <1>3, ConstantsAssumption DEF CopyIso, TypeOK
  <2>3. job' \in [Uploaders -> Job] BY <1>3, JobStep, ServerUploads DEF CopyIso
  <2>. QED BY <1>3, <2>1, <2>2, <2>3 DEF CopyIso, TypeOK, isos
<1>4. CASE PublishIso
  <2>1. job' \in [Uploaders -> Job] BY <1>4, JobStep, ServerUploads DEF PublishIso
  <2>. QED BY <1>4, <2>1, NothingIsTyped DEF PublishIso, TypeOK, isos
<1>5. CASE PublishSums
  <2>1. job' \in [Uploaders -> Job] BY <1>5, JobStep, ServerUploads DEF PublishSums
  <2>2. sums' \in Iso BY <1>2, <1>5 DEF PublishSums, Iso, Commits
  <2>. QED BY <1>5, <2>1, <2>2 DEF PublishSums, TypeOK, isos
<1>6. CASE IsoDiffers \/ Store
  <2>1. job' \in [Uploaders -> Job] BY <1>6, JobEnds, ServerUploads DEF IsoDiffers, Store
  <2>2. lastBuilt' \in 0 .. MaxCommit BY <1>2, <1>6 DEF IsoDiffers, Store, TypeOK, Commits
  <2>. QED BY <1>6, <2>1, <2>2 DEF IsoDiffers, Store, TypeOK, repository, isos
<1>. QED BY <1>3, <1>4, <1>5, <1>6

LEMMA TypeEnds ==
  ASSUME TypeOK, NEW u \in Uploaders, UpdateRefused(u) \/ ManualEnd(u) \/ Fail(u)
  PROVE  TypeOK'
<1>1. job' \in [Uploaders -> Job] BY JobEnds DEF UpdateRefused, ManualEnd, Fail
<1>2. broken' \in 0 .. MaxBroken BY ConstantsAssumption DEF UpdateRefused, ManualEnd, Fail, TypeOK
<1>. QED BY <1>1, <1>2 DEF UpdateRefused, ManualEnd, Fail, TypeOK, repository, isos

LEMMA TypeStartUpdate ==
  ASSUME TypeOK, NEW u \in Uploaders, StartUpdate(u)
  PROVE  TypeOK'
<1>1. NewDebs(u) \in SUBSET Path BY DEF NewDebs
<1>2. Running(u) \in RepoUpdate BY <1>1 DEF Running, RepoUpdate
<1>3. job' \in [Uploaders -> Job] BY JobStep DEF StartUpdate
<1>. QED BY <1>2, <1>3 DEF StartUpdate, TypeOK, repository, isos

LEMMA TypeBreaks ==
  ASSUME TypeOK, UpdateBreaks
  PROVE  TypeOK'
<1>1. update \in RepoUpdate BY DEF TypeOK
<1>2. update.by \in Uploaders /\ update.suites \cup update.suite \subseteq Suites
  BY <1>1 DEF RepoUpdate
<1>3. job' \in [Uploaders -> Job] BY <1>2, JobEnds DEF UpdateBreaks
<1>4. unfinished' \subseteq Suites BY <1>2 DEF UpdateBreaks, TypeOK
<1>5. broken' \in 0 .. MaxBroken BY ConstantsAssumption DEF UpdateBreaks, TypeOK
<1>. QED BY <1>3, <1>4, <1>5, NothingIsTyped DEF UpdateBreaks, TypeOK, repository, isos

\* The steps of hd-repo-update.
LEMMA TypeUpdate ==
  ASSUME TypeOK, UpdateSteps
  PROVE  TypeOK'
<1>1. update \in RepoUpdate /\ pool \in [Suites -> SUBSET Deb] /\ inbox \in [Suites -> SUBSET Deb]
      /\ index \in [Suites -> SUBSET Deb] /\ release \in [Suites -> SUBSET Deb]
  BY DEF TypeOK
<1>2. ASSUME NEW path \in Path, RemoveOld(path) PROVE TypeOK'
  <2>1. path.suite \in Suites BY DEF Path
  <2>2. pool' \in [Suites -> SUBSET Deb] BY <1>1, <1>2, <2>1 DEF RemoveOld
  <2>3. [update EXCEPT !.step = "install", !.debs = @ \ {path}, !.deb = {path}] \in RepoUpdate
    BY <1>1 DEF RepoUpdate
  <2>. QED BY <1>2, <2>2, <2>3 DEF RemoveOld, TypeOK, isos
<1>3. ASSUME NEW path \in Path, Install(path) PROVE TypeOK'
  <2>1. path.suite \in Suites BY DEF Path
  <2>2. pool' \in [Suites -> SUBSET Deb] BY <1>1, <1>3, <2>1 DEF Install
  <2>3. [update EXCEPT !.step = "clear"] \in RepoUpdate BY <1>1 DEF RepoUpdate
  <2>. QED BY <1>3, <2>2, <2>3 DEF Install, TypeOK, isos
<1>4. ASSUME NEW path \in Path, ClearInbox(path) PROVE TypeOK'
  <2>1. path.suite \in Suites BY DEF Path
  <2>2. inbox' \in [Suites -> SUBSET Deb] BY <1>1, <1>4, <2>1 DEF ClearInbox
  <2>3. [update EXCEPT !.step = "add", !.deb = {}] \in RepoUpdate BY <1>1 DEF RepoUpdate
  <2>. QED BY <1>4, <2>2, <2>3 DEF ClearInbox, TypeOK, isos
<1>5. ASSUME NEW s \in Suites, PlacePackages(s) PROVE TypeOK'
  <2>1. index' \in [Suites -> SUBSET Deb] BY <1>1, <1>5 DEF PlacePackages, Listing
  <2>2. [update EXCEPT !.step = "release", !.suites = @ \ {s}, !.suite = {s}] \in RepoUpdate
    BY <1>1 DEF RepoUpdate
  <2>. QED BY <1>5, <2>1, <2>2 DEF PlacePackages, TypeOK, isos
<1>6. CASE PlaceRelease
  <2>1. release' \in [Suites -> SUBSET Deb] BY <1>1, <1>6 DEF PlaceRelease
  <2>2. [update EXCEPT !.step = "add", !.suite = {}] \in RepoUpdate BY <1>1 DEF RepoUpdate
  <2>. QED BY <1>6, <2>1, <2>2 DEF PlaceRelease, TypeOK, isos
<1>7. CASE EndUpdate
  <2>1. update.by \in Uploaders BY <1>1 DEF RepoUpdate
  <2>2. job' \in [Uploaders -> Job] BY <1>7, <2>1, JobStep DEF EndUpdate
  <2>. QED BY <1>7, <2>2, NothingIsTyped DEF EndUpdate, TypeOK, repository, isos
<1>. QED BY <1>2, <1>3, <1>4, <1>5, <1>6, <1>7 DEF UpdateSteps

LEMMA TypeInit == Init => TypeOK
<1>. SUFFICES ASSUME Init PROVE TypeOK
  OBVIOUS
<1>1. job \in [Uploaders -> Job] /\ update \in RepoUpdate /\ iso \in Iso /\ isoUpload \in Iso
      /\ sums \in Iso /\ unfinished \subseteq Suites
  BY NothingIsTyped DEF Init
<1>2. head \in Commits /\ lastBuilt \in 0 .. MaxCommit /\ broken \in 0 .. MaxBroken
      /\ manual \in 0 .. MaxManual
  BY ConstantsAssumption DEF Init, Commits
<1>3. inbox \in [Suites -> SUBSET Deb] /\ pool \in [Suites -> SUBSET Deb]
      /\ index \in [Suites -> SUBSET Deb] /\ release \in [Suites -> SUBSET Deb]
  BY DEF Init
<1>. QED BY <1>1, <1>2, <1>3 DEF TypeOK

LEMMA TypeNext == TypeOK /\ [Next]_vars => TypeOK'
<1>. SUFFICES ASSUME TypeOK, [Next]_vars PROVE TypeOK'
  OBVIOUS
<1>1. CASE Push
  <2>1. head' \in Commits BY <1>1, ConstantsAssumption DEF Push, TypeOK, Commits
  <2>. QED BY <1>1, <2>1 DEF Push, TypeOK, repository, isos
<1>2. ASSUME NEW u \in Uploaders, RunSteps(u) PROVE TypeOK'
  BY <1>2, TypeStart, TypeList, TypeCopy, TypeStartUpdate, TypeEnds DEF RunSteps
<1>3. CASE ServerSteps BY <1>2, <1>3, TypeServer, ServerUploads DEF ServerSteps
<1>4. CASE \E u \in Developers : RunSteps(u) BY <1>2, <1>4 DEF Uploaders
<1>5. CASE \E u \in Uploaders : Fail(u) BY <1>5, TypeEnds
<1>6. CASE UpdateSteps BY <1>6, TypeUpdate
<1>7. CASE UNCHANGED vars BY <1>7 DEF vars, repository, isos, TypeOK
<1>8. CASE UpdateBreaks BY <1>8, TypeBreaks
<1>. QED BY <1>1, <1>3, <1>4, <1>5, <1>6, <1>7, <1>8 DEF Next

\* Every variable of the repository and of the runs keeps its type, whoever
\* uploads and wherever runs break off.
THEOREM TypeCorrect == Spec => []TypeOK
<1>. QED BY TypeInit, TypeNext, PTL DEF Spec

-----------------------------------------------------------------------------
(* The indices                                                             *)

\* A suite whose Release signs the Packages, and whose Packages list the pool.
Signed(s) == release[s] = index[s] /\ index[s] = pool[s]

\* Why the indices match in the end: every suite is still to be made while the
\* pools change, and one that is made stays as it is.
IndicesInv ==
  /\ update.step = "none" <=> update = NoUpdate
  /\ update.step = "none" => \A s \in Suites \ unfinished : Signed(s)
  /\ update.step # "none" => \A s \in Suites \ (update.suites \cup update.suite) : Signed(s)
  /\ (update.debs # {} \/ update.step \in {"install", "clear"}) => update.suites = Suites
  /\ update.step = "release" => \A s \in update.suite : index[s] = pool[s]
  /\ update.step # "release" => update.suite = {}

LEMMA IndicesInit == Init => IndicesInv
BY DEF Init, IndicesInv, NoUpdate, Signed

\* What the runs do to an inbox, to the ISO and to their own state is nothing to it.
LEMMA IndicesElsewhere ==
  ASSUME IndicesInv, UNCHANGED <<pool, index, release, update, unfinished>>
  PROVE  IndicesInv'
BY DEF IndicesInv, Signed

LEMMA IndicesStart ==
  ASSUME IndicesInv, NEW u \in Uploaders, StartUpdate(u)
  PROVE  IndicesInv'
<1>1. /\ update'.step = "add" /\ update'.suites = Suites /\ update'.suite = {}
      /\ update' # NoUpdate
  BY DEF StartUpdate, Running, NoUpdate
<1>. QED BY <1>1 DEF IndicesInv

LEMMA IndicesUpdate ==
  ASSUME TypeOK, IndicesInv, UpdateSteps
  PROVE  IndicesInv'
<1>1. update \in RepoUpdate /\ pool \in [Suites -> SUBSET Deb]
      /\ index \in [Suites -> SUBSET Deb] /\ release \in [Suites -> SUBSET Deb]
  BY DEF TypeOK
<1>2. ASSUME NEW path \in Path, RemoveOld(path) \/ Install(path) \/ ClearInbox(path)
      PROVE  IndicesInv'
  <2>1. update.suites = Suites /\ update.suite = {}
    BY <1>2 DEF RemoveOld, NextDeb, Install, ClearInbox, IndicesInv
  <2>2. /\ update'.step \in {"add", "install", "clear"} /\ update' # NoUpdate
        /\ update'.suites = update.suites /\ update'.suite = update.suite
    <3>1. CASE RemoveOld(path) BY <1>1, <3>1 DEF RemoveOld, RepoUpdate, NoUpdate
    <3>2. CASE Install(path) BY <1>1, <3>2 DEF Install, RepoUpdate, NoUpdate
    <3>3. CASE ClearInbox(path)
      <4>1. update.step = "clear" /\ update' = [update EXCEPT !.step = "add", !.deb = {}]
        BY <3>3 DEF ClearInbox
      <4>2. update'.step = "add" /\ update'.suites = update.suites /\ update'.suite = update.suite
        BY <1>1, <4>1 DEF RepoUpdate
      <4>. QED BY <4>2 DEF NoUpdate
    <3>. QED BY <1>2, <3>1, <3>2, <3>3
  <2>3. UNCHANGED <<index, release>> BY <1>2 DEF RemoveOld, Install, ClearInbox
  <2>. QED BY <2>1, <2>2, <2>3 DEF IndicesInv
<1>3. ASSUME NEW s \in Suites, PlacePackages(s) PROVE IndicesInv'
  <2>1. /\ update'.step = "release" /\ update' # NoUpdate /\ update'.debs = {}
        /\ update'.suites = update.suites \ {s} /\ update'.suite = {s}
        /\ update.step = "add" /\ update.suite = {}
    BY <1>1, <1>3 DEF PlacePackages, RepoUpdate, NoUpdate, IndicesInv
  <2>2. index'[s] = pool'[s] /\ \A t \in Suites \ {s} : Signed(t) => Signed(t)'
    BY <1>1, <1>3 DEF PlacePackages, Listing, Signed
  <2>3. \A t \in Suites \ (update'.suites \cup update'.suite) : Signed(t)'
    BY <2>1, <2>2 DEF IndicesInv
  <2>. QED BY <2>1, <2>2, <2>3 DEF IndicesInv
<1>4. CASE PlaceRelease
  <2>1. /\ update'.step = "add" /\ update' # NoUpdate /\ update'.debs = update.debs
        /\ update'.suites = update.suites /\ update'.suite = {}
        /\ update.step = "release"
    BY <1>1, <1>4 DEF PlaceRelease, RepoUpdate, NoUpdate
  <2>2. \A s \in Suites : (s \in update.suite \/ Signed(s)) => Signed(s)'
    BY <1>4, <2>1 DEF PlaceRelease, Signed, IndicesInv
  <2>3. \A s \in Suites \ (update'.suites \cup update'.suite) : Signed(s)'
    BY <2>1, <2>2 DEF IndicesInv
  <2>. QED BY <2>1, <2>3 DEF IndicesInv
<1>5. CASE EndUpdate
  <2>1. \A s \in Suites : Signed(s) BY <1>5 DEF EndUpdate, IndicesInv
  <2>2. \A s \in Suites : Signed(s)' BY <1>5, <2>1 DEF EndUpdate, Signed, repository
  <2>3. update' = NoUpdate /\ NoUpdate.step = "none" /\ NoUpdate.suite = {} /\ NoUpdate.debs = {}
    BY <1>5 DEF EndUpdate, NoUpdate
  <2>. QED BY <2>2, <2>3 DEF IndicesInv
<1>. QED BY <1>2, <1>3, <1>4, <1>5 DEF UpdateSteps

\* One that breaks off names the suites that it leaves.
LEMMA IndicesBreaks ==
  ASSUME IndicesInv, UpdateBreaks
  PROVE  IndicesInv'
<1>1. /\ update' = NoUpdate /\ UNCHANGED <<pool, index, release>>
      /\ unfinished' = unfinished \cup update.suites \cup update.suite
      /\ update.step # "none"
  BY DEF UpdateBreaks, repository, IndicesInv
<1>2. \A s \in Suites \ unfinished' : Signed(s)' BY <1>1 DEF IndicesInv, Signed
<1>3. NoUpdate.step = "none" /\ NoUpdate.debs = {} /\ NoUpdate.suite = {} BY DEF NoUpdate
<1>. QED BY <1>1, <1>2, <1>3 DEF IndicesInv

LEMMA IndicesNext == TypeOK /\ IndicesInv /\ [Next]_vars => IndicesInv'
<1>. SUFFICES ASSUME TypeOK, IndicesInv, [Next]_vars PROVE IndicesInv'
  OBVIOUS
<1>1. ASSUME NEW u \in Uploaders, RunSteps(u) \/ Fail(u) PROVE IndicesInv'
  <2>1. CASE StartUpdate(u) BY <2>1, IndicesStart
  <2>2. CASE ~StartUpdate(u)
    <3>1. UNCHANGED <<pool, index, release, update, unfinished>>
      BY <1>1, <2>2 DEF RunSteps, Start, List, Copy, Copied, UpdateRefused, ManualEnd, Fail, repository
    <3>. QED BY <3>1, IndicesElsewhere
  <2>. QED BY <2>1, <2>2
<1>2. CASE Push \/ CopyIso \/ PublishIso \/ PublishSums \/ IsoDiffers \/ Store \/ UNCHANGED vars
  <2>1. UNCHANGED <<pool, index, release, update, unfinished>>
    BY <1>2 DEF Push, CopyIso, PublishIso, PublishSums, IsoDiffers, Store, vars, repository
  <2>. QED BY <2>1, IndicesElsewhere
<1>3. CASE UpdateSteps BY <1>3, IndicesUpdate
<1>4. CASE UpdateBreaks BY <1>4, IndicesBreaks
<1>. QED BY <1>1, <1>2, <1>3, <1>4, ServerUploads DEF Next, ServerSteps, Uploaders

\* Whatever update breaks off, and at whatever file: the index of every suite lists its
\* pool and its Release signs its index, but for the suites that an update at work has
\* still to make and those that a broken one left.
THEOREM IndicesAlwaysMatch == Spec => []IndicesMatch
<1>1. IndicesInv => IndicesMatch
  <2>1. ASSUME IndicesInv PROVE IndicesMatch
    <3>1. CASE update.step = "none"
      BY <2>1, <3>1 DEF IndicesInv, IndicesMatch, Unmade, Signed, NoUpdate
    <3>2. CASE update.step # "none"
      BY <2>1, <3>2 DEF IndicesInv, IndicesMatch, Unmade, Signed
    <3>. QED BY <3>1, <3>2
  <2>. QED BY <2>1
<1>. QED BY <1>1, TypeInit, TypeNext, IndicesInit, IndicesNext, PTL DEF Spec

-----------------------------------------------------------------------------
(* The packages                                                            *)

InInbox(path) == \E d \in inbox[path.suite] : At(d, path)
InPool(path) == \E d \in pool[path.suite] : d.package = path.package

\* Whatever hd-repo-update has still to move is in its inbox, and it leaves the inbox
\* only after it reached the pool.
WaitingInv ==
  /\ \A path \in update.debs : InInbox(path)
  /\ update.step = "install" => \A path \in update.deb : InInbox(path)
  /\ update.step = "clear" => \A path \in update.deb : InPool(path)
  /\ \A path \in update.deb : path \notin update.debs
  /\ \A path, other \in update.deb : path = other

\* The packages that a suite has a file of, be it whole or not.
Packaged(s) == PackagesOf(inbox[s] \cup pool[s])

LEMMA WaitingInit == Init => WaitingInv
BY DEF Init, WaitingInv, NoUpdate

LEMMA WaitingElsewhere ==
  ASSUME WaitingInv, UNCHANGED <<inbox, pool, update>>
  PROVE  WaitingInv'
BY DEF WaitingInv, InInbox, InPool

\* A copy replaces a file by one of the same name.
LEMMA CopyKeeps ==
  ASSUME TypeOK, NEW u \in Uploaders, Copy(u) \/ Copied(u)
  PROVE  /\ \A path \in Path : InInbox(path) => InInbox(path)'
         /\ \A s \in Suites : Packaged(s) \subseteq Packaged(s)'
<1>1. /\ job[u] \in Job /\ inbox \in [Suites -> SUBSET Deb]
      /\ UNCHANGED pool
  BY DEF TypeOK, Copy, Copied
<1>2. PICK l, new :
        /\ l \in Upload
        /\ inbox' = [inbox EXCEPT ![l[1]] = new]
        /\ \A d \in inbox[l[1]] :
             \E e \in new : /\ e.package = d.package
                            /\ \A path \in Path : At(d, path) => At(e, path)
  <2>1. CASE Copy(u)
    <3>1. PICK l \in job[u].todo :
            inbox' = [inbox EXCEPT ![l[1]] =
              {d \in @ : ~At(d, PathOf(u, l))} \cup
              {[package |-> l[2], commit |-> job[u].commit, whole |-> FALSE]}]
      BY <2>1 DEF Copy
    <3>. DEFINE file == [package |-> l[2], commit |-> job[u].commit, whole |-> FALSE]
                new == {d \in inbox[l[1]] : ~At(d, PathOf(u, l))} \cup {file}
    <3>2. l \in Upload /\ l[1] \in Suites BY <1>1 DEF Job, Upload
    <3>3. inbox' = [inbox EXCEPT ![l[1]] = new] BY <1>1, <3>1, <3>2
    <3>4. ASSUME NEW d \in inbox[l[1]]
          PROVE  \E e \in new : /\ e.package = d.package
                                /\ \A path \in Path : At(d, path) => At(e, path)
      <4>1. CASE At(d, PathOf(u, l))
        <5>1. file.package = d.package /\ VersionIn(file) = VersionIn(d)
          BY <4>1 DEF At, PathOf, VersionIn
        <5>. QED BY <5>1 DEF At
      <4>2. CASE ~At(d, PathOf(u, l)) BY <4>2
      <4>. QED BY <4>1, <4>2
    <3>. HIDE DEF new
    <3>. QED BY <3>2, <3>3, <3>4
  <2>2. CASE Copied(u)
    <3>1. PICK l \in job[u].file :
            inbox' = [inbox EXCEPT ![l[1]] =
              {IF At(d, PathOf(u, l)) THEN [d EXCEPT !.commit = job[u].commit, !.whole = TRUE] ELSE d
                 : d \in @}]
      BY <2>2 DEF Copied
    <3>. DEFINE now(d) == IF At(d, PathOf(u, l))
                            THEN [d EXCEPT !.commit = job[u].commit, !.whole = TRUE] ELSE d
                new == {now(d) : d \in inbox[l[1]]}
    <3>2. l \in Upload /\ l[1] \in Suites BY <1>1 DEF Job, Upload
    <3>3. inbox' = [inbox EXCEPT ![l[1]] = new] BY <1>1, <3>1, <3>2
    <3>4. ASSUME NEW d \in inbox[l[1]]
          PROVE  \E e \in new : /\ e.package = d.package
                                /\ \A path \in Path : At(d, path) => At(e, path)
      <4>1. now(d) \in new OBVIOUS
      <4>2. now(d).package = d.package /\ VersionIn(now(d)) = VersionIn(d)
        BY <1>1, <3>2 DEF Deb, At, PathOf, VersionIn
      <4>. QED BY <4>1, <4>2 DEF At
    <3>. HIDE DEF new
    <3>. QED BY <3>2, <3>3, <3>4
  <2>. QED BY <2>1, <2>2
<1>3. l[1] \in Suites BY <1>2 DEF Upload
<1>4. inbox'[l[1]] = new /\ \A s \in Suites \ {l[1]} : inbox'[s] = inbox[s] BY <1>1, <1>2, <1>3
<1>5. ASSUME NEW path \in Path, InInbox(path) PROVE InInbox(path)'
  <2>1. path.suite \in Suites BY DEF Path
  <2>. QED BY <1>2, <1>4, <1>5, <2>1 DEF InInbox
<1>6. ASSUME NEW s \in Suites PROVE Packaged(s) \subseteq Packaged(s)'
  BY <1>1, <1>2, <1>4 DEF Packaged, PackagesOf
<1>. QED BY <1>5, <1>6

LEMMA WaitingCopy ==
  ASSUME TypeOK, WaitingInv, NEW u \in Uploaders, Copy(u) \/ Copied(u)
  PROVE  WaitingInv'
<1>1. UNCHANGED <<pool, update>> BY DEF Copy, Copied
<1>2. update.debs \subseteq Path /\ update.deb \subseteq Path BY DEF TypeOK, RepoUpdate
<1>3. \A path \in Path : InInbox(path) => InInbox(path)' BY CopyKeeps
<1>. QED BY <1>1, <1>2, <1>3 DEF WaitingInv, InPool

LEMMA WaitingStart ==
  ASSUME WaitingInv, NEW u \in Uploaders, StartUpdate(u)
  PROVE  WaitingInv'
<1>1. update'.debs = NewDebs(u) /\ update'.deb = {} /\ update'.step = "add" /\ UNCHANGED inbox
  BY DEF StartUpdate, Running, repository
<1>2. \A path \in NewDebs(u) : InInbox(path)' BY <1>1 DEF NewDebs, InInbox
<1>. QED BY <1>1, <1>2 DEF WaitingInv

LEMMA WaitingUpdate ==
  ASSUME TypeOK, WaitingInv, UpdateSteps
  PROVE  WaitingInv'
<1>1. update \in RepoUpdate /\ pool \in [Suites -> SUBSET Deb] /\ inbox \in [Suites -> SUBSET Deb]
  BY DEF TypeOK
<1>2. ASSUME NEW path \in Path, RemoveOld(path) PROVE WaitingInv'
  <2>1. /\ update'.step = "install" /\ update'.debs = update.debs \ {path}
        /\ update'.deb = {path} /\ path \in update.debs
    BY <1>1, <1>2 DEF RemoveOld, NextDeb, RepoUpdate
  <2>2. UNCHANGED inbox BY <1>2 DEF RemoveOld
  <2>. QED BY <2>1, <2>2 DEF WaitingInv, InInbox
<1>3. ASSUME NEW path \in Path, Install(path) PROVE WaitingInv'
  <2>1. /\ update'.step = "clear" /\ update'.debs = update.debs /\ update'.deb = update.deb
        /\ update.step = "install" /\ path \in update.deb
    BY <1>1, <1>3 DEF Install, RepoUpdate
  <2>2. UNCHANGED inbox BY <1>3 DEF Install
  <2>3. path.suite \in Suites BY DEF Path
  <2>4. pool'[path.suite] = pool[path.suite] \cup {d \in inbox[path.suite] : At(d, path)}
    BY <1>1, <1>3, <2>3 DEF Install
  <2>5. InInbox(path) BY <2>1 DEF WaitingInv
  <2>6. InPool(path)' BY <2>4, <2>5 DEF InInbox, InPool, At
  <2>7. \A other \in update'.deb : other = path BY <2>1 DEF WaitingInv
  <2>. QED BY <2>1, <2>2, <2>6, <2>7 DEF WaitingInv, InInbox
<1>4. ASSUME NEW path \in Path, ClearInbox(path) PROVE WaitingInv'
  <2>1. /\ update'.step = "add" /\ update'.debs = update.debs /\ update'.deb = {}
        /\ path \in update.deb /\ path \notin update.debs
    BY <1>1, <1>4 DEF ClearInbox, RepoUpdate, WaitingInv
  <2>2. path.suite \in Suites /\ update.debs \subseteq Path BY <1>1 DEF Path, RepoUpdate
  <2>3. /\ inbox'[path.suite] = {d \in inbox[path.suite] : ~At(d, path)}
        /\ \A s \in Suites \ {path.suite} : inbox'[s] = inbox[s]
    BY <1>1, <1>4, <2>2 DEF ClearInbox
  <2>4. ASSUME NEW other \in update.debs PROVE InInbox(other)'
    <3>1. PICK d \in inbox[other.suite] : At(d, other) BY DEF WaitingInv, InInbox
    <3>2. other.suite \in Suites /\ other \in Path /\ other # path BY <2>1, <2>2 DEF Path
    <3>3. CASE other.suite = path.suite
      <4>1. ~At(d, path) BY <3>1, <3>2, <3>3 DEF At, Path
      <4>. QED BY <2>3, <3>1, <3>3, <4>1 DEF InInbox
    <3>4. CASE other.suite # path.suite BY <2>3, <3>1, <3>2, <3>4 DEF InInbox
    <3>. QED BY <3>3, <3>4
  <2>. QED BY <2>1, <2>4 DEF WaitingInv
<1>5. ASSUME NEW s \in Suites, PlacePackages(s) \/ PlaceRelease PROVE WaitingInv'
  <2>1. /\ update'.step \in {"release", "add"} /\ update'.debs = update.debs
        /\ update'.deb = update.deb /\ UNCHANGED inbox
    <3>1. CASE PlacePackages(s) BY <1>1, <3>1 DEF PlacePackages, RepoUpdate
    <3>2. CASE PlaceRelease BY <1>1, <3>2 DEF PlaceRelease, RepoUpdate
    <3>. QED BY <1>5, <3>1, <3>2
  <2>. QED BY <2>1 DEF WaitingInv, InInbox
<1>6. CASE PlaceRelease
  <2>1. /\ update'.step = "add" /\ update'.debs = update.debs
        /\ update'.deb = update.deb /\ UNCHANGED inbox
    BY <1>1, <1>6 DEF PlaceRelease, RepoUpdate
  <2>. QED BY <2>1 DEF WaitingInv, InInbox
<1>7. CASE EndUpdate
  <2>1. update'.debs = {} /\ update'.deb = {} /\ update'.step = "none"
    BY <1>7 DEF EndUpdate, NoUpdate
  <2>. QED BY <2>1 DEF WaitingInv
<1>. QED BY <1>2, <1>3, <1>4, <1>5, <1>6, <1>7 DEF UpdateSteps

LEMMA WaitingNext == TypeOK /\ WaitingInv /\ [Next]_vars => WaitingInv'
<1>. SUFFICES ASSUME TypeOK, WaitingInv, [Next]_vars PROVE WaitingInv'
  OBVIOUS
<1>1. ASSUME NEW u \in Uploaders, RunSteps(u) \/ Fail(u) PROVE WaitingInv'
  <2>1. CASE StartUpdate(u) BY <2>1, WaitingStart
  <2>2. CASE Copy(u) \/ Copied(u) BY <2>2, WaitingCopy
  <2>3. CASE ~StartUpdate(u) /\ ~(Copy(u) \/ Copied(u))
    <3>1. UNCHANGED <<inbox, pool, update>>
      BY <1>1, <2>3 DEF RunSteps, Start, List, UpdateRefused, ManualEnd, Fail, repository
    <3>. QED BY <3>1, WaitingElsewhere
  <2>. QED BY <2>1, <2>2, <2>3
<1>2. CASE Push \/ CopyIso \/ PublishIso \/ PublishSums \/ IsoDiffers \/ Store \/ UNCHANGED vars
  <2>1. UNCHANGED <<inbox, pool, update>>
    BY <1>2 DEF Push, CopyIso, PublishIso, PublishSums, IsoDiffers, Store, vars, repository
  <2>. QED BY <2>1, WaitingElsewhere
<1>3. CASE UpdateSteps BY <1>3, WaitingUpdate
<1>4. CASE UpdateBreaks
  <2>1. update' = NoUpdate BY <1>4 DEF UpdateBreaks
  <2>. QED BY <2>1 DEF WaitingInv, NoUpdate
<1>. QED BY <1>1, <1>2, <1>3, <1>4, ServerUploads DEF Next, ServerSteps, Uploaders

\* Every step keeps the packages a suite has a file of.
LEMMA PackagesNext ==
  TypeOK /\ WaitingInv /\ [Next]_vars => \A s \in Suites : Packaged(s) \subseteq Packaged(s)'
<1>. SUFFICES ASSUME TypeOK, WaitingInv, [Next]_vars, NEW s \in Suites
              PROVE  Packaged(s) \subseteq Packaged(s)'
  OBVIOUS
<1>1. pool \in [Suites -> SUBSET Deb] /\ inbox \in [Suites -> SUBSET Deb] BY DEF TypeOK
<1>2. ASSUME NEW u \in Uploaders, RunSteps(u) \/ Fail(u)
      PROVE  Packaged(s) \subseteq Packaged(s)'
  <2>1. CASE Copy(u) \/ Copied(u) BY <2>1, CopyKeeps
  <2>2. CASE ~(Copy(u) \/ Copied(u))
    <3>1. UNCHANGED <<inbox, pool>>
      BY <1>2, <2>2 DEF RunSteps, Start, List, StartUpdate, UpdateRefused, ManualEnd, Fail, repository
    <3>. QED BY <3>1 DEF Packaged
  <2>. QED BY <2>1, <2>2
<1>3. CASE Push \/ CopyIso \/ PublishIso \/ PublishSums \/ IsoDiffers \/ Store \/ UNCHANGED vars
           \/ PlaceRelease \/ EndUpdate \/ UpdateBreaks \/ \E t \in Suites : PlacePackages(t)
  <2>1. UNCHANGED <<inbox, pool>>
    BY <1>3 DEF Push, CopyIso, PublishIso, PublishSums, IsoDiffers, Store, vars, PlaceRelease,
                EndUpdate, UpdateBreaks, PlacePackages, repository
  <2>. QED BY <2>1 DEF Packaged
<1>4. ASSUME NEW path \in Path, RemoveOld(path)
      PROVE  Packaged(s) \subseteq Packaged(s)'
  <2>1. path \in update.debs /\ UNCHANGED inbox BY <1>4 DEF RemoveOld, NextDeb
  <2>2. PICK d \in inbox[path.suite] : d.package = path.package
    BY <2>1 DEF WaitingInv, InInbox, At
  <2>3. \A e \in pool[s] : e \in pool'[s] \/ (s = path.suite /\ e.package = path.package)
    BY <1>1, <1>4 DEF RemoveOld, OldVersions
  <2>. QED BY <2>1, <2>2, <2>3 DEF Packaged, PackagesOf
<1>5. ASSUME NEW path \in Path, Install(path)
      PROVE  Packaged(s) \subseteq Packaged(s)'
  <2>1. pool[s] \subseteq pool'[s] /\ UNCHANGED inbox BY <1>1, <1>5 DEF Install
  <2>. QED BY <2>1 DEF Packaged, PackagesOf
<1>6. ASSUME NEW path \in Path, ClearInbox(path)
      PROVE  Packaged(s) \subseteq Packaged(s)'
  <2>1. path \in update.deb /\ update.step = "clear" /\ UNCHANGED pool BY <1>6 DEF ClearInbox
  <2>2. PICK d \in pool[path.suite] : d.package = path.package BY <2>1 DEF WaitingInv, InPool
  <2>3. \A e \in inbox[s] : e \in inbox'[s] \/ (s = path.suite /\ e.package = path.package)
    BY <1>1, <1>6 DEF ClearInbox, At
  <2>. QED BY <2>1, <2>2, <2>3 DEF Packaged, PackagesOf
<1>. QED BY <1>2, <1>3, <1>4, <1>5, <1>6, ServerUploads DEF Next, ServerSteps, UpdateSteps, Uploaders

\* So what has no whole file any more has one that is not whole.
LEMMA WholeOrHalf ==
  ASSUME TypeOK, WaitingInv, [Next]_vars, NEW s \in Suites
  PROVE  Available(s) \ Available(s)' \subseteq Halves(s)'
<1>1. Available(s) \subseteq Packaged(s) BY DEF Available, WholeOnes, Packaged, PackagesOf
<1>2. Packaged(s)' \subseteq Available(s)' \cup Halves(s)'
  BY DEF Available, Halves, WholeOnes, Packaged, PackagesOf
<1>. QED BY <1>1, <1>2, PackagesNext

\* A suite that has a whole file of a package, in its pool or on its way there, keeps one
\* at every step of every update and wherever an upload or an update breaks off, unless a
\* file that was not copied whole takes its place.
THEOREM PackagesStay == Spec => NoPackageLost
<1>1. TypeOK /\ WaitingInv /\ [Next]_vars =>
        [\A s \in Suites : Available(s) \ Available(s)' \subseteq Halves(s)']_vars
  BY WholeOrHalf
<1>. QED BY <1>1, TypeInit, TypeNext, WaitingInit, WaitingNext, PTL DEF Spec, NoPackageLost

-----------------------------------------------------------------------------
(* What the build server records                                           *)

\* A later commit takes no version back.
VersionsGrow ==
  \A p \in Packages : \A c, d \in Commits : c <= d => VersionOf[c][p] <= VersionOf[d][p]

\* Nothing is built of a commit that was not pushed.
CommitsInv ==
  /\ \A s \in Suites : \A d \in inbox[s] \cup pool[s] : d.commit <= head
  /\ \A u \in Uploaders : job[u].commit <= head

\* The run whose update has the lock, and no other, waits for it.
LockInv ==
  \A u \in Uploaders : job[u].step = "wait" <=> (update # NoUpdate /\ update.by = u)

\* The file the update has in hand is in the pool before it leaves the inbox, and of
\* those of its package that are left none sorts before it.
HandInv ==
  /\ update.step \notin {"install", "clear"} => update.deb = {}
  /\ update.step = "clear" => \A path \in update.deb : Published(path)
  /\ \A path \in update.deb, other \in update.debs :
       path.suite = other.suite /\ path.package = other.package =>
         Glob[path.version] <= Glob[other.version]

\* A file that a copy or an update leaves is the same package of the same version or
\* was built of the commit of the run.
LEMMA CopyOf ==
  ASSUME TypeOK, NEW u \in Uploaders, Copy(u) \/ Copied(u)
  PROVE  \A s \in Suites : \A e \in inbox'[s] :
           \/ \E d \in inbox[s] : e.package = d.package /\ VersionIn(e) = VersionIn(d)
                                  /\ (e.commit = d.commit \/ e.commit = job[u].commit)
           \/ \E l \in job[u].todo : /\ Copy(u) /\ s = l[1] /\ At(e, PathOf(u, l))
                                     /\ e.commit = job[u].commit
<1>1. job[u] \in Job /\ inbox \in [Suites -> SUBSET Deb] BY DEF TypeOK
<1>2. CASE Copy(u)
  <2>1. PICK l \in job[u].todo :
          inbox' = [inbox EXCEPT ![l[1]] =
            {d \in @ : ~At(d, PathOf(u, l))} \cup
            {[package |-> l[2], commit |-> job[u].commit, whole |-> FALSE]}]
    BY <1>2 DEF Copy
  <2>. DEFINE file == [package |-> l[2], commit |-> job[u].commit, whole |-> FALSE]
  <2>2. At(file, PathOf(u, l)) /\ file.commit = job[u].commit BY DEF At, PathOf, VersionIn
  <2>. HIDE DEF file
  <2>3. \A s \in Suites : \A e \in inbox'[s] : e \in inbox[s] \/ (s = l[1] /\ e = file)
    BY <1>1, <2>1 DEF file
  <2>. QED BY <1>2, <2>2, <2>3
<1>3. CASE Copied(u)
  <2>1. PICK l \in job[u].file :
          inbox' = [inbox EXCEPT ![l[1]] =
            {IF At(d, PathOf(u, l)) THEN [d EXCEPT !.commit = job[u].commit, !.whole = TRUE] ELSE d
               : d \in @}]
    BY <1>3 DEF Copied
  <2>. DEFINE now(d) == IF At(d, PathOf(u, l))
                          THEN [d EXCEPT !.commit = job[u].commit, !.whole = TRUE] ELSE d
  <2>2. \A s \in Suites : \A e \in inbox'[s] :
          e \in inbox[s] \/ (s = l[1] /\ \E d \in inbox[s] : e = now(d))
    BY <1>1, <2>1
  <2>3. ASSUME NEW d \in Deb
        PROVE  /\ now(d).package = d.package /\ VersionIn(now(d)) = VersionIn(d)
               /\ now(d).commit = d.commit \/ now(d).commit = job[u].commit
    BY <1>1 DEF Deb, At, PathOf, VersionIn
  <2>. HIDE DEF now
  <2>. QED BY <1>1, <2>2, <2>3
<1>. QED BY <1>2, <1>3

\* The run goes on, and the others stay as they are.
GoesOn(u) ==
  /\ job'[u].commit = job[u].commit /\ job'[u].undisturbed = job[u].undisturbed
  /\ \A v \in Uploaders \ {u} : job'[v] = job[v]
Ends(u) == job'[u] = NoJob /\ \A v \in Uploaders \ {u} : job'[v] = job[v]

LEMMA AfterList ==
  ASSUME TypeOK, NEW u \in Uploaders, List(u)
  PROVE  /\ GoesOn(u) /\ job[u].step = "build"
         /\ job'[u].step = IF New(u) = {} THEN "iso" ELSE "copy"
         /\ job'[u].new = New(u) /\ job'[u].todo = New(u)
<1>1. job \in [Uploaders -> Job] /\ job[u] \in Job BY DEF TypeOK
<1>2. job[u].step = "build" /\ \A v \in Uploaders \ {u} : job'[v] = job[v] BY <1>1 DEF List
<1>3. job'[u] = [job[u] EXCEPT !.step = IF New(u) = {} THEN "iso" ELSE "copy",
                               !.new = New(u), !.todo = New(u)]
  BY <1>1 DEF List
<1>. QED BY <1>1, <1>2, <1>3 DEF Job, GoesOn

LEMMA AfterCopy ==
  ASSUME TypeOK, NEW u \in Uploaders, Copy(u)
  PROVE  /\ GoesOn(u) /\ job[u].step = "copy" /\ job'[u].step = "copying"
         /\ job'[u].new = job[u].new
         /\ \E l \in job[u].todo :
              /\ job'[u].todo = job[u].todo \ {l}
              /\ inbox' = [inbox EXCEPT ![l[1]] =
                   {d \in @ : ~At(d, PathOf(u, l))} \cup
                   {[package |-> l[2], commit |-> job[u].commit, whole |-> FALSE]}]
<1>1. job \in [Uploaders -> Job] /\ job[u] \in Job BY DEF TypeOK
<1>2. PICK l \in job[u].todo :
        /\ inbox' = [inbox EXCEPT ![l[1]] =
             {d \in @ : ~At(d, PathOf(u, l))} \cup
             {[package |-> l[2], commit |-> job[u].commit, whole |-> FALSE]}]
        /\ job' = [job EXCEPT ![u].step = "copying", ![u].todo = @ \ {l}, ![u].file = {l}]
  BY DEF Copy
<1>3. job[u].step = "copy" /\ \A v \in Uploaders \ {u} : job'[v] = job[v] BY <1>1, <1>2 DEF Copy
<1>4. job'[u] = [job[u] EXCEPT !.step = "copying", !.todo = @ \ {l}, !.file = {l}]
  BY <1>1, <1>2
<1>5. /\ job'[u].commit = job[u].commit /\ job'[u].undisturbed = job[u].undisturbed
      /\ job'[u].step = "copying" /\ job'[u].new = job[u].new /\ job'[u].todo = job[u].todo \ {l}
  BY <1>1, <1>4 DEF Job
<1>. QED BY <1>2, <1>3, <1>5 DEF GoesOn

LEMMA AfterCopied ==
  ASSUME TypeOK, NEW u \in Uploaders, Copied(u)
  PROVE  /\ GoesOn(u) /\ job[u].step = "copying"
         /\ job'[u].step = IF job[u].todo = {} THEN "update" ELSE "copy"
         /\ job'[u].new = job[u].new /\ job'[u].todo = job[u].todo
<1>1. job \in [Uploaders -> Job] /\ job[u] \in Job BY DEF TypeOK
<1>2. job' = [job EXCEPT ![u].step = IF job[u].todo = {} THEN "update" ELSE "copy",
                         ![u].file = {}]
  BY DEF Copied
<1>3. job[u].step = "copying" /\ \A v \in Uploaders \ {u} : job'[v] = job[v] BY <1>1, <1>2 DEF Copied
<1>4. job'[u] = [job[u] EXCEPT !.step = IF job[u].todo = {} THEN "update" ELSE "copy", !.file = {}]
  BY <1>1, <1>2
<1>. QED BY <1>1, <1>3, <1>4 DEF Job, GoesOn

LEMMA AfterStartUpdate ==
  ASSUME TypeOK, NEW u \in Uploaders, StartUpdate(u)
  PROVE  /\ GoesOn(u) /\ job[u].step = "update" /\ job'[u].step = "wait"
         /\ job'[u].new = job[u].new /\ job'[u].todo = job[u].todo
         /\ update = NoUpdate /\ update' # NoUpdate /\ update'.by = u /\ update'.step = "add"
         /\ update'.debs = NewDebs(u) /\ update'.deb = {}
         /\ UNCHANGED <<inbox, pool>>
<1>1. job \in [Uploaders -> Job] /\ job[u] \in Job BY DEF TypeOK
<1>2. job[u].step = "update" /\ \A v \in Uploaders \ {u} : job'[v] = job[v]
  BY <1>1 DEF StartUpdate
<1>3. job'[u] = [job[u] EXCEPT !.step = "wait"] BY <1>1 DEF StartUpdate
<1>4. /\ update = NoUpdate /\ update' # NoUpdate /\ update'.by = u /\ update'.step = "add"
      /\ update'.debs = NewDebs(u) /\ update'.deb = {} /\ UNCHANGED <<inbox, pool>>
  BY DEF StartUpdate, Running, NoUpdate, repository
<1>5. GoesOn(u) /\ job'[u].step = "wait" /\ job'[u].new = job[u].new /\ job'[u].todo = job[u].todo
  BY <1>1, <1>2, <1>3 DEF Job, GoesOn
<1>. QED BY <1>2, <1>4, <1>5

LEMMA AfterEnd ==
  ASSUME TypeOK, NEW u \in Uploaders, UpdateRefused(u) \/ ManualEnd(u) \/ Fail(u)
  PROVE  Ends(u) /\ job[u].step # "wait" /\ UNCHANGED <<inbox, pool, update>>
BY DEF TypeOK, UpdateRefused, ManualEnd, Fail, Ends, repository

LEMMA AfterServer ==
  ASSUME TypeOK
  PROVE  /\ CopyIso => /\ GoesOn(Server) /\ job[Server].step = "iso" /\ job'[Server].step = "publish"
                       /\ job'[Server].new = job[Server].new /\ job'[Server].todo = job[Server].todo
         /\ PublishIso => /\ GoesOn(Server) /\ job[Server].step = "publish"
                          /\ job'[Server].step = "sums"
                          /\ job'[Server].new = job[Server].new
                          /\ job'[Server].todo = job[Server].todo
         /\ PublishSums => /\ GoesOn(Server) /\ job[Server].step = "sums"
                           /\ job'[Server].step = "store"
                           /\ job'[Server].new = job[Server].new
                           /\ job'[Server].todo = job[Server].todo
         /\ IsoDiffers \/ Store => Ends(Server) /\ job[Server].step \in {"publish", "store"}
         /\ CopyIso \/ PublishIso \/ PublishSums \/ IsoDiffers \/ Store => UNCHANGED <<inbox, pool, update>>
<1>1. job \in [Uploaders -> Job] /\ job[Server] \in Job /\ Server \in Uploaders
  BY ServerUploads DEF TypeOK
<1>2. ASSUME NEW s, job' = [job EXCEPT ![Server].step = s]
      PROVE  /\ GoesOn(Server) /\ job'[Server].step = s
             /\ job'[Server].new = job[Server].new /\ job'[Server].todo = job[Server].todo
  <2>1. job'[Server] = [job[Server] EXCEPT !.step = s] BY <1>1, <1>2
  <2>. QED BY <1>1, <1>2, <2>1 DEF Job, GoesOn
<1>3. CopyIso => job' = [job EXCEPT ![Server].step = "publish"] /\ job[Server].step = "iso"
  BY DEF CopyIso
<1>4. /\ PublishIso => job' = [job EXCEPT ![Server].step = "sums"] /\ job[Server].step = "publish"
      /\ PublishSums => job' = [job EXCEPT ![Server].step = "store"] /\ job[Server].step = "sums"
  BY DEF PublishIso, PublishSums
<1>5. IsoDiffers \/ Store => Ends(Server) /\ job[Server].step \in {"publish", "store"}
  BY <1>1 DEF IsoDiffers, Store, Ends
<1>6. CopyIso \/ PublishIso \/ PublishSums \/ IsoDiffers \/ Store => UNCHANGED <<inbox, pool, update>>
  BY DEF CopyIso, PublishIso, PublishSums, IsoDiffers, Store, repository
<1>. QED BY <1>2, <1>3, <1>4, <1>5, <1>6

LEMMA AfterUpdate ==
  ASSUME TypeOK, UpdateSteps
  PROVE  \/ /\ EndUpdate /\ update' = NoUpdate /\ UNCHANGED <<inbox, pool>>
            /\ update.by \in Uploaders /\ GoesOn(update.by) /\ job'[update.by].step = "iso"
            /\ job'[update.by].new = job[update.by].new /\ job'[update.by].todo = job[update.by].todo
         \/ /\ update # NoUpdate /\ update' # NoUpdate /\ update'.by = update.by /\ job' = job
<1>1. job \in [Uploaders -> Job] /\ update \in RepoUpdate BY DEF TypeOK
<1>2. CASE EndUpdate
  <2>1. update.by \in Uploaders /\ job[update.by] \in Job BY <1>1 DEF RepoUpdate
  <2>2. job'[update.by] = [job[update.by] EXCEPT !.step = "iso"]
        /\ \A v \in Uploaders \ {update.by} : job'[v] = job[v]
    BY <1>1, <1>2, <2>1 DEF EndUpdate
  <2>3. update' = NoUpdate /\ UNCHANGED <<inbox, pool>> BY <1>2 DEF EndUpdate, repository
  <2>. QED BY <1>2, <2>1, <2>2, <2>3 DEF Job, GoesOn
<1>3. CASE ~EndUpdate
  <2>1. update # NoUpdate BY DEF UpdateSteps
  <2>2. job' = job /\ update'.by = update.by /\ update'.step # "none"
    <3>1. ASSUME NEW path \in Path, RemoveOld(path)
          PROVE  job' = job /\ update'.by = update.by /\ update'.step # "none"
      BY <1>1, <3>1 DEF RemoveOld, RepoUpdate
    <3>2. ASSUME NEW path \in Path, Install(path)
          PROVE  job' = job /\ update'.by = update.by /\ update'.step # "none"
      BY <1>1, <3>2 DEF Install, RepoUpdate
    <3>3. ASSUME NEW path \in Path, ClearInbox(path)
          PROVE  job' = job /\ update'.by = update.by /\ update'.step # "none"
      BY <1>1, <3>3 DEF ClearInbox, RepoUpdate
    <3>4. ASSUME NEW s \in Suites, PlacePackages(s)
          PROVE  job' = job /\ update'.by = update.by /\ update'.step # "none"
      BY <1>1, <3>4 DEF PlacePackages, RepoUpdate
    <3>5. CASE PlaceRelease BY <1>1, <3>5 DEF PlaceRelease, RepoUpdate
    <3>. QED BY <1>3, <3>1, <3>2, <3>3, <3>4, <3>5 DEF UpdateSteps
  <2>3. update' # NoUpdate BY <2>2 DEF NoUpdate
  <2>. QED BY <2>1, <2>2, <2>3
<1>. QED BY <1>2, <1>3

LEMMA AfterBreaks ==
  ASSUME TypeOK, UpdateBreaks
  PROVE  /\ update.by \in Uploaders /\ update # NoUpdate /\ update' = NoUpdate /\ Ends(update.by)
         /\ UNCHANGED <<inbox, pool, head, lastBuilt>>
BY DEF TypeOK, RepoUpdate, UpdateBreaks, Ends, repository

\* What a step does to the commits of the runs.
LEMMA RunsCommits ==
  ASSUME TypeOK, CommitsInv, [Next]_vars, NEW v \in Uploaders
  PROVE  head <= head' /\ job'[v].commit <= head'
<1>1. /\ head \in Nat /\ 1 <= head /\ NoJob.commit = 1 /\ job[v].commit \in Nat
      /\ job[v].commit <= head /\ job \in [Uploaders -> Job]
  BY ConstantsAssumption DEF TypeOK, Commits, Job, CommitsInv, NoJob
<1>2. CASE Push BY <1>1, <1>2 DEF Push
<1>3. ASSUME ~Push
      PROVE  head' = head /\ (job'[v].commit \in {job[v].commit, head, 1})
  <2>1. head' = head
    BY <1>3 DEF Next, ServerSteps, RunSteps, UpdateSteps, vars, repository, Start, List, Copy, Copied,
         StartUpdate, UpdateRefused, ManualEnd, CopyIso, PublishIso, PublishSums, IsoDiffers, Store,
         Fail, RemoveOld, Install, ClearInbox, PlacePackages, PlaceRelease, EndUpdate, UpdateBreaks
  <2>2. ASSUME NEW u \in Uploaders, RunSteps(u) \/ Fail(u)
        PROVE  job'[v].commit \in {job[v].commit, head, 1}
    <3>1. CASE Start(u)
      <4>1. job[v] \in Job BY <1>1
      <4>2. [job[v] EXCEPT !.undisturbed = FALSE].commit = job[v].commit BY <4>1 DEF Job
      <4>. QED BY <1>1, <3>1, <4>2 DEF Start
    <3>. QED BY <1>1, <2>2, <3>1, AfterList, AfterCopy, AfterCopied, AfterStartUpdate, AfterEnd
             DEF RunSteps, GoesOn, Ends
  <2>3. CASE CopyIso \/ PublishIso \/ PublishSums \/ IsoDiffers \/ Store
    BY <1>1, <2>1, <2>3, AfterServer, ServerUploads DEF GoesOn, Ends
  <2>4. CASE UpdateSteps BY <1>1, <2>1, <2>4, AfterUpdate DEF GoesOn
  <2>5. CASE UNCHANGED vars BY <2>5 DEF vars
  <2>6. CASE UpdateBreaks BY <1>1, <2>1, <2>6, AfterBreaks DEF Ends
  <2>. QED BY <1>3, <2>1, <2>2, <2>3, <2>4, <2>5, <2>6, ServerUploads DEF Next, ServerSteps, Uploaders
<1>. QED BY <1>1, <1>2, <1>3

\* A file that a step puts into an inbox or a pool.
LEMMA NewFile ==
  ASSUME TypeOK, [Next]_vars, NEW s \in Suites, NEW e \in inbox'[s] \cup pool'[s]
  PROVE  \/ \E d \in inbox[s] \cup pool[s] : e.commit = d.commit
         \/ \E u \in Uploaders : e.commit = job[u].commit
<1>1. inbox \in [Suites -> SUBSET Deb] /\ pool \in [Suites -> SUBSET Deb] BY DEF TypeOK
<1>2. ASSUME NEW u \in Uploaders, Copy(u) \/ Copied(u)
      PROVE  \/ \E d \in inbox[s] \cup pool[s] : e.commit = d.commit
             \/ \E w \in Uploaders : e.commit = job[w].commit
  <2>1. UNCHANGED pool BY <1>2 DEF Copy, Copied
  <2>. QED BY <1>2, <2>1, CopyOf
<1>3. ASSUME NEW u \in Uploaders, RunSteps(u) \/ Fail(u), ~(Copy(u) \/ Copied(u))
      PROVE  UNCHANGED <<inbox, pool>>
  BY <1>3 DEF RunSteps, Start, List, StartUpdate, UpdateRefused, ManualEnd, Fail, repository
<1>4. CASE Push \/ CopyIso \/ PublishIso \/ PublishSums \/ IsoDiffers \/ Store \/ UNCHANGED vars
  BY <1>4 DEF Push, CopyIso, PublishIso, PublishSums, IsoDiffers, Store, vars, repository
<1>5. CASE UpdateSteps
  <2>1. ASSUME NEW path \in Path, RemoveOld(path) \/ Install(path) \/ ClearInbox(path)
        PROVE  e \in inbox[s] \cup pool[s]
    <3>1. path.suite \in Suites BY DEF Path
    <3>2. CASE RemoveOld(path) BY <1>1, <3>1, <3>2 DEF RemoveOld
    <3>3. CASE Install(path) BY <1>1, <3>1, <3>3 DEF Install
    <3>4. CASE ClearInbox(path) BY <1>1, <3>1, <3>4 DEF ClearInbox
    <3>. QED BY <2>1, <3>2, <3>3, <3>4
  <2>2. CASE PlaceRelease \/ EndUpdate \/ \E t \in Suites : PlacePackages(t)
    BY <2>2 DEF PlaceRelease, EndUpdate, PlacePackages, repository
  <2>. QED BY <1>5, <2>1, <2>2 DEF UpdateSteps
<1>6. CASE UpdateBreaks BY <1>6, AfterBreaks
<1>. QED BY <1>2, <1>3, <1>4, <1>5, <1>6, ServerUploads
         DEF Next, ServerSteps, RunSteps, Uploaders

LEMMA CommitsNext == TypeOK /\ CommitsInv /\ [Next]_vars => CommitsInv'
<1>. SUFFICES ASSUME TypeOK, CommitsInv, [Next]_vars PROVE CommitsInv'
  OBVIOUS
<1>1. TypeOK' BY TypeNext
<1>2. head <= head' BY RunsCommits, ServerUploads
<1>3. head \in Nat /\ head' \in Nat BY <1>1 DEF TypeOK, Commits
<1>4. \A s \in Suites : \A d \in inbox[s] \cup pool[s] : d.commit \in Nat
  BY DEF TypeOK, Deb, Commits
<1>5. \A u \in Uploaders : job[u].commit \in Nat BY DEF TypeOK, Job, Commits
<1>6. ASSUME NEW s \in Suites, NEW e \in inbox'[s] \cup pool'[s] PROVE e.commit <= head'
  <2>1. \/ \E d \in inbox[s] \cup pool[s] : e.commit = d.commit
        \/ \E u \in Uploaders : e.commit = job[u].commit
    BY NewFile
  <2>. QED BY <1>2, <1>3, <1>4, <1>5, <2>1 DEF CommitsInv
<1>7. \A u \in Uploaders : job'[u].commit <= head' BY RunsCommits
<1>. QED BY <1>6, <1>7 DEF CommitsInv

LEMMA LockNext == TypeOK /\ LockInv /\ [Next]_vars => LockInv'
<1>. SUFFICES ASSUME TypeOK, LockInv, [Next]_vars PROVE LockInv'
  OBVIOUS
<1>1. job \in [Uploaders -> Job] /\ NoJob.step = "idle" BY DEF TypeOK, NoJob
<1>. DEFINE Same == update' = update /\ \A v \in Uploaders : job'[v].step = "wait" <=> job[v].step = "wait"
<1>2. Same => LockInv' BY DEF LockInv
<1>3. ASSUME NEW u \in Uploaders, RunSteps(u) \/ Fail(u) PROVE LockInv'
  <2>1. CASE Start(u)
    <3>1. \A v \in Uploaders : [job[v] EXCEPT !.undisturbed = FALSE].step = job[v].step
      BY <1>1 DEF Job
    <3>2. Same BY <1>1, <2>1, <3>1 DEF Start, Idle
    <3>. QED BY <1>2, <3>2
  <2>2. CASE StartUpdate(u) BY <2>2, AfterStartUpdate DEF LockInv, GoesOn
  <2>3. CASE List(u)
    <3>1. update' = update BY <2>3 DEF List
    <3>2. Same BY <2>3, <3>1, AfterList DEF GoesOn
    <3>. QED BY <1>2, <3>2
  <2>4. CASE Copy(u) \/ Copied(u)
    <3>1. update' = update BY <2>4 DEF Copy, Copied
    <3>2. Same BY <2>4, <3>1, AfterCopy, AfterCopied DEF GoesOn
    <3>. QED BY <1>2, <3>2
  <2>5. CASE UpdateRefused(u) \/ ManualEnd(u) \/ Fail(u)
    <3>1. Same BY <1>1, <2>5, AfterEnd DEF Ends
    <3>. QED BY <1>2, <3>1
  <2>. QED BY <1>3, <2>1, <2>2, <2>3, <2>4, <2>5 DEF RunSteps
<1>4. CASE CopyIso \/ PublishIso \/ PublishSums \/ IsoDiffers \/ Store
  <2>1. Same BY <1>1, <1>4, AfterServer, ServerUploads DEF GoesOn, Ends
  <2>. QED BY <1>2, <2>1
<1>5. CASE UpdateSteps BY <1>5, AfterUpdate DEF LockInv, GoesOn
<1>6. CASE Push \/ UNCHANGED vars
  <2>1. Same BY <1>6 DEF Push, vars
  <2>. QED BY <1>2, <2>1
<1>7. CASE UpdateBreaks BY <1>1, <1>7, AfterBreaks DEF LockInv, Ends
<1>. QED BY <1>3, <1>4, <1>5, <1>6, <1>7, ServerUploads DEF Next, ServerSteps, Uploaders

LEMMA HandNext == TypeOK /\ WaitingInv /\ HandInv /\ [Next]_vars => HandInv'
<1>. SUFFICES ASSUME TypeOK, WaitingInv, HandInv, [Next]_vars PROVE HandInv'
  OBVIOUS
<1>1. update \in RepoUpdate /\ pool \in [Suites -> SUBSET Deb] BY DEF TypeOK
<1>2. ASSUME UNCHANGED <<pool, update>> PROVE HandInv'
  BY <1>2 DEF HandInv, Published
<1>3. ASSUME NEW u \in Uploaders, RunSteps(u) \/ Fail(u) PROVE HandInv'
  <2>1. CASE StartUpdate(u) BY <2>1, AfterStartUpdate DEF HandInv
  <2>2. CASE ~StartUpdate(u)
    <3>1. UNCHANGED <<pool, update>>
      BY <1>3, <2>2 DEF RunSteps, Start, List, Copy, Copied, UpdateRefused, ManualEnd, Fail, repository
    <3>. QED BY <1>2, <3>1
  <2>. QED BY <2>1, <2>2
<1>4. CASE Push \/ CopyIso \/ PublishIso \/ PublishSums \/ IsoDiffers \/ Store \/ UNCHANGED vars
  <2>1. UNCHANGED <<pool, update>>
    BY <1>4 DEF Push, CopyIso, PublishIso, PublishSums, IsoDiffers, Store, vars, repository
  <2>. QED BY <1>2, <2>1
<1>5. ASSUME NEW path \in Path, RemoveOld(path) PROVE HandInv'
  <2>1. /\ update'.step = "install" /\ update'.debs = update.debs \ {path} /\ update'.deb = {path}
        /\ path \in update.debs
    BY <1>1, <1>5 DEF RemoveOld, NextDeb, RepoUpdate
  <2>2. \A other \in update.debs :
          path.suite = other.suite /\ path.package = other.package =>
            Glob[path.version] <= Glob[other.version]
    BY <1>5 DEF RemoveOld, NextDeb
  <2>. QED BY <2>1, <2>2 DEF HandInv
<1>6. ASSUME NEW path \in Path, Install(path) PROVE HandInv'
  <2>1. /\ update'.step = "clear" /\ update'.debs = update.debs /\ update'.deb = update.deb
        /\ update.step = "install" /\ path \in update.deb
    BY <1>1, <1>6 DEF Install, RepoUpdate
  <2>2. path.suite \in Suites BY DEF Path
  <2>3. pool'[path.suite] = pool[path.suite] \cup {d \in inbox[path.suite] : At(d, path)}
    BY <1>1, <1>6, <2>2 DEF Install
  <2>4. InInbox(path) BY <2>1 DEF WaitingInv
  <2>5. Published(path)' BY <2>3, <2>4 DEF InInbox, Published, At
  <2>6. \A other \in update'.deb : other = path BY <2>1 DEF WaitingInv
  <2>. QED BY <2>1, <2>5, <2>6 DEF HandInv
<1>7. ASSUME NEW path \in Path, ClearInbox(path) PROVE HandInv'
  <2>1. update'.step = "add" /\ update'.deb = {} BY <1>1, <1>7 DEF ClearInbox, RepoUpdate
  <2>. QED BY <2>1 DEF HandInv
<1>8. ASSUME NEW s \in Suites, PlacePackages(s) PROVE HandInv'
  <2>1. /\ update.step = "add" /\ update'.step = "release" /\ update'.deb = update.deb
    BY <1>1, <1>8 DEF PlacePackages, RepoUpdate
  <2>. QED BY <2>1 DEF HandInv
<1>9. CASE PlaceRelease
  <2>1. /\ update.step = "release" /\ update'.step = "add" /\ update'.deb = update.deb
    BY <1>1, <1>9 DEF PlaceRelease, RepoUpdate
  <2>. QED BY <2>1 DEF HandInv
<1>10. CASE EndUpdate
  <2>1. update'.deb = {} /\ update'.step = "none" BY <1>10 DEF EndUpdate, NoUpdate
  <2>. QED BY <2>1 DEF HandInv
<1>11. CASE UpdateBreaks
  <2>1. update'.deb = {} /\ update'.step = "none" BY <1>11 DEF UpdateBreaks, NoUpdate
  <2>. QED BY <2>1 DEF HandInv
<1>. QED BY <1>3, <1>4, <1>5, <1>6, <1>7, <1>8, <1>9, <1>10, <1>11, ServerUploads
         DEF Next, ServerSteps, UpdateSteps, Uploaders

\* The name of no file in an inbox sorts behind the one that commit c has of its package.
SortsLast(c) ==
  \A s \in Suites : \A d \in inbox[s] : Glob[VersionIn(d)] <= Glob[VersionOf[c][d.package]]

\* Where the version that commit c has of a package is in the pool, no other is in the inbox.
PublishedLast(c) ==
  \A s \in Suites : \A d \in inbox[s], e \in pool[s] :
    d.package = e.package /\ VersionIn(e) = VersionOf[c][e.package] => VersionIn(d) = VersionIn(e)

\* The update moves all that is in the inboxes of the suites it was given.
AllTaken ==
  /\ \A path \in update.debs \cup update.deb : path.suite \in Selected(Server)
  /\ \A s \in Selected(Server) : \A d \in inbox[s] :
       \E path \in update.debs \cup update.deb : path.suite = s /\ At(d, path)

\* An upload that is still to be copied, or to be moved by the update.
OnItsWay(l) ==
  /\ l[1] \in Selected(Server)
  /\ job[Server].step \in {"copy", "copying", "update", "wait"}
  /\ l \in job[Server].todo \/ InInbox(PathOf(Server, l))

\* The run of the server, while it is undisturbed: its packages are added after all that
\* waits with them, so each is in its pool or on its way there.
QuietWork ==
  /\ SortsLast(job[Server].commit) /\ PublishedLast(job[Server].commit)
  /\ update # NoUpdate => AllTaken
  /\ job[Server].todo \subseteq job[Server].new
  /\ job[Server].step \in {"update", "wait"} => job[Server].todo = {}
  /\ job[Server].step # "build" =>
       \A l \in Upload : l[1] \in SuitesOf[l[2]] =>
         Published(PathOf(Server, l)) \/ OnItsWay(l)
QuietInv == job[Server].undisturbed => (\A u \in Developers : Idle(u)) /\ QuietWork

\* And no suite is as an update that broke off left it.
FinishedInv == job[Server].undisturbed => unfinished = {}

StoredInv ==
  TypeOK /\ WaitingInv /\ CommitsInv /\ LockInv /\ HandInv /\ QuietInv /\ FinishedInv

LEMMA VersionsTyped ==
  ASSUME NEW c \in Commits, NEW p \in Packages
  PROVE  VersionOf[c][p] \in Versions /\ VersionOf[c][p] \in Nat
BY ConstantsAssumption DEF Versions

\* Another run that starts ends the quiet, and so does the end of the server's own.
LEMMA QuietOver == ~job'[Server].undisturbed => QuietInv'
BY DEF QuietInv

LEMMA QuietStart ==
  ASSUME VersionsGrow, TypeOK, CommitsInv, LockInv, NEW u \in Uploaders, Start(u)
  PROVE  QuietInv'
<1>1. /\ job \in [Uploaders -> Job] /\ Server \in Uploaders /\ ~NoJob.undisturbed
      /\ inbox \in [Suites -> SUBSET Deb] /\ pool \in [Suites -> SUBSET Deb] /\ head \in Commits
  BY ServerUploads DEF TypeOK, NoJob
<1>2. CASE u # Server
  <2>1. ~[job[Server] EXCEPT !.undisturbed = FALSE].undisturbed BY <1>1 DEF Job
  <2>2. ~job'[Server].undisturbed BY <1>1, <1>2, <2>1 DEF Start
  <2>. QED BY <2>2, QuietOver
<1>3. CASE u = Server
  <2>. SUFFICES ASSUME job'[Server].undisturbed PROVE QuietInv'
    BY QuietOver
  <2>1. /\ job'[Server].undisturbed = Undisturbed /\ job'[Server].commit = head
        /\ job'[Server].todo = {} /\ job'[Server].new = {} /\ job'[Server].step = "build"
    BY <1>1, <1>3 DEF Start
  <2>2. Undisturbed BY <2>1
  <2>3. \A v \in Developers : Idle(v)'
    <3>1. \A v \in Developers : v \in Uploaders /\ v # Server /\ Idle(v)
      BY <2>2, ConstantsAssumption DEF Undisturbed, Uploaders
    <3>. QED BY <1>1, <1>3, <3>1 DEF Start, Idle
  <2>4. UNCHANGED <<inbox, pool, update>> BY DEF Start, repository
  <2>5. update = NoUpdate
    <3>1. update.by \in Uploaders BY DEF TypeOK, RepoUpdate
    <3>2. job[update.by].step # "wait" BY <2>2, <3>1 DEF Undisturbed, Idle, NoJob
    <3>. QED BY <3>1, <3>2 DEF LockInv
  <2>6. SortsLast(job[Server].commit)' BY <2>1, <2>2, <2>4 DEF Undisturbed, SortsLast
  <2>7. PublishedLast(head)
    <3>1. ASSUME NEW s \in Suites, NEW d \in inbox[s], NEW e \in pool[s],
                 d.package = e.package, VersionIn(e) = VersionOf[head][e.package]
          PROVE  VersionIn(d) = VersionIn(e)
      <4>1. d \in Deb /\ d.package \in Packages /\ d.commit \in Commits /\ d.commit <= head
        BY <1>1 DEF Deb, CommitsInv
      <4>2. VersionIn(d) <= VersionIn(e)
        BY <1>1, <3>1, <4>1 DEF VersionIn, VersionsGrow
      <4>3. VersionIn(e) <= VersionIn(d) BY <2>2, <3>1 DEF Undisturbed
      <4>4. VersionIn(d) \in Nat /\ VersionIn(e) \in Nat
        BY <1>1, <3>1, <4>1, VersionsTyped DEF VersionIn
      <4>. QED BY <4>2, <4>3, <4>4
    <3>. QED BY <3>1 DEF PublishedLast
  <2>8. PublishedLast(job[Server].commit)' BY <2>1, <2>4, <2>7 DEF PublishedLast
  <2>. QED BY <2>1, <2>3, <2>4, <2>5, <2>6, <2>8 DEF QuietInv, QuietWork
<1>. QED BY <1>2, <1>3

\* The developers have nothing to do in it.
LEMMA QuietOthers ==
  ASSUME TypeOK, QuietInv, job[Server].undisturbed, NEW u \in Uploaders,
         List(u) \/ Copy(u) \/ Copied(u) \/ StartUpdate(u) \/ UpdateRefused(u) \/ ManualEnd(u) \/ Fail(u)
  PROVE  u = Server
<1>1. job[u].step # "idle" \/ Fail(u)
  <2>1. List(u) => job[u].step = "build" BY DEF List
  <2>2. Copy(u) => job[u].step = "copy" BY DEF Copy
  <2>3. Copied(u) => job[u].step = "copying" BY DEF Copied
  <2>4. StartUpdate(u) \/ UpdateRefused(u) => job[u].step = "update" BY DEF StartUpdate, UpdateRefused
  <2>5. ManualEnd(u) => job[u].step = "iso" BY DEF ManualEnd
  <2>. QED BY <2>1, <2>2, <2>3, <2>4, <2>5
<1>2. ~Idle(u) BY <1>1 DEF Idle, NoJob, Fail
<1>. QED BY <1>2 DEF QuietInv, Uploaders

\* No update runs unless the server waits for it.
LEMMA QuietLock ==
  ASSUME TypeOK, LockInv, QuietInv, job[Server].undisturbed
  PROVE  /\ update # NoUpdate => update.by = Server /\ job[Server].step = "wait"
         /\ job[Server].step = "wait" => update # NoUpdate
<1>1. update.by \in Uploaders /\ (update # NoUpdate => job[update.by].step = "wait")
  BY DEF TypeOK, RepoUpdate, LockInv
<1>2. \A u \in Developers : job[u].step = "idle" BY DEF QuietInv, Idle, NoJob
<1>. QED BY <1>1, <1>2, ServerUploads DEF LockInv, Uploaders

LEMMA QuietGoesOn ==
  ASSUME QuietInv, GoesOn(Server), job[Server].undisturbed => QuietWork'
  PROVE  QuietInv'
<1>. SUFFICES ASSUME job'[Server].undisturbed PROVE QuietInv'
  BY QuietOver
<1>1. job[Server].undisturbed BY DEF GoesOn
<1>2. \A u \in Developers : u \in Uploaders /\ u # Server BY ConstantsAssumption DEF Uploaders
<1>3. \A u \in Developers : Idle(u)' BY <1>1, <1>2 DEF QuietInv, Idle, GoesOn
<1>. QED BY <1>1, <1>3 DEF QuietInv

LEMMA QuietList ==
  ASSUME TypeOK, QuietInv, LockInv, List(Server)
  PROVE  QuietInv'
<1>1. /\ GoesOn(Server) /\ job[Server].step = "build"
      /\ job'[Server].step = IF New(Server) = {} THEN "iso" ELSE "copy"
      /\ job'[Server].new = New(Server) /\ job'[Server].todo = New(Server)
      /\ UNCHANGED <<inbox, pool, update>>
  BY AfterList, ServerUploads DEF List, repository
<1>2. ASSUME job[Server].undisturbed PROVE QuietWork'
  <2>1. QuietWork BY <1>2 DEF QuietInv
  <2>2. update = NoUpdate BY <1>1, <1>2, QuietLock
  <2>3. SortsLast(job[Server].commit)' /\ PublishedLast(job[Server].commit)'
    BY <1>1, <2>1 DEF QuietWork, SortsLast, PublishedLast, GoesOn
  <2>4. ASSUME NEW l \in Upload, l[1] \in SuitesOf[l[2]]
        PROVE  Published(PathOf(Server, l))' \/ OnItsWay(l)'
    <3>1. PathOf(Server, l)' = PathOf(Server, l) BY <1>1 DEF PathOf, GoesOn
    <3>2. CASE Published(PathOf(Server, l)) BY <1>1, <3>1, <3>2 DEF Published
    <3>3. CASE ~Published(PathOf(Server, l))
      <4>1. l \in New(Server) BY <2>4, <3>3 DEF New
      <4>2. l[1] \in Selected(Server)' BY <1>1, <4>1 DEF Selected
      <4>. QED BY <1>1, <4>1, <4>2 DEF OnItsWay
    <3>. QED BY <3>2, <3>3
  <2>. QED BY <1>1, <2>2, <2>3, <2>4 DEF QuietWork
<1>. QED BY <1>1, <1>2, QuietGoesOn

LEMMA QuietCopy ==
  ASSUME TypeOK, QuietInv, LockInv, Copy(Server) \/ Copied(Server)
  PROVE  QuietInv'
<1>1. /\ GoesOn(Server) /\ job[Server].step \in {"copy", "copying"}
      /\ job'[Server].step \in {"copy", "copying", "update"}
      /\ job'[Server].step = "update" => job'[Server].todo = {}
      /\ job'[Server].new = job[Server].new /\ job'[Server].todo \subseteq job[Server].todo
      /\ UNCHANGED <<pool, update>>
  <2>1. CASE Copy(Server) BY <2>1, AfterCopy, ServerUploads DEF Copy
  <2>2. CASE Copied(Server)
    <3>1. UNCHANGED <<pool, update>> BY <2>2 DEF Copied
    <3>. QED BY <2>2, <3>1, AfterCopied, ServerUploads
  <2>. QED BY <2>1, <2>2
<1>2. ASSUME job[Server].undisturbed PROVE QuietWork'
  <2>1. QuietWork BY <1>2 DEF QuietInv
  <2>2. update = NoUpdate BY <1>1, <1>2, QuietLock
  <2>3. \A p \in Packages : VersionOf[job[Server].commit][p] \in Versions
    BY VersionsTyped, ServerUploads DEF TypeOK, Job
  <2>4. ASSUME NEW s \in Suites, NEW e \in inbox'[s]
        PROVE  \/ \E d \in inbox[s] : e.package = d.package /\ VersionIn(e) = VersionIn(d)
               \/ VersionIn(e) = VersionOf[job[Server].commit][e.package]
    <3>1. \A l \in job[Server].todo :
            At(e, PathOf(Server, l)) => VersionIn(e) = VersionOf[job[Server].commit][e.package]
      BY DEF At, PathOf
    <3>. QED BY <3>1, CopyOf, ServerUploads
  <2>5. SortsLast(job[Server].commit)'
    <3>1. ASSUME NEW s \in Suites, NEW e \in inbox'[s]
          PROVE  Glob[VersionIn(e)] <= Glob[VersionOf[job[Server].commit][e.package]]
      <4>1. TypeOK' BY TypeCopy, ServerUploads
      <4>2. e \in Deb BY <4>1 DEF TypeOK
      <4>3. Glob[VersionOf[job[Server].commit][e.package]] \in Nat
        BY <2>3, <4>2, ConstantsAssumption DEF Deb
      <4>. QED BY <2>1, <2>4, <4>3 DEF QuietWork, SortsLast
    <3>. QED BY <1>1, <3>1 DEF SortsLast, GoesOn
  <2>6. PublishedLast(job[Server].commit)'
    <3>1. ASSUME NEW s \in Suites, NEW d \in inbox'[s], NEW e \in pool[s],
                 d.package = e.package,
                 VersionIn(e) = VersionOf[job[Server].commit][e.package]
          PROVE  VersionIn(d) = VersionIn(e)
      BY <2>1, <2>4, <3>1 DEF QuietWork, PublishedLast
    <3>. QED BY <1>1, <3>1 DEF PublishedLast, GoesOn
  <2>7. ASSUME NEW l \in Upload, l[1] \in SuitesOf[l[2]]
        PROVE  Published(PathOf(Server, l))' \/ OnItsWay(l)'
    <3>1. PathOf(Server, l)' = PathOf(Server, l) /\ Selected(Server)' = Selected(Server)
      BY <1>1 DEF PathOf, GoesOn, Selected
    <3>2. PathOf(Server, l) \in Path
      BY <2>3 DEF PathOf, Path, Upload
    <3>3. CASE Published(PathOf(Server, l)) BY <1>1, <3>1, <3>3 DEF Published
    <3>4. CASE OnItsWay(l) /\ InInbox(PathOf(Server, l))
      <4>1. InInbox(PathOf(Server, l))' BY <3>1, <3>2, <3>4, CopyKeeps, ServerUploads DEF InInbox
      <4>. QED BY <1>1, <3>1, <3>4, <4>1 DEF OnItsWay
    <3>5. CASE OnItsWay(l) /\ l \in job[Server].todo /\ l \in job'[Server].todo
      BY <1>1, <3>1, <3>5 DEF OnItsWay
    <3>6. CASE OnItsWay(l) /\ l \in job[Server].todo /\ l \notin job'[Server].todo
      <4>1. Copy(Server) BY <3>6, AfterCopied, ServerUploads
      <4>2. PICK m \in job[Server].todo :
              /\ job'[Server].todo = job[Server].todo \ {m}
              /\ inbox' = [inbox EXCEPT ![m[1]] =
                   {d \in @ : ~At(d, PathOf(Server, m))} \cup
                   {[package |-> m[2], commit |-> job[Server].commit, whole |-> FALSE]}]
        BY <4>1, AfterCopy, ServerUploads
      <4>3. m = l BY <3>6, <4>2
      <4>. DEFINE file == [package |-> l[2], commit |-> job[Server].commit, whole |-> FALSE]
      <4>4. At(file, PathOf(Server, l)) BY DEF At, PathOf, VersionIn
      <4>5. file \in inbox'[l[1]]
        <5>1. l[1] \in Suites /\ inbox \in [Suites -> SUBSET Deb] BY DEF Upload, TypeOK
        <5>. QED BY <4>2, <4>3, <5>1
      <4>. HIDE DEF file
      <4>6. PathOf(Server, l).suite = l[1] BY DEF PathOf
      <4>7. InInbox(PathOf(Server, l))' BY <3>1, <4>4, <4>5, <4>6 DEF InInbox
      <4>. QED BY <1>1, <3>1, <3>6, <4>7 DEF OnItsWay
    <3>. QED BY <1>1, <2>1, <2>7, <3>3, <3>4, <3>5, <3>6 DEF QuietWork, OnItsWay
  <2>. QED BY <1>1, <2>1, <2>2, <2>5, <2>6, <2>7 DEF QuietWork
<1>. QED BY <1>1, <1>2, QuietGoesOn

LEMMA QuietStartUpdate ==
  ASSUME TypeOK, QuietInv, StartUpdate(Server)
  PROVE  QuietInv'
<1>1. /\ GoesOn(Server) /\ job[Server].step = "update" /\ job'[Server].step = "wait"
      /\ job'[Server].new = job[Server].new /\ job'[Server].todo = job[Server].todo
      /\ update'.debs = NewDebs(Server) /\ update'.deb = {}
      /\ UNCHANGED <<inbox, pool>>
  BY AfterStartUpdate, ServerUploads
<1>2. ASSUME job[Server].undisturbed PROVE QuietWork'
  <2>1. QuietWork BY <1>2 DEF QuietInv
  <2>2. Selected(Server)' = Selected(Server) BY <1>1 DEF Selected
  <2>3. SortsLast(job[Server].commit)' /\ PublishedLast(job[Server].commit)'
    BY <1>1, <2>1 DEF QuietWork, SortsLast, PublishedLast, GoesOn
  <2>4. AllTaken'
    <3>1. ASSUME NEW s \in Selected(Server), NEW d \in inbox[s]
          PROVE  \E path \in NewDebs(Server) : path.suite = s /\ At(d, path)
      <4>1. s \in Suites BY ServerUploads DEF Selected, TypeOK, Job, Upload
      <4>2. d \in Deb BY <4>1 DEF TypeOK
      <4>. DEFINE path == [suite |-> s, package |-> d.package, version |-> VersionIn(d)]
      <4>3. path \in Path BY <4>1, <4>2, VersionsTyped DEF Deb, Path, VersionIn
      <4>4. path.suite = s /\ At(d, path) BY DEF At
      <4>. HIDE DEF path
      <4>5. path \in NewDebs(Server) BY <4>3, <4>4 DEF NewDebs
      <4>. QED BY <4>4, <4>5
    <3>2. \A path \in NewDebs(Server) : path.suite \in Selected(Server) BY DEF NewDebs
    <3>. QED BY <1>1, <2>2, <3>1, <3>2 DEF AllTaken
  <2>5. ASSUME NEW l \in Upload, l[1] \in SuitesOf[l[2]]
        PROVE  Published(PathOf(Server, l))' \/ OnItsWay(l)'
    <3>1. PathOf(Server, l)' = PathOf(Server, l) BY <1>1 DEF PathOf, GoesOn
    <3>. QED BY <1>1, <2>1, <2>2, <2>5, <3>1 DEF QuietWork, OnItsWay, Published, InInbox
  <2>. QED BY <1>1, <2>1, <2>3, <2>4, <2>5 DEF QuietWork
<1>. QED BY <1>1, <1>2, QuietGoesOn

\* With the ISO, everything is in the pools.
LEMMA QuietIso ==
  ASSUME TypeOK, QuietInv, LockInv, CopyIso \/ PublishIso \/ PublishSums
  PROVE  QuietInv'
<1>1. /\ GoesOn(Server) /\ job[Server].step \in {"iso", "publish", "sums"}
      /\ job'[Server].step \in {"publish", "sums", "store"}
      /\ job'[Server].new = job[Server].new /\ job'[Server].todo = job[Server].todo
      /\ UNCHANGED <<inbox, pool, update>>
  BY AfterServer
<1>2. ASSUME job[Server].undisturbed PROVE QuietWork'
  <2>1. QuietWork BY <1>2 DEF QuietInv
  <2>2. update = NoUpdate BY <1>1, <1>2, QuietLock
  <2>3. SortsLast(job[Server].commit)' /\ PublishedLast(job[Server].commit)'
    BY <1>1, <2>1 DEF QuietWork, SortsLast, PublishedLast, GoesOn
  <2>4. ASSUME NEW l \in Upload, l[1] \in SuitesOf[l[2]]
        PROVE  Published(PathOf(Server, l))'
    <3>1. PathOf(Server, l)' = PathOf(Server, l) BY <1>1 DEF PathOf, GoesOn
    <3>. QED BY <1>1, <2>1, <2>4, <3>1 DEF QuietWork, OnItsWay, Published
  <2>. QED BY <1>1, <2>1, <2>2, <2>3, <2>4 DEF QuietWork
<1>. QED BY <1>1, <1>2, QuietGoesOn

\* The update keeps a package in the pool, or in the inbox that it takes it from.
Kept(l) ==
  LET path == PathOf(Server, l)
  IN  /\ Published(path) => Published(path)' \/ (InInbox(path)' /\ l[1] \in Selected(Server))
      /\ InInbox(path) => Published(path)' \/ InInbox(path)'

\* The files of an update, while it runs.
LEMMA QuietMove ==
  ASSUME TypeOK, QuietInv, job' = job, update' # NoUpdate,
         job[Server].undisturbed =>
           /\ SortsLast(job[Server].commit)' /\ PublishedLast(job[Server].commit)' /\ AllTaken'
           /\ \A l \in Upload : Kept(l),
         LockInv, update # NoUpdate
  PROVE  QuietInv'
<1>1. GoesOn(Server) BY DEF GoesOn
<1>2. ASSUME job[Server].undisturbed PROVE QuietWork'
  <2>1. QuietWork BY <1>2 DEF QuietInv
  <2>2. job[Server].step = "wait" /\ job[Server].todo = {} BY <1>2, <2>1, QuietLock DEF QuietWork
  <2>3. Selected(Server)' = Selected(Server) BY DEF Selected
  <2>4. ASSUME NEW l \in Upload, l[1] \in SuitesOf[l[2]]
        PROVE  Published(PathOf(Server, l))' \/ OnItsWay(l)'
    <3>1. Kept(l) /\ (Published(PathOf(Server, l)) \/ OnItsWay(l))
      BY <1>2, <2>1, <2>2, <2>4 DEF QuietWork
    <3>2. PathOf(Server, l)' = PathOf(Server, l) BY DEF PathOf
    <3>. QED BY <2>2, <2>3, <3>1, <3>2 DEF OnItsWay, Kept, Published, InInbox
  <2>. QED BY <1>2, <2>1, <2>2, <2>4 DEF QuietWork
<1>. QED BY <1>1, <1>2, QuietGoesOn

LEMMA QuietRemoveOld ==
  ASSUME TypeOK, QuietInv, LockInv, WaitingInv, HandInv, update # NoUpdate,
         NEW path \in Path, RemoveOld(path)
  PROVE  QuietInv'
<1>1. /\ job' = job /\ UNCHANGED inbox /\ path \in update.debs /\ path.suite \in Suites
      /\ update'.step = "install" /\ update'.debs = update.debs \ {path} /\ update'.deb = {path}
  BY DEF RemoveOld, NextDeb, Path, TypeOK, RepoUpdate
<1>2. /\ \A s \in Suites : pool'[s] \subseteq pool[s]
      /\ \A s \in Suites : \A d \in pool[s] :
           d \in pool'[s] \/ (s = path.suite /\ d.package = path.package)
  BY <1>1 DEF TypeOK, RemoveOld, OldVersions
<1>3. update' # NoUpdate BY <1>1 DEF NoUpdate
<1>4. InInbox(path) BY <1>1 DEF WaitingInv
<1>5. ASSUME job[Server].undisturbed
      PROVE  /\ SortsLast(job[Server].commit)' /\ PublishedLast(job[Server].commit)' /\ AllTaken'
             /\ \A l \in Upload : Kept(l)
  <2>1. QuietWork /\ AllTaken BY <1>5 DEF QuietInv, QuietWork
  <2>2. SortsLast(job[Server].commit)' /\ PublishedLast(job[Server].commit)'
    BY <1>1, <1>2, <2>1 DEF QuietWork, SortsLast, PublishedLast
  <2>3. Selected(Server)' = Selected(Server) BY <1>1 DEF Selected
  <2>4. AllTaken'
    <3>1. update.debs \subseteq update'.debs \cup update'.deb BY <1>1
    <3>2. update.deb = {} BY DEF RemoveOld, HandInv
    <3>. QED BY <1>1, <2>1, <2>3, <3>1, <3>2 DEF AllTaken
  <2>5. ASSUME NEW l \in Upload, Published(PathOf(Server, l))
        PROVE  Published(PathOf(Server, l))' \/ (InInbox(PathOf(Server, l)) /\ l[1] \in Selected(Server))
    <3>. DEFINE want == PathOf(Server, l)
    <3>1. PathOf(Server, l)' = want BY <1>1 DEF PathOf
    <3>2. PICK e \in pool[want.suite] : At(e, want) BY <2>5 DEF Published
    <3>3. want.suite \in Suites BY DEF PathOf, Upload
    <3>4. CASE e \in pool'[want.suite] BY <3>1, <3>2, <3>4 DEF Published
    <3>5. CASE e \notin pool'[want.suite]
      <4>1. want.suite = path.suite /\ want.package = path.package
        BY <1>2, <3>2, <3>3, <3>5 DEF At
      <4>2. PICK d \in inbox[path.suite] : At(d, path) BY <1>4 DEF InInbox
      <4>3. d.package = e.package /\ VersionIn(e) = VersionOf[job[Server].commit][e.package]
        BY <3>2, <4>1, <4>2 DEF At, PathOf
      <4>4. VersionIn(d) = VersionIn(e)
        BY <1>1, <2>1, <3>2, <4>1, <4>2, <4>3 DEF QuietWork, PublishedLast
      <4>5. At(d, want) BY <3>2, <4>1, <4>2, <4>4 DEF At
      <4>6. l[1] \in Selected(Server) BY <1>1, <2>1, <4>1 DEF AllTaken, PathOf
      <4>. QED BY <4>1, <4>2, <4>5, <4>6 DEF InInbox
    <3>. QED BY <3>4, <3>5
  <2>6. \A l \in Upload : PathOf(Server, l)' = PathOf(Server, l) BY <1>1 DEF PathOf
  <2>. QED BY <1>1, <2>2, <2>4, <2>5, <2>6 DEF InInbox, Kept
<1>. QED BY <1>1, <1>3, <1>5, QuietMove

LEMMA QuietInstall ==
  ASSUME TypeOK, QuietInv, LockInv, WaitingInv, HandInv, update # NoUpdate,
         NEW path \in Path, Install(path)
  PROVE  QuietInv'
<1>1. /\ job' = job /\ UNCHANGED inbox /\ path \in update.deb /\ path.suite \in Suites
      /\ update'.step = "clear" /\ update'.debs = update.debs /\ update'.deb = update.deb
  BY DEF Install, Path, TypeOK, RepoUpdate
<1>2. /\ \A s \in Suites : pool[s] \subseteq pool'[s]
      /\ \A s \in Suites : \A e \in pool'[s] :
           e \in pool[s] \/ (s = path.suite /\ e \in inbox[s] /\ At(e, path))
  BY <1>1 DEF TypeOK, Install
<1>3. update' # NoUpdate BY <1>1 DEF NoUpdate
<1>4. \A other \in update.deb : other = path BY <1>1 DEF WaitingInv
<1>5. ASSUME job[Server].undisturbed
      PROVE  /\ SortsLast(job[Server].commit)' /\ PublishedLast(job[Server].commit)' /\ AllTaken'
             /\ \A l \in Upload : Kept(l)
  <2>1. QuietWork /\ AllTaken BY <1>5 DEF QuietInv, QuietWork
  <2>2. SortsLast(job[Server].commit)' BY <1>1, <2>1 DEF QuietWork, SortsLast
  <2>3. ASSUME NEW s \in Suites, NEW d \in inbox[s], NEW e \in pool'[s], d.package = e.package,
               VersionIn(e) = VersionOf[job[Server].commit][e.package]
        PROVE  VersionIn(d) = VersionIn(e)
    <3>1. CASE e \in pool[s] BY <2>1, <2>3, <3>1 DEF QuietWork, PublishedLast
    <3>2. CASE s = path.suite /\ At(e, path)
      <4>1. s \in Selected(Server) BY <1>1, <2>1, <3>2 DEF AllTaken
      <4>2. PICK other \in update.debs \cup update.deb : other.suite = s /\ At(d, other)
        BY <2>1, <4>1 DEF AllTaken
      <4>3. CASE other = path BY <3>2, <4>2, <4>3 DEF At
      <4>4. CASE other # path
        <5>1. Glob[path.version] <= Glob[other.version]
          BY <1>1, <1>4, <2>3, <3>2, <4>2, <4>4 DEF HandInv, At
        <5>2. Glob[other.version] <= Glob[path.version]
          BY <2>1, <2>3, <3>2, <4>2 DEF QuietWork, SortsLast, At
        <5>3. other \in Path BY <4>2 DEF TypeOK, RepoUpdate
        <5>4. path.version \in Versions /\ other.version \in Versions BY <5>3 DEF Path
        <5>5. /\ Glob[path.version] \in Nat /\ Glob[other.version] \in Nat
              /\ Glob[path.version] = Glob[other.version] => path.version = other.version
          BY <5>4, ConstantsAssumption
        <5>6. path.version = other.version BY <5>1, <5>2, <5>5
        <5>. QED BY <3>2, <4>2, <5>6 DEF At
      <4>. QED BY <4>3, <4>4
    <3>. QED BY <1>2, <3>1, <3>2
  <2>4. PublishedLast(job[Server].commit)' BY <1>1, <2>3 DEF PublishedLast
  <2>5. Selected(Server)' = Selected(Server) BY <1>1 DEF Selected
  <2>6. AllTaken' BY <1>1, <2>1, <2>5 DEF AllTaken
  <2>7. \A l \in Upload : PathOf(Server, l)' = PathOf(Server, l) /\ PathOf(Server, l).suite \in Suites
    BY <1>1 DEF PathOf, Upload
  <2>8. \A l \in Upload : Kept(l) BY <1>1, <1>2, <2>7 DEF Kept, Published, InInbox
  <2>. QED BY <2>2, <2>4, <2>6, <2>8
<1>. QED BY <1>1, <1>3, <1>5, QuietMove

LEMMA QuietClearInbox ==
  ASSUME TypeOK, QuietInv, LockInv, WaitingInv, HandInv, update # NoUpdate,
         NEW path \in Path, ClearInbox(path)
  PROVE  QuietInv'
<1>1. /\ job' = job /\ UNCHANGED pool /\ path \in update.deb /\ path.suite \in Suites
      /\ update.step = "clear" /\ update'.step = "add" /\ update'.debs = update.debs
      /\ update'.deb = {}
  BY DEF ClearInbox, Path, TypeOK, RepoUpdate
<1>2. /\ \A s \in Suites : inbox'[s] \subseteq inbox[s]
      /\ \A s \in Suites : \A d \in inbox'[s] : ~(s = path.suite /\ At(d, path))
      /\ \A s \in Suites : \A d \in inbox[s] :
           d \in inbox'[s] \/ (s = path.suite /\ At(d, path))
  BY <1>1 DEF TypeOK, ClearInbox
<1>3. update' # NoUpdate BY <1>1 DEF NoUpdate
<1>4. Published(path) /\ \A other \in update.deb : other = path
  BY <1>1 DEF WaitingInv, HandInv
<1>5. ASSUME job[Server].undisturbed
      PROVE  /\ SortsLast(job[Server].commit)' /\ PublishedLast(job[Server].commit)' /\ AllTaken'
             /\ \A l \in Upload : Kept(l)
  <2>1. QuietWork /\ AllTaken BY <1>5 DEF QuietInv, QuietWork
  <2>2. SortsLast(job[Server].commit)' /\ PublishedLast(job[Server].commit)'
    BY <1>1, <1>2, <2>1 DEF QuietWork, SortsLast, PublishedLast
  <2>3. Selected(Server)' = Selected(Server) /\ Selected(Server) \subseteq Suites
    BY <1>1, ServerUploads DEF Selected, TypeOK, Job, Upload
  <2>4. AllTaken'
    <3>1. ASSUME NEW s \in Selected(Server), NEW d \in inbox'[s]
          PROVE  \E other \in update.debs : other.suite = s /\ At(d, other)
      <4>1. s \in Suites /\ d \in inbox[s] BY <1>2, <2>3
      <4>2. PICK other \in update.debs \cup update.deb : other.suite = s /\ At(d, other)
        BY <2>1, <4>1 DEF AllTaken
      <4>3. other # path BY <1>2, <4>1, <4>2
      <4>. QED BY <1>4, <4>2, <4>3
    <3>. QED BY <1>1, <2>1, <2>3, <3>1 DEF AllTaken
  <2>5. ASSUME NEW l \in Upload PROVE Kept(l)
    <3>1. PathOf(Server, l)' = PathOf(Server, l) /\ PathOf(Server, l).suite \in Suites
      BY <1>1 DEF PathOf, Upload
    <3>2. Published(PathOf(Server, l)) => Published(PathOf(Server, l))'
      BY <1>1, <3>1 DEF Published
    <3>3. ASSUME InInbox(PathOf(Server, l)), ~InInbox(PathOf(Server, l))'
          PROVE  Published(PathOf(Server, l))
      <4>1. PICK d \in inbox[PathOf(Server, l).suite] : At(d, PathOf(Server, l))
        BY <3>3 DEF InInbox
      <4>2. PathOf(Server, l).suite = path.suite /\ At(d, path)
        BY <1>2, <3>1, <3>3, <4>1 DEF InInbox
      <4>. QED BY <1>4, <4>1, <4>2 DEF Published, At
    <3>. QED BY <3>1, <3>2, <3>3 DEF Kept
  <2>. QED BY <2>2, <2>4, <2>5
<1>. QED BY <1>1, <1>3, <1>5, QuietMove

LEMMA QuietIndices ==
  ASSUME TypeOK, QuietInv, LockInv, WaitingInv, HandInv, update # NoUpdate,
         PlaceRelease \/ \E s \in Suites : PlacePackages(s)
  PROVE  QuietInv'
<1>1. /\ job' = job /\ UNCHANGED <<inbox, pool>> /\ update' # NoUpdate
      /\ update'.debs = update.debs /\ update'.deb = update.deb
  <2>1. ASSUME NEW s \in Suites, PlacePackages(s)
        PROVE  /\ job' = job /\ UNCHANGED <<inbox, pool>> /\ update' # NoUpdate
               /\ update'.debs = update.debs /\ update'.deb = update.deb
    <3>1. update'.step = "release" BY <2>1 DEF PlacePackages, TypeOK, RepoUpdate
    <3>. QED BY <2>1, <3>1 DEF PlacePackages, TypeOK, RepoUpdate, NoUpdate
  <2>2. CASE PlaceRelease
    <3>1. update'.step = "add" BY <2>2 DEF PlaceRelease, TypeOK, RepoUpdate
    <3>. QED BY <2>2, <3>1 DEF PlaceRelease, TypeOK, RepoUpdate, NoUpdate
  <2>. QED BY <2>1, <2>2
<1>2. ASSUME job[Server].undisturbed
      PROVE  /\ SortsLast(job[Server].commit)' /\ PublishedLast(job[Server].commit)' /\ AllTaken'
             /\ \A l \in Upload : Kept(l)
  <2>1. QuietWork /\ AllTaken BY <1>2 DEF QuietInv, QuietWork
  <2>2. SortsLast(job[Server].commit)' /\ PublishedLast(job[Server].commit)'
    BY <1>1, <2>1 DEF QuietWork, SortsLast, PublishedLast
  <2>3. AllTaken' BY <1>1, <2>1 DEF AllTaken, Selected
  <2>4. \A l \in Upload : PathOf(Server, l)' = PathOf(Server, l) BY <1>1 DEF PathOf
  <2>5. \A l \in Upload : Kept(l) BY <1>1, <2>4 DEF Kept, Published, InInbox
  <2>. QED BY <2>2, <2>3, <2>5
<1>. QED BY <1>1, <1>2, QuietMove

\* At its end, the inboxes are empty.
LEMMA QuietEndUpdate ==
  ASSUME TypeOK, QuietInv, LockInv, HandInv, update # NoUpdate, EndUpdate
  PROVE  QuietInv'
<1>1. /\ update.debs = {} /\ update.deb = {} /\ update' = NoUpdate /\ UNCHANGED <<inbox, pool>>
      /\ update.by \in Uploaders
  BY DEF EndUpdate, HandInv, TypeOK, RepoUpdate, repository
<1>2. /\ GoesOn(update.by) /\ job'[update.by].step = "iso"
      /\ job'[update.by].new = job[update.by].new /\ job'[update.by].todo = job[update.by].todo
  BY <1>1, AfterUpdate DEF UpdateSteps
<1>3. CASE ~job[Server].undisturbed
  BY <1>1, <1>2, <1>3, QuietOver, ServerUploads DEF GoesOn
<1>4. CASE job[Server].undisturbed
  <2>1. update.by = Server /\ QuietWork /\ AllTaken BY <1>4, QuietLock DEF QuietInv, QuietWork
  <2>2. job[Server].step = "wait" /\ job[Server].todo = {} BY <1>4, <2>1, QuietLock DEF QuietWork
  <2>3. SortsLast(job[Server].commit)' /\ PublishedLast(job[Server].commit)'
    BY <1>1, <1>2, <2>1 DEF QuietWork, SortsLast, PublishedLast, GoesOn
  <2>4. ASSUME NEW l \in Upload, l[1] \in SuitesOf[l[2]]
        PROVE  Published(PathOf(Server, l))'
    <3>1. PathOf(Server, l)' = PathOf(Server, l) BY <1>2, <2>1 DEF PathOf, GoesOn
    <3>2. ~OnItsWay(l) BY <1>1, <2>1, <2>2 DEF OnItsWay, InInbox, AllTaken, PathOf
    <3>. QED BY <1>1, <2>1, <2>2, <2>4, <3>1, <3>2 DEF QuietWork, Published
  <2>5. QuietWork' BY <1>1, <1>2, <2>1, <2>2, <2>3, <2>4 DEF QuietWork
  <2>. QED BY <1>2, <2>1, <2>5, QuietGoesOn
<1>. QED BY <1>3, <1>4

LEMMA QuietNext ==
  ASSUME VersionsGrow, StoredInv, [Next]_vars
  PROVE  QuietInv'
<1>. USE DEF StoredInv
<1>1. ASSUME NEW u \in Uploaders, RunSteps(u) \/ Fail(u) PROVE QuietInv'
  <2>1. CASE Start(u) BY <2>1, QuietStart
  <2>2. CASE u = Server /\ ~Start(u)
    <3>1. CASE UpdateRefused(u) \/ ManualEnd(u) \/ Fail(u)
      BY <2>2, <3>1, AfterEnd, QuietOver, ServerUploads DEF Ends, NoJob
    <3>. QED BY <1>1, <2>2, <3>1, QuietList, QuietCopy, QuietStartUpdate DEF RunSteps
  <2>3. CASE u # Server /\ ~Start(u)
    <3>1. ~job[Server].undisturbed BY <1>1, <2>3, QuietOthers DEF RunSteps
    <3>2. job'[Server] = job[Server]
      BY <1>1, <2>3, ServerUploads, AfterList, AfterCopy, AfterCopied, AfterStartUpdate, AfterEnd
         DEF RunSteps, GoesOn, Ends
    <3>. QED BY <3>1, <3>2, QuietOver
  <2>. QED BY <2>1, <2>2, <2>3
<1>2. CASE CopyIso \/ PublishIso \/ PublishSums BY <1>2, QuietIso
<1>3. CASE IsoDiffers \/ Store BY <1>3, AfterServer, QuietOver DEF Ends, NoJob
<1>4. CASE UpdateSteps
  BY <1>4, QuietRemoveOld, QuietInstall, QuietClearInbox, QuietIndices, QuietEndUpdate DEF UpdateSteps
<1>5. CASE Push \/ UNCHANGED vars
  <2>1. UNCHANGED <<inbox, pool, update, job>> BY <1>5 DEF Push, vars, repository
  <2>2. \A l \in Upload : PathOf(Server, l)' = PathOf(Server, l) BY <2>1 DEF PathOf
  <2>3. QuietWork => QuietWork'
    BY <2>1, <2>2 DEF QuietWork, SortsLast, PublishedLast, AllTaken, OnItsWay, Published, InInbox,
                      Selected
  <2>. QED BY <2>1, <2>3 DEF QuietInv, Idle
<1>6. CASE UpdateBreaks
  <2>1. ~job'[Server].undisturbed
    <3>1. CASE job[Server].undisturbed
      <4>1. update.by = Server BY <1>6, <3>1, AfterBreaks, QuietLock
      <4>. QED BY <1>6, <4>1, AfterBreaks DEF Ends, NoJob
    <3>2. CASE ~job[Server].undisturbed
      BY <1>6, <3>2, AfterBreaks, ServerUploads DEF Ends, NoJob
    <3>. QED BY <3>1, <3>2
  <2>. QED BY <2>1, QuietOver
<1>. QED BY <1>1, <1>2, <1>3, <1>4, <1>5, <1>6, ServerUploads DEF Next, ServerSteps, Uploaders

\* Nobody else's update runs while the server is undisturbed, so none breaks off.
LEMMA FinishedNext ==
  ASSUME StoredInv, [Next]_vars
  PROVE  FinishedInv'
<1>. USE DEF StoredInv
<1>. DEFINE Same == /\ unfinished' = unfinished
                    /\ job'[Server].undisturbed => job[Server].undisturbed
<1>1. Same => FinishedInv' BY DEF FinishedInv
<1>2. ASSUME NEW u \in Uploaders, RunSteps(u) \/ Fail(u) PROVE FinishedInv'
  <2>1. unfinished' = unfinished
    BY <1>2 DEF RunSteps, Start, List, Copy, Copied, StartUpdate, UpdateRefused, ManualEnd, Fail
  <2>2. CASE Start(u)
    <3>1. job'[Server].undisturbed => Undisturbed
      <4>1. job[Server] \in Job BY ServerUploads DEF TypeOK
      <4>2. ~[job[Server] EXCEPT !.undisturbed = FALSE].undisturbed BY <4>1 DEF Job
      <4>. QED BY <2>2, <4>2, ServerUploads DEF Start, NoJob
    <3>. QED BY <2>1, <3>1 DEF FinishedInv, Undisturbed
  <2>3. CASE ~Start(u)
    <3>1. job'[Server].undisturbed => job[Server].undisturbed
      BY <1>2, <2>3, ServerUploads, AfterList, AfterCopy, AfterCopied, AfterStartUpdate, AfterEnd
         DEF RunSteps, GoesOn, Ends, NoJob
    <3>. QED BY <1>1, <2>1, <3>1
  <2>. QED BY <2>2, <2>3
<1>3. CASE CopyIso \/ PublishIso \/ PublishSums \/ IsoDiffers \/ Store
  <2>1. unfinished' = unfinished
    BY <1>3 DEF CopyIso, PublishIso, PublishSums, IsoDiffers, Store
  <2>. QED BY <1>1, <1>3, <2>1, AfterServer DEF GoesOn, Ends, NoJob
<1>4. CASE UpdateSteps
  <2>1. CASE EndUpdate BY <2>1 DEF EndUpdate, FinishedInv
  <2>2. CASE ~EndUpdate
    <3>1. unfinished' = unfinished /\ job' = job
      BY <1>4, <2>2 DEF UpdateSteps, RemoveOld, Install, ClearInbox, PlacePackages, PlaceRelease
    <3>. QED BY <1>1, <3>1
  <2>. QED BY <2>1, <2>2
<1>5. CASE UpdateBreaks
  <2>1. ~job'[Server].undisturbed
    <3>1. CASE job[Server].undisturbed
      <4>1. update.by = Server BY <1>5, <3>1, AfterBreaks, QuietLock
      <4>. QED BY <1>5, <4>1, AfterBreaks DEF Ends, NoJob
    <3>2. CASE ~job[Server].undisturbed
      BY <1>5, <3>2, AfterBreaks, ServerUploads DEF Ends, NoJob
    <3>. QED BY <3>1, <3>2
  <2>. QED BY <2>1 DEF FinishedInv
<1>6. CASE Push \/ UNCHANGED vars BY <1>1, <1>6 DEF Push, vars
<1>. QED BY <1>2, <1>3, <1>4, <1>5, <1>6, ServerUploads DEF Next, ServerSteps, Uploaders

LEMMA StoredInit == Init => StoredInv
<1>. SUFFICES ASSUME Init PROVE StoredInv
  OBVIOUS
<1>1. TypeOK /\ WaitingInv BY TypeInit, WaitingInit
<1>2. CommitsInv BY DEF Init, CommitsInv, NoJob
<1>3. LockInv BY DEF Init, LockInv, NoJob
<1>4. HandInv BY DEF Init, HandInv, NoUpdate
<1>5. QuietInv /\ FinishedInv BY ServerUploads DEF Init, QuietInv, FinishedInv, NoJob
<1>. QED BY <1>1, <1>2, <1>3, <1>4, <1>5 DEF StoredInv

LEMMA StoredNext == VersionsGrow /\ StoredInv /\ [Next]_vars => StoredInv'
BY TypeNext, WaitingNext, CommitsNext, LockNext, HandNext, QuietNext, FinishedNext DEF StoredInv

LEMMA StorePublished ==
  ASSUME StoredInv, IndicesInv, Next, lastBuilt' # lastBuilt, job[Server].undisturbed
  PROVE  Publishes(lastBuilt')
<1>1. Store
  BY DEF Next, ServerSteps, RunSteps, UpdateSteps, repository, Push, Start, List, Copy, Copied,
         StartUpdate, UpdateRefused, ManualEnd, CopyIso, PublishIso, PublishSums, IsoDiffers, Fail,
         RemoveOld, Install, ClearInbox, PlacePackages, PlaceRelease, EndUpdate,
         UpdateBreaks
<1>2. job[Server].step = "store" /\ lastBuilt' = job[Server].commit BY <1>1 DEF Store
<1>3. update = NoUpdate BY <1>2, QuietLock DEF StoredInv
<1>4. ASSUME NEW p \in Packages, NEW s \in SuitesOf[p]
      PROVE  \E d \in release[s] : d.package = p /\ VersionIn(d) = VersionOf[lastBuilt'][p]
  <2>1. s \in Suites BY ConstantsAssumption
  <2>2. release[s] = pool[s] BY <1>3, <2>1 DEF StoredInv, FinishedInv, IndicesInv, Signed
  <2>3. <<s, p>> \in Upload BY <2>1 DEF Upload
  <2>4. Published(PathOf(Server, <<s, p>>))
    BY <1>2, <2>3 DEF StoredInv, QuietInv, QuietWork, OnItsWay
  <2>. QED BY <1>2, <2>2, <2>4 DEF Published, PathOf, At
<1>. QED BY <1>4 DEF Publishes

\* The commit that the build server records as built is in the signed indices, whatever was
\* uploaded by hand before and wherever runs broke off, if its night began with nothing of
\* them left to mend, and in whatever order the shell sorts the versions.
THEOREM RecordedIsPublished ==
  ASSUME VersionsGrow
  PROVE  Spec => StoredIsPublished
<1>1. StoredInv /\ IndicesInv /\ [Next]_vars =>
        [lastBuilt' # lastBuilt /\ job[Server].undisturbed => Publishes(lastBuilt')]_vars
  BY StorePublished
<1>2. StoredInv => TypeOK BY DEF StoredInv
<1>. QED BY <1>1, <1>2, StoredInit, StoredNext, IndicesInit, IndicesNext, PTL
         DEF Spec, StoredIsPublished

-----------------------------------------------------------------------------
(* The ISO                                                                 *)

\* The last build is older than the commit at work; and what has its name, or is next to
\* get it, is the ISO of that commit.
IsoInv ==
  /\ lastBuilt <= head
  /\ job[Server].step # "idle" => lastBuilt < job[Server].commit
  /\ job[Server].step = "publish" => isoUpload.commit = job[Server].commit
  /\ job[Server].step = "sums" => iso = [commit |-> job[Server].commit, whole |-> TRUE]
  /\ job[Server].step = "store" => iso = sums
  /\ IsoVerifies

LEMMA IsoInit == Init => IsoInv
<1>. SUFFICES ASSUME Init PROVE IsoInv
  OBVIOUS
<1>1. job[Server].step = "idle" BY ServerUploads DEF Init, NoJob
<1>. QED BY <1>1 DEF Init, IsoInv, IsoVerifies

\* A step of anybody else leaves the run of the server at its step and its commit.
LEMMA IsoElsewhere ==
  ASSUME IsoInv, UNCHANGED <<isos, lastBuilt>>, head <= head', head \in Nat, head' \in Nat,
         lastBuilt \in Nat,
         \/ job'[Server].step = "idle"
         \/ /\ job'[Server].commit = job[Server].commit
            /\ job'[Server].step = job[Server].step
               \/ (job[Server].step # "idle" /\ job'[Server].step \notin {"publish", "sums", "store"})
  PROVE  IsoInv'
<1>1. UNCHANGED <<isoUpload, iso, sums>> BY DEF isos
<1>2. IsoVerifies' BY <1>1 DEF IsoInv, IsoVerifies
<1>. QED BY <1>1, <1>2 DEF IsoInv

LEMMA IsoNext == TypeOK /\ CommitsInv /\ LockInv /\ IsoInv /\ [Next]_vars => IsoInv'
<1>. SUFFICES ASSUME TypeOK, CommitsInv, LockInv, IsoInv, [Next]_vars PROVE IsoInv'
  OBVIOUS
<1>1. /\ head \in Nat /\ lastBuilt \in Nat /\ head <= head' /\ head' \in Nat
      /\ job[Server] \in Job /\ job \in [Uploaders -> Job] /\ Server \in Uploaders
      /\ job[Server].commit \in Nat /\ job[Server].commit <= head /\ isoUpload \in Iso
  <2>1. TypeOK' BY TypeNext
  <2>2. head \in Nat /\ lastBuilt \in Nat /\ head' \in Nat /\ isoUpload \in Iso
    BY <2>1 DEF TypeOK, Commits
  <2>3. job[Server] \in Job /\ job \in [Uploaders -> Job] /\ job[Server].commit \in Nat
    BY ServerUploads DEF TypeOK, Job, Commits
  <2>4. head <= head' /\ job[Server].commit <= head
    BY RunsCommits, ServerUploads DEF CommitsInv
  <2>. QED BY <2>2, <2>3, <2>4, ServerUploads
<1>2. ASSUME NEW u \in Uploaders, RunSteps(u) \/ Fail(u) PROVE IsoInv'
  <2>1. UNCHANGED <<isos, lastBuilt>> /\ head' = head
    BY <1>2 DEF RunSteps, Start, List, Copy, Copied, StartUpdate, UpdateRefused, ManualEnd, Fail,
                repository
  <2>2. CASE u = Server /\ Start(u)
    <3>1. job'[Server].step = "build" /\ job'[Server].commit = head /\ lastBuilt # head
      BY <1>1, <2>2 DEF Start, Moved
    <3>2. UNCHANGED <<isoUpload, iso, sums>> BY <2>1 DEF isos
    <3>3. IsoVerifies' BY <2>1, <3>2 DEF IsoInv, IsoVerifies
    <3>. QED BY <1>1, <2>1, <3>1, <3>3 DEF IsoInv
  <2>3. CASE u # Server /\ Start(u)
    <3>1. /\ [job[Server] EXCEPT !.undisturbed = FALSE].step = job[Server].step
          /\ [job[Server] EXCEPT !.undisturbed = FALSE].commit = job[Server].commit
      BY <1>1 DEF Job
    <3>2. /\ job'[Server].step = "idle" \/ job'[Server].commit = job[Server].commit
          /\ job'[Server].step = job[Server].step
      BY <1>1, <2>3, <3>1 DEF Start, Idle, NoJob
    <3>. QED BY <1>1, <2>1, <3>2, IsoElsewhere
  <2>4. CASE ~Start(u) /\ (UpdateRefused(u) \/ ManualEnd(u) \/ Fail(u))
    <3>1. job'[Server].step = "idle" \/ job'[Server] = job[Server]
      BY <1>1, <2>4, AfterEnd DEF Ends, NoJob
    <3>. QED BY <1>1, <2>1, <3>1, IsoElsewhere
  <2>5. CASE List(u) \/ Copy(u) \/ Copied(u) \/ StartUpdate(u)
    <3>1. /\ job'[Server].commit = job[Server].commit
          /\ \/ job'[Server] = job[Server]
             \/ job[Server].step # "idle" /\ job'[Server].step \notin {"publish", "sums", "store"}
      BY <1>1, <2>5, AfterList, AfterCopy, AfterCopied, AfterStartUpdate DEF GoesOn
    <3>. QED BY <1>1, <2>1, <3>1, IsoElsewhere
  <2>. QED BY <1>2, <2>2, <2>3, <2>4, <2>5 DEF RunSteps
<1>3. CASE CopyIso
  <2>1. /\ isoUpload'.commit = job[Server].commit /\ UNCHANGED <<iso, sums, lastBuilt, head>>
        /\ job'[Server].step = "publish" /\ job'[Server].commit = job[Server].commit
        /\ job[Server].step = "iso"
    BY <1>1, <1>3, AfterServer DEF CopyIso, GoesOn
  <2>. QED BY <2>1 DEF IsoInv, IsoVerifies
<1>4. CASE PublishIso
  <2>1. /\ iso' = isoUpload /\ isoUpload.whole /\ UNCHANGED <<sums, lastBuilt, head>>
        /\ job[Server].step = "publish" /\ job'[Server].step = "sums"
        /\ job'[Server].commit = job[Server].commit
    BY <1>1, <1>4, AfterServer DEF PublishIso, IsoChecked, GoesOn
  <2>2. iso' = [commit |-> job[Server].commit, whole |-> TRUE]
    BY <1>1, <2>1 DEF IsoInv, Iso
  <2>. QED BY <2>1, <2>2 DEF IsoInv, IsoVerifies
<1>5. CASE PublishSums
  <2>1. /\ sums' = [commit |-> job[Server].commit, whole |-> TRUE]
        /\ UNCHANGED <<iso, lastBuilt, head>>
        /\ job[Server].step = "sums" /\ job'[Server].step = "store"
        /\ job'[Server].commit = job[Server].commit
    BY <1>1, <1>5, AfterServer DEF PublishSums, GoesOn
  <2>. QED BY <2>1 DEF IsoInv, IsoVerifies
<1>6. CASE Store
  <2>1. /\ lastBuilt' = job[Server].commit /\ UNCHANGED <<iso, sums, head>>
        /\ job[Server].step = "store" /\ job'[Server].step = "idle"
    BY <1>1, <1>6 DEF Store, NoJob, repository, isos
  <2>. QED BY <1>1, <2>1 DEF IsoInv, IsoVerifies
<1>7. CASE IsoDiffers
  <2>1. UNCHANGED <<isos, lastBuilt>> /\ job'[Server].step = "idle"
    BY <1>1, <1>7 DEF IsoDiffers, NoJob, repository
  <2>. QED BY <1>1, <2>1, IsoElsewhere
<1>8. CASE UpdateSteps
  <2>1. UNCHANGED <<isos, lastBuilt>>
    BY <1>8 DEF UpdateSteps, RemoveOld, Install, ClearInbox, PlacePackages, PlaceRelease, EndUpdate,
                repository
  <2>2. CASE EndUpdate
    <3>1. update.by \in Uploaders /\ GoesOn(update.by) /\ job'[update.by].step = "iso"
      BY <1>8, <2>2, AfterUpdate DEF EndUpdate, UpdateSteps
    <3>2. update # NoUpdate /\ job[update.by].step = "wait"
      BY <1>8, <3>1 DEF UpdateSteps, LockInv
    <3>3. /\ job'[Server].commit = job[Server].commit
          /\ \/ job'[Server] = job[Server]
             \/ job[Server].step # "idle" /\ job'[Server].step \notin {"publish", "sums", "store"}
      BY <1>1, <3>1, <3>2 DEF GoesOn
    <3>. QED BY <1>1, <2>1, <3>3, IsoElsewhere
  <2>3. CASE ~EndUpdate
    <3>1. job' = job BY <1>8, <2>3, AfterUpdate
    <3>. QED BY <1>1, <2>1, <3>1, IsoElsewhere
  <2>. QED BY <2>2, <2>3
<1>9. CASE UpdateBreaks
  <2>1. /\ UNCHANGED <<isos, lastBuilt>>
        /\ job'[Server].step = "idle" \/ job'[Server] = job[Server]
    BY <1>1, <1>9, AfterBreaks DEF UpdateBreaks, Ends, NoJob, repository
  <2>. QED BY <1>1, <2>1, IsoElsewhere
<1>10. CASE Push \/ UNCHANGED vars
  <2>1. UNCHANGED <<isos, lastBuilt, job>> BY <1>10 DEF Push, vars, repository
  <2>. QED BY <1>1, <2>1, IsoElsewhere
<1>. QED BY <1>2, <1>3, <1>4, <1>5, <1>6, <1>7, <1>8, <1>9, <1>10, ServerUploads
         DEF Next, ServerSteps, Uploaders

\* The ISO that can be downloaded is the one that SHA256SUMS is of, wherever an upload
\* breaks off, or it is newer than the last build, and another night makes it again.
THEOREM IsoStaysVerified == Spec => []IsoVerifies
<1>1. IsoInv => IsoVerifies BY DEF IsoInv
<1>2. Init => CommitsInv /\ LockInv BY StoredInit DEF StoredInv
<1>. QED BY <1>1, <1>2, TypeInit, TypeNext, CommitsNext, LockNext, IsoInit, IsoNext, PTL DEF Spec
=============================================================================
