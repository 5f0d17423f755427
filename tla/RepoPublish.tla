---------------------------- MODULE RepoPublish ----------------------------
(***************************************************************************)
(* From the git repository to the package repository: hd-buildserver and   *)
(* update-repo.py build the head of the branch and copy its packages to    *)
(* the inboxes, hd-repo-update moves them into the pools of their suites   *)
(* and makes and signs the indices.                                        *)
(*                                                                         *)
(* The build server runs every night and only uploads what the pools do    *)
(* not have yet; a developer uploads everything by hand, at any time.      *)
(* Only hd-repo-update takes a lock.  A run may break off between any two  *)
(* steps, and in the middle of a file that it copies.                      *)
(*                                                                         *)
(* Abstractions.  A package file is its package, the commit it was built   *)
(* of and whether all of it is there.  Suites and packages are numbers, in *)
(* the order in which the programs go through them.  The three files of a  *)
(* Release are one, and the commit stands for the kernel sources it is     *)
(* built of too.  The pools of the suites are listed in one step.          *)
(***************************************************************************)
EXTENDS Integers, FiniteSets

CONSTANTS
  Server, Developers,   \* the build server, and who else runs update-repo.py
  Packages, Suites, SuitesOf,
  MaxCommit, VersionOf, \* bound: commits; VersionOf[c][p] is in version.json of commit c
  Glob,                 \* Glob[v]: where the shell sorts the file name of version v
  MaxBroken,            \* bound: runs that break off
  MaxManual             \* bound: uploads by hand

Commits == 1 .. MaxCommit
Versions == 1 .. MaxCommit
Uploaders == Developers \cup {Server}

ASSUME ConstantsAssumption ==
  /\ Server \notin Developers
  /\ Packages \subseteq Nat /\ Suites \subseteq Nat
  /\ SuitesOf \in [Packages -> SUBSET Suites]
  /\ MaxCommit \in Nat \ {0} /\ MaxBroken \in Nat /\ MaxManual \in Nat
  /\ VersionOf \in [Commits -> [Packages -> Versions]]
  /\ \A v, w \in Versions : Glob[v] \in Nat /\ (Glob[v] = Glob[w] => v = w)

Deb == [package : Packages, commit : Commits, whole : BOOLEAN]
VersionIn(d) == VersionOf[d.commit][d.package]
Upload == Suites \X Packages
Path == [suite : Suites, package : Packages, version : Versions]
Before(l, m) == l[1] < m[1] \/ (l[1] = m[1] /\ l[2] < m[2])
At(d, path) == d.package = path.package /\ VersionIn(d) = path.version

Iso == [commit : 0 .. MaxCommit, whole : BOOLEAN]
NoIso == [commit |-> 0, whole |-> TRUE]
Job == [step : {"idle", "build", "copy", "copying", "update", "wait", "iso", "publish", "sums",
                 "store"},
        commit : Commits, new : SUBSET Upload, todo : SUBSET Upload,
        file : SUBSET Upload, undisturbed : BOOLEAN]
RepoUpdate == [by : Uploaders, step : {"none", "add", "install", "clear", "release"},
               debs : SUBSET Path,
               deb : SUBSET Path, suites : SUBSET Suites, suite : SUBSET Suites]
NoJob == [step |-> "idle", commit |-> 1, new |-> {}, todo |-> {}, file |-> {},
          undisturbed |-> FALSE]
NoUpdate == [by |-> Server, step |-> "none", debs |-> {}, deb |-> {},
             suites |-> {}, suite |-> {}]

VARIABLES
  head,        \* the commit at the head of the branch
  inbox,       \* inbox[s]: the files in the inbox of suite s
  pool,        \* pool[s]: the files in the pool of suite s
  index,       \* index[s]: the files that Packages lists
  release,     \* release[s]: the files of the Packages that the Release signs
  isoUpload, iso,   \* the ISO under its temporary name, and the one to download
  sums,        \* SHA256SUMS: the ISO that it is of
  lastBuilt,   \* the commit in last-built, or 0
  job,         \* job[u]: the run of update-repo.py of u, for the server of hd-buildserver
  update,      \* the hd-repo-update that holds the lock
  broken, manual    \* how many runs broke off, and how many uploads by hand there were

\* For the properties: the suites that an update which broke off had not made, until
\* one ends.
VARIABLE unfinished

isos == <<isoUpload, iso, sums>>
repository == <<inbox, pool, index, release, isos>>
vars == <<head, repository, lastBuilt, job, update, broken, manual, unfinished>>

-----------------------------------------------------------------------------
Init ==
  /\ head = 1
  /\ inbox = [s \in Suites |-> {}] /\ pool = [s \in Suites |-> {}]
  /\ index = [s \in Suites |-> {}] /\ release = [s \in Suites |-> {}]
  /\ isoUpload = NoIso /\ iso = NoIso /\ sums = NoIso
  /\ lastBuilt = 0
  /\ job = [u \in Uploaders |-> NoJob]
  /\ update = NoUpdate
  /\ broken = 0 /\ manual = 0 /\ unfinished = {}

Push ==
  /\ head < MaxCommit
  /\ head' = head + 1
  /\ UNCHANGED <<repository, lastBuilt, job, update, broken, manual, unfinished>>

-----------------------------------------------------------------------------
(* hd-buildserver and update-repo.py                                       *)

\* Mutant: only the commit after the last build is built.
MovedByOne == head = lastBuilt + 1

Moved == head # lastBuilt

Idle(u) == job[u] = NoJob

\* Nobody else is at work, and no update broke off.  No upload that broke off left a
\* file that is older than the one of its package in the pool, or one of another version
\* than the commit has whose name sorts behind it.
Undisturbed ==
  /\ \A u \in Uploaders : Idle(u)
  /\ unfinished = {}
  /\ \A s \in Suites : \A d \in inbox[s] :
       /\ \A e \in pool[s] : d.package = e.package => VersionIn(e) <= VersionIn(d)
       /\ Glob[VersionIn(d)] <= Glob[VersionOf[head][d.package]]

\* A run of another uploader is disturbed once this one starts.
Start(u) ==
  /\ Idle(u)
  /\ IF u = Server THEN Moved /\ manual' = manual
     ELSE manual < MaxManual /\ manual' = manual + 1
  /\ job' = [v \in Uploaders |->
               IF v = u THEN [step |-> "build", commit |-> head, new |-> {}, todo |-> {},
                              file |-> {}, undisturbed |-> Undisturbed]
               ELSE IF Idle(v) THEN NoJob ELSE [job[v] EXCEPT !.undisturbed = FALSE]]
  /\ UNCHANGED <<head, repository, lastBuilt, update, broken, unfinished>>

PathOf(u, l) == [suite |-> l[1], package |-> l[2], version |-> VersionOf[job[u].commit][l[2]]]
Published(path) == \E d \in pool[path.suite] : At(d, path)

\* --only-new compares the names with those in the pool of the suite.
New(u) == {l \in Upload : /\ l[1] \in SuitesOf[l[2]]
                          /\ u = Server => ~Published(PathOf(u, l))}

\* Without packages, update-repo.py goes on with the ISO.
List(u) ==
  /\ job[u].step = "build"
  /\ job' = [job EXCEPT ![u].step = IF New(u) = {} THEN "iso" ELSE "copy",
                        ![u].new = New(u), ![u].todo = New(u)]
  /\ UNCHANGED <<head, repository, lastBuilt, update, broken, manual, unfinished>>

\* scp writes the file under its own name, over one that is there.
Copy(u) ==
  /\ job[u].step = "copy"
  /\ \E l \in job[u].todo :
       /\ \A m \in job[u].todo : ~Before(m, l)
       /\ inbox' = [inbox EXCEPT ![l[1]] =
            {d \in @ : ~At(d, PathOf(u, l))} \cup
            {[package |-> l[2], commit |-> job[u].commit, whole |-> FALSE]}]
       /\ job' = [job EXCEPT ![u].step = "copying", ![u].todo = @ \ {l}, ![u].file = {l}]
  /\ UNCHANGED <<head, pool, index, release, isos, lastBuilt, update, broken, manual, unfinished>>

\* The rest of a file that was removed meanwhile is written to no name.
Copied(u) ==
  /\ job[u].step = "copying"
  /\ \E l \in job[u].file :
       inbox' = [inbox EXCEPT ![l[1]] =
         {IF At(d, PathOf(u, l)) THEN [d EXCEPT !.commit = job[u].commit, !.whole = TRUE] ELSE d
            : d \in @}]
  /\ job' = [job EXCEPT ![u].step = IF job[u].todo = {} THEN "update" ELSE "copy",
                        ![u].file = {}]
  /\ UNCHANGED <<head, pool, index, release, isos, lastBuilt, update, broken, manual, unfinished>>

\* scp of the ISO to its temporary name; what arrives need not be what was sent.
CopyIso ==
  /\ job[Server].step = "iso"
  /\ \E whole \in BOOLEAN :
       /\ whole \/ broken < MaxBroken
       /\ broken' = IF whole THEN broken ELSE broken + 1
       /\ isoUpload' = [commit |-> job[Server].commit, whole |-> whole]
  /\ job' = [job EXCEPT ![Server].step = "publish"]
  /\ UNCHANGED <<head, inbox, pool, index, release, iso, sums, lastBuilt, update, manual,
                 unfinished>>

\* Mutant: the upload is renamed without a look at its sha256.
NotChecked == TRUE

IsoChecked == isoUpload.whole

PublishIso ==
  /\ job[Server].step = "publish" /\ IsoChecked
  /\ iso' = isoUpload /\ isoUpload' = NoIso
  /\ job' = [job EXCEPT ![Server].step = "sums"]
  /\ UNCHANGED <<head, inbox, pool, index, release, sums, lastBuilt, update, broken, manual,
                 unfinished>>

\* The sum is that of the ISO that was built.
PublishSums ==
  /\ job[Server].step = "sums"
  /\ sums' = [commit |-> job[Server].commit, whole |-> TRUE]
  /\ job' = [job EXCEPT ![Server].step = "store"]
  /\ UNCHANGED <<head, inbox, pool, index, release, isoUpload, iso, lastBuilt, update, broken,
                 manual, unfinished>>

\* "Only a build that was uploaded counts."
Store ==
  /\ job[Server].step = "store"
  /\ lastBuilt' = job[Server].commit
  /\ job' = [job EXCEPT ![Server] = NoJob]
  /\ UNCHANGED <<head, repository, update, broken, manual, unfinished>>

\* Without an ISO, the upload by hand ends after hd-repo-update.
ManualEnd(u) ==
  /\ u # Server /\ job[u].step = "iso"
  /\ job' = [job EXCEPT ![u] = NoJob]
  /\ UNCHANGED <<head, repository, lastBuilt, update, broken, manual, unfinished>>

\* A command fails, the network is gone, the host restarts: the run ends where it is.
Fail(u) ==
  /\ ~Idle(u) /\ job[u].step # "wait"
  /\ broken < MaxBroken
  /\ broken' = broken + 1
  /\ job' = [job EXCEPT ![u] = NoJob]
  /\ UNCHANGED <<head, repository, lastBuilt, update, manual, unfinished>>

\* An ISO that is not the one sent ends the run.
IsoDiffers ==
  /\ job[Server].step = "publish" /\ ~IsoChecked
  /\ job' = [job EXCEPT ![Server] = NoJob]
  /\ UNCHANGED <<head, repository, lastBuilt, update, broken, manual, unfinished>>

-----------------------------------------------------------------------------
(* hd-repo-update                                                          *)

\* Mutant: only one of the suites that got packages is updated.
OneSuite(u) == {CHOOSE s \in Suites : \E l \in job[u].new : l[1] = s}

Selected(u) == {l[1] : l \in job[u].new}

\* Mutant: the files in place of their paths.
NewFiles(u) == UNION {inbox[s] : s \in Selected(u)}

NewDebs(u) ==
  {path \in Path : path.suite \in Selected(u) /\ \E d \in inbox[path.suite] : At(d, path)}

Running(u) == [by |-> u, step |-> "add", debs |-> NewDebs(u), deb |-> {},
               suites |-> Suites, suite |-> {}]

\* Every file is looked at before anything changes.  Of one that is not whole, the
\* part that is looked at may be there or not.
StartUpdate(u) ==
  /\ job[u].step = "update" /\ update = NoUpdate
  /\ update' = Running(u)
  /\ job' = [job EXCEPT ![u].step = "wait"]
  /\ UNCHANGED <<head, repository, lastBuilt, broken, manual, unfinished>>

\* Another update has the lock, or a file is not a valid package.
UpdateRefused(u) ==
  /\ job[u].step = "update"
  /\ update # NoUpdate \/ \E s \in Selected(u) : \E d \in inbox[s] : ~d.whole
  /\ job' = [job EXCEPT ![u] = NoJob]
  /\ UNCHANGED <<head, repository, lastBuilt, update, broken, manual, unfinished>>

\* The packages of a suite are added in the order of their file names.
NextDeb(path) ==
  /\ path \in update.debs
  /\ \A other \in update.debs :
       IF other.suite = path.suite /\ other.package = path.package
         THEN Glob[path.version] <= Glob[other.version]
         ELSE ~Before(<<other.suite, other.package>>, <<path.suite, path.package>>)

\* Mutant: packages whose names start the same leave the pool too.
SameStart(path) == pool[path.suite]

OldVersions(path) == {d \in pool[path.suite] : d.package = path.package}

RemoveOld(path) ==
  /\ update.step = "add" /\ NextDeb(path)
  /\ pool' = [pool EXCEPT ![path.suite] = @ \ OldVersions(path)]
  /\ update' = [update EXCEPT !.step = "install", !.debs = @ \ {path}, !.deb = {path}]
  /\ UNCHANGED <<head, inbox, index, release, isos, lastBuilt, job, broken, manual, unfinished>>

\* What is in the inbox now goes into the pool.
Install(path) ==
  /\ update.step = "install" /\ path \in update.deb
  /\ pool' = [pool EXCEPT ![path.suite] = @ \cup {d \in inbox[path.suite] : At(d, path)}]
  /\ update' = [update EXCEPT !.step = "clear"]
  /\ UNCHANGED <<head, inbox, index, release, isos, lastBuilt, job, broken, manual, unfinished>>

ClearInbox(path) ==
  /\ update.step = "clear" /\ path \in update.deb
  /\ inbox' = [inbox EXCEPT ![path.suite] = {d \in @ : ~At(d, path)}]
  /\ update' = [update EXCEPT !.step = "add", !.deb = {}]
  /\ UNCHANGED <<head, pool, index, release, isos, lastBuilt, job, broken, manual, unfinished>>

\* Mutant: what left the pool stays in the index.
Merged(s) == index[s] \cup pool[s]

Listing(s) == pool[s]

\* The indices and the Release are made elsewhere, and moved into place one by one.
PlacePackages(s) ==
  /\ update.step = "add" /\ update.debs = {}
  /\ s \in update.suites /\ \A t \in update.suites : s <= t
  /\ index' = [index EXCEPT ![s] = Listing(s)]
  /\ update' = [update EXCEPT !.step = "release", !.suites = @ \ {s}, !.suite = {s}]
  /\ UNCHANGED <<head, inbox, pool, release, isos, lastBuilt, job, broken, manual, unfinished>>

PlaceRelease ==
  /\ update.step = "release"
  /\ release' = [s \in Suites |-> IF s \in update.suite THEN index[s] ELSE release[s]]
  /\ update' = [update EXCEPT !.step = "add", !.suite = {}]
  /\ UNCHANGED <<head, inbox, pool, index, isos, lastBuilt, job, broken, manual, unfinished>>

EndUpdate ==
  /\ update.step = "add" /\ update.debs = {} /\ update.suites = {}
  /\ job' = [job EXCEPT ![update.by].step = "iso"]
  /\ update' = NoUpdate /\ unfinished' = {}
  /\ UNCHANGED <<head, repository, lastBuilt, broken, manual>>

\* A full disk, a key that cannot sign, a power cut; or the run that waits for the
\* update is gone, and the update with it at its next line of output.
UpdateBreaks ==
  /\ update # NoUpdate /\ broken < MaxBroken
  /\ broken' = broken + 1
  /\ job' = [job EXCEPT ![update.by] = NoJob]
  /\ update' = NoUpdate
  /\ unfinished' = unfinished \cup update.suites \cup update.suite
  /\ UNCHANGED <<head, repository, lastBuilt, manual>>

-----------------------------------------------------------------------------
\* The steps of a run, and of hd-repo-update.
RunSteps(u) ==
  \/ Start(u) \/ List(u) \/ Copy(u) \/ Copied(u)
  \/ StartUpdate(u) \/ UpdateRefused(u) \/ ManualEnd(u)

ServerSteps == RunSteps(Server) \/ CopyIso \/ PublishIso \/ PublishSums \/ IsoDiffers \/ Store

UpdateSteps ==
  /\ update # NoUpdate
  /\ \/ \E path \in Path : RemoveOld(path) \/ Install(path) \/ ClearInbox(path)
     \/ \E s \in Suites : PlacePackages(s)
     \/ PlaceRelease
     \/ EndUpdate

Next ==
  \/ Push
  \/ ServerSteps
  \/ \E u \in Developers : RunSteps(u)
  \/ \E u \in Uploaders : Fail(u)
  \/ UpdateSteps \/ UpdateBreaks

\* The timer starts a run every night, and a run and an update go on until they end.
Fairness == WF_vars(ServerSteps) /\ WF_vars(UpdateSteps)

Spec == Init /\ [][Next]_vars /\ Fairness

-----------------------------------------------------------------------------
(* Properties.                                                             *)

\* Every variable has its type.
TypeOK ==
  /\ head \in Commits
  /\ inbox \in [Suites -> SUBSET Deb] /\ pool \in [Suites -> SUBSET Deb]
  /\ index \in [Suites -> SUBSET Deb] /\ release \in [Suites -> SUBSET Deb]
  /\ isoUpload \in Iso /\ iso \in Iso /\ sums \in Iso
  /\ lastBuilt \in 0 .. MaxCommit
  /\ job \in [Uploaders -> Job]
  /\ update \in RepoUpdate
  /\ broken \in 0 .. MaxBroken /\ manual \in 0 .. MaxManual
  /\ unfinished \subseteq Suites

\* A suite that the update at work has still to make, or that may be left as an update that
\* broke off left it.  One update that ends mends them all, whatever suites it was given.
Unmade == update.suites \cup update.suite \cup unfinished

\* The Packages of every other suite list what is in its pool, and its Release signs that
\* Packages, whoever uploads, whatever is refused and wherever it breaks off.
IndicesMatch ==
  \A s \in Suites \ Unmade : release[s] = index[s] /\ index[s] = pool[s]

\* "Clients never see indices without the signed Release that matches them."  Where an
\* update is at work or broke off, they do (RepoPublishClients.cfg).
ClientsSeeMatch == \A s \in Suites : release[s] = index[s]

PackagesOf(files) == {d.package : d \in files}
WholeOnes(files) == {d \in files : d.whole}
Available(s) == PackagesOf(WholeOnes(inbox[s] \cup pool[s]))
Halves(s) == PackagesOf((inbox[s] \cup pool[s]) \ WholeOnes(inbox[s] \cup pool[s]))

\* A suite that has a whole file of a package, in its pool or on its way there, only loses
\* it to one that was not copied whole: an update that replaces a version always has the
\* next one (hd-repo-update removes the old file first).
NoPackageLost == [][\A s \in Suites : Available(s) \ Available(s)' \subseteq Halves(s)']_vars

\* "A bad upload leaves the repository as it was": a file that was not copied whole takes
\* no whole one out of a pool.  It does (RepoPublishHalf.cfg).
BadUploadRefused ==
  [][\A s \in Suites : PackagesOf(WholeOnes(pool[s])) \subseteq Available(s)']_vars

\* "Older versions of the same package in that pool are removed", and no newer ones.
\* Where names do not sort like versions, newer ones too (RepoPublishNames.cfg).
OnlyOlderRemoved ==
  [][\A path \in update'.deb : \A d \in pool[path.suite] \ pool'[path.suite] :
       VersionIn(d) <= path.version]_vars

Publishes(c) ==
  \A p \in Packages : \A s \in SuitesOf[p] : \E d \in release[s] :
    d.package = p /\ VersionIn(d) = VersionOf[c][p]

\* When the build server records a commit as the last build, the signed index of every suite
\* lists the packages of that commit: otherwise no later night would upload them.  That
\* is, if it started undisturbed, and nobody else uploaded during its run.
StoredIsPublished ==
  [][lastBuilt' # lastBuilt /\ job[Server].undisturbed => Publishes(lastBuilt')]_vars

\* "Only a build that was uploaded counts", also after a night that failed.
\* Not so (RepoPublishBreaks.cfg).
OnlyUploadedCounts == [][lastBuilt' # lastBuilt => Publishes(lastBuilt')]_vars

\* The ISO that can be downloaded is the one that SHA256SUMS is of, unless the last build
\* that got that far was not recorded, which has another night build again.
IsoVerifies == iso = sums \/ lastBuilt < iso.commit

\* "A failed night is tried again": unless a broken upload stays in an inbox, the head
\* of the branch is built and recorded in the end.
LeftBroken ==
  \E s \in Suites : \E d \in inbox[s] :
    ~d.whole /\ (Idle(Server) \/ <<s, d.package>> \notin job[Server].file)
TriedAgain == <>[](~LeftBroken) => <>[](lastBuilt = head)
=============================================================================
