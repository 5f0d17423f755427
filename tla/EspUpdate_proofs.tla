------------------------- MODULE EspUpdate_proofs -------------------------
(***************************************************************************)
(* Proofs about the updates of the ESPs and Secure Boot, for any kernels,  *)
(* ESPs and number of rows of the menu.                                    *)
(***************************************************************************)
EXTENDS EspUpdate, FiniteSetTheorems, TLAPS

Running == pc # "idle"

\* An update that runs has its local state.
TypeInv == TypeOK /\ (Running => run \in Run)

-----------------------------------------------------------------------------
(* Operators                                                               *)

LEMMA NoFileIsNoFile == NoFile \notin Uki \cup Assets \cup Loader
BY DEF NoFile, Uki, Assets, Loader

LEMMA FoundKernels == FindKernels = {k \in FindKernels : k \in modules /\ InBoot(k) /\ initrd[k] # "none"}
BY DEF FindKernels, Recent

LEMMA KeysAreKeys == NoKeys \in KeySets
BY ConstantsAssumption DEF NoKeys, KeySets

\* A file that is written has the new contents and verifies, whether it is the new
\* file or the old one that stays.
LEMMA WrittenUki ==
  ASSUME NEW old \in Uki \cup {NoFile}, NEW b \in BOOLEAN, keys \in KeySets
  PROVE  LET w == Written(old, [zfs |-> b, key |-> keys])
         IN  w \in Uki /\ w.zfs = b /\ Verifies(w.key)
<1>1. CASE old = NoFile BY <1>1 DEF Written, Uki, Verifies
<1>2. CASE old \in Uki BY <1>2 DEF Written, Uki, Verifies
<1>. QED BY <1>1, <1>2

LEMMA WrittenAssets ==
  ASSUME NEW old \in Assets \cup {NoFile}, NEW f \in Frontends, NEW r \in SUBSET Kernels,
         keys \in KeySets
  PROVE  LET w == Written(old, [frontend |-> f, rows |-> r, key |-> keys])
         IN  w \in Assets /\ w.frontend = f /\ w.rows = r /\ Verifies(w.key)
<1>1. CASE old = NoFile BY <1>1 DEF Written, Assets, Verifies
<1>2. CASE old \in Assets BY <1>2 DEF Written, Assets, Verifies
<1>. QED BY <1>1, <1>2

LEMMA WrittenLoader ==
  ASSUME NEW old \in Loader \cup {NoFile}, NEW f \in Frontends, keys \in KeySets
  PROVE  LET w == Written(old, [frontend |-> f, key |-> keys])
         IN  w \in Loader /\ w.frontend = f /\ Verifies(w.key)
<1>1. CASE old = NoFile BY <1>1 DEF Written, Loader, Verifies
<1>2. CASE old \in Loader BY <1>2 DEF Written, Loader, Verifies
<1>. QED BY <1>1, <1>2

-----------------------------------------------------------------------------
(* Types                                                                   *)

LEMMA TypeInvInit == Init => TypeInv
<1>. SUFFICES ASSUME Init PROVE TypeInv
  OBVIOUS
<1>1. place \in [Kernels -> Nat] BY DEF Init, NotThere
<1>2. /\ modules \subseteq Kernels /\ initrd \in [Kernels -> {"none", "plain", "zfs"}]
      /\ frontend \in Frontends /\ pk \in BOOLEAN /\ pc = "idle" /\ run = NoRun
      /\ ukis \in [Esps -> [Kernels -> Uki \cup {NoFile}]]
      /\ assets \in [Esps -> Assets \cup {NoFile}] /\ loader \in [Esps -> Loader \cup {NoFile}]
      /\ outdated \subseteq Kernels
  BY DEF Init
<1>3. keys \in KeySets /\ db \in KeySets /\ updated \in KeySets BY KeysAreKeys DEF Init
<1>. QED BY <1>1, <1>2, <1>3 DEF TypeInv, TypeOK, Running

LEMMA TypeInvSystem ==
  ASSUME TypeInv, System
  PROVE  TypeInv'
<1>1. ~Running /\ ~Running' /\ UNCHANGED <<secboot, files, updated, pc, run>>
  BY DEF System, Running
<1>. SUFFICES /\ place' \in [Kernels -> Nat] /\ modules' \subseteq Kernels
              /\ outdated' \subseteq Kernels
              /\ initrd' \in [Kernels -> {"none", "plain", "zfs"}] /\ frontend' \in Frontends
  BY <1>1 DEF TypeInv, TypeOK, secboot, files
<1>2. ASSUME NEW k \in Kernels, InstallKernel(k) \/ RemoveKernel(k)
      PROVE  place' \in [Kernels -> Nat]
  <2>1. \A j \in Kernels : place[j] \in Nat BY DEF TypeInv, TypeOK
  <2>2. CASE InstallKernel(k) BY <2>1, <2>2 DEF InstallKernel, NotThere
  <2>3. CASE RemoveKernel(k)
    <3>1. \A j \in Kernels : place[j] > place[k] => place[j] - 1 \in Nat BY <2>1
    <3>. QED BY <2>1, <2>3, <3>1 DEF RemoveKernel, NotThere
  <2>. QED BY <1>2, <2>2, <2>3
<1>3. ASSUME NEW k \in Kernels, InstallKernel(k) \/ RemoveKernel(k) \/ AddModule(k) \/ MakeInitrd(k)
      PROVE  modules' \subseteq Kernels /\ initrd' \in [Kernels -> {"none", "plain", "zfs"}]
  BY <1>3 DEF InstallKernel, RemoveKernel, AddModule, MakeInitrd, TypeInv, TypeOK
<1>4. ASSUME NEW k \in Kernels, InstallKernel(k) \/ RemoveKernel(k) \/ AddModule(k) \/ MakeInitrd(k)
      PROVE  frontend' = frontend /\ (place' = place \/ InstallKernel(k) \/ RemoveKernel(k))
  BY <1>4 DEF InstallKernel, RemoveKernel, AddModule, MakeInitrd
<1>. DEFINE Typed == /\ place' \in [Kernels -> Nat] /\ modules' \subseteq Kernels
                     /\ initrd' \in [Kernels -> {"none", "plain", "zfs"}]
                     /\ frontend' \in Frontends
<1>5. RemoveDkms => Typed BY DEF RemoveDkms, TypeInv, TypeOK
<1>6. SwitchFrontend => Typed BY DEF SwitchFrontend, TypeInv, TypeOK
<1>7. Typed BY <1>2, <1>3, <1>4, <1>5, <1>6 DEF System, TypeInv, TypeOK
<1>8. outdated' \subseteq Kernels BY <1>7 DEF System, TypeInv, TypeOK
<1>. QED BY <1>7, <1>8

LEMMA TypeInvSecureBoot ==
  ASSUME TypeInv, SecureBoot
  PROVE  TypeInv'
<1>1. ~Running /\ ~Running' /\ UNCHANGED <<system, files, updated, pc, run, outdated>>
  BY DEF SecureBoot, Running
<1>2. keys' \in KeySets
  <2>1. CASE Generate BY ConstantsAssumption, <2>1 DEF Generate, TypeInv, TypeOK, KeySets
  <2>2. CASE keys' = keys BY <2>2 DEF TypeInv, TypeOK
  <2>. QED BY <2>1, <2>2 DEF SecureBoot, Store, Clear, Enable, Disable
<1>3. db' \in KeySets
  BY KeysAreKeys DEF SecureBoot, Generate, Store, Clear, Enable, Disable, TypeInv, TypeOK
<1>4. pk' \in BOOLEAN
  BY Zenon DEF SecureBoot, Generate, Store, Clear, Enable, Disable, TypeInv, TypeOK
<1>. QED BY <1>1, <1>2, <1>3, <1>4 DEF TypeInv, TypeOK, system, files

LEMMA TypeInvStartEsp ==
  ASSUME TypeInv, NEW esps \in SUBSET Esps, StartEsp(esps)
  PROVE  run' \in Run /\ pc' = "ukis"
<1>1. FindKernels \in SUBSET Kernels BY DEF FindKernels, Recent, TypeInv, TypeOK
<1>. QED BY <1>1 DEF StartEsp, Run

LEMMA TypeInvUpdate ==
  ASSUME TypeInv, UNCHANGED <<system, secboot, outdated>>,
         \/ Start \/ BuiltUkis \/ PlaceAssets \/ PlaceLoader \/ NextEsp \/ End \/ Interrupt
         \/ \E k \in Kernels : BuildUki(k) \/ KeepUki(k) \/ RemoveUki(k)
  PROVE  TypeInv'
<1>1. Running => run \in Run /\ run.esp \in Esps /\ run.esps \in SUBSET Esps
                 /\ run.rows \in SUBSET Kernels /\ run.todo \in SUBSET Kernels
  BY DEF TypeInv, Run
<1>. DEFINE Rest == /\ ukis' \in [Esps -> [Kernels -> Uki \cup {NoFile}]]
                    /\ assets' \in [Esps -> Assets \cup {NoFile}]
                    /\ loader' \in [Esps -> Loader \cup {NoFile}]
                    /\ updated' \in KeySets
                    /\ pc' \in {"idle", "ukis", "keep", "loader", "remove"}
                    /\ run' \in Run \cup {NoRun}
                    /\ (pc' # "idle" => run' \in Run)
<1>. SUFFICES Rest BY DEF TypeInv, TypeOK, Running, system, secboot
<1>2. CASE Start BY <1>2, TypeInvStartEsp DEF Start, files, TypeInv, TypeOK, Running
<1>3. CASE NextEsp
  <2>1. run.esps \ {run.esp} \in SUBSET Esps BY <1>1, <1>3 DEF NextEsp, Running
  <2>. QED BY <1>3, <2>1, TypeInvStartEsp DEF NextEsp, files, TypeInv, TypeOK, Running
<1>4. CASE BuiltUkis BY <1>4 DEF BuiltUkis, files, TypeInv, TypeOK, Running
<1>5. CASE End \/ Interrupt BY <1>5 DEF End, Interrupt, files, TypeInv, TypeOK, Running
<1>6. CASE PlaceAssets
  <2>1. Running /\ pc' = "loader" /\ UNCHANGED <<ukis, loader, updated, run>>
    BY <1>6 DEF PlaceAssets, Running
  <2>2. Written(assets[run.esp], [frontend |-> frontend, rows |-> run.rows, key |-> keys]) \in Assets
    BY <1>1, <2>1, WrittenAssets DEF TypeInv, TypeOK
  <2>3. assets' \in [Esps -> Assets \cup {NoFile}]
    BY <1>1, <1>6, <2>1, <2>2 DEF PlaceAssets, TypeInv, TypeOK
  <2>. QED BY <2>1, <2>3 DEF TypeInv, TypeOK, Running
<1>7. CASE PlaceLoader
  <2>1. Running /\ pc' = "remove" /\ UNCHANGED <<ukis, assets, updated, run>>
    BY <1>7 DEF PlaceLoader, Running
  <2>2. Written(loader[run.esp], [frontend |-> frontend, key |-> keys]) \in Loader
    BY <1>1, <2>1, WrittenLoader DEF TypeInv, TypeOK
  <2>3. loader' \in [Esps -> Loader \cup {NoFile}]
    BY <1>1, <1>7, <2>1, <2>2 DEF PlaceLoader, TypeInv, TypeOK
  <2>. QED BY <2>1, <2>3 DEF TypeInv, TypeOK, Running
<1>8. ASSUME NEW k \in Kernels, BuildUki(k) PROVE Rest
  <2>1. Running /\ UNCHANGED <<assets, loader, updated, pc>> BY <1>8 DEF BuildUki, Running
  <2>2. Written(ukis[run.esp][k], [zfs |-> initrd[k] = "zfs", key |-> keys]) \in Uki
    <3>1. ukis[run.esp][k] \in Uki \cup {NoFile} /\ keys \in KeySets
      BY <1>1, <2>1 DEF TypeInv, TypeOK
    <3>2. (initrd[k] = "zfs") \in BOOLEAN OBVIOUS
    <3>. QED BY <3>1, <3>2, WrittenUki, Zenon
  <2>3. ukis' \in [Esps -> [Kernels -> Uki \cup {NoFile}]]
    BY <1>1, <1>8, <2>1, <2>2 DEF BuildUki, TypeInv, TypeOK
  <2>4. run' \in Run BY <1>1, <1>8, <2>1 DEF BuildUki, Run
  <2>. QED BY <2>1, <2>3, <2>4 DEF TypeInv, TypeOK, Running
<1>9. ASSUME NEW k \in Kernels, KeepUki(k) PROVE Rest
  <2>1. Running /\ UNCHANGED <<assets, loader, updated, pc>> BY <1>9 DEF KeepUki, Running
  <2>2. HasUki(k) BY <1>9 DEF KeepUki, Newest, Keepable
  <2>3. ukis[run.esp][k] \in Uki BY <1>1, <2>1, <2>2 DEF HasUki, TypeInv, TypeOK
  <2>. DEFINE u == ukis[run.esp][k]
  <2>4. [u EXCEPT !.key = IF Verifies(u.key) THEN u.key ELSE keys] \in Uki
    BY <2>3 DEF Uki, TypeInv, TypeOK
  <2>5. ukis' = [ukis EXCEPT ![run.esp][k] = [u EXCEPT !.key = IF Verifies(u.key) THEN u.key ELSE keys]]
    BY <1>9 DEF KeepUki
  <2>6. ukis' \in [Esps -> [Kernels -> Uki \cup {NoFile}]]
    BY <1>1, <2>1, <2>4, <2>5 DEF TypeInv, TypeOK
  <2>7. run' \in Run BY <1>1, <1>9, <2>1 DEF KeepUki, Run
  <2>. QED BY <2>1, <2>6, <2>7 DEF TypeInv, TypeOK, Running
<1>10. ASSUME NEW k \in Kernels, RemoveUki(k) PROVE Rest
  <2>1. Running /\ UNCHANGED <<assets, loader, updated, pc, run>> BY <1>10 DEF RemoveUki, Running
  <2>2. ukis' \in [Esps -> [Kernels -> Uki \cup {NoFile}]]
    BY <1>1, <1>10, <2>1 DEF RemoveUki, TypeInv, TypeOK
  <2>. QED BY <2>1, <2>2 DEF TypeInv, TypeOK, Running
<1>. QED BY <1>2, <1>3, <1>4, <1>5, <1>6, <1>7, <1>8, <1>9, <1>10

\* The steps of an update, which leave the system and the keys alone.
LEMMA UpdateSteps ==
  ASSUME Next
  PROVE  \/ System
         \/ SecureBoot
         \/ /\ UNCHANGED <<system, secboot, outdated>>
            /\ \/ Start \/ BuiltUkis \/ PlaceAssets \/ PlaceLoader \/ NextEsp \/ End \/ Interrupt
               \/ \E k \in Kernels : BuildUki(k) \/ KeepUki(k) \/ RemoveUki(k)
BY DEF Next, Start, BuiltUkis, PlaceAssets, PlaceLoader, NextEsp, End, Interrupt, BuildUki,
       KeepUki, RemoveUki

LEMMA TypeInvNext == TypeInv /\ [Next]_vars => TypeInv'
<1>1. ASSUME TypeInv, Next PROVE TypeInv'
  BY <1>1, UpdateSteps, TypeInvSystem, TypeInvSecureBoot, TypeInvUpdate
<1>2. ASSUME TypeInv, UNCHANGED vars PROVE TypeInv'
  BY <1>2 DEF vars, system, secboot, files, TypeInv, TypeOK, Running
<1>. QED BY <1>1, <1>2

\* Every variable keeps its type, and an update that runs has its local state, however
\* many kernels and ESPs there are.
THEOREM TypeCorrect == Spec => []TypeOK
<1>1. TypeInv => TypeOK BY DEF TypeInv
<1>. QED BY <1>1, TypeInvInit, TypeInvNext, PTL DEF Spec

-----------------------------------------------------------------------------
(* The rows of the menu                                                    *)

\* A module belongs to a kernel in /boot, and was there when an initrd was made, or came
\* after one that does not hold it.
SystemInv ==
  \A k \in Kernels : /\ k \in modules => InBoot(k)
                     /\ ~InBoot(k) => initrd[k] = "none"
                     /\ k \in modules /\ initrd[k] # "none" => initrd[k] = "zfs" \/ k \in outdated

\* Every UKI mounts the root, unless the module of its kernel came late, and every UKI
\* that is named is there.
FilesInv ==
  /\ \A e \in Esps, k \in Kernels : ukis[e][k] # NoFile => ukis[e][k].zfs \/ k \in outdated
  /\ \A e \in Esps : assets[e] # NoFile =>
       assets[e].rows # {} /\ \A k \in assets[e].rows : ukis[e][k] # NoFile

\* The kernels without a module that could keep their UKI, had the menu a slot.
NoSlotLeft ==
  \A k \in Kernels \ modules :
    InBoot(k) /\ k \notin run.rows /\ HasUki(k) => Cardinality(run.rows) >= KernelCount

\* The files of the ESP that an update has written so far.
WrittenInv ==
  /\ \A k \in run.rows \ run.todo : HasUki(k) /\ Verifies(ukis[run.esp][k].key)
  /\ pc \in {"loader", "remove"} =>
       /\ assets[run.esp] # NoFile /\ assets[run.esp].rows = run.rows
       /\ assets[run.esp].frontend = frontend /\ Verifies(assets[run.esp].key)
       /\ NoSlotLeft
  /\ pc = "remove" =>
       /\ loader[run.esp] # NoFile
       /\ loader[run.esp].frontend = frontend /\ Verifies(loader[run.esp].key)

RunInv ==
  /\ run.esp \in run.esps /\ run.rows # {} /\ FindKernels # {}
  /\ run.todo \subseteq run.rows
  /\ \A k \in run.todo : k \in modules /\ initrd[k] # "none"
  /\ pc # "ukis" => run.todo = {}

RowsInv == SystemInv /\ FilesInv /\ (Running => RunInv /\ WrittenInv)

LEMMA FindKernelsStay ==
  ASSUME UNCHANGED system
  PROVE  FindKernels' = FindKernels
BY DEF system, FindKernels, Recent, InBoot

LEMMA RunFields ==
  ASSUME TypeInv, Running
  PROVE  /\ run \in Run /\ run.esp \in Esps /\ run.esps \subseteq Esps
         /\ run.rows \subseteq Kernels /\ run.todo \subseteq Kernels
BY DEF TypeInv, Run

LEMMA RowsInvInit == Init => RowsInv
BY DEF Init, RowsInv, SystemInv, FilesInv, Running, InBoot, NotThere

LEMMA RowsInvSystem ==
  ASSUME TypeInv, RowsInv, System
  PROVE  RowsInv'
<1>1. ~Running' /\ UNCHANGED files /\ outdated \subseteq outdated' BY DEF System, Running
<1>2. FilesInv' BY <1>1 DEF files, RowsInv, FilesInv
<1>3. SystemInv'
  <2>1. ASSUME NEW k \in Kernels, InstallKernel(k) PROVE SystemInv'
    BY <1>1, <2>1 DEF InstallKernel, RowsInv, SystemInv, InBoot, NotThere, TypeInv, TypeOK
  <2>2. ASSUME NEW k \in Kernels, RemoveKernel(k) PROVE SystemInv'
    BY <1>1, <2>2 DEF RemoveKernel, RowsInv, SystemInv, InBoot, NotThere, TypeInv, TypeOK
  <2>3. ASSUME NEW k \in Kernels, AddModule(k) PROVE SystemInv'
    <3>1. /\ \A j \in Kernels : InBoot(j)' = InBoot(j) /\ initrd'[j] = initrd[j]
          /\ modules' = modules \cup {k} /\ InBoot(k)
          /\ initrd[k] = "plain" => k \in outdated'
      BY <2>3 DEF AddModule, InBoot, System
    <3>2. initrd[k] \in {"none", "plain", "zfs"} BY DEF TypeInv, TypeOK
    <3>. QED BY <1>1, <3>1, <3>2 DEF RowsInv, SystemInv
  <2>4. ASSUME NEW k \in Kernels, MakeInitrd(k) PROVE SystemInv'
    BY <1>1, <2>4 DEF MakeInitrd, RowsInv, SystemInv, InBoot, NotThere, TypeInv, TypeOK
  <2>5. CASE RemoveDkms BY <1>1, <2>5 DEF RemoveDkms, RowsInv, SystemInv, InBoot
  <2>6. CASE SwitchFrontend BY <1>1, <2>6 DEF SwitchFrontend, RowsInv, SystemInv, InBoot
  <2>. QED BY <2>1, <2>2, <2>3, <2>4, <2>5, <2>6 DEF System
<1>. QED BY <1>1, <1>2, <1>3 DEF RowsInv

LEMMA RowsInvSecureBoot ==
  ASSUME RowsInv, SecureBoot
  PROVE  RowsInv'
BY DEF SecureBoot, system, files, RowsInv, SystemInv, FilesInv, InBoot, Running

LEMMA RowsInvStartEsp ==
  ASSUME NEW esps \in SUBSET Esps, StartEsp(esps), UNCHANGED system, FindKernels # {}
  PROVE  (RunInv /\ WrittenInv)'
<1>1. PICK e \in esps :
        run' = [esps |-> esps, esp |-> e, rows |-> FindKernels, todo |-> FindKernels]
  BY DEF StartEsp
<1>2. \A k \in FindKernels : k \in modules /\ initrd[k] # "none" BY DEF FindKernels, Recent
<1>3. RunInv' BY <1>1, <1>2, FindKernelsStay DEF RunInv, StartEsp, system
<1>. QED BY <1>1, <1>3 DEF WrittenInv, StartEsp

\* What the steps of one update of one ESP leave alone.
LEMMA RunInvStays ==
  ASSUME RunInv, UNCHANGED <<system, run>>, pc # "ukis" \/ pc' = "ukis"
  PROVE  RunInv'
BY FindKernelsStay DEF RunInv, system

LEMMA SystemInvStays ==
  ASSUME RowsInv, UNCHANGED <<system, outdated>>
  PROVE  SystemInv'
BY DEF system, RowsInv, SystemInv, InBoot

LEMMA RowsInvBuildUki ==
  ASSUME TypeInv, RowsInv, NEW k \in Kernels, BuildUki(k)
  PROVE  RowsInv'
<1>1. /\ Running /\ Running' /\ pc = "ukis" /\ pc' = "ukis" /\ k \in run.todo
      /\ UNCHANGED <<system, secboot, assets, loader, outdated>>
  BY DEF BuildUki, Newest, Running
<1>2. RunInv /\ WrittenInv BY <1>1 DEF RowsInv
<1>3. initrd[k] = "zfs" \/ k \in outdated BY <1>1, <1>2 DEF RunInv, RowsInv, SystemInv
<1>. DEFINE w == Written(ukis[run.esp][k], [zfs |-> initrd[k] = "zfs", key |-> keys])
<1>4. w \in Uki /\ (w.zfs \/ k \in outdated) /\ Verifies(w.key)
  <2>1. ukis[run.esp][k] \in Uki \cup {NoFile} /\ keys \in KeySets
    BY <1>1, RunFields DEF TypeInv, TypeOK
  <2>2. (initrd[k] = "zfs") \in BOOLEAN OBVIOUS
  <2>3. w \in Uki /\ w.zfs = (initrd[k] = "zfs") /\ Verifies(w.key)
    BY <2>1, <2>2, WrittenUki, Zenon
  <2>. QED BY <1>3, <2>3, Zenon
<1>5. w # NoFile BY <1>4, NoFileIsNoFile
<1>6. ukis' = [ukis EXCEPT ![run.esp][k] = w] /\ run' = [run EXCEPT !.todo = @ \ {k}]
  BY DEF BuildUki
<1>7. \A e \in Esps, j \in Kernels :
        ukis'[e][j] = IF e = run.esp /\ j = k THEN w ELSE ukis[e][j]
  BY <1>1, <1>6, RunFields DEF TypeInv, TypeOK
<1>8. FilesInv'
  <2>1. \A e \in Esps, j \in Kernels : ukis'[e][j] # NoFile => ukis'[e][j].zfs \/ j \in outdated'
    BY <1>1, <1>4, <1>7 DEF RowsInv, FilesInv
  <2>2. \A e \in Esps : assets[e] # NoFile => \A j \in assets[e].rows : ukis'[e][j] # NoFile
    <3>1. \A e \in Esps : assets[e] # NoFile => assets[e].rows \subseteq Kernels
      BY DEF TypeInv, TypeOK, Assets
    <3>. QED BY <1>5, <1>7, <3>1 DEF RowsInv, FilesInv
  <2>. QED BY <1>1, <2>1, <2>2 DEF RowsInv, FilesInv
<1>9. run'.esp = run.esp /\ run'.esps = run.esps /\ run'.rows = run.rows /\ run'.todo = run.todo \ {k}
  BY <1>1, <1>6, RunFields DEF Run
<1>10. RunInv' BY <1>1, <1>2, <1>9, FindKernelsStay DEF RunInv, system
<1>11. WrittenInv'
  <2>1. ASSUME NEW j \in run.rows \ (run.todo \ {k})
        PROVE  ukis'[run.esp][j] # NoFile /\ Verifies(ukis'[run.esp][j].key)
    BY <1>1, <1>2, <1>4, <1>5, <1>7, RunFields DEF WrittenInv, HasUki
  <2>. QED BY <1>1, <1>9, <2>1 DEF WrittenInv, HasUki, Verifies, secboot
<1>. QED BY <1>1, <1>8, <1>10, <1>11, SystemInvStays DEF RowsInv

LEMMA RowsInvKeepUki ==
  ASSUME TypeInv, RowsInv, NEW k \in Kernels, KeepUki(k)
  PROVE  RowsInv'
<1>1. /\ Running /\ Running' /\ pc = "keep" /\ pc' = "keep" /\ HasUki(k)
      /\ UNCHANGED <<system, secboot, assets, loader, outdated>>
  BY DEF KeepUki, Newest, Keepable, Running
<1>2. RunInv /\ WrittenInv /\ run.todo = {} BY <1>1 DEF RowsInv, RunInv
<1>. DEFINE u == ukis[run.esp][k]
            w == [u EXCEPT !.key = IF Verifies(u.key) THEN u.key ELSE keys]
<1>3. u \in Uki /\ (u.zfs \/ k \in outdated)
  BY <1>1, RunFields DEF HasUki, TypeInv, TypeOK, RowsInv, FilesInv
<1>4. w \in Uki /\ (w.zfs \/ k \in outdated) /\ Verifies(w.key)
  <2>1. keys \in KeySets BY DEF TypeInv, TypeOK
  <2>2. w \in Uki /\ w.zfs = u.zfs /\ w.key = IF Verifies(u.key) THEN u.key ELSE keys
    BY <1>3, <2>1 DEF Uki
  <2>. QED BY <1>3, <2>2 DEF Verifies
<1>5. w # NoFile BY <1>4, NoFileIsNoFile
<1>6. ukis' = [ukis EXCEPT ![run.esp][k] = w] /\ run' = [run EXCEPT !.rows = @ \cup {k}]
  BY DEF KeepUki
<1>7. \A e \in Esps, j \in Kernels :
        ukis'[e][j] = IF e = run.esp /\ j = k THEN w ELSE ukis[e][j]
  BY <1>1, <1>6, RunFields DEF TypeInv, TypeOK
<1>8. FilesInv'
  <2>1. \A e \in Esps, j \in Kernels : ukis'[e][j] # NoFile => ukis'[e][j].zfs \/ j \in outdated'
    BY <1>1, <1>4, <1>7 DEF RowsInv, FilesInv
  <2>2. \A e \in Esps : assets[e] # NoFile => \A j \in assets[e].rows : ukis'[e][j] # NoFile
    <3>1. \A e \in Esps : assets[e] # NoFile => assets[e].rows \subseteq Kernels
      BY DEF TypeInv, TypeOK, Assets
    <3>. QED BY <1>5, <1>7, <3>1 DEF RowsInv, FilesInv
  <2>. QED BY <1>1, <2>1, <2>2 DEF RowsInv, FilesInv
<1>9. run'.esp = run.esp /\ run'.esps = run.esps /\ run'.rows = run.rows \cup {k} /\ run'.todo = {}
  BY <1>1, <1>2, <1>6, RunFields DEF Run
<1>10. RunInv' BY <1>1, <1>2, <1>9, FindKernelsStay DEF RunInv, system
<1>11. WrittenInv'
  <2>1. ASSUME NEW j \in run.rows \cup {k}
        PROVE  ukis'[run.esp][j] # NoFile /\ Verifies(ukis'[run.esp][j].key)
    <3>1. run.esp \in Esps /\ j \in Kernels BY <1>1, RunFields
    <3>2. ukis'[run.esp][j] = IF j = k THEN w ELSE ukis[run.esp][j] BY <1>7, <3>1
    <3>3. j # k => ukis[run.esp][j] # NoFile /\ Verifies(ukis[run.esp][j].key)
      BY <1>2 DEF WrittenInv, HasUki
    <3>. QED BY <1>4, <1>5, <3>2, <3>3
  <2>. QED BY <1>1, <1>9, <2>1 DEF WrittenInv, HasUki, Verifies, secboot
<1>. QED BY <1>1, <1>8, <1>10, <1>11, SystemInvStays DEF RowsInv

LEMMA RowsInvPlaceAssets ==
  ASSUME TypeInv, RowsInv, PlaceAssets
  PROVE  RowsInv'
<1>1. /\ Running /\ Running' /\ pc = "keep" /\ pc' = "loader" /\ Keepable = {}
      /\ UNCHANGED <<system, secboot, ukis, loader, run, outdated>>
  BY DEF PlaceAssets, Running
<1>2. RunInv /\ WrittenInv /\ run.todo = {} BY <1>1 DEF RowsInv, RunInv
<1>. DEFINE w == Written(assets[run.esp], [frontend |-> frontend, rows |-> run.rows, key |-> keys])
<1>3. w \in Assets /\ w.frontend = frontend /\ w.rows = run.rows /\ Verifies(w.key)
  <2>1. /\ assets[run.esp] \in Assets \cup {NoFile} /\ keys \in KeySets
        /\ frontend \in Frontends /\ run.rows \in SUBSET Kernels
    BY <1>1, RunFields DEF TypeInv, TypeOK
  <2>. QED BY <2>1, WrittenAssets, Zenon
<1>4. \A e \in Esps : assets'[e] = IF e = run.esp THEN w ELSE assets[e]
  BY <1>1, RunFields DEF PlaceAssets, TypeInv, TypeOK
<1>5. w # NoFile BY <1>3, NoFileIsNoFile
<1>6. FilesInv'
  BY <1>1, <1>2, <1>3, <1>4, RunFields DEF RowsInv, RunInv, FilesInv, WrittenInv, HasUki
<1>7. NoSlotLeft
  <2>1. Cardinality(run.rows) \in Nat
    <3>1. IsFiniteSet(Kernels) /\ run.rows \subseteq Kernels BY <1>1, RunFields, ConstantsAssumption
    <3>2. IsFiniteSet(run.rows) BY <3>1, FS_Subset, Zenon
    <3>. QED BY <3>2, FS_CardinalityType, Zenon
  <2>2. KernelCount \in Nat BY ConstantsAssumption
  <2>3. \A j \in Kernels \ modules : InBoot(j) /\ j \notin run.rows /\ HasUki(j)
          => ~(Cardinality(run.rows) < KernelCount)
    BY <1>1 DEF Keepable
  <2>. QED BY <2>1, <2>2, <2>3 DEF NoSlotLeft
<1>8. RunInv' BY <1>1, <1>2, RunInvStays
<1>9. WrittenInv'
  <2>1. assets'[run.esp] = w BY <1>1, <1>4, RunFields
  <2>2. NoSlotLeft' BY <1>1, <1>7 DEF NoSlotLeft, InBoot, HasUki, system
  <2>3. \A j \in run.rows : HasUki(j) /\ Verifies(ukis[run.esp][j].key)
    BY <1>2 DEF WrittenInv
  <2>. QED BY <1>1, <1>2, <1>3, <1>5, <2>1, <2>2, <2>3
       DEF WrittenInv, HasUki, Verifies, system, secboot
<1>. QED BY <1>1, <1>6, <1>8, <1>9, SystemInvStays DEF RowsInv

LEMMA RowsInvPlaceLoader ==
  ASSUME TypeInv, RowsInv, PlaceLoader
  PROVE  RowsInv'
<1>1. /\ Running /\ Running' /\ pc = "loader" /\ pc' = "remove"
      /\ UNCHANGED <<system, secboot, ukis, assets, run, outdated>>
  BY DEF PlaceLoader, Running
<1>2. RunInv /\ WrittenInv BY <1>1 DEF RowsInv
<1>. DEFINE w == Written(loader[run.esp], [frontend |-> frontend, key |-> keys])
<1>3. w \in Loader /\ w.frontend = frontend /\ Verifies(w.key)
  <2>1. loader[run.esp] \in Loader \cup {NoFile} /\ keys \in KeySets /\ frontend \in Frontends
    BY <1>1, RunFields DEF TypeInv, TypeOK
  <2>. QED BY <2>1, WrittenLoader, Zenon
<1>4. loader'[run.esp] = w BY <1>1, RunFields DEF PlaceLoader, TypeInv, TypeOK
<1>5. w # NoFile BY <1>3, NoFileIsNoFile
<1>6. FilesInv' BY <1>1 DEF RowsInv, FilesInv
<1>7. RunInv' BY <1>1, <1>2, RunInvStays
<1>8. WrittenInv'
  <2>1. NoSlotLeft' BY <1>1, <1>2 DEF WrittenInv, NoSlotLeft, InBoot, HasUki, system
  <2>. QED BY <1>1, <1>2, <1>3, <1>4, <1>5, <2>1 DEF WrittenInv, HasUki, Verifies, system, secboot
<1>. QED BY <1>1, <1>6, <1>7, <1>8, SystemInvStays DEF RowsInv

LEMMA RowsInvRemoveUki ==
  ASSUME TypeInv, RowsInv, NEW k \in Kernels, RemoveUki(k)
  PROVE  RowsInv'
<1>1. /\ Running /\ Running' /\ pc = "remove" /\ pc' = "remove" /\ k \notin run.rows
      /\ UNCHANGED <<system, secboot, assets, loader, run, outdated>>
  BY DEF RemoveUki, OldUkis, Named, Running
<1>2. RunInv /\ WrittenInv /\ assets[run.esp].rows = run.rows BY <1>1 DEF RowsInv, WrittenInv
<1>3. \A e \in Esps, j \in Kernels :
        ukis'[e][j] = IF e = run.esp /\ j = k THEN NoFile ELSE ukis[e][j]
  BY <1>1, RunFields DEF RemoveUki, TypeInv, TypeOK
<1>4. FilesInv'
  <2>1. \A e \in Esps : assets[e] # NoFile => assets[e].rows \subseteq Kernels
    BY DEF TypeInv, TypeOK, Assets
  <2>2. \A e \in Esps : assets[e] # NoFile => \A j \in assets[e].rows : ukis'[e][j] # NoFile
    BY <1>1, <1>2, <1>3, <2>1 DEF RowsInv, FilesInv
  <2>. QED BY <1>1, <1>3, <2>2 DEF RowsInv, FilesInv
<1>5. RunInv' BY <1>1, <1>2, RunInvStays
<1>6. WrittenInv'
  <2>1. \A j \in Kernels : j # k => ukis'[run.esp][j] = ukis[run.esp][j] BY <1>1, <1>3, RunFields
  <2>2. NoSlotLeft'
    BY <1>1, <1>2, <1>3, <2>1, RunFields DEF WrittenInv, NoSlotLeft, InBoot, HasUki, system
  <2>3. \A j \in run.rows \ run.todo : ukis'[run.esp][j] # NoFile /\ Verifies(ukis'[run.esp][j].key)
    BY <1>1, <1>2, <2>1, RunFields DEF WrittenInv, HasUki
  <2>. QED BY <1>1, <1>2, <2>2, <2>3 DEF WrittenInv, HasUki, Verifies, system, secboot
<1>. QED BY <1>1, <1>4, <1>5, <1>6, SystemInvStays DEF RowsInv

LEMMA RowsInvNext == TypeInv /\ RowsInv /\ [Next]_vars => RowsInv'
<1>. SUFFICES ASSUME TypeInv, RowsInv, [Next]_vars PROVE RowsInv'
  OBVIOUS
<1>1. CASE System BY <1>1, RowsInvSystem
<1>2. CASE SecureBoot BY <1>2, RowsInvSecureBoot
<1>3. CASE Start
  <2>1. (RunInv /\ WrittenInv)' BY <1>3, RowsInvStartEsp DEF Start
  <2>. QED BY <1>3, <2>1, SystemInvStays DEF Start, files, RowsInv, FilesInv
<1>4. CASE NextEsp
  <2>1. Running /\ run.esps \ {run.esp} \in SUBSET Esps /\ FindKernels # {}
    BY <1>4, RunFields DEF NextEsp, Running, RowsInv, RunInv
  <2>2. (RunInv /\ WrittenInv)' BY <1>4, <2>1, RowsInvStartEsp DEF NextEsp
  <2>. QED BY <1>4, <2>2, SystemInvStays DEF NextEsp, files, RowsInv, FilesInv
<1>5. CASE BuiltUkis
  <2>1. /\ Running /\ run.todo = {} /\ pc = "ukis" /\ pc' = "keep"
        /\ UNCHANGED <<system, secboot, files, run, outdated>>
    BY <1>5 DEF BuiltUkis, Running
  <2>2. RunInv /\ WrittenInv BY <2>1 DEF RowsInv
  <2>3. RunInv' BY <2>1, <2>2, FindKernelsStay DEF RunInv, system
  <2>4. WrittenInv' BY <2>1, <2>2 DEF WrittenInv, HasUki, Verifies, files, secboot
  <2>. QED BY <2>1, <2>3, <2>4, SystemInvStays DEF files, RowsInv, FilesInv
<1>6. CASE End \/ Interrupt
  BY <1>6, SystemInvStays DEF End, Interrupt, files, RowsInv, FilesInv, Running
<1>7. CASE UNCHANGED vars
  <2>1. UNCHANGED <<system, secboot, files, pc, run, outdated>> BY <1>7 DEF vars
  <2>2. Running => RunInv'
    BY <2>1, RunInvStays DEF RowsInv, Running
  <2>3. Running => WrittenInv'
    BY <2>1 DEF RowsInv, Running, WrittenInv, NoSlotLeft, InBoot, HasUki, Verifies, files, system,
                secboot
  <2>. QED BY <2>1, <2>2, <2>3, SystemInvStays DEF files, RowsInv, FilesInv, Running
<1>. QED
  BY <1>1, <1>2, <1>3, <1>4, <1>5, <1>6, <1>7, RowsInvPlaceAssets, RowsInvPlaceLoader,
     RowsInvBuildUki, RowsInvKeepUki, RowsInvRemoveUki DEF Next

\* Whatever kernels and modules come and go and wherever updates end, assets.efi on
\* every ESP names only UKIs that are there, and each of them mounts the root, unless
\* the module of its kernel once came after an initrd that does not hold it.
THEOREM RowsMount == Spec => []RowsMountRoot
<1>1. TypeInv /\ RowsInv => RowsMountRoot
  <2>1. ASSUME TypeInv, NEW e \in Esps, assets[e] # NoFile PROVE assets[e].rows \subseteq Kernels
    BY <2>1 DEF TypeInv, TypeOK, Assets
  <2>. QED BY <2>1 DEF RowsInv, FilesInv, RowsMountRoot
<1>. QED BY <1>1, TypeInvInit, TypeInvNext, RowsInvInit, RowsInvNext, PTL DEF Spec

\* A step of an update never takes the UKI with the ZFS module from a kernel in /boot
\* that lost its module, unless the kernels that kept theirs fill the menu.
THEOREM TheWayBack == Spec => WayBack
<1>. DEFINE Stays(e, k) ==
       InBoot(k) /\ ukis[e][k] # NoFile /\ ukis[e][k].zfs =>
         \/ ukis'[e][k] # NoFile /\ ukis'[e][k].zfs
         \/ Cardinality(assets[e].rows) >= KernelCount
     Step == [\A e \in Esps, k \in Kernels \ modules : Stays(e, k)]_vars
<1>1. TypeInv /\ RowsInv /\ RowsInv' /\ [Next]_vars => Step
  <2>. SUFFICES ASSUME TypeInv, RowsInv, RowsInv', Next, NEW e \in Esps, NEW k \in Kernels \ modules
                PROVE  Stays(e, k)
    OBVIOUS
  <2>2. CASE UNCHANGED ukis BY <2>2
  <2>3. ASSUME NEW j \in Kernels, BuildUki(j) PROVE Stays(e, k)
    <3>1. j \in modules /\ Running
      BY <2>3 DEF BuildUki, Newest, Running, RowsInv, RunInv
    <3>2. ukis'[e][k] = ukis[e][k] BY <2>3, <3>1, RunFields DEF BuildUki, TypeInv, TypeOK
    <3>. QED BY <3>2
  <2>4. ASSUME NEW j \in Kernels, KeepUki(j) PROVE Stays(e, k)
    <3>1. Running /\ HasUki(j) BY <2>4 DEF KeepUki, Newest, Keepable, Running
    <3>2. CASE e = run.esp /\ j = k
      <4>. DEFINE u == ukis[e][k]
                  w == [u EXCEPT !.key = IF Verifies(u.key) THEN u.key ELSE keys]
      <4>1. u \in Uki BY <3>1, <3>2 DEF HasUki, TypeInv, TypeOK
      <4>2. w \in Uki /\ w.zfs = u.zfs BY <4>1 DEF Uki, TypeInv, TypeOK
      <4>3. ukis' = [ukis EXCEPT ![e][k] = w] BY <2>4, <3>2 DEF KeepUki
      <4>4. ukis'[e][k] = w BY <4>3 DEF TypeInv, TypeOK
      <4>. QED BY <4>2, <4>4, NoFileIsNoFile
    <3>3. CASE ~(e = run.esp /\ j = k)
      <4>1. ukis'[e][k] = ukis[e][k] BY <2>4, <3>1, <3>3, RunFields DEF KeepUki, TypeInv, TypeOK
      <4>. QED BY <4>1
    <3>. QED BY <3>2, <3>3
  <2>5. ASSUME NEW j \in Kernels, RemoveUki(j) PROVE Stays(e, k)
    <3>1. Running /\ pc = "remove" /\ HasUki(j) /\ j \notin run.rows
      BY <2>5 DEF RemoveUki, OldUkis, Named, Running
    <3>2. NoSlotLeft /\ assets[run.esp].rows = run.rows BY <3>1 DEF RowsInv, WrittenInv
    <3>3. CASE e = run.esp /\ j = k BY <3>1, <3>2, <3>3 DEF NoSlotLeft
    <3>4. CASE ~(e = run.esp /\ j = k)
      <4>1. ukis'[e][k] = ukis[e][k] BY <2>5, <3>1, <3>4, RunFields DEF RemoveUki, TypeInv, TypeOK
      <4>. QED BY <4>1
    <3>. QED BY <3>3, <3>4
  <2>. QED
    BY <2>2, <2>3, <2>4, <2>5
    DEF Next, System, SecureBoot, files, Start, BuiltUkis, PlaceAssets, PlaceLoader, NextEsp,
        End, Interrupt
<1>. QED BY <1>1, TypeInvInit, TypeInvNext, RowsInvInit, RowsInvNext, PTL DEF Spec, WayBack

-----------------------------------------------------------------------------
(* The frontends of the bootloader and of its assets                       *)

\* They differ only in the middle of an update.
MenuInv ==
  \A e \in Esps : loader[e] # NoFile =>
    /\ assets[e] # NoFile
    /\ assets[e].frontend = loader[e].frontend \/ (pc = "loader" /\ e = run.esp)

LEMMA MenuInvNext ==
  ASSUME Windows = {}
  PROVE  TypeInv /\ RowsInv /\ RowsInv' /\ MenuInv /\ [Next]_vars => MenuInv'
<1>. SUFFICES ASSUME TypeInv, RowsInv, RowsInv', MenuInv, [Next]_vars PROVE MenuInv'
  OBVIOUS
<1>1. CASE PlaceAssets
  <2>1. Running' /\ pc = "keep" /\ pc' = "loader" /\ UNCHANGED <<loader, run>>
    BY <1>1 DEF PlaceAssets, Running
  <2>2. assets'[run.esp] # NoFile BY <2>1 DEF RowsInv, WrittenInv
  <2>3. \A e \in Esps : e # run.esp => assets'[e] = assets[e]
    BY <1>1 DEF PlaceAssets, TypeInv, TypeOK
  <2>. QED BY <2>1, <2>2, <2>3 DEF MenuInv
<1>2. CASE PlaceLoader
  <2>1. Running' /\ Running /\ pc = "loader" /\ pc' = "remove" /\ UNCHANGED <<assets, run, system>>
    BY <1>2 DEF PlaceLoader, Running
  <2>2. /\ assets'[run.esp] # NoFile /\ assets'[run.esp].frontend = frontend'
        /\ loader'[run.esp].frontend = frontend'
    BY <2>1 DEF RowsInv, WrittenInv
  <2>3. \A e \in Esps : e # run.esp => loader'[e] = loader[e]
    BY <1>2 DEF PlaceLoader, TypeInv, TypeOK
  <2>. QED BY <2>1, <2>2, <2>3 DEF MenuInv
<1>3. CASE Interrupt
  <2>1. Running /\ pc' = "idle" /\ UNCHANGED <<assets, loader>> /\ ~(pc = "loader" /\ Switching)
    BY <1>3 DEF Interrupt, Running, files
  <2>2. pc = "loader" => /\ assets[run.esp].frontend = frontend
                         /\ loader[run.esp] # NoFile => loader[run.esp].frontend = frontend
    BY <2>1 DEF RowsInv, WrittenInv, Switching
  <2>. QED BY <2>1, <2>2 DEF MenuInv
<1>4. CASE UNCHANGED vars BY <1>4 DEF vars, files, MenuInv
<1>5. CASE /\ UNCHANGED <<assets, loader>>
           /\ pc # "loader"
  BY <1>5 DEF MenuInv
<1>. QED
  BY <1>1, <1>2, <1>3, <1>4, <1>5
  DEF Next, System, SecureBoot, files, Start, BuiltUkis, NextEsp, End, BuildUki, KeepUki, RemoveUki

\* Unless the frontend was switched and the update ends between assets.efi and
\* BOOTX64.EFI, every ESP with a bootloader shows a menu with a row.
THEOREM MenuShown == ASSUME Windows = {} PROVE Spec => []ShowsMenu
<1>1. Init => MenuInv BY DEF Init, MenuInv
<1>2. RowsInv /\ MenuInv => ShowsMenu BY DEF RowsInv, FilesInv, MenuInv, ShowsMenu, Shows
<1>. QED
  BY <1>1, <1>2, MenuInvNext, TypeInvInit, TypeInvNext, RowsInvInit, RowsInvNext, PTL DEF Spec

-----------------------------------------------------------------------------
(* Signatures                                                              *)

Signed(e) ==
  /\ loader[e] # NoFile /\ loader[e].key = keys
  /\ assets[e] # NoFile /\ assets[e].key = keys
  /\ \A k \in assets[e].rows : ukis[e][k].key = keys

\* With keys, an update signs one ESP after the other, and what is signed stays so
\* until there are other keys.
SignedInv ==
  /\ updated <= keys
  /\ keys # NoKeys /\ updated = keys => \A e \in Esps : Signed(e)
  /\ keys # NoKeys /\ Running => \A e \in Esps \ run.esps : Signed(e)
  /\ pk => keys # NoKeys /\ updated = keys /\ db = keys

LEMMA SignedStays ==
  ASSUME TypeInv, RowsInv, RowsInv', keys # NoKeys, UNCHANGED keys, NEW e \in Esps, Signed(e),
         \/ UNCHANGED files \/ PlaceAssets \/ PlaceLoader
         \/ \E k \in Kernels : BuildUki(k) \/ KeepUki(k) \/ RemoveUki(k)
  PROVE  Signed(e)'
<1>1. assets[e].rows \subseteq Kernels BY DEF Signed, TypeInv, TypeOK, Assets
<1>2. CASE UNCHANGED files BY <1>2 DEF files, Signed
<1>3. CASE PlaceAssets
  <2>1. Running /\ Running' /\ pc' = "loader" /\ UNCHANGED <<ukis, loader, run>>
    BY <1>3 DEF PlaceAssets, Running
  <2>2. CASE e = run.esp
    <3>1. /\ assets'[e] # NoFile /\ assets'[e].rows = run.rows /\ assets'[e].key = keys
          /\ \A k \in run.rows \ run.todo : ukis[e][k].key = keys
          /\ run.todo = {}
      BY <2>1, <2>2 DEF RowsInv, RunInv, WrittenInv, HasUki, Verifies
    <3>. QED BY <2>1, <3>1 DEF Signed
  <2>3. CASE e # run.esp
    <3>1. assets'[e] = assets[e] BY <1>3, <2>3 DEF PlaceAssets, TypeInv, TypeOK
    <3>. QED BY <2>1, <3>1 DEF Signed
  <2>. QED BY <2>2, <2>3
<1>4. CASE PlaceLoader
  <2>1. Running /\ Running' /\ pc' = "remove" /\ UNCHANGED <<ukis, assets, run>>
    BY <1>4 DEF PlaceLoader, Running
  <2>2. e = run.esp => loader'[e] # NoFile /\ loader'[e].key = keys
    BY <2>1 DEF RowsInv, WrittenInv, Verifies
  <2>3. e # run.esp => loader'[e] = loader[e] BY <1>4 DEF PlaceLoader, TypeInv, TypeOK
  <2>. QED BY <2>1, <2>2, <2>3 DEF Signed
<1>5. ASSUME NEW k \in Kernels, BuildUki(k) PROVE Signed(e)'
  <2>1. Running /\ UNCHANGED <<loader, assets>> BY <1>5 DEF BuildUki, Running
  <2>2. \A j \in Kernels : ~(e = run.esp /\ j = k) => ukis'[e][j] = ukis[e][j]
    BY <1>5, <2>1, RunFields DEF BuildUki, TypeInv, TypeOK
  <2>3. e = run.esp => ukis'[e][k].key = keys
    <3>1. ukis[run.esp][k] \in Uki \cup {NoFile} /\ keys \in KeySets
      BY <2>1, RunFields DEF TypeInv, TypeOK
    <3>2. (initrd[k] = "zfs") \in BOOLEAN OBVIOUS
    <3>3. Verifies(Written(ukis[run.esp][k], [zfs |-> initrd[k] = "zfs", key |-> keys]).key)
      BY <3>1, <3>2, WrittenUki, Zenon
    <3>4. e = run.esp =>
            ukis'[e][k] = Written(ukis[run.esp][k], [zfs |-> initrd[k] = "zfs", key |-> keys])
      BY <1>5 DEF BuildUki, TypeInv, TypeOK
    <3>. QED BY <3>3, <3>4 DEF Verifies
  <2>. QED BY <1>1, <2>1, <2>2, <2>3 DEF Signed
<1>6. ASSUME NEW k \in Kernels, KeepUki(k) PROVE Signed(e)'
  <2>1. Running /\ HasUki(k) /\ UNCHANGED <<loader, assets>>
    BY <1>6 DEF KeepUki, Newest, Keepable, Running
  <2>2. \A j \in Kernels : ~(e = run.esp /\ j = k) => ukis'[e][j] = ukis[e][j]
    BY <1>6, <2>1, RunFields DEF KeepUki, TypeInv, TypeOK
  <2>3. e = run.esp => ukis'[e][k].key = keys
    <3>. SUFFICES ASSUME e = run.esp PROVE ukis'[e][k].key = keys
      OBVIOUS
    <3>. DEFINE u == ukis[e][k]
                w == [u EXCEPT !.key = IF Verifies(u.key) THEN u.key ELSE keys]
    <3>1. u \in Uki BY <2>1 DEF HasUki, TypeInv, TypeOK
    <3>2. w.key = keys BY <3>1 DEF Uki, Verifies
    <3>3. ukis' = [ukis EXCEPT ![e][k] = w] BY <1>6 DEF KeepUki
    <3>4. ukis'[e][k] = w BY <3>3 DEF TypeInv, TypeOK
    <3>. QED BY <3>2, <3>4
  <2>. QED BY <1>1, <2>1, <2>2, <2>3 DEF Signed
<1>7. ASSUME NEW k \in Kernels, RemoveUki(k) PROVE Signed(e)'
  <2>1. Running /\ pc = "remove" /\ k \notin run.rows /\ UNCHANGED <<loader, assets>>
    BY <1>7 DEF RemoveUki, OldUkis, Named, Running
  <2>2. assets[run.esp].rows = run.rows BY <2>1 DEF RowsInv, WrittenInv
  <2>3. \A j \in Kernels : ~(e = run.esp /\ j = k) => ukis'[e][j] = ukis[e][j]
    BY <1>7, <2>1, RunFields DEF RemoveUki, TypeInv, TypeOK
  <2>. QED BY <1>1, <2>1, <2>2, <2>3 DEF Signed
<1>. QED BY <1>2, <1>3, <1>4, <1>5, <1>6, <1>7

\* What an update leaves behind on the ESP it is done with.
LEMMA EspSigned ==
  ASSUME RowsInv, keys # NoKeys, pc = "remove"
  PROVE  Signed(run.esp)
<1>1. RunInv /\ WrittenInv /\ run.todo = {} BY DEF Running, RowsInv, RunInv
<1>. QED BY <1>1 DEF WrittenInv, HasUki, Verifies, Signed

LEMMA KeysAreNumbers ==
  ASSUME TypeInv
  PROVE  keys \in Nat /\ updated \in Nat
BY ConstantsAssumption DEF TypeInv, TypeOK, KeySets

LEMMA SignedInvSecureBoot ==
  ASSUME TypeInv, SignedInv, SecureBoot
  PROVE  SignedInv'
<1>1. ~Running /\ ~Running' /\ UNCHANGED <<files, updated, run>>
  BY DEF SecureBoot, Running
<1>2. CASE Generate
  <2>1. keys' = keys + 1 /\ ~pk /\ pk' = pk BY <1>2 DEF Generate
  <2>2. updated' # keys' /\ updated' <= keys' BY <1>1, <2>1, KeysAreNumbers DEF SignedInv
  <2>. QED BY <1>1, <2>1, <2>2 DEF SignedInv
<1>3. CASE UNCHANGED keys
  <2>1. \A e \in Esps : Signed(e) => Signed(e)' BY <1>1, <1>3 DEF Signed, files
  <2>2. pk' => keys # NoKeys /\ updated = keys /\ db' = keys
    BY <1>3 DEF SecureBoot, Generate, Store, Clear, Enable, Disable, DbHasKey, SignedInv
  <2>. QED BY <1>1, <1>3, <2>1, <2>2 DEF SignedInv
<1>. QED BY <1>2, <1>3 DEF SecureBoot, Store, Clear, Enable, Disable

LEMMA SignedInvNext == TypeInv /\ RowsInv /\ RowsInv' /\ SignedInv /\ [Next]_vars => SignedInv'
<1>. SUFFICES ASSUME TypeInv, RowsInv, RowsInv', SignedInv, [Next]_vars PROVE SignedInv'
  OBVIOUS
<1>. DEFINE KeysStay == UNCHANGED <<keys, db, pk>>
            FilesStep == \/ UNCHANGED files \/ PlaceAssets \/ PlaceLoader
                         \/ \E k \in Kernels : BuildUki(k) \/ KeepUki(k) \/ RemoveUki(k)
<1>1. KeysStay /\ FilesStep /\ keys # NoKeys => \A e \in Esps : Signed(e) => Signed(e)'
  BY SignedStays
<1>2. CASE SecureBoot BY <1>2, SignedInvSecureBoot
<1>3. CASE System
  <2>1. KeysStay /\ UNCHANGED <<files, updated, run>> /\ ~Running'
    BY <1>3 DEF System, secboot, Running
  <2>. QED BY <1>1, <2>1 DEF SignedInv
<1>4. CASE Start
  <2>1. KeysStay /\ UNCHANGED <<files, updated>> /\ run'.esps = Esps
    BY <1>4 DEF Start, StartEsp, secboot
  <2>. QED BY <1>1, <2>1 DEF SignedInv
<1>5. CASE NextEsp
  <2>1. /\ KeysStay /\ UNCHANGED <<files, updated>> /\ run'.esps = run.esps \ {run.esp}
        /\ pc = "remove" /\ Running
    BY <1>5 DEF NextEsp, StartEsp, secboot, Running
  <2>2. keys # NoKeys => \A e \in Esps \ run'.esps : Signed(e)
    BY <2>1, EspSigned DEF SignedInv
  <2>. QED BY <1>1, <2>1, <2>2 DEF SignedInv
<1>6. CASE End
  <2>1. /\ KeysStay /\ UNCHANGED files /\ updated' = keys /\ ~Running'
        /\ pc = "remove" /\ Running /\ run.esps = {run.esp}
    BY <1>6 DEF End, secboot, Running
  <2>2. keys # NoKeys => \A e \in Esps : Signed(e) BY <2>1, EspSigned DEF SignedInv
  <2>. QED BY <1>1, <2>1, <2>2, KeysAreNumbers DEF SignedInv
<1>7. CASE Interrupt \/ UNCHANGED vars
  <2>1. KeysStay /\ UNCHANGED <<files, updated>> /\ (Running' => Running /\ UNCHANGED run)
    BY <1>7 DEF Interrupt, vars, secboot, Running
  <2>. QED BY <1>1, <2>1 DEF SignedInv
<1>8. CASE \/ BuiltUkis \/ PlaceAssets \/ PlaceLoader
           \/ \E k \in Kernels : BuildUki(k) \/ KeepUki(k) \/ RemoveUki(k)
  <2>1. KeysStay /\ FilesStep /\ updated' = updated /\ Running
    BY <1>8 DEF BuiltUkis, PlaceAssets, PlaceLoader, BuildUki, KeepUki, RemoveUki, secboot, Running
  <2>2. run'.esps = run.esps
    BY <1>8, <2>1, RunFields
    DEF BuiltUkis, PlaceAssets, PlaceLoader, BuildUki, KeepUki, RemoveUki, Run
  <2>. QED BY <1>1, <2>1, <2>2 DEF SignedInv
<1>. QED BY <1>2, <1>3, <1>4, <1>5, <1>6, <1>7, <1>8 DEF Next

\* With Secure Boot on, every file that the bootloader of an ESP may need is signed
\* with the key in db, also in the middle of an update and wherever one ended.
THEOREM Accepted == Spec => []FirmwareAccepts
<1>1. Init => SignedInv
  <2>. SUFFICES ASSUME Init PROVE SignedInv
    OBVIOUS
  <2>. QED BY DEF Init, SignedInv, NoKeys, Running
<1>2. SignedInv => FirmwareAccepts BY DEF SignedInv, Signed, FirmwareAccepts
<1>. QED
  BY <1>1, <1>2, SignedInvNext, TypeInvInit, TypeInvNext, RowsInvInit, RowsInvNext, PTL DEF Spec
=============================================================================
