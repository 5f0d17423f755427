----------------------------- MODULE EspUpdate -----------------------------
(***************************************************************************)
(* hd-bootloader and hd-secboot: what is on the EFI system partitions      *)
(* (ESPs), and whether the firmware and the bootloader boot it.            *)
(*                                                                         *)
(* update-esps runs update-bootloader.py for one ESP after the other: it   *)
(* writes the kernel images (UKIs), then assets.efi, which names them,     *)
(* then BOOTX64.EFI, and removes the UKIs that are no longer named.  It    *)
(* may end anywhere.  Between two updates kernels and ZFS modules come and *)
(* go, the frontend is switched, and the owner makes keys and turns Secure *)
(* Boot on and off.                                                        *)
(*                                                                         *)
(* Abstractions.  A kernel stands for the UKI file name it gives.  Of a    *)
(* UKI, what matters is whether its initrd holds the ZFS module, and the   *)
(* key it is signed with; of the other files, their frontend and key.      *)
(* Every file goes in place by os.replace, from a name no one else uses.   *)
(* dpkg, the hooks and the owner wait for an update they started.          *)
(***************************************************************************)
EXTENDS Integers, FiniteSets

CONSTANTS
  Kernels, Dkms,   \* the kernels, and those of Debian, which get their module of DKMS
  Esps,            \* the ESPs, in the order of their update
  Frontends,       \* the frontends of the bootloader
  KernelCount,     \* how many kernels the menu has rows for
  MaxKeys,         \* bound: sets of keys that are generated
  Windows          \* the weak points at which an update may be interrupted

ASSUME ConstantsAssumption ==
  /\ Dkms \subseteq Kernels /\ IsFiniteSet(Kernels)
  /\ Esps \subseteq Nat /\ Esps # {}
  /\ KernelCount \in Nat \ {0} /\ MaxKeys \in Nat
  /\ Windows \subseteq {"switch"}

KeySets == 0 .. MaxKeys
NotThere == 0     \* the place of a kernel that is not in /boot
NoKeys == 0       \* no keys, an empty db, an unsigned file
NoFile == [none |-> TRUE]
Uki == [zfs : BOOLEAN, key : KeySets]
Assets == [frontend : Frontends, rows : SUBSET Kernels, key : KeySets]
Loader == [frontend : Frontends, key : KeySets]
Run == [esps : SUBSET Esps, esp : Esps, rows : SUBSET Kernels, todo : SUBSET Kernels]
NoRun == [none |-> TRUE]

VARIABLES
  place,             \* place[k]: of /boot/vmlinuz-k, the kernel installed last has 1
  modules,           \* the kernels with a ZFS module in /lib/modules
  initrd,            \* initrd[k]: "none", or whether it holds the ZFS module
  frontend,          \* the frontend in the settings and of the package
  keys,              \* the keys in /etc/hyprdebian/secboot
  db, pk,            \* the firmware: the key in db, and whether it has a platform key
  ukis, assets, loader,   \* the files on each ESP
  updated,           \* the keys that the last update that finished signed with
  pc, run            \* the step of the update, and its local state

\* For the properties: the kernels that once got a module while their initrd had none.
VARIABLE outdated

system == <<place, modules, initrd, frontend>>
secboot == <<keys, db, pk>>
files == <<ukis, assets, loader>>
vars == <<system, secboot, files, updated, pc, run, outdated>>

Init ==
  /\ place = [k \in Kernels |-> NotThere]
  /\ modules = {} /\ initrd = [k \in Kernels |-> "none"]
  /\ frontend \in Frontends
  /\ keys = NoKeys /\ db = NoKeys /\ pk = FALSE
  /\ ukis = [e \in Esps |-> [k \in Kernels |-> NoFile]]
  /\ assets = [e \in Esps |-> NoFile] /\ loader = [e \in Esps |-> NoFile]
  /\ updated = NoKeys
  /\ pc = "idle" /\ run = NoRun
  /\ outdated = {}

-----------------------------------------------------------------------------
(* Kernels, modules and settings.                                          *)

InBoot(k) == place[k] # NotThere

InstallKernel(k) ==
  /\ ~InBoot(k)
  /\ place' = [j \in Kernels |-> IF j = k THEN 1 ELSE IF InBoot(j) THEN place[j] + 1
                                 ELSE NotThere]
  /\ UNCHANGED <<modules, initrd, frontend>>

RemoveKernel(k) ==
  /\ InBoot(k)
  /\ place' = [j \in Kernels |-> IF j = k THEN NotThere
                                 ELSE IF place[j] > place[k] THEN place[j] - 1 ELSE place[j]]
  /\ modules' = modules \ {k}
  /\ initrd' = [initrd EXCEPT ![k] = "none"]
  /\ UNCHANGED frontend

\* DKMS builds the module, or zfs-modules brings it, for a kernel whose initrd may be there
\* already; it is made again with the module later, if at all (MakeInitrd).
AddModule(k) ==
  /\ k \notin modules /\ InBoot(k)
  /\ modules' = modules \cup {k}
  /\ UNCHANGED <<place, initrd, frontend>>

\* The switch to hd-kernel removes zfs-dkms, and with it the modules it built.
RemoveDkms ==
  /\ modules \cap Dkms # {}
  /\ modules' = modules \ Dkms
  /\ UNCHANGED <<place, initrd, frontend>>

MakeInitrd(k) ==
  /\ InBoot(k)
  /\ initrd' = [initrd EXCEPT ![k] = IF k \in modules THEN "zfs" ELSE "plain"]
  /\ UNCHANGED <<place, modules, frontend>>

SwitchFrontend ==
  /\ frontend' \in Frontends \ {frontend}
  /\ UNCHANGED <<place, modules, initrd>>

System ==
  /\ pc = "idle"
  /\ \/ \E k \in Kernels : InstallKernel(k) \/ RemoveKernel(k) \/ AddModule(k) \/ MakeInitrd(k)
     \/ RemoveDkms
     \/ SwitchFrontend
  /\ outdated' = outdated \cup {k \in modules' \ modules : initrd[k] = "plain"}
  /\ UNCHANGED <<secboot, files, updated, pc, run>>

-----------------------------------------------------------------------------
(* hd-secboot                                                              *)

\* --generate, also after the owner moved the old keys away in setup mode.
Generate ==
  /\ keys < MaxKeys /\ ~pk
  /\ keys' = keys + 1
  /\ UNCHANGED <<db, pk>>

\* Mutant: keys made for the firmware that are not those of the files.
StoreOther ==
  /\ keys # NoKeys /\ ~pk
  /\ db' = keys + 1
  /\ UNCHANGED <<keys, pk>>

Store ==
  /\ keys # NoKeys /\ ~pk
  /\ db' = keys
  /\ UNCHANGED <<keys, pk>>

Clear ==
  /\ keys # NoKeys /\ ~pk
  /\ db' = NoKeys
  /\ UNCHANGED <<keys, pk>>

DbHasKey == db = keys

\* "Sign the EFI files that are to boot with the db key before Secure Boot is turned
\* on": an update finished with the keys.
Enable ==
  /\ keys # NoKeys /\ ~pk /\ DbHasKey
  /\ updated = keys
  /\ pk' = TRUE
  /\ UNCHANGED <<keys, db>>

Disable ==
  /\ pk
  /\ pk' = FALSE
  /\ UNCHANGED <<keys, db>>

SecureBoot ==
  /\ pc = "idle"
  /\ Generate \/ Store \/ Clear \/ Enable \/ Disable
  /\ UNCHANGED <<system, files, updated, pc, run, outdated>>

-----------------------------------------------------------------------------
(* The update                                                              *)

Newest(S, k) == k \in S /\ \A j \in S : place[k] <= place[j]
Recent(S) == {k \in S : Cardinality({j \in S : place[j] < place[k]}) < KernelCount}

\* Mutant: kernels without a ZFS module too.
FindAnyKernels == Recent({k \in Kernels : InBoot(k) /\ initrd[k] # "none"})

\* The most recent kernels with an initrd and a ZFS module.
FindKernels == Recent({k \in modules : InBoot(k) /\ initrd[k] # "none"})

\* update-esps goes through the ESPs, update-bootloader.py starts with the kernels.
StartEsp(esps) ==
  /\ \E e \in esps :
       /\ \A f \in esps : e <= f
       /\ run' = [esps |-> esps, esp |-> e, rows |-> FindKernels, todo |-> FindKernels]
  /\ pc' = "ukis"

\* Mutant: an update without a kernel that can boot goes on.
StartAnyway ==
  /\ pc = "idle"
  /\ StartEsp(Esps)
  /\ UNCHANGED <<system, secboot, files, updated, outdated>>

\* Without a kernel that can boot, it ends before it writes anything.
Start ==
  /\ pc = "idle" /\ FindKernels # {}
  /\ StartEsp(Esps)
  /\ UNCHANGED <<system, secboot, files, updated, outdated>>

\* Mutant: what is signed with an old key can stay.
VerifiesAny(key) == TRUE

Verifies(key) == keys = NoKeys \/ key = keys

\* A file whose contents would not change stays, when its signature verifies.
Written(old, new) ==
  IF old # NoFile /\ [old EXCEPT !.key = keys] = new /\ Verifies(old.key) THEN old ELSE new

BuildUki(k) ==
  /\ pc = "ukis" /\ Newest(run.todo, k)
  /\ ukis' = [ukis EXCEPT ![run.esp][k] =
                Written(@, [zfs |-> initrd[k] = "zfs", key |-> keys])]
  /\ run' = [run EXCEPT !.todo = @ \ {k}]
  /\ UNCHANGED <<system, secboot, assets, loader, updated, pc, outdated>>

BuiltUkis ==
  /\ pc = "ukis" /\ run.todo = {}
  /\ pc' = "keep"
  /\ UNCHANGED <<system, secboot, files, updated, run, outdated>>

HasUki(k) == ukis[run.esp][k] # NoFile

\* Mutant: no UKI of a kernel without a module is kept.
KeepNone == {}

\* The UKIs of kernels in /boot without a module, in the slots that are left.  The
\* key of DKMS, without which none is kept, is there when a kernel could lose its module.
Keepable ==
  {k \in Kernels \ modules : InBoot(k) /\ k \notin run.rows /\ HasUki(k)
                             /\ Cardinality(run.rows) < KernelCount}

\* It is signed again when it does not verify.
KeepUki(k) ==
  /\ pc = "keep" /\ Newest(Keepable, k)
  /\ ukis' = [ukis EXCEPT ![run.esp][k].key = IF Verifies(@) THEN @ ELSE keys]
  /\ run' = [run EXCEPT !.rows = @ \cup {k}]
  /\ UNCHANGED <<system, secboot, assets, loader, updated, pc, outdated>>

\* assets.efi names the UKIs, in the rows of the menu.
PlaceAssets ==
  /\ pc = "keep" /\ Keepable = {}
  /\ assets' = [assets EXCEPT ![run.esp] =
                  Written(@, [frontend |-> frontend, rows |-> run.rows, key |-> keys])]
  /\ pc' = "loader"
  /\ UNCHANGED <<system, secboot, ukis, loader, updated, run, outdated>>

PlaceLoader ==
  /\ pc = "loader"
  /\ loader' = [loader EXCEPT ![run.esp] = Written(@, [frontend |-> frontend, key |-> keys])]
  /\ pc' = "remove"
  /\ UNCHANGED <<system, secboot, ukis, assets, updated, run, outdated>>

\* Mutant: only the UKIs of the kernels with a module stay.
NamedByModule == run.rows \cap modules

Named == run.rows

OldUkis == {k \in Kernels : HasUki(k)} \ Named

RemoveUki(k) ==
  /\ pc = "remove" /\ k \in OldUkis
  /\ ukis' = [ukis EXCEPT ![run.esp][k] = NoFile]
  /\ UNCHANGED <<system, secboot, assets, loader, updated, pc, run, outdated>>

NextEsp ==
  /\ pc = "remove" /\ OldUkis = {}
  /\ run.esps # {run.esp}
  /\ StartEsp(run.esps \ {run.esp})
  /\ UNCHANGED <<system, secboot, files, updated, outdated>>

End ==
  /\ pc = "remove" /\ OldUkis = {} /\ run.esps = {run.esp}
  /\ updated' = keys
  /\ pc' = "idle" /\ run' = NoRun
  /\ UNCHANGED <<system, secboot, files, outdated>>

\* The bootloader on the ESP is still that of the other frontend.
Switching == loader[run.esp] # NoFile /\ loader[run.esp].frontend # frontend

\* A signal, a tool that fails, an ESP that is full or gone, a power cut.
Interrupt ==
  /\ pc # "idle"
  /\ pc = "loader" /\ Switching => "switch" \in Windows
  /\ pc' = "idle" /\ run' = NoRun
  /\ UNCHANGED <<system, secboot, files, updated, outdated>>

-----------------------------------------------------------------------------
Next ==
  \/ System
  \/ SecureBoot
  \/ Start \/ BuiltUkis \/ PlaceAssets \/ PlaceLoader \/ NextEsp \/ End \/ Interrupt
  \/ \E k \in Kernels : BuildUki(k) \/ KeepUki(k) \/ RemoveUki(k)

Spec == Init /\ [][Next]_vars

-----------------------------------------------------------------------------
(* Properties.                                                             *)

\* Every variable has its type.
TypeOK ==
  /\ place \in [Kernels -> Nat]
  /\ modules \subseteq Kernels
  /\ initrd \in [Kernels -> {"none", "plain", "zfs"}]
  /\ frontend \in Frontends
  /\ keys \in KeySets /\ db \in KeySets /\ pk \in BOOLEAN
  /\ ukis \in [Esps -> [Kernels -> Uki \cup {NoFile}]]
  /\ assets \in [Esps -> Assets \cup {NoFile}]
  /\ loader \in [Esps -> Loader \cup {NoFile}]
  /\ updated \in KeySets
  /\ pc \in {"idle", "ukis", "keep", "loader", "remove"}
  /\ run \in Run \cup {NoRun}
  /\ outdated \subseteq Kernels

\* "assets.efi never names a UKI that is gone", wherever an update ends and whatever
\* kernels and modules come and go; and each it names mounts the root, which takes
\* the ZFS module in its initrd.  Only a kernel whose module once came after its initrd
\* may have one that does not: the update looks for the module in /lib/modules alone.
RowsMountRoot ==
  \A e \in Esps : assets[e] # NoFile =>
    \A k \in assets[e].rows : ukis[e][k] # NoFile /\ (ukis[e][k].zfs \/ k \in outdated)

\* "Its initrd holds the ZFS module that the kernel lost": a UKI that is kept as the way
\* back mounts the root.  One that was made too early does not (EspUpdateKept.cfg).
KeptMountsRoot ==
  pc = "keep" => \A k \in Keepable : ukis[run.esp][k].zfs

\* The bootloader shows the rows of an assets.efi of its own frontend only.
Shows(e) ==
  IF assets[e] # NoFile /\ assets[e].frontend = loader[e].frontend THEN assets[e].rows ELSE {}

\* "An order that leaves a bootable ESP": wherever an update ended, the BOOTX64.EFI
\* that is on an ESP shows a menu.
ShowsMenu ==
  pc = "idle" => \A e \in Esps : loader[e] # NoFile => Shows(e) # {}

\* With Secure Boot on, the firmware starts every file of an ESP that the
\* bootloader may need: all of them are signed with the key in db.
FirmwareAccepts ==
  pk => \A e \in Esps :
    /\ loader[e].key = db /\ assets[e].key = db
    /\ \A k \in assets[e].rows : ukis[e][k].key = db

\* "The way back when the kernel that replaced it does not boot": a UKI with the ZFS
\* module of a kernel in /boot that lost it is neither removed nor built again, as
\* long as the kernels with a module leave it a row of the menu.
WayBack ==
  [][\A e \in Esps, k \in Kernels \ modules :
       InBoot(k) /\ ukis[e][k] # NoFile /\ ukis[e][k].zfs =>
         \/ ukis'[e][k] # NoFile /\ ukis'[e][k].zfs
         \/ Cardinality(assets[e].rows) >= KernelCount]_vars
=============================================================================
