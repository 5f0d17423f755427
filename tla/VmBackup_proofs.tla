-------------------------- MODULE VmBackup_proofs ---------------------------
(***************************************************************************)
(* Proofs about hd-backup-vm, for any disks, pools and number of runs: the *)
(* types and the guest for any weak points at which a run is interrupted,  *)
(* the backup itself when it is interrupted anywhere else.                 *)
(***************************************************************************)
EXTENDS VmBackup, TLAPS

\* No run is interrupted at a weak point.
NoWindows == Windows = {}

-----------------------------------------------------------------------------
(* Chains of streams                                                       *)

\* LeadsTo without a word about whole streams.
Linked(S, t) ==
  /\ \E s \in S : s.to = t /\ \A r \in S : r.seq <= s.seq
  /\ \A s \in S : IF \A r \in S : s.seq <= r.seq THEN s.from = Whole
                  ELSE \E r \in S : Before(r, s, S) /\ r.to = s.from

LEMMA LeadsToLinked ==
  ASSUME NEW S, NEW t
  PROVE  LeadsTo(S, t) <=> Linked(S, t) /\ \A s \in S : s.whole
BY DEF LeadsTo, Linked

LEMMA LeadsSomewhere ==
  ASSUME NEW S, NEW t, LeadsTo(S, t)
  PROVE  S # {}
BY DEF LeadsTo

\* A stream that starts where the chain ends makes it longer by one.
LEMMA Extended ==
  ASSUME NEW S, NEW t, NEW n, n.seq \in Nat, \A s \in S : s.seq \in Nat /\ s.seq < n.seq,
         \/ S = {} /\ n.from = Whole
         \/ Linked(S, t) /\ n.from = t
  PROVE  Linked(S \cup {n}, n.to)
<1>. DEFINE T == S \cup {n}
<1>1. \E s \in T : s.to = n.to /\ \A r \in T : r.seq <= s.seq OBVIOUS
<1>2. CASE S = {} /\ n.from = Whole
  <2>1. T = {n} BY <1>2
  <2>. QED BY <1>1, <1>2, <2>1 DEF Linked
<1>3. CASE Linked(S, t) /\ n.from = t
  <2>1. PICK last \in S : last.to = t /\ \A r \in S : r.seq <= last.seq BY <1>3 DEF Linked
  <2>2. Before(last, n, T) BY <2>1 DEF Before
  <2>3. ~(\A r \in T : n.seq <= r.seq) BY <2>1
  <2>4. ASSUME NEW s \in S
        PROVE  IF \A r \in T : s.seq <= r.seq THEN s.from = Whole
               ELSE \E r \in T : Before(r, s, T) /\ r.to = s.from
    <3>1. CASE \A r \in T : s.seq <= r.seq BY <1>3, <3>1 DEF Linked
    <3>2. CASE ~(\A r \in T : s.seq <= r.seq)
      <4>1. ~(\A r \in S : s.seq <= r.seq) BY <3>2
      <4>2. PICK r \in S : Before(r, s, S) /\ r.to = s.from BY <1>3, <4>1 DEF Linked
      <4>3. Before(r, s, T) BY <4>2 DEF Before
      <4>. QED BY <3>2, <4>2, <4>3
    <3>. QED BY <3>1, <3>2
  <2>5. \A s \in T : IF \A r \in T : s.seq <= r.seq THEN s.from = Whole
                     ELSE \E r \in T : Before(r, s, T) /\ r.to = s.from
    BY <1>3, <2>1, <2>2, <2>3, <2>4
  <2>. QED BY <1>1, <2>5 DEF Linked
<1>. QED BY <1>2, <1>3

\* The streams are the same but for what of them is written.
Alike(s, e) == e.seq = s.seq /\ e.from = s.from /\ e.to = s.to

LEMMA AlikeLinked ==
  ASSUME NEW S, NEW T, NEW t, Linked(S, t),
         \A s \in S : \E e \in T : Alike(s, e),
         \A e \in T : \E s \in S : Alike(s, e)
  PROVE  Linked(T, t)
<1>1. PICK s \in S : s.to = t /\ \A r \in S : r.seq <= s.seq BY DEF Linked
<1>2. \E e \in T : e.to = t /\ \A r \in T : r.seq <= e.seq BY <1>1 DEF Alike
<1>3. ASSUME NEW e \in T
      PROVE  IF \A r \in T : e.seq <= r.seq THEN e.from = Whole
             ELSE \E r \in T : Before(r, e, T) /\ r.to = e.from
  <2>1. PICK f \in S : Alike(f, e) OBVIOUS
  <2>2. CASE \A r \in T : e.seq <= r.seq
    <3>1. \A r \in S : f.seq <= r.seq BY <2>1, <2>2 DEF Alike
    <3>. QED BY <2>1, <2>2, <3>1 DEF Linked, Alike
  <2>3. CASE ~(\A r \in T : e.seq <= r.seq)
    <3>1. ~(\A r \in S : f.seq <= r.seq) BY <2>1, <2>3 DEF Alike
    <3>2. PICK g \in S : Before(g, f, S) /\ g.to = f.from BY <3>1 DEF Linked
    <3>3. PICK h \in T : Alike(g, h) OBVIOUS
    <3>4. Before(h, e, T) BY <2>1, <3>2, <3>3 DEF Before, Alike
    <3>. QED BY <2>1, <2>3, <3>2, <3>3, <3>4 DEF Alike
  <2>. QED BY <2>2, <2>3
<1>. QED BY <1>2, <1>3 DEF Linked

-----------------------------------------------------------------------------
(* Types                                                                   *)

\* Types, with what bounds the sequence numbers: a run is numbered at most once.
TypeInv ==
  /\ TypeOK
  /\ sequence.next <= runs
  /\ pc # "idle" => run \in Run /\ run.snap = runs /\ run.seq < run.snap

LEMMA Numbers == MaxRuns \in Nat \ {0} /\ Times = 1 .. MaxRuns /\ NoSnap = 0 /\ Whole = 0
BY ConstantsAssumption DEF Times, NoSnap, Whole

LEMMA RunTyped ==
  ASSUME TypeInv, pc # "idle"
  PROVE  /\ run \in Run /\ run.snap \in Times /\ run.datasets \subseteq Disks
         /\ run.seq \in 0 .. MaxRuns /\ run.base \in Times \cup {NoSnap}
         /\ run.vars \in Nvrams /\ run.frozen \in BOOLEAN /\ run.finished \in BOOLEAN
         /\ run.snapshots \subseteq Disks \X Times /\ run.outFiles \subseteq Disks
         /\ run.pools \subseteq Pools /\ run.todo \subseteq Disks
         /\ run.snap = runs /\ run.seq < run.snap
BY DEF TypeInv, Run

\* A run that goes on to another step, with all else of a type it had.
LEMMA TypeGoesOn ==
  ASSUME TypeInv, pc # "idle",
         guest' \in {"off", "running", "frozen"}, snaps' \subseteq Disks \X Times,
         streams' \subseteq Stream, run' \in Run, run'.snap = run.snap, run'.seq = run.seq,
         pc' \in {"snapshot", "snapshotted", "thaw", "send", "sending", "vars", "record",
                  "recorded", "prune", "freeze"} \cup Cleaning,
         left' \in BOOLEAN,
         UNCHANGED <<attached, sequence, xml, nvram, runs>>
  PROVE  TypeInv'
<1>1. TypeOK' BY DEF TypeInv, TypeOK
<1>. QED BY <1>1 DEF TypeInv

\* A run that ends.
LEMMA TypeEnds ==
  ASSUME TypeInv, guest' \in {"off", "running", "frozen"}, snaps' \subseteq Disks \X Times,
         streams' \subseteq Stream, sequence' \in Sequence, sequence'.next <= runs,
         pc' = "idle", run' = None, left' \in BOOLEAN, UNCHANGED <<attached, xml, nvram, runs>>
  PROVE  TypeInv'
<1>1. TypeOK' BY DEF TypeInv, TypeOK
<1>. QED BY <1>1 DEF TypeInv

LEMMA TypeInit == Init => TypeInv
<1>. SUFFICES ASSUME Init PROVE TypeInv
  OBVIOUS
<1>0. /\ attached \subseteq Disks /\ guest \in {"off", "running", "frozen"} /\ pc = "idle"
      /\ run \in Run \cup {None} /\ left \in BOOLEAN
  BY DEF Init
<1>1. CASE NewFolder
  <2>1. xml \in [disks : SUBSET Disks, at : Times \cup {NoSnap}, nvram : BOOLEAN]
    BY <1>1 DEF NewFolder, NoXml
  <2>2. /\ snaps \subseteq Disks \X Times /\ streams \subseteq Stream /\ sequence \in Sequence
        /\ nvram \in Times \cup {NoSnap} /\ runs \in 0 .. MaxRuns /\ sequence.next <= runs
    BY <1>1, Numbers DEF NewFolder, Sequence
  <2>3. TypeOK BY <1>0, <2>1, <2>2 DEF TypeOK
  <2>. QED BY <1>0, <2>2, <2>3 DEF TypeInv
<1>2. CASE LegacyFolder
  <2>1. \A d \in Disks : [disk |-> d, seq |-> 0, from |-> Whole, to |-> 1, whole |-> TRUE] \in Stream
    BY Numbers DEF Stream
  <2>2. snaps \subseteq Disks \X Times /\ streams \subseteq Stream
    BY <1>2, <2>1, Numbers DEF LegacyFolder
  <2>3. xml \in [disks : SUBSET Disks, at : Times \cup {NoSnap}, nvram : BOOLEAN]
    BY <1>2, Numbers DEF LegacyFolder
  <2>4. /\ sequence \in Sequence /\ nvram \in Times \cup {NoSnap} /\ runs \in 0 .. MaxRuns
        /\ sequence.next <= runs
    BY <1>2, Numbers DEF LegacyFolder, Sequence
  <2>5. TypeOK BY <1>0, <2>2, <2>3, <2>4 DEF TypeOK
  <2>. QED BY <1>0, <2>4, <2>5 DEF TypeInv
<1>. QED BY <1>1, <1>2 DEF Init

\* The disk is one that has streams only if its snapshot is there.
LEMMA StreamTyped ==
  ASSUME TypeInv, pc # "idle", NEW d \in Disks, ~BaseGone(d)
  PROVE  [disk |-> d, seq |-> run.seq, from |-> StreamFrom(d), to |-> run.snap, whole |-> FALSE]
           \in Stream
<1>1. HasEarlierStreams(d) => <<d, PrevSnap(d)>> \in Disks \X Times
  BY DEF BaseGone, TypeInv, TypeOK
<1>2. StreamFrom(d) \in Times \cup {Whole} BY <1>1 DEF StreamFrom
<1>. QED BY <1>2, RunTyped DEF Stream

LEMMA TypeAround ==
  ASSUME TypeInv, ChangeDisks \/ StartOrStopGuest \/ MoveFolder
  PROVE  TypeInv'
<1>1. CASE ChangeDisks
  <2>1. attached' \subseteq Disks BY <1>1 DEF ChangeDisks, TypeInv, TypeOK
  <2>. QED BY <1>1, <2>1 DEF ChangeDisks, TypeInv, TypeOK, folder
<1>2. CASE StartOrStopGuest BY <1>2 DEF StartOrStopGuest, TypeInv, TypeOK, folder
<1>3. CASE MoveFolder
  <2>1. sequence' \in Sequence /\ sequence'.next = 0 BY <1>3, Numbers DEF MoveFolder, Sequence
  <2>2. xml' \in [disks : SUBSET Disks, at : Times \cup {NoSnap}, nvram : BOOLEAN]
    BY <1>3 DEF MoveFolder, NoXml
  <2>3. runs \in Nat BY Numbers DEF TypeInv, TypeOK
  <2>. QED BY <1>3, <2>1, <2>2, <2>3 DEF MoveFolder, TypeInv, TypeOK
<1>. QED BY <1>1, <1>2, <1>3

LEMMA TypeStart ==
  ASSUME TypeInv, Start
  PROVE  TypeInv'
<1>1. sequence.next \in 0 .. MaxRuns /\ sequence.base \in Times \cup {NoSnap}
  BY DEF TypeInv, TypeOK, Sequence
<1>2. attached \subseteq Disks /\ runs \in Nat /\ runs + 1 \in Times /\ sequence.next <= runs
  BY Numbers DEF Start, TypeInv, TypeOK
<1>3. {PoolOf[d] : d \in attached} \subseteq Pools BY <1>2, ConstantsAssumption
<1>4. PICK found \in Nvrams :
        run' = [snap |-> runs + 1, datasets |-> attached, vars |-> found, seq |-> sequence.next,
                base |-> sequence.base, frozen |-> FALSE, finished |-> FALSE,
                snapshots |-> {}, outFiles |-> {}, pools |-> {PoolOf[d] : d \in attached},
                todo |-> attached]
  BY DEF Start
<1>5. /\ run' \in Run /\ run'.snap = runs' /\ run'.seq < run'.snap /\ runs' \in 0 .. MaxRuns
      /\ sequence'.next <= runs'
  BY <1>1, <1>2, <1>3, <1>4, Numbers DEF Start, Run, folder
<1>6. TypeOK' BY <1>5 DEF Start, TypeInv, TypeOK, folder
<1>. QED BY <1>5, <1>6 DEF TypeInv

\* The guest agent thaws the guest or not.
LEMMA ThawTyped ==
  ASSUME TypeInv, IF run.frozen THEN Thaw ELSE UNCHANGED <<guest, left>>
  PROVE  guest' \in {"off", "running", "frozen"} /\ left' \in BOOLEAN
BY DEF TypeInv, TypeOK, Thaw

LEMMA TypeFreezing ==
  ASSUME TypeInv, MarkFrozen \/ FreezeGuest \/ SnapshotPool \/ RecordSnapshots \/ ThawGuest
  PROVE  TypeInv'
<1>1. /\ pc # "idle" /\ guest \in {"off", "running", "frozen"} /\ snaps \subseteq Disks \X Times
      /\ streams \subseteq Stream /\ left \in BOOLEAN
  BY DEF MarkFrozen, FreezeGuest, SnapshotPool, RecordSnapshots, ThawGuest, TypeInv, TypeOK
<1>2. run \in Run BY <1>1 DEF TypeInv
<1>3. CASE MarkFrozen
  <2>1. run' \in Run /\ run'.snap = run.snap /\ run'.seq = run.seq
    BY <1>2, <1>3 DEF MarkFrozen, MarksFrozen, Run
  <2>. QED BY <1>1, <1>3, <2>1, TypeGoesOn DEF MarkFrozen, folder
<1>4. CASE FreezeGuest
  <2>1. guest' \in {"off", "running", "frozen"} BY <1>1, <1>4 DEF FreezeGuest
  <2>. QED BY <1>1, <1>2, <1>4, <2>1, TypeGoesOn DEF FreezeGuest, folder
<1>5. CASE SnapshotPool
  <2>1. PICK pool \in run.pools :
          /\ snaps' = snaps \cup {<<d, run.snap>> : d \in {e \in run.datasets : PoolOf[e] = pool}}
          /\ run' = [run EXCEPT !.pools = @ \ {pool}]
    BY <1>5 DEF SnapshotPool
  <2>2. snaps' \subseteq Disks \X Times BY <1>1, <2>1, RunTyped
  <2>3. run' \in Run /\ run'.snap = run.snap /\ run'.seq = run.seq BY <1>2, <2>1 DEF Run
  <2>. QED BY <1>1, <1>5, <2>2, <2>3, TypeGoesOn DEF SnapshotPool, folder
<1>6. CASE RecordSnapshots
  <2>1. {s \in snaps : s[2] = run.snap} \in SUBSET (Disks \X Times) BY <1>1
  <2>2. run' \in Run /\ run'.snap = run.snap /\ run'.seq = run.seq
    BY <1>2, <1>6, <2>1 DEF RecordSnapshots, Run
  <2>. QED BY <1>1, <1>6, <2>2, TypeGoesOn DEF RecordSnapshots, folder
<1>7. CASE ThawGuest
  <2>1. run' \in Run /\ run'.snap = run.snap /\ run'.seq = run.seq
    BY <1>2, <1>7 DEF ThawGuest, Run
  <2>2. guest' \in {"off", "running", "frozen"} /\ left' \in BOOLEAN
    BY <1>7, ThawTyped DEF ThawGuest
  <2>. QED BY <1>1, <1>7, <2>1, <2>2, TypeGoesOn DEF ThawGuest, folder
<1>. QED BY <1>3, <1>4, <1>5, <1>6, <1>7

LEMMA TypeSending ==
  ASSUME TypeInv, OpenStream \/ Refuse \/ EndStream
  PROVE  TypeInv'
<1>1. /\ pc # "idle" /\ guest \in {"off", "running", "frozen"} /\ snaps \subseteq Disks \X Times
      /\ streams \subseteq Stream /\ left \in BOOLEAN
  BY DEF OpenStream, Refuse, EndStream, TypeInv, TypeOK
<1>2. run \in Run BY <1>1 DEF TypeInv
<1>3. CASE OpenStream
  <2>1. PICK d \in run.todo :
          /\ ~BaseGone(d)
          /\ streams' = {s \in streams : s.disk # d \/ s.seq # run.seq} \cup
               {[disk |-> d, seq |-> run.seq, from |-> StreamFrom(d), to |-> run.snap,
                 whole |-> FALSE]}
          /\ run' = [run EXCEPT !.outFiles = @ \cup {d}, !.todo = @ \ {d}]
    BY <1>3 DEF OpenStream
  <2>2. d \in Disks BY <1>1, RunTyped
  <2>3. streams' \subseteq Stream BY <1>1, <2>1, <2>2, StreamTyped
  <2>4. run' \in Run /\ run'.snap = run.snap /\ run'.seq = run.seq
    BY <1>2, <2>1, <2>2 DEF Run
  <2>. QED BY <1>1, <1>3, <2>3, <2>4, TypeGoesOn DEF OpenStream
<1>4. CASE Refuse
  <2>1. PICK d \in run.todo : run' = [run EXCEPT !.outFiles = @ \cup {d}] BY <1>4 DEF Refuse
  <2>2. d \in Disks BY <1>1, RunTyped
  <2>3. run' \in Run /\ run'.snap = run.snap /\ run'.seq = run.seq
    BY <1>2, <2>1, <2>2 DEF Run
  <2>. QED BY <1>1, <1>4, <2>3, TypeGoesOn DEF Refuse, folder, Cleaning
<1>5. CASE EndStream
  <2>1. \A s \in streams : [s EXCEPT !.whole = TRUE] \in Stream BY <1>1 DEF Stream
  <2>2. streams' \subseteq Stream BY <1>1, <1>5, <2>1 DEF EndStream
  <2>. QED BY <1>1, <1>2, <1>5, <2>2, TypeGoesOn DEF EndStream
<1>. QED BY <1>3, <1>4, <1>5

LEMMA TypeCommitting ==
  ASSUME TypeInv, PlaceXml \/ PlaceVars \/ RecordSequence \/ Finish \/ Prune \/ End
  PROVE  TypeInv'
<1>1. /\ pc # "idle" /\ guest \in {"off", "running", "frozen"} /\ snaps \subseteq Disks \X Times
      /\ streams \subseteq Stream /\ sequence \in Sequence /\ sequence.next <= runs
      /\ left \in BOOLEAN
  BY DEF PlaceXml, PlaceVars, RecordSequence, Finish, Prune, End, TypeInv, TypeOK
<1>2. run \in Run BY <1>1 DEF TypeInv
<1>3. CASE PlaceXml
  <2>1. xml' \in [disks : SUBSET Disks, at : Times \cup {NoSnap}, nvram : BOOLEAN]
    BY <1>1, <1>3, RunTyped DEF PlaceXml
  <2>. QED BY <1>3, <2>1 DEF PlaceXml, TypeInv, TypeOK
<1>4. CASE PlaceVars
  <2>1. nvram' \in Times \cup {NoSnap}
    BY <1>1, <1>4, RunTyped DEF PlaceVars, PlacedVars, TypeInv, TypeOK
  <2>. QED BY <1>4, <2>1 DEF PlaceVars, TypeInv, TypeOK
<1>5. CASE RecordSequence
  <2>1. run.seq + 1 \in 0 .. MaxRuns /\ run.seq + 1 <= runs BY <1>1, RunTyped, Numbers
  <2>2. sequence' \in Sequence /\ sequence'.next <= runs
    BY <1>1, <1>5, <2>1, RunTyped DEF RecordSequence, NextSequence, Sequence
  <2>. QED BY <1>5, <2>2 DEF RecordSequence, TypeInv, TypeOK
<1>6. CASE Finish
  <2>1. run' \in Run /\ run'.snap = run.snap /\ run'.seq = run.seq
    BY <1>2, <1>6 DEF Finish, Run
  <2>. QED BY <1>1, <1>6, <2>1, TypeGoesOn DEF Finish, folder
<1>7. CASE Prune
  <2>1. PICK d \in run.todo :
          /\ snaps' \in {snaps, {s \in snaps : s[1] # d \/ s[2] = run.snap}}
          /\ run' = [run EXCEPT !.todo = @ \ {d}]
    BY <1>7 DEF Prune
  <2>2. run' \in Run /\ run'.snap = run.snap /\ run'.seq = run.seq BY <1>2, <2>1 DEF Run
  <2>3. snaps' \subseteq Disks \X Times BY <1>1, <2>1
  <2>. QED BY <1>1, <1>7, <2>2, <2>3, TypeGoesOn DEF Prune, folder
<1>8. CASE End BY <1>1, <1>8, TypeEnds DEF End, folder
<1>. QED BY <1>3, <1>4, <1>5, <1>6, <1>7, <1>8

LEMMA TypeBreaking ==
  ASSUME TypeInv,
         \/ Interrupt \/ CleanupThaw \/ CleanupSnapshots \/ CleanupFiles \/ InterruptCleanup
         \/ PowerCut
  PROVE  TypeInv'
<1>1. /\ pc # "idle" /\ guest \in {"off", "running", "frozen"} /\ snaps \subseteq Disks \X Times
      /\ streams \subseteq Stream /\ sequence \in Sequence /\ sequence.next <= runs
      /\ left \in BOOLEAN
  BY DEF Interrupt, CleanupThaw, CleanupSnapshots, CleanupFiles, InterruptCleanup, PowerCut,
         Cleaning, TypeInv, TypeOK
<1>2. run \in Run BY <1>1 DEF TypeInv
<1>3. CASE Interrupt BY <1>1, <1>2, <1>3, TypeGoesOn DEF Interrupt, folder, Cleaning
<1>4. CASE CleanupThaw
  <2>1. run' \in Run /\ run'.snap = run.snap /\ run'.seq = run.seq
    BY <1>2, <1>4 DEF CleanupThaw, Run
  <2>2. guest' \in {"off", "running", "frozen"} /\ left' \in BOOLEAN
    BY <1>4, ThawTyped DEF CleanupThaw
  <2>3. pc' \in Cleaning BY <1>4 DEF CleanupThaw, AfterThaw, Cleaning
  <2>. QED BY <1>1, <1>4, <2>1, <2>2, <2>3, TypeGoesOn DEF CleanupThaw, folder
<1>5. CASE CleanupSnapshots
  <2>1. snaps' \subseteq Disks \X Times BY <1>1, <1>5 DEF CleanupSnapshots
  <2>. QED BY <1>1, <1>2, <1>5, <2>1, TypeGoesOn DEF CleanupSnapshots, folder, Cleaning
<1>6. CASE CleanupFiles
  <2>1. streams' \subseteq Stream BY <1>1, <1>6 DEF CleanupFiles
  <2>. QED BY <1>1, <1>6, <2>1, TypeEnds DEF CleanupFiles
<1>8. CASE InterruptCleanup
  <2>1. streams' \subseteq Stream /\ left' \in BOOLEAN BY <1>1, <1>8 DEF InterruptCleanup
  <2>. QED BY <1>1, <1>8, <2>1, TypeEnds DEF InterruptCleanup
<1>7. CASE PowerCut
  <2>1. streams' \subseteq Stream BY <1>1, <1>7 DEF PowerCut
  <2>2. [next |-> run.seq, base |-> run.base] \in Sequence /\ run.seq <= runs
    BY <1>1, RunTyped, Numbers DEF Sequence
  <2>3. sequence' \in Sequence /\ sequence'.next <= runs BY <1>1, <1>7, <2>2 DEF PowerCut
  <2>. QED BY <1>1, <1>7, <2>1, <2>3, TypeEnds DEF PowerCut
<1>. QED BY <1>3, <1>4, <1>5, <1>6, <1>7, <1>8

LEMMA TypeNext == TypeInv /\ [Next]_vars => TypeInv'
<1>. SUFFICES ASSUME TypeInv, [Next]_vars PROVE TypeInv'
  OBVIOUS
<1>1. CASE UNCHANGED vars BY <1>1 DEF vars, folder, TypeInv, TypeOK
<1>. QED BY <1>1, TypeAround, TypeStart, TypeFreezing, TypeSending, TypeCommitting, TypeBreaking
         DEF Next

\* Every variable keeps its type, whatever interrupts the runs; a sequence number
\* never exceeds the runs that were started.
THEOREM TypeCorrect == Spec => []TypeOK
<1>1. TypeInv => TypeOK BY DEF TypeInv
<1>. QED BY <1>1, TypeInit, TypeNext, PTL DEF Spec

-----------------------------------------------------------------------------
(* The guest                                                               *)

\* A frozen guest was left so, or the run will ask for a thaw, before the streams.
FrozenInv ==
  /\ guest = "frozen" =>
       left \/ (run.frozen /\ pc \in {"snapshot", "snapshotted", "thaw", "cleanup"})
  /\ pc = "freeze" => run.frozen

LEMMA FrozenInit == Init => FrozenInv
BY DEF Init, FrozenInv

LEMMA FrozenNext == TypeInv /\ FrozenInv /\ [Next]_vars => FrozenInv'
<1>. SUFFICES ASSUME TypeInv, FrozenInv, [Next]_vars PROVE FrozenInv'
  OBVIOUS
<1>1. pc # "idle" => run \in Run BY DEF TypeInv
<1>2. CASE ChangeDisks \/ MoveFolder \/ UNCHANGED vars
  BY <1>2 DEF ChangeDisks, MoveFolder, vars, FrozenInv
<1>3. CASE StartOrStopGuest BY <1>3 DEF StartOrStopGuest, FrozenInv
<1>4. CASE Start BY <1>4 DEF Start, FrozenInv
<1>5. CASE MarkFrozen
  <2>1. (guest = "frozen" => left') /\ guest' = guest BY <1>5 DEF MarkFrozen, FrozenInv
  <2>2. run' = [run EXCEPT !.frozen = MarksFrozen] /\ (pc' = "freeze" => guest # "off")
    BY <1>5 DEF MarkFrozen
  <2>3. run'.frozen = MarksFrozen BY <1>1, <1>5, <2>2 DEF MarkFrozen, Run
  <2>. QED BY <2>1, <2>2, <2>3 DEF FrozenInv, MarksFrozen
<1>6. CASE FreezeGuest BY <1>6 DEF FreezeGuest, FrozenInv
<1>7. CASE SnapshotPool \/ RecordSnapshots
  <2>1. run'.frozen = run.frozen BY <1>1, <1>7 DEF SnapshotPool, RecordSnapshots, Run
  <2>. QED BY <1>7, <2>1 DEF SnapshotPool, RecordSnapshots, FrozenInv
<1>8. CASE ThawGuest BY <1>8 DEF ThawGuest, Thaw, FrozenInv
<1>9. CASE CleanupThaw
  <2>1. pc' \in {"cleanSnaps", "cleanFiles"} BY <1>9 DEF CleanupThaw, AfterThaw
  <2>. QED BY <1>9, <2>1 DEF CleanupThaw, Thaw, FrozenInv
<1>10. CASE PowerCut BY <1>10 DEF PowerCut, FrozenInv
<1>11. CASE Interrupt BY <1>11 DEF Interrupt, FrozenInv
<1>12. CASE \/ OpenStream \/ Refuse \/ EndStream
            \/ PlaceXml \/ PlaceVars \/ RecordSequence \/ Finish \/ Prune \/ End
            \/ CleanupSnapshots \/ CleanupFiles
  <2>1. guest' = guest /\ left' = left /\ (guest = "frozen" => left) /\ pc' # "freeze"
    BY <1>12 DEF OpenStream, Refuse, EndStream, PlaceXml, PlaceVars, RecordSequence, Finish, Prune,
                 End, CleanupSnapshots, CleanupFiles, FrozenInv
  <2>. QED BY <2>1 DEF FrozenInv
<1>13. CASE InterruptCleanup
  <2>1. guest' = guest /\ pc' = "idle" BY <1>13 DEF InterruptCleanup
  <2>2. ASSUME guest = "frozen" PROVE left'
    <3>1. left \/ pc = "cleanup" BY <1>13, <2>2 DEF InterruptCleanup, Cleaning, FrozenInv
    <3>2. left' = (left \/ (guest = "frozen" /\ pc = "cleanup"))
      BY <1>13 DEF InterruptCleanup
    <3>. QED BY <2>2, <3>1, <3>2
  <2>. QED BY <2>1, <2>2 DEF FrozenInv
<1>. QED BY <1>2, <1>3, <1>4, <1>5, <1>6, <1>7, <1>8, <1>9, <1>10, <1>11, <1>12, <1>13 DEF Next

\* However a run ends, the guest is frozen only while its disks are snapshotted, or
\* until the cleanup asks for the thaw; longer only if the guest agent did not thaw
\* it or a second signal ended the cleanup before it asked.
THEOREM ThawedInTime == Spec => []FrozenBriefly
<1>1. FrozenInv => FrozenBriefly BY DEF FrozenInv, FrozenBriefly
<1>. QED BY <1>1, TypeInit, TypeNext, FrozenInit, FrozenNext, PTL DEF Spec

-----------------------------------------------------------------------------
(* The folder and the snapshots                                            *)

Snapshotting == {"domstate", "freeze", "snapshot", "snapshotted", "thaw"}

\* The sequence file is of the run before this one until it is of this one, and
\* only a run that recorded itself counts as finished.
PhaseInv ==
  /\ pc # "idle" /\ ~Recorded =>
       sequence.next = run.seq /\ sequence.base = run.base /\ run.base < run.snap
  /\ Recorded => sequence.next = run.seq + 1 /\ sequence.base = run.snap
  /\ pc = "prune" => run.finished
  /\ pc \notin {"idle", "prune"} \cup Cleaning => ~run.finished
  /\ pc = "cleanSnaps" => ~run.finished
  /\ pc \in Snapshotting => run.todo = run.datasets
  /\ sequence.base <= runs

\* The snapshots of a run are of its disks, and of all of them before the streams.
SnapInv ==
  /\ \A s \in snaps : s[2] <= runs
  /\ pc # "idle" => \A s \in snaps : s[2] = run.snap => s[1] \in run.datasets
  /\ pc # "idle" => \A s \in run.snapshots : s[2] = run.snap
  /\ pc \notin {"idle"} \cup Cleaning =>
       \A d \in run.datasets : PoolOf[d] \in run.pools \/ <<d, run.snap>> \in snaps
  /\ pc \in {"thaw", "send", "sending", "vars", "record", "recorded", "prune"} => run.pools = {}

\* The disks a run is done with have a chain to its snapshot, with what a run that
\* was interrupted left at its number gone.
Sent(d) ==
  /\ Linked(StreamsOf(d), run.snap) /\ d \in run.outFiles
  /\ \A s \in StreamsOf(d) : s.whole \/ (pc = "sending" /\ s.seq = run.seq)

StreamInv ==
  /\ \A s \in streams : s.seq <= sequence.next
  /\ Recorded => \A s \in streams : s.seq < sequence.next
  /\ pc \in {"send", "sending"} => \A d \in run.datasets \ run.todo : Sent(d)

\* In a folder of an old version, the newest snapshot is the base of the streams.
OldSnaps ==
  \A s \in snaps :
    \/ s[2] = 1
    \/ /\ pc \in {"snapshot", "snapshotted", "thaw", "send", "sending", "cleanup", "cleanSnaps"}
       /\ s[2] = run.snap /\ (pc = "snapshotted" \/ s \in run.snapshots)

OldFolder == sequence.base = NoSnap /\ sequence.next > 0

\* The last finished backup can be restored, and continued for exactly its disks.
BaseInv ==
  /\ \A d \in xml.disks : LeadsTo(Counted(d), xml.at)
  /\ sequence.base # NoSnap =>
       xml.at = sequence.base /\ \A d \in Disks : <<d, sequence.base>> \in snaps <=> d \in xml.disks
  /\ OldFolder => xml.at = 1 /\ xml.disks = Disks /\ OldSnaps
  /\ pc \in {"recorded", "prune"} /\ run.vars = "there" => nvram = sequence.base

\* Between the XML and the sequence file, the streams lead to the new snapshot.
CommitInv ==
  /\ xml.disks = run.datasets /\ xml.at = run.snap
  /\ \A d \in run.datasets : LeadsTo(StreamsOf(d), run.snap)
  /\ pc = "record" /\ run.vars = "there" => nvram = run.snap

FolderInv ==
  /\ PhaseInv /\ SnapInv /\ StreamInv
  /\ ~Committing => BaseInv
  /\ Committing => CommitInv

LEMMA FolderTypes ==
  ASSUME TypeInv
  PROVE  /\ runs \in Nat /\ sequence.next \in Nat /\ sequence.base \in Nat
         /\ xml.disks \subseteq Disks /\ snaps \subseteq Disks \X Times
         /\ \A s \in snaps : s[2] \in Nat /\ s[2] >= 1 /\ s[1] \in Disks
         /\ \A s \in streams : s \in Stream /\ s.seq \in Nat /\ s.disk \in Disks
<1>1. /\ runs \in 0 .. MaxRuns /\ sequence \in Sequence /\ streams \subseteq Stream
      /\ snaps \subseteq Disks \X Times
      /\ xml \in [disks : SUBSET Disks, at : Times \cup {NoSnap}, nvram : BOOLEAN]
  BY DEF TypeInv, TypeOK
<1>2. runs \in Nat /\ sequence.next \in Nat /\ sequence.base \in Nat
  BY <1>1, Numbers DEF Sequence
<1>3. \A s \in streams : s.seq \in Nat /\ s.disk \in Disks BY <1>1, Numbers DEF Stream
<1>4. \A s \in snaps : s[2] \in Nat /\ s[2] >= 1 /\ s[1] \in Disks BY <1>1, Numbers
<1>. QED BY <1>1, <1>2, <1>3, <1>4

LEMMA RunTypes ==
  ASSUME TypeInv, pc # "idle"
  PROVE  /\ run \in Run /\ run.snap = runs /\ run.snap \in Nat /\ run.snap >= 1
         /\ run.seq \in Nat /\ run.seq < run.snap /\ run.base \in Nat
         /\ run.datasets \subseteq Disks /\ run.todo \subseteq Disks
BY RunTyped, Numbers

\* What counts as the last backup stays when only streams that do not count change.
LEMMA CountedKept ==
  ASSUME UNCHANGED sequence,
         \A s : s.seq < sequence.next => (s \in streams <=> s \in streams')
  PROVE  \A d \in Disks : Counted(d)' = Counted(d)
BY DEF Counted, StreamsOf

LEMMA BaseStays ==
  ASSUME TypeInv, BaseInv, UNCHANGED <<sequence, xml>>,
         \A d \in Disks : Counted(d)' = Counted(d),
         sequence.base # NoSnap =>
           \A d \in Disks : <<d, sequence.base>> \in snaps' <=> <<d, sequence.base>> \in snaps,
         OldFolder => OldSnaps',
         pc' \in {"recorded", "prune"} /\ run'.vars = "there" => nvram' = sequence.base
  PROVE  BaseInv'
<1>1. xml.disks \subseteq Disks BY FolderTypes
<1>2. \A d \in xml'.disks : LeadsTo(Counted(d)', xml'.at) BY <1>1 DEF BaseInv
<1>3. sequence'.base # NoSnap =>
        /\ xml'.at = sequence'.base
        /\ \A d \in Disks : <<d, sequence'.base>> \in snaps' <=> d \in xml'.disks
  BY DEF BaseInv
<1>4. OldFolder' => xml'.at = 1 /\ xml'.disks = Disks /\ OldSnaps' BY DEF BaseInv, OldFolder
<1>. QED BY <1>2, <1>3, <1>4 DEF BaseInv

LEMMA FolderInit == Init => FolderInv
<1>. SUFFICES ASSUME Init PROVE FolderInv
  OBVIOUS
<1>1. pc = "idle" /\ ~Recorded /\ ~Committing BY DEF Init, Recorded, Cleaning, Committing
<1>2. CASE NewFolder
  BY <1>1, <1>2, Numbers DEF NewFolder, FolderInv, PhaseInv, SnapInv, StreamInv, BaseInv, NoXml,
                 OldFolder, Cleaning, Snapshotting
<1>3. CASE LegacyFolder
  <2>. DEFINE first(d) == [disk |-> d, seq |-> 0, from |-> Whole, to |-> 1, whole |-> TRUE]
  <2>1. ASSUME NEW d \in Disks PROVE LeadsTo(Counted(d), 1)
    <3>1. Counted(d) = {first(d)} BY <1>3 DEF LegacyFolder, Counted, StreamsOf
    <3>2. \A s \in {} : s.seq \in Nat /\ s.seq < first(d).seq OBVIOUS
    <3>3. Linked({} \cup {first(d)}, first(d).to) BY <3>2, Extended
    <3>. QED BY <3>1, <3>3, LeadsToLinked
  <2>2. BaseInv BY <1>1, <1>3, <2>1 DEF LegacyFolder, BaseInv, OldSnaps
  <2>3. StreamInv BY <1>1, <1>3 DEF LegacyFolder, StreamInv
  <2>4. PhaseInv /\ SnapInv
    BY <1>1, <1>3, Numbers DEF LegacyFolder, PhaseInv, SnapInv, Cleaning, Snapshotting
  <2>. QED BY <1>1, <2>2, <2>3, <2>4 DEF FolderInv
<1>. QED BY <1>2, <1>3 DEF Init

\* What the VM and the guest do is nothing to the folder.
LEMMA FolderElsewhere ==
  ASSUME FolderInv, UNCHANGED <<snaps, streams, sequence, xml, nvram, runs, pc, run>>
  PROVE  FolderInv'
<1>1. (Recorded' <=> Recorded) /\ (Committing' <=> Committing) /\ (OldFolder' <=> OldFolder)
      /\ (OldSnaps' <=> OldSnaps)
  BY DEF Recorded, Committing, OldFolder, OldSnaps
<1>2. \A d : StreamsOf(d)' = StreamsOf(d) /\ Counted(d)' = Counted(d) BY DEF StreamsOf, Counted
<1>3. \A d : Sent(d) => Sent(d)' BY <1>2 DEF Sent
<1>4. PhaseInv' BY <1>1 DEF FolderInv, PhaseInv
<1>5. SnapInv' BY DEF FolderInv, SnapInv
<1>6. StreamInv' BY <1>1, <1>3 DEF FolderInv, StreamInv
<1>7. BaseInv => BaseInv' BY <1>1, <1>2 DEF BaseInv
<1>8. CommitInv => CommitInv' BY <1>2 DEF CommitInv
<1>. QED BY <1>1, <1>4, <1>5, <1>6, <1>7, <1>8 DEF FolderInv

LEMMA FolderMoved ==
  ASSUME TypeInv, FolderInv, MoveFolder
  PROVE  FolderInv'
<1>1. pc' = "idle" /\ ~Recorded' /\ ~Committing'
  BY DEF MoveFolder, Recorded, Cleaning, Committing
<1>2. runs \in Nat BY FolderTypes
<1>3. SnapInv' BY <1>1 DEF MoveFolder, FolderInv, SnapInv, Cleaning
<1>4. BaseInv' BY <1>1, Numbers DEF MoveFolder, BaseInv, NoXml, OldFolder
<1>5. PhaseInv' /\ StreamInv'
  BY <1>1, <1>2, Numbers DEF MoveFolder, PhaseInv, StreamInv, Cleaning, Snapshotting
<1>. QED BY <1>1, <1>3, <1>4, <1>5 DEF FolderInv

LEMMA FolderStart ==
  ASSUME TypeInv, FolderInv, Start
  PROVE  FolderInv'
<1>1. /\ pc = "idle" /\ pc' = "domstate" /\ ~Recorded' /\ ~Committing' /\ ~Committing
      /\ UNCHANGED <<snaps, streams, sequence, xml, nvram>>
  BY DEF Start, Recorded, Cleaning, Committing, folder
<1>2. /\ run'.snap = runs + 1 /\ run'.datasets = attached /\ run'.seq = sequence.next
      /\ run'.base = sequence.base /\ run'.finished = FALSE /\ run'.snapshots = {}
      /\ run'.todo = attached /\ run'.pools = {PoolOf[d] : d \in attached} /\ runs' = runs + 1
  BY DEF Start
<1>3. /\ runs \in Nat /\ sequence.base \in Nat /\ sequence.base <= runs
      /\ \A s \in snaps : s[2] \in Nat /\ s[2] <= runs
  BY FolderTypes DEF FolderInv, PhaseInv, SnapInv
<1>4. PhaseInv' BY <1>1, <1>2, <1>3 DEF PhaseInv, Cleaning, Snapshotting
<1>5. SnapInv' BY <1>1, <1>2, <1>3 DEF SnapInv, Cleaning
<1>6. StreamInv' BY <1>1 DEF FolderInv, StreamInv
<1>7. OldFolder => OldSnaps' BY <1>1 DEF FolderInv, BaseInv, OldSnaps
<1>8. BaseInv' BY <1>1, <1>7, BaseStays DEF FolderInv, Counted, StreamsOf
<1>. QED BY <1>1, <1>4, <1>5, <1>6, <1>8 DEF FolderInv

\* Freezing and thawing.
LEMMA FolderFreezing ==
  ASSUME TypeInv, FolderInv, MarkFrozen \/ FreezeGuest \/ ThawGuest
  PROVE  FolderInv'
<1>1. /\ pc \in {"domstate", "freeze", "thaw"} /\ pc' \in {"freeze", "snapshot", "send"}
      /\ (pc' = "send" <=> pc = "thaw")
      /\ UNCHANGED <<snaps, streams, sequence, xml, nvram, runs>>
  BY DEF MarkFrozen, FreezeGuest, ThawGuest, folder
<1>2. run \in Run BY <1>1 DEF TypeInv
<1>3. /\ run'.snap = run.snap /\ run'.datasets = run.datasets /\ run'.seq = run.seq
      /\ run'.base = run.base /\ run'.finished = run.finished /\ run'.snapshots = run.snapshots
      /\ run'.todo = run.todo /\ run'.pools = run.pools
  <2>1. CASE MarkFrozen BY <1>2, <2>1 DEF MarkFrozen, Run
  <2>2. CASE FreezeGuest BY <2>2 DEF FreezeGuest
  <2>3. CASE ThawGuest BY <1>2, <2>3 DEF ThawGuest, Run
  <2>. QED BY <2>1, <2>2, <2>3
<1>4. ~Recorded /\ ~Recorded' /\ ~Committing /\ ~Committing'
  BY <1>1 DEF Recorded, Cleaning, Committing
<1>5. PhaseInv' BY <1>1, <1>3, <1>4 DEF FolderInv, PhaseInv, Cleaning, Snapshotting
<1>6. SnapInv' BY <1>1, <1>3 DEF FolderInv, SnapInv, Cleaning
<1>7. run'.datasets \ run'.todo = {} BY <1>1, <1>3 DEF FolderInv, PhaseInv, Snapshotting
<1>8. StreamInv' BY <1>1, <1>4, <1>7 DEF FolderInv, StreamInv
<1>9. OldFolder => OldSnaps' BY <1>1, <1>3, <1>4 DEF FolderInv, BaseInv, OldSnaps
<1>10. BaseInv' BY <1>1, <1>4, <1>9, BaseStays DEF FolderInv, Counted, StreamsOf
<1>. QED BY <1>4, <1>5, <1>6, <1>8, <1>10 DEF FolderInv

LEMMA FolderSnapshot ==
  ASSUME TypeInv, FolderInv, SnapshotPool
  PROVE  FolderInv'
<1>1. /\ pc = "snapshot" /\ pc' = "snapshotted"
      /\ UNCHANGED <<streams, sequence, xml, nvram, runs>>
  BY DEF SnapshotPool, folder
<1>2. ~Recorded /\ ~Recorded' /\ ~Committing /\ ~Committing'
  BY <1>1 DEF Recorded, Cleaning, Committing
<1>3. PICK pool \in run.pools :
        /\ snaps' = snaps \cup {<<d, run.snap>> : d \in {e \in run.datasets : PoolOf[e] = pool}}
        /\ run' = [run EXCEPT !.pools = @ \ {pool}]
  BY DEF SnapshotPool
<1>4. run \in Run /\ run.snap = runs /\ run.snap \in Nat /\ run.base \in Nat BY <1>1, RunTypes
<1>5. /\ run'.snap = run.snap /\ run'.datasets = run.datasets /\ run'.seq = run.seq
      /\ run'.base = run.base /\ run'.finished = run.finished /\ run'.snapshots = run.snapshots
      /\ run'.todo = run.todo /\ run'.pools = run.pools \ {pool}
  BY <1>3, <1>4 DEF Run
<1>6. PhaseInv' BY <1>1, <1>2, <1>5 DEF FolderInv, PhaseInv, Cleaning, Snapshotting
<1>7. SnapInv'
  <2>1. \A s \in snaps' : s \in snaps \/ (s[2] = run.snap /\ s[1] \in run.datasets) BY <1>3
  <2>2. \A s \in snaps' : s[2] <= runs' BY <1>1, <1>4, <2>1 DEF FolderInv, SnapInv
  <2>3. \A s \in snaps' : s[2] = run'.snap => s[1] \in run'.datasets
    BY <1>1, <1>5, <2>1 DEF FolderInv, SnapInv
  <2>4. \A d \in run'.datasets : PoolOf[d] \in run'.pools \/ <<d, run'.snap>> \in snaps'
    BY <1>1, <1>3, <1>5 DEF FolderInv, SnapInv, Cleaning
  <2>5. \A s \in run'.snapshots : s[2] = run'.snap BY <1>1, <1>5 DEF FolderInv, SnapInv
  <2>. QED BY <1>1, <2>2, <2>3, <2>4, <2>5 DEF SnapInv
<1>8. StreamInv' BY <1>1, <1>2 DEF FolderInv, StreamInv
<1>9. OldFolder => OldSnaps' BY <1>1, <1>2, <1>3, <1>5 DEF FolderInv, BaseInv, OldSnaps
<1>10. sequence.base # run.snap BY <1>1, <1>2, <1>4 DEF FolderInv, PhaseInv
<1>11. \A d \in Disks : <<d, sequence.base>> \in snaps' <=> <<d, sequence.base>> \in snaps
  BY <1>3, <1>10
<1>12. BaseInv' BY <1>1, <1>2, <1>9, <1>11, BaseStays DEF FolderInv, Counted, StreamsOf
<1>. QED BY <1>2, <1>6, <1>7, <1>8, <1>12 DEF FolderInv

LEMMA FolderRecordSnapshots ==
  ASSUME TypeInv, FolderInv, RecordSnapshots
  PROVE  FolderInv'
<1>1. /\ pc = "snapshotted" /\ pc' \in {"thaw", "snapshot"} /\ (pc' = "thaw" => run.pools = {})
      /\ UNCHANGED <<snaps, streams, sequence, xml, nvram, runs>>
      /\ run' = [run EXCEPT !.snapshots = {s \in snaps : s[2] = run.snap}]
  BY DEF RecordSnapshots, folder
<1>2. ~Recorded /\ ~Recorded' /\ ~Committing /\ ~Committing'
  BY <1>1 DEF Recorded, Cleaning, Committing
<1>3. run \in Run BY <1>1 DEF TypeInv
<1>4. /\ run'.snap = run.snap /\ run'.datasets = run.datasets /\ run'.seq = run.seq
      /\ run'.base = run.base /\ run'.finished = run.finished
      /\ run'.todo = run.todo /\ run'.pools = run.pools
      /\ run'.snapshots = {s \in snaps : s[2] = run.snap}
  BY <1>1, <1>3 DEF Run
<1>5. PhaseInv' BY <1>1, <1>2, <1>4 DEF FolderInv, PhaseInv, Cleaning, Snapshotting
<1>6. SnapInv' BY <1>1, <1>4 DEF FolderInv, SnapInv, Cleaning
<1>7. StreamInv' BY <1>1, <1>2 DEF FolderInv, StreamInv
<1>8. OldFolder => OldSnaps' BY <1>1, <1>2, <1>4 DEF FolderInv, BaseInv, OldSnaps
<1>9. BaseInv' BY <1>1, <1>2, <1>8, BaseStays DEF FolderInv, Counted, StreamsOf
<1>. QED BY <1>2, <1>5, <1>6, <1>7, <1>9 DEF FolderInv

\* Where a run breaks off with the folder and the snapshots as they are.
LEMMA FolderInterrupted ==
  ASSUME TypeInv, FolderInv, NoWindows, Interrupt \/ Refuse
  PROVE  FolderInv'
<1>1. /\ pc \notin {"idle"} \cup Cleaning /\ pc' = "cleanup"
      /\ pc \notin {"vars", "record", "recorded"}
      /\ (pc = "snapshotted" => ~Legacy)
      /\ UNCHANGED <<snaps, streams, sequence, xml, nvram, runs>>
  BY DEF Interrupt, Refuse, NoWindows, MayLeaveSnaps, folder, Cleaning
<1>2. run \in Run BY <1>1 DEF TypeInv
<1>3. /\ run'.snap = run.snap /\ run'.datasets = run.datasets /\ run'.seq = run.seq
      /\ run'.base = run.base /\ run'.finished = run.finished /\ run'.snapshots = run.snapshots
  <2>1. CASE Interrupt BY <2>1 DEF Interrupt
  <2>2. CASE Refuse BY <1>2, <2>2 DEF Refuse, Run
  <2>. QED BY <2>1, <2>2
<1>4. run.finished \in BOOLEAN BY <1>2 DEF Run
<1>5. (Recorded' <=> Recorded) /\ ~Committing /\ ~Committing' /\ (Recorded <=> pc = "prune")
  <2>1. Recorded <=> pc = "prune" BY <1>1 DEF Recorded
  <2>2. Recorded' <=> run.finished BY <1>1, <1>3 DEF Recorded, Cleaning
  <2>3. run.finished <=> pc = "prune" BY <1>1 DEF FolderInv, PhaseInv
  <2>. QED BY <1>1, <2>1, <2>2, <2>3 DEF Committing
<1>6. PhaseInv' BY <1>1, <1>3, <1>5 DEF FolderInv, PhaseInv, Cleaning, Snapshotting
<1>7. SnapInv' BY <1>1, <1>3 DEF FolderInv, SnapInv, Cleaning
<1>8. StreamInv' BY <1>1, <1>5 DEF FolderInv, StreamInv
<1>9. OldFolder => OldSnaps'
  <2>1. SUFFICES ASSUME OldFolder PROVE OldSnaps'
    OBVIOUS
  <2>2. run.snap >= 1 /\ run.snap \in Nat /\ run.seq \in Nat BY <1>1, RunTypes
  <2>3. ~Recorded BY <2>1, <2>2, Numbers DEF OldFolder, FolderInv, PhaseInv
  <2>4. Legacy BY <1>1, <2>1, <2>3 DEF OldFolder, Legacy, FolderInv, PhaseInv
  <2>5. pc # "snapshotted" BY <1>1, <2>4
  <2>6. OldSnaps BY <1>5, <2>1 DEF FolderInv, BaseInv
  <2>. QED BY <1>1, <1>3, <2>5, <2>6 DEF OldSnaps
<1>10. BaseInv' BY <1>1, <1>5, <1>9, BaseStays DEF FolderInv, Counted, StreamsOf
<1>. QED BY <1>5, <1>6, <1>7, <1>8, <1>10 DEF FolderInv

LEMMA FolderCleanupThaw ==
  ASSUME TypeInv, FolderInv, CleanupThaw
  PROVE  FolderInv'
<1>1. /\ pc = "cleanup" /\ pc' = AfterThaw /\ run' = [run EXCEPT !.frozen = FALSE]
      /\ UNCHANGED <<snaps, streams, sequence, xml, nvram, runs>>
  BY DEF CleanupThaw, folder
<1>2. run \in Run BY <1>1 DEF TypeInv
<1>3. /\ run'.snap = run.snap /\ run'.datasets = run.datasets /\ run'.seq = run.seq
      /\ run'.base = run.base /\ run'.finished = run.finished /\ run'.snapshots = run.snapshots
  BY <1>1, <1>2 DEF Run
<1>4. pc' \in {"cleanFiles", "cleanSnaps"} /\ (pc' = "cleanSnaps" => ~run.finished)
      /\ (~run.finished => pc' = "cleanSnaps")
  BY <1>1 DEF AfterThaw
<1>5. (Recorded' <=> Recorded) /\ (Recorded <=> run.finished) /\ ~Committing /\ ~Committing'
  BY <1>1, <1>3, <1>4 DEF Recorded, Committing, Cleaning
<1>6. PhaseInv' BY <1>1, <1>3, <1>4, <1>5 DEF FolderInv, PhaseInv, Cleaning, Snapshotting
<1>7. SnapInv' BY <1>1, <1>3, <1>4 DEF FolderInv, SnapInv, Cleaning
<1>8. StreamInv' BY <1>1, <1>4, <1>5 DEF FolderInv, StreamInv
<1>9. OldFolder => OldSnaps'
  <2>1. SUFFICES ASSUME OldFolder PROVE OldSnaps'
    OBVIOUS
  <2>2. run.snap >= 1 /\ run.snap \in Nat BY <1>1, RunTypes
  <2>3. pc' = "cleanSnaps" BY <1>4, <1>5, <2>1, <2>2, Numbers DEF OldFolder, FolderInv, PhaseInv
  <2>4. OldSnaps BY <1>5, <2>1 DEF FolderInv, BaseInv
  <2>. QED BY <1>1, <1>3, <2>3, <2>4 DEF OldSnaps
<1>10. BaseInv' BY <1>1, <1>4, <1>5, <1>9, BaseStays DEF FolderInv, Counted, StreamsOf
<1>. QED BY <1>5, <1>6, <1>7, <1>8, <1>10 DEF FolderInv

\* What a run leaves is not the first on a folder of an old version.
LEMMA NotLegacy ==
  ASSUME TypeInv, FolderInv, NoWindows, pc # "idle", ~Committing, MayLeaveSnaps
  PROVE  OldFolder => FALSE
<1>1. run.snap \in Nat /\ run.snap >= 1 BY RunTypes
<1>. SUFFICES ASSUME OldFolder PROVE FALSE
  OBVIOUS
<1>2. ~Recorded BY <1>1, Numbers DEF OldFolder, FolderInv, PhaseInv
<1>3. Legacy BY <1>2 DEF OldFolder, Legacy, FolderInv, PhaseInv
<1>. QED BY <1>3 DEF MayLeaveSnaps, NoWindows

LEMMA FolderCleanupSnapshots ==
  ASSUME TypeInv, FolderInv, NoWindows, CleanupSnapshots
  PROVE  FolderInv'
<1>0. PICK gone \in SUBSET run.snapshots :
        /\ gone = run.snapshots \/ MayLeaveSnaps
        /\ snaps' = snaps \ gone
  BY DEF CleanupSnapshots
<1>1. /\ pc = "cleanSnaps" /\ pc' = "cleanFiles"
      /\ UNCHANGED <<run, streams, sequence, xml, nvram, runs>>
  BY DEF CleanupSnapshots, folder
<1>2. ~Recorded /\ ~Recorded' /\ ~Committing /\ ~Committing'
  BY <1>1 DEF FolderInv, PhaseInv, Recorded, Committing, Cleaning
<1>3. PhaseInv' BY <1>1, <1>2 DEF FolderInv, PhaseInv, Cleaning, Snapshotting
<1>4. SnapInv' BY <1>0, <1>1 DEF FolderInv, SnapInv, Cleaning
<1>5. StreamInv' BY <1>1, <1>2 DEF FolderInv, StreamInv
<1>6. OldFolder => OldSnaps'
  BY <1>0, <1>1, <1>2, NotLegacy DEF FolderInv, BaseInv, OldSnaps
<1>7. run.snap \in Nat /\ run.base \in Nat BY <1>1, RunTypes
<1>8. sequence.base # run.snap BY <1>1, <1>2, <1>7 DEF FolderInv, PhaseInv
<1>9. \A d \in Disks : <<d, sequence.base>> \in snaps' <=> <<d, sequence.base>> \in snaps
  BY <1>0, <1>1, <1>8 DEF FolderInv, SnapInv
<1>10. BaseInv' BY <1>1, <1>2, <1>6, <1>9, BaseStays DEF FolderInv, Counted, StreamsOf
<1>. QED BY <1>2, <1>3, <1>4, <1>5, <1>10 DEF FolderInv

\* A run that ends with streams of its own number gone, where it did not record itself.
LEMMA FolderRunEnds ==
  ASSUME TypeInv, FolderInv, pc # "idle", ~Committing, pc' = "idle", streams' \subseteq streams,
         UNCHANGED <<snaps, sequence, xml, nvram, runs>>,
         \A s \in streams \ streams' : ~Recorded /\ s.seq = run.seq,
         OldFolder => \A s \in snaps : s[2] = 1
  PROVE  FolderInv'
<1>1. ~Recorded' /\ ~Committing' BY DEF Recorded, Cleaning, Committing
<1>2. PhaseInv' BY <1>1 DEF FolderInv, PhaseInv, Cleaning, Snapshotting
<1>3. SnapInv' BY DEF FolderInv, SnapInv, Cleaning
<1>4. StreamInv' BY <1>1 DEF FolderInv, StreamInv
<1>5. \A s \in streams \ streams' : s.seq = sequence.next BY DEF FolderInv, PhaseInv
<1>6. \A s : s.seq < sequence.next => (s \in streams <=> s \in streams') BY <1>5, FolderTypes
<1>7. \A d \in Disks : Counted(d)' = Counted(d) BY <1>6, CountedKept
<1>8. OldFolder => OldSnaps' BY DEF OldSnaps
<1>9. BaseInv' BY <1>1, <1>7, <1>8, BaseStays DEF FolderInv
<1>. QED BY <1>1, <1>2, <1>3, <1>4, <1>9 DEF FolderInv

LEMMA FolderCleanupFiles ==
  ASSUME TypeInv, FolderInv, CleanupFiles
  PROVE  FolderInv'
<1>1. /\ pc = "cleanFiles" /\ pc' = "idle"
      /\ streams' = IF run.finished THEN streams ELSE streams \ Own
      /\ UNCHANGED <<snaps, sequence, xml, nvram, runs>>
  BY DEF CleanupFiles
<1>2. ~Committing /\ (Recorded <=> run.finished)
  BY <1>1 DEF Recorded, Committing, Cleaning
<1>3. OldFolder => \A s \in snaps : s[2] = 1 BY <1>1, <1>2 DEF FolderInv, BaseInv, OldSnaps
<1>4. \A s \in streams \ streams' : ~Recorded /\ s.seq = run.seq BY <1>1, <1>2 DEF Own
<1>. QED BY <1>1, <1>2, <1>3, <1>4, FolderRunEnds

LEMMA FolderInterruptCleanup ==
  ASSUME TypeInv, FolderInv, NoWindows, InterruptCleanup
  PROVE  FolderInv'
<1>1. PICK gone \in SUBSET Own :
        /\ pc # "cleanFiles" \/ run.finished => gone = {}
        /\ streams' = streams \ gone
  BY DEF InterruptCleanup
<1>2. /\ pc \in Cleaning /\ pc # "idle" /\ pc' = "idle" /\ (pc # "cleanFiles" => MayLeaveSnaps)
      /\ UNCHANGED <<snaps, sequence, xml, nvram, runs>>
  BY DEF InterruptCleanup, Cleaning
<1>3. ~Committing /\ (Recorded <=> run.finished)
  BY <1>2 DEF Recorded, Committing, Cleaning
<1>4. \A s \in streams \ streams' : ~Recorded /\ s.seq = run.seq BY <1>1, <1>3 DEF Own
<1>5. OldFolder => \A s \in snaps : s[2] = 1
  <2>1. CASE pc = "cleanFiles" BY <1>3, <2>1 DEF FolderInv, BaseInv, OldSnaps
  <2>2. CASE pc # "cleanFiles" BY <1>2, <1>3, <2>2, NotLegacy
  <2>. QED BY <2>1, <2>2
<1>. QED BY <1>1, <1>2, <1>3, <1>4, <1>5, FolderRunEnds

LEMMA FolderPowerCut ==
  ASSUME TypeInv, FolderInv, NoWindows, PowerCut
  PROVE  FolderInv'
<1>1. PICK lost :
        /\ \A s \in lost : s.seq = run.seq
        /\ sequence.next > run.seq => lost = {}
        /\ streams' = streams \ lost
  BY DEF PowerCut, Own
<1>2. /\ pc # "idle" /\ pc \notin {"vars", "record"} /\ pc' = "idle"
      /\ (pc \notin {"domstate", "freeze", "recorded", "prune"} => MayLeaveSnaps)
      /\ UNCHANGED <<snaps, sequence, xml, nvram, runs>>
  BY DEF PowerCut, NoWindows
<1>3. ~Committing BY <1>2 DEF Committing
<1>4. run.seq \in Nat /\ run.snap \in Nat /\ run.snap >= 1 BY <1>2, RunTypes
<1>5. Recorded => lost = {} BY <1>1, <1>4 DEF FolderInv, PhaseInv
<1>6. \A s \in streams \ streams' : ~Recorded /\ s.seq = run.seq BY <1>1, <1>5
<1>7. ASSUME OldFolder PROVE \A s \in snaps : s[2] = 1
  <2>1. ~Recorded BY <1>4, <1>7, Numbers DEF OldFolder, FolderInv, PhaseInv
  <2>2. ~MayLeaveSnaps BY <1>2, <1>3, <1>7, NotLegacy
  <2>3. pc \in {"domstate", "freeze"} BY <1>2, <2>1, <2>2 DEF Recorded
  <2>. QED BY <1>3, <1>7, <2>3 DEF FolderInv, BaseInv, OldSnaps
<1>. QED BY <1>1, <1>2, <1>3, <1>6, <1>7, FolderRunEnds

\* The base that hd-backup-vm finds is the snapshot that the streams of the disk end at.
LEMMA BaseFits ==
  ASSUME TypeInv, FolderInv, pc = "send", NEW d \in Disks, ~BaseGone(d), HasEarlierStreams(d)
  PROVE  LeadsTo(Counted(d), PrevSnap(d))
<1>1. ~Recorded /\ ~Committing /\ BaseInv
  BY DEF Recorded, Cleaning, Committing, FolderInv
<1>2. sequence.next = run.seq /\ sequence.base = run.base BY <1>1 DEF FolderInv, PhaseInv
<1>3. <<d, PrevSnap(d)>> \in snaps BY DEF BaseGone
<1>4. CASE sequence.base # NoSnap
  <2>1. PrevSnap(d) = sequence.base BY <1>2, <1>4 DEF PrevSnap
  <2>2. d \in xml.disks /\ xml.at = sequence.base BY <1>1, <1>3, <1>4, <2>1 DEF BaseInv
  <2>. QED BY <1>1, <2>1, <2>2 DEF BaseInv
<1>5. CASE sequence.base = NoSnap
  <2>1. OldFolder BY <1>2, <1>5, FolderTypes, RunTypes DEF HasEarlierStreams, OldFolder
  <2>2. \A s \in snaps : s[2] = 1 \/ s[2] = run.snap BY <1>1, <2>1 DEF BaseInv, OldSnaps
  <2>. DEFINE earlier == {t \in Times : <<d, t>> \in snaps /\ t # run.snap}
  <2>3. \A t \in earlier : t = 1 BY <2>2
  <2>4. PrevSnap(d) = NewestEarlier(d) BY <1>2, <1>5 DEF PrevSnap
  <2>5. NewestEarlier(d) = IF earlier = {} THEN NoSnap
                           ELSE CHOOSE t \in earlier : \A u \in earlier : u <= t
    BY DEF NewestEarlier
  <2>6. PrevSnap(d) \in Nat /\ PrevSnap(d) >= 1 BY <1>3, FolderTypes
  <2>7. earlier # {} BY <2>4, <2>5, <2>6, Numbers
  <2>8. \E t \in earlier : \A u \in earlier : u <= t BY <2>3, <2>7
  <2>9. (CHOOSE t \in earlier : \A u \in earlier : u <= t) \in earlier BY <2>8
  <2>10. PrevSnap(d) = 1 BY <2>3, <2>4, <2>5, <2>7, <2>9
  <2>11. xml.at = 1 /\ xml.disks = Disks BY <1>1, <2>1 DEF BaseInv
  <2>. QED BY <1>1, <2>10, <2>11 DEF BaseInv
<1>. QED BY <1>4, <1>5

LEMMA FolderOpenStream ==
  ASSUME TypeInv, FolderInv, OpenStream
  PROVE  FolderInv'
<1>1. PICK d \in run.todo :
        /\ ~BaseGone(d)
        /\ streams' = {s \in streams : s.disk # d \/ s.seq # run.seq} \cup
             {[disk |-> d, seq |-> run.seq, from |-> StreamFrom(d), to |-> run.snap,
               whole |-> FALSE]}
        /\ run' = [run EXCEPT !.outFiles = @ \cup {d}, !.todo = @ \ {d}]
  BY DEF OpenStream
<1>. DEFINE new == [disk |-> d, seq |-> run.seq, from |-> StreamFrom(d), to |-> run.snap,
                    whole |-> FALSE]
<1>2. /\ pc = "send" /\ pc' = "sending" /\ UNCHANGED <<snaps, sequence, xml, nvram, runs>>
  BY DEF OpenStream
<1>3. run \in Run /\ d \in Disks /\ run.seq \in Nat BY <1>1, <1>2, RunTypes
<1>4. /\ run'.snap = run.snap /\ run'.datasets = run.datasets /\ run'.seq = run.seq
      /\ run'.base = run.base /\ run'.finished = run.finished /\ run'.snapshots = run.snapshots
      /\ run'.pools = run.pools /\ run'.todo = run.todo \ {d}
      /\ run'.outFiles = run.outFiles \cup {d}
  BY <1>1, <1>3 DEF Run
<1>5. ~Recorded /\ ~Recorded' /\ ~Committing /\ ~Committing'
  BY <1>2 DEF Recorded, Cleaning, Committing
<1>6. sequence.next = run.seq BY <1>2, <1>5 DEF FolderInv, PhaseInv
<1>7. PhaseInv' BY <1>2, <1>4, <1>5 DEF FolderInv, PhaseInv, Cleaning, Snapshotting
<1>8. SnapInv' BY <1>2, <1>4 DEF FolderInv, SnapInv, Cleaning
<1>9. StreamInv'
  <2>1. \A s \in streams' : s.seq <= sequence'.next
    BY <1>1, <1>2, <1>3, <1>6 DEF FolderInv, StreamInv
  <2>2. Sent(d)'
    <3>1. StreamsOf(d)' = Counted(d) \cup {new}
      <4>1. \A s \in streams : s.seq # run.seq <=> s.seq < sequence.next
        BY <1>3, <1>6, FolderTypes DEF FolderInv, StreamInv
      <4>. QED BY <1>1, <4>1 DEF StreamsOf, Counted
    <3>2. new.seq = run.seq /\ new.to = run.snap /\ new.from = StreamFrom(d) OBVIOUS
    <3>3. \A s \in Counted(d) : s.seq \in Nat /\ s.seq < new.seq
      BY <1>6, FolderTypes DEF Counted, StreamsOf
    <3>4. CASE HasEarlierStreams(d)
      <4>1. LeadsTo(Counted(d), PrevSnap(d)) BY <1>1, <1>2, <1>3, <3>4, BaseFits
      <4>2. Linked(Counted(d), PrevSnap(d)) /\ \A s \in Counted(d) : s.whole
        BY <4>1, LeadsToLinked
      <4>3. new.from = PrevSnap(d) BY <3>4 DEF StreamFrom
      <4>. HIDE DEF new
      <4>4. Linked(Counted(d) \cup {new}, new.to) BY <1>3, <3>2, <3>3, <4>2, <4>3, Extended
      <4>. QED BY <1>2, <1>4, <3>1, <3>2, <4>2, <4>4 DEF Sent
    <3>5. CASE ~HasEarlierStreams(d)
      <4>1. Counted(d) = {} BY <1>6, <3>5 DEF HasEarlierStreams, Counted, StreamsOf
      <4>2. new.from = Whole BY <3>5 DEF StreamFrom
      <4>. HIDE DEF new
      <4>3. Linked(Counted(d) \cup {new}, new.to) BY <1>3, <3>2, <3>3, <4>1, <4>2, Extended
      <4>. QED BY <1>2, <1>4, <3>1, <3>2, <4>1, <4>3 DEF Sent
    <3>. QED BY <3>4, <3>5
  <2>3. ASSUME NEW e \in run.datasets \ run.todo PROVE Sent(e)'
    <3>1. Sent(e) /\ e # d BY <1>1, <1>2 DEF FolderInv, StreamInv
    <3>2. StreamsOf(e)' = StreamsOf(e) BY <1>1, <3>1 DEF StreamsOf
    <3>. QED BY <1>2, <1>4, <3>1, <3>2 DEF Sent
  <2>. QED BY <1>2, <1>4, <1>5, <2>1, <2>2, <2>3 DEF StreamInv
<1>10. \A s : s.seq < sequence.next => (s \in streams <=> s \in streams')
  BY <1>1, <1>3, <1>6
<1>11. \A e \in Disks : Counted(e)' = Counted(e) BY <1>2, <1>10, CountedKept
<1>12. OldFolder => OldSnaps' BY <1>2, <1>4, <1>5 DEF FolderInv, BaseInv, OldSnaps
<1>13. BaseInv' BY <1>2, <1>5, <1>11, <1>12, BaseStays DEF FolderInv
<1>. QED BY <1>5, <1>7, <1>8, <1>9, <1>13 DEF FolderInv

LEMMA FolderEndStream ==
  ASSUME TypeInv, FolderInv, EndStream
  PROVE  FolderInv'
<1>. DEFINE mine(s) == s.seq = run.seq /\ s.disk \in run.outFiles
            now(s) == IF mine(s) THEN [s EXCEPT !.whole = TRUE] ELSE s
<1>1. /\ pc = "sending" /\ pc' = "send" /\ streams' = {now(s) : s \in streams}
      /\ UNCHANGED <<run, snaps, sequence, xml, nvram, runs>>
  BY DEF EndStream
<1>2. ~Recorded /\ ~Recorded' /\ ~Committing /\ ~Committing'
  BY <1>1 DEF Recorded, Cleaning, Committing
<1>3. sequence.next = run.seq /\ run.seq \in Nat BY <1>1, <1>2, RunTypes DEF FolderInv, PhaseInv
<1>4. ASSUME NEW s \in streams
      PROVE  /\ Alike(s, now(s)) /\ now(s).disk = s.disk /\ (mine(s) => now(s).whole)
             /\ (~mine(s) => now(s) = s)
  BY FolderTypes DEF Stream, Alike
<1>. HIDE DEF now
<1>5. PhaseInv' BY <1>1, <1>2 DEF FolderInv, PhaseInv, Cleaning, Snapshotting
<1>6. SnapInv' BY <1>1 DEF FolderInv, SnapInv, Cleaning
<1>7. StreamInv'
  <2>1. \A s \in streams' : s.seq <= sequence'.next
    BY <1>1, <1>4 DEF Alike, FolderInv, StreamInv
  <2>2. ASSUME NEW d \in run.datasets \ run.todo PROVE Sent(d)'
    <3>1. Sent(d) BY <1>1 DEF FolderInv, StreamInv
    <3>2. StreamsOf(d)' = {now(s) : s \in StreamsOf(d)} BY <1>1, <1>4 DEF StreamsOf
    <3>3. \A s \in StreamsOf(d) : s \in streams /\ s.disk = d BY DEF StreamsOf
    <3>4. \A s \in StreamsOf(d) : \E e \in StreamsOf(d)' : Alike(s, e) BY <1>4, <3>2, <3>3
    <3>5. \A e \in StreamsOf(d)' : \E s \in StreamsOf(d) : Alike(s, e) BY <1>4, <3>2, <3>3
    <3>6. Linked(StreamsOf(d)', run.snap) BY <3>1, <3>4, <3>5, AlikeLinked DEF Sent
    <3>7. \A s \in StreamsOf(d) : now(s).whole
      <4>1. TAKE s \in StreamsOf(d)
      <4>2. CASE mine(s) BY <1>4, <3>3, <4>2
      <4>3. CASE ~mine(s) BY <1>4, <3>1, <3>3, <4>3 DEF Sent
      <4>. QED BY <4>2, <4>3
    <3>. QED BY <1>1, <3>1, <3>2, <3>6, <3>7 DEF Sent
  <2>. QED BY <1>1, <1>2, <2>1, <2>2 DEF StreamInv
<1>8. ASSUME NEW s, s.seq < sequence.next PROVE s \in streams <=> s \in streams'
  <2>1. s \in streams => ~mine(s) /\ now(s) = s BY <1>3, <1>4, <1>8
  <2>2. ASSUME s \in streams' PROVE s \in streams
    <3>1. PICK r \in streams : s = now(r) BY <1>1, <2>2
    <3>2. r.seq = s.seq BY <1>4, <3>1 DEF Alike
    <3>3. ~mine(r) BY <1>3, <1>8, <3>2
    <3>. QED BY <1>4, <3>1, <3>3
  <2>. QED BY <1>1, <2>1, <2>2
<1>9. \A e \in Disks : Counted(e)' = Counted(e) BY <1>1, <1>8, CountedKept
<1>10. OldFolder => OldSnaps' BY <1>1, <1>2 DEF FolderInv, BaseInv, OldSnaps
<1>11. BaseInv' BY <1>1, <1>2, <1>9, <1>10, BaseStays DEF FolderInv
<1>. QED BY <1>2, <1>5, <1>6, <1>7, <1>11 DEF FolderInv

\* From here on the XML is of the new backup and the sequence file of the last one.
LEMMA FolderPlaceXml ==
  ASSUME TypeInv, FolderInv, PlaceXml
  PROVE  FolderInv'
<1>1. /\ pc = "send" /\ pc' = "vars" /\ run.todo = {}
      /\ xml' = [disks |-> run.datasets, at |-> run.snap, nvram |-> run.vars # "none"]
      /\ UNCHANGED <<run, snaps, streams, sequence, nvram, runs>>
  BY DEF PlaceXml
<1>2. ~Recorded /\ ~Recorded' /\ Committing' BY <1>1 DEF Recorded, Cleaning, Committing
<1>3. PhaseInv' BY <1>1, <1>2 DEF FolderInv, PhaseInv, Cleaning, Snapshotting
<1>4. SnapInv' BY <1>1 DEF FolderInv, SnapInv, Cleaning
<1>5. StreamInv' BY <1>1, <1>2 DEF FolderInv, StreamInv
<1>6. ASSUME NEW d \in run.datasets PROVE LeadsTo(StreamsOf(d), run.snap)
  <2>1. Sent(d) BY <1>1 DEF FolderInv, StreamInv
  <2>2. Linked(StreamsOf(d), run.snap) /\ \A s \in StreamsOf(d) : s.whole
    BY <1>1, <2>1 DEF Sent
  <2>. QED BY <2>2, LeadsToLinked
<1>7. \A d : StreamsOf(d)' = StreamsOf(d) BY <1>1 DEF StreamsOf
<1>8. CommitInv' BY <1>1, <1>6, <1>7 DEF CommitInv
<1>. QED BY <1>2, <1>3, <1>4, <1>5, <1>8 DEF FolderInv

LEMMA FolderPlaceVars ==
  ASSUME TypeInv, FolderInv, PlaceVars
  PROVE  FolderInv'
<1>1. /\ pc = "vars" /\ pc' = "record" /\ (run.vars = "there" => nvram' = run.snap)
      /\ UNCHANGED <<run, snaps, streams, sequence, xml, runs>>
  BY DEF PlaceVars, PlacedVars
<1>2. ~Recorded /\ ~Recorded' /\ Committing /\ Committing'
  BY <1>1 DEF Recorded, Cleaning, Committing
<1>3. PhaseInv' BY <1>1, <1>2 DEF FolderInv, PhaseInv, Cleaning, Snapshotting
<1>4. SnapInv' BY <1>1 DEF FolderInv, SnapInv, Cleaning
<1>5. StreamInv' BY <1>1, <1>2 DEF FolderInv, StreamInv
<1>6. \A d : StreamsOf(d)' = StreamsOf(d) BY <1>1 DEF StreamsOf
<1>7. CommitInv' BY <1>1, <1>2, <1>6 DEF FolderInv, CommitInv
<1>. QED BY <1>2, <1>3, <1>4, <1>5, <1>7 DEF FolderInv

LEMMA FolderRecordSequence ==
  ASSUME TypeInv, FolderInv, RecordSequence
  PROVE  FolderInv'
<1>1. /\ pc = "record" /\ pc' = "recorded"
      /\ sequence' = [next |-> run.seq + 1, base |-> run.snap]
      /\ UNCHANGED <<run, snaps, streams, xml, nvram, runs>>
  BY DEF RecordSequence, NextSequence
<1>2. ~Recorded /\ Recorded' /\ Committing /\ ~Committing'
  BY <1>1 DEF Recorded, Cleaning, Committing
<1>3. /\ run.seq \in Nat /\ run.snap \in Nat /\ run.snap >= 1 /\ run.snap = runs
      /\ run.datasets \subseteq Disks
  BY <1>1, RunTypes
<1>4. sequence'.next = run.seq + 1 /\ sequence'.base = run.snap BY <1>1
<1>5. PhaseInv' BY <1>1, <1>2, <1>3, <1>4 DEF FolderInv, PhaseInv, Cleaning, Snapshotting
<1>6. SnapInv' BY <1>1 DEF FolderInv, SnapInv, Cleaning
<1>7. \A s \in streams : s.seq \in Nat /\ s.seq <= run.seq
  BY <1>1, <1>2, FolderTypes DEF FolderInv, PhaseInv, StreamInv
<1>8. StreamInv' BY <1>1, <1>3, <1>4, <1>7 DEF StreamInv
<1>9. \A d : Counted(d)' = StreamsOf(d) BY <1>1, <1>3, <1>4, <1>7 DEF Counted, StreamsOf
<1>10. CommitInv BY <1>2 DEF FolderInv
<1>11. \A d \in Disks : <<d, run.snap>> \in snaps <=> d \in run.datasets
  BY <1>1, <1>3 DEF FolderInv, SnapInv, Cleaning
<1>12. BaseInv'
  BY <1>1, <1>3, <1>4, <1>9, <1>10, <1>11, Numbers DEF BaseInv, CommitInv, OldFolder
<1>. QED BY <1>2, <1>5, <1>6, <1>8, <1>12 DEF FolderInv

LEMMA FolderFinish ==
  ASSUME TypeInv, FolderInv, Finish
  PROVE  FolderInv'
<1>1. /\ pc = "recorded" /\ pc' = "prune"
      /\ run' = [run EXCEPT !.finished = TRUE, !.todo = run.datasets]
      /\ UNCHANGED <<snaps, streams, sequence, xml, nvram, runs>>
  BY DEF Finish, folder
<1>2. Recorded /\ Recorded' /\ ~Committing /\ ~Committing'
  BY <1>1 DEF Recorded, Cleaning, Committing
<1>3. run \in Run /\ run.snap >= 1 /\ run.snap \in Nat BY <1>1, RunTypes
<1>4. /\ run'.snap = run.snap /\ run'.datasets = run.datasets /\ run'.seq = run.seq
      /\ run'.base = run.base /\ run'.finished = TRUE /\ run'.snapshots = run.snapshots
      /\ run'.pools = run.pools /\ run'.vars = run.vars
  BY <1>1, <1>3 DEF Run
<1>5. PhaseInv' BY <1>1, <1>2, <1>4 DEF FolderInv, PhaseInv, Cleaning, Snapshotting
<1>6. SnapInv' BY <1>1, <1>4 DEF FolderInv, SnapInv, Cleaning
<1>7. StreamInv' BY <1>1, <1>2 DEF FolderInv, StreamInv
<1>8. ~OldFolder BY <1>2, <1>3, Numbers DEF FolderInv, PhaseInv, OldFolder
<1>9. run'.vars = "there" => nvram = sequence.base BY <1>1, <1>2, <1>4 DEF FolderInv, BaseInv
<1>10. BaseInv' BY <1>1, <1>2, <1>8, <1>9, BaseStays DEF FolderInv, Counted, StreamsOf
<1>. QED BY <1>2, <1>5, <1>6, <1>7, <1>10 DEF FolderInv

\* The snapshot of this run stays, whatever the others do.
LEMMA FolderPrune ==
  ASSUME TypeInv, FolderInv, Prune
  PROVE  FolderInv'
<1>1. PICK d \in run.todo :
        /\ snaps' \in {snaps, {s \in snaps : s[1] # d \/ s[2] = run.snap}}
        /\ run' = [run EXCEPT !.todo = @ \ {d}]
  BY DEF Prune
<1>2. /\ pc = "prune" /\ pc' = "prune" /\ UNCHANGED <<streams, sequence, xml, nvram, runs>>
  BY DEF Prune, folder
<1>3. Recorded /\ ~Committing /\ ~Committing' BY <1>2 DEF Recorded, Committing
<1>4. Recorded' BY <1>2 DEF Recorded
<1>5. run \in Run /\ run.snap >= 1 /\ run.snap \in Nat /\ run.datasets \subseteq Disks
  BY <1>2, RunTypes
<1>6. /\ run'.snap = run.snap /\ run'.datasets = run.datasets /\ run'.seq = run.seq
      /\ run'.base = run.base /\ run'.finished = run.finished /\ run'.snapshots = run.snapshots
      /\ run'.pools = run.pools /\ run'.vars = run.vars
  BY <1>1, <1>5 DEF Run
<1>7. PhaseInv' BY <1>2, <1>3, <1>4, <1>6 DEF FolderInv, PhaseInv, Cleaning, Snapshotting
<1>8. snaps' \subseteq snaps /\ \A e \in Disks : <<e, run.snap>> \in snaps' <=> <<e, run.snap>> \in snaps
  BY <1>1
<1>9. SnapInv' BY <1>2, <1>5, <1>6, <1>8 DEF FolderInv, SnapInv, Cleaning
<1>10. StreamInv' BY <1>2, <1>3, <1>4 DEF FolderInv, StreamInv
<1>11. sequence.base = run.snap BY <1>3 DEF FolderInv, PhaseInv
<1>12. ~OldFolder BY <1>5, <1>11, Numbers DEF OldFolder
<1>13. run'.vars = "there" => nvram = sequence.base BY <1>2, <1>3, <1>6 DEF FolderInv, BaseInv
<1>14. BaseInv'
  BY <1>2, <1>3, <1>8, <1>11, <1>12, <1>13, BaseStays DEF FolderInv, Counted, StreamsOf
<1>. QED BY <1>3, <1>4, <1>7, <1>9, <1>10, <1>14 DEF FolderInv

LEMMA FolderEnd ==
  ASSUME TypeInv, FolderInv, End
  PROVE  FolderInv'
<1>1. /\ pc = "prune" /\ pc' = "idle" /\ UNCHANGED <<snaps, streams, sequence, xml, nvram, runs>>
  BY DEF End, folder
<1>2. Recorded /\ ~Committing BY <1>1 DEF Recorded, Committing
<1>3. run.snap >= 1 /\ run.snap \in Nat BY <1>1, RunTypes
<1>4. ~OldFolder BY <1>2, <1>3, Numbers DEF FolderInv, PhaseInv, OldFolder
<1>. QED BY <1>1, <1>2, <1>4, FolderRunEnds

LEMMA FolderNext == NoWindows /\ TypeInv /\ FolderInv /\ [Next]_vars => FolderInv'
<1>. SUFFICES ASSUME NoWindows, TypeInv, FolderInv, [Next]_vars PROVE FolderInv'
  OBVIOUS
<1>1. CASE ChangeDisks \/ StartOrStopGuest \/ UNCHANGED vars
  BY <1>1, FolderElsewhere DEF ChangeDisks, StartOrStopGuest, vars, folder
<1>. QED BY <1>1, FolderMoved, FolderStart, FolderFreezing, FolderSnapshot, FolderRecordSnapshots,
            FolderOpenStream, FolderEndStream, FolderPlaceXml, FolderPlaceVars,
            FolderRecordSequence, FolderFinish, FolderPrune, FolderEnd, FolderInterrupted,
            FolderCleanupThaw, FolderCleanupSnapshots, FolderCleanupFiles,
            FolderInterruptCleanup, FolderPowerCut
         DEF Next

\* A run that is interrupted may leave a stream, but the next one of its number
\* replaces it.
OneStream == \A r, s \in streams : r.disk = s.disk /\ r.seq = s.seq => r = s

LEMMA OneStreamInit == Init => OneStream
<1>1. NewFolder => OneStream BY DEF NewFolder, OneStream
<1>2. ASSUME LegacyFolder PROVE OneStream
  <2>1. \A s \in streams :
          s = [disk |-> s.disk, seq |-> 0, from |-> Whole, to |-> 1, whole |-> TRUE]
    BY <1>2 DEF LegacyFolder
  <2>. QED BY <2>1 DEF OneStream
<1>. QED BY <1>1, <1>2 DEF Init

LEMMA OneStreamNext ==
  ASSUME TypeInv, OneStream, [Next]_vars
  PROVE  OneStream'
<1>1. CASE streams' \subseteq streams BY <1>1 DEF OneStream
<1>2. CASE OpenStream
  <2>1. PICK d \in run.todo :
          streams' = {s \in streams : s.disk # d \/ s.seq # run.seq} \cup
            {[disk |-> d, seq |-> run.seq, from |-> StreamFrom(d), to |-> run.snap,
              whole |-> FALSE]}
    BY <1>2 DEF OpenStream
  <2>2. PICK new : /\ streams' = {s \in streams : s.disk # d \/ s.seq # run.seq} \cup {new}
                   /\ new.disk = d /\ new.seq = run.seq
    <3>. DEFINE new == [disk |-> d, seq |-> run.seq, from |-> StreamFrom(d), to |-> run.snap,
                        whole |-> FALSE]
    <3>1. new.disk = d /\ new.seq = run.seq OBVIOUS
    <3>2. streams' = {s \in streams : s.disk # d \/ s.seq # run.seq} \cup {new} BY <2>1
    <3>. HIDE DEF new
    <3>. QED BY <3>1, <3>2
  <2>. QED BY <2>2 DEF OneStream
<1>3. CASE EndStream
  <2>. DEFINE ended(s) == IF s.seq = run.seq /\ s.disk \in run.outFiles
                          THEN [s EXCEPT !.whole = TRUE] ELSE s
  <2>1. streams' = {ended(s) : s \in streams} BY <1>3 DEF EndStream
  <2>2. streams \subseteq Stream BY DEF TypeInv, TypeOK
  <2>3. \A s \in streams : ended(s).disk = s.disk /\ ended(s).seq = s.seq BY <2>2 DEF Stream
  <2>. HIDE DEF ended
  <2>. QED BY <2>1, <2>3 DEF OneStream
<1>4. \/ streams' \subseteq streams \/ OpenStream \/ EndStream
  BY DEF Next, vars, folder, ChangeDisks, StartOrStopGuest, MoveFolder, Start, MarkFrozen,
         FreezeGuest, SnapshotPool, RecordSnapshots, ThawGuest, Refuse, PlaceXml, PlaceVars,
         RecordSequence, Finish, Prune, End, Interrupt, CleanupThaw, CleanupSnapshots,
         CleanupFiles, InterruptCleanup, PowerCut
<1>. QED BY <1>1, <1>2, <1>3, <1>4

\* Streams of different numbers lead to one snapshot.
LEMMA LeadsToOne ==
  ASSUME NEW S, NEW t, LeadsTo(S, t), \A s \in S : s \in Stream,
         \A r, s \in S : r.seq = s.seq => r = s
  PROVE  t \in Times /\ {u \in Times : LeadsTo(S, u)} = {t}
<1>1. PICK last \in S : last.to = t /\ \A r \in S : r.seq <= last.seq BY DEF LeadsTo
<1>2. last.to \in Times BY DEF Stream
<1>3. \A s \in S : s.seq \in 0 .. MaxRuns BY DEF Stream
<1>4. ASSUME NEW u, LeadsTo(S, u) PROVE u = t
  <2>1. PICK s \in S : s.to = u /\ \A r \in S : r.seq <= s.seq BY <1>4 DEF LeadsTo
  <2>2. s.seq <= last.seq /\ last.seq <= s.seq BY <1>1, <2>1
  <2>3. s.seq = last.seq BY <1>3, <2>2, Numbers
  <2>. QED BY <1>1, <2>1, <2>3
<1>. QED BY <1>1, <1>2, <1>4

\* A disk has a stream that does not count yet.
Extra(d) == \E s \in streams : s.disk = d /\ s.seq = sequence.next

\* The disks that are cut have a stream that is not of the run at work.
CutInv ==
  ~Committing =>
    \A d : d \in Cut <=> d \in xml.disks /\ Extra(d) /\ (pc = "idle" \/ d \notin run.outFiles)

\* Streams that do not count yet are of a later run than the XML.
LaterInv ==
  ~Committing =>
    \A s \in streams : s.disk \in xml.disks /\ s.seq = sequence.next => s.to > xml.at

LEMMA CutFound ==
  ASSUME TypeInv, FolderInv
  PROVE  CutInv
<1>. SUFFICES ASSUME ~Committing, NEW d \in xml.disks
              PROVE  Taken(d) # Counted(d) <=> Extra(d) /\ (pc = "idle" \/ d \notin run.outFiles)
  BY DEF CutInv, Cut
<1>1. \A s \in streams : s.seq \in Nat /\ s.seq <= sequence.next BY FolderTypes DEF FolderInv, StreamInv
<1>2. sequence.next \in Nat BY FolderTypes
<1>3. \A s \in streams : s.seq < sequence.next <=> s.seq # sequence.next BY <1>1, <1>2
<1>4. Counted(d) = {s \in StreamsOf(d) : s.seq # sequence.next} BY <1>3 DEF Counted, StreamsOf
<1>5. CASE Recorded
  <2>1. \A s \in streams : s.seq < sequence.next BY <1>5 DEF FolderInv, StreamInv
  <2>2. ~Extra(d) BY <1>3, <2>1 DEF Extra
  <2>3. Taken(d) = Counted(d) BY <1>3, <1>4, <1>5, <2>1 DEF Taken, StreamsOf
  <2>. QED BY <2>2, <2>3
<1>6. CASE ~Recorded /\ pc = "idle"
  <2>1. Taken(d) = StreamsOf(d) BY <1>6 DEF Taken
  <2>2. StreamsOf(d) # Counted(d) <=> Extra(d) BY <1>4 DEF Extra, StreamsOf
  <2>. QED BY <1>6, <2>1, <2>2
<1>7. CASE ~Recorded /\ pc # "idle"
  <2>1. Taken(d) = StreamsOf(d) \ Own BY <1>7 DEF Taken
  <2>2. sequence.next = run.seq BY <1>7 DEF FolderInv, PhaseInv
  <2>3. CASE d \in run.outFiles
    <3>1. Taken(d) = Counted(d) BY <1>4, <2>1, <2>2, <2>3 DEF Own, StreamsOf
    <3>. QED BY <1>7, <2>3, <3>1
  <2>4. CASE d \notin run.outFiles
    <3>1. Taken(d) = StreamsOf(d) BY <2>1, <2>4 DEF Own, StreamsOf
    <3>2. StreamsOf(d) # Counted(d) <=> Extra(d) BY <1>4 DEF Extra, StreamsOf
    <3>. QED BY <2>4, <3>1, <3>2
  <2>. QED BY <2>3, <2>4
<1>. QED BY <1>5, <1>6, <1>7

\* What is restored of a disk that is not cut is the backup, and of one that is, later.
BackupInv ==
  /\ Point!Promise
  /\ xml.disks # {} => xml.at \in Times

LEMMA BackupWhole ==
  ASSUME TypeInv, FolderInv, OneStream, CutInv, LaterInv
  PROVE  BackupInv
<1>1. ASSUME NEW d \in xml.disks
      PROVE  /\ xml.at \in Times
             /\ d \notin Cut => {u \in Times : LeadsTo(Taken(d), u)} = {xml.at}
  <2>1. PICK S : /\ LeadsTo(S, xml.at) /\ S \subseteq StreamsOf(d)
                 /\ d \notin Cut => S = Taken(d)
    <3>1. CASE Committing BY <3>1 DEF FolderInv, CommitInv, Taken
    <3>2. CASE ~Committing BY <3>2 DEF FolderInv, BaseInv, Cut, Counted
    <3>. QED BY <3>1, <3>2
  <2>2. \A s \in S : s \in streams /\ s.disk = d BY <2>1 DEF StreamsOf
  <2>3. \A s \in S : s \in Stream BY <2>2 DEF TypeInv, TypeOK
  <2>4. \A r, s \in S : r.seq = s.seq => r = s BY <2>2 DEF OneStream
  <2>. QED BY <2>1, <2>3, <2>4, LeadsToOne
<1>2. ASSUME NEW d \in Cut, NEW p \in Times, LeadsTo(Taken(d), p) PROVE p > xml.at
  <2>1. ~Committing BY DEF Cut
  <2>2. d \in xml.disks /\ Extra(d) /\ (pc = "idle" \/ d \notin run.outFiles)
    BY <2>1 DEF CutInv
  <2>3. PICK x \in streams : x.disk = d /\ x.seq = sequence.next BY <2>2 DEF Extra
  <2>4. x \in Taken(d)
    <3>1. pc # "idle" => x \notin Own BY <2>2, <2>3 DEF Own
    <3>. QED BY <2>3, <3>1 DEF Taken, StreamsOf
  <2>5. PICK last \in Taken(d) : last.to = p /\ \A r \in Taken(d) : r.seq <= last.seq
    BY <1>2 DEF LeadsTo
  <2>6. last \in streams /\ last.disk = d BY <2>5 DEF Taken, StreamsOf
  <2>7. last.seq \in Nat /\ last.seq <= sequence.next /\ sequence.next \in Nat
    BY <2>6, FolderTypes DEF FolderInv, StreamInv
  <2>8. sequence.next <= last.seq BY <2>3, <2>4, <2>5
  <2>9. last.seq = sequence.next BY <2>7, <2>8
  <2>. QED BY <2>1, <2>2, <2>5, <2>6, <2>9 DEF LaterInv
<1>3. Cut \subseteq xml.disks BY DEF Cut
<1>4. Point!Promise BY <1>1, <1>2, <1>3 DEF Point!Promise, Restored
<1>. QED BY <1>1, <1>4 DEF BackupInv

\* The XML that is there is of an earlier run than the one that sends its streams.
LEMMA XmlLater ==
  ASSUME TypeInv, FolderInv, pc = "send", xml.disks # {}
  PROVE  xml.at \in Nat /\ xml.at < run.snap
<1>1. ~Recorded /\ ~Committing BY DEF Recorded, Committing, Cleaning
<1>2. BaseInv /\ PhaseInv BY <1>1 DEF FolderInv
<1>3. run.snap \in Nat /\ run.seq \in Nat /\ run.seq < run.snap /\ run.base \in Nat
  BY <1>1, RunTypes
<1>4. sequence.next = run.seq /\ sequence.base = run.base /\ run.base < run.snap
  BY <1>1, <1>2 DEF PhaseInv
<1>5. CASE sequence.base # NoSnap BY <1>2, <1>3, <1>4, <1>5 DEF BaseInv
<1>6. CASE OldFolder BY <1>2, <1>3, <1>4, <1>6 DEF BaseInv, OldFolder
<1>7. CASE sequence.base = NoSnap /\ ~OldFolder
  <2>1. ~(sequence.next > 0) BY <1>7 DEF OldFolder
  <2>2. PICK d \in xml.disks : TRUE OBVIOUS
  <2>3. Counted(d) # {} BY <1>2, LeadsSomewhere DEF BaseInv
  <2>4. \A s \in streams : s.seq \in Nat BY FolderTypes
  <2>. QED BY <1>3, <1>4, <2>1, <2>3, <2>4 DEF Counted, StreamsOf
<1>. QED BY <1>5, <1>6, <1>7

LEMMA LaterInit == Init => LaterInv
<1>1. NewFolder => LaterInv BY DEF NewFolder, LaterInv
<1>2. LegacyFolder => LaterInv BY DEF LegacyFolder, LaterInv
<1>. QED BY <1>1, <1>2 DEF Init

LEMMA LaterNext ==
  ASSUME NoWindows, TypeInv, FolderInv, FolderInv', LaterInv, [Next]_vars
  PROVE  LaterInv'
<1>1. CASE streams' \subseteq streams /\ ~Committing /\ UNCHANGED <<xml, sequence>>
  BY <1>1 DEF LaterInv
<1>2. CASE PlaceXml \/ PlaceVars
  <2>1. Committing' BY <1>2 DEF PlaceXml, PlaceVars, Committing
  <2>. QED BY <2>1 DEF LaterInv
<1>3. CASE RecordSequence
  <2>1. Recorded' BY <1>3 DEF RecordSequence, Recorded
  <2>2. \A s \in streams' : s.seq < sequence'.next BY <2>1 DEF FolderInv, StreamInv
  <2>3. streams' = streams /\ sequence'.next \in Nat
    BY <1>3, RunTypes DEF RecordSequence, NextSequence
  <2>4. \A s \in streams : s.seq \in Nat BY FolderTypes
  <2>. QED BY <2>2, <2>3, <2>4 DEF LaterInv
<1>4. CASE MoveFolder BY <1>4 DEF MoveFolder, LaterInv
<1>5. CASE OpenStream
  <2>1. PICK d \in run.todo :
          streams' = {s \in streams : s.disk # d \/ s.seq # run.seq} \cup
            {[disk |-> d, seq |-> run.seq, from |-> StreamFrom(d), to |-> run.snap,
              whole |-> FALSE]}
    BY <1>5 DEF OpenStream
  <2>2. \A s \in streams' : s \in streams \/ s.to = run.snap BY <2>1
  <2>3. xml.disks # {} => xml.at \in Nat /\ xml.at < run.snap
    BY <1>5, XmlLater DEF OpenStream
  <2>4. UNCHANGED <<xml, sequence>> /\ ~Committing BY <1>5 DEF OpenStream, Committing
  <2>5. run.snap \in Nat BY <1>5, RunTypes DEF OpenStream
  <2>. QED BY <2>2, <2>3, <2>4, <2>5 DEF LaterInv
<1>6. CASE EndStream
  <2>. DEFINE ended(s) == IF s.seq = run.seq /\ s.disk \in run.outFiles
                          THEN [s EXCEPT !.whole = TRUE] ELSE s
  <2>1. streams' = {ended(s) : s \in streams} BY <1>6 DEF EndStream
  <2>2. streams \subseteq Stream BY DEF TypeInv, TypeOK
  <2>3. \A s \in streams :
          ended(s).disk = s.disk /\ ended(s).seq = s.seq /\ ended(s).to = s.to
    BY <2>2 DEF Stream
  <2>. HIDE DEF ended
  <2>4. UNCHANGED <<xml, sequence>> /\ ~Committing BY <1>6 DEF EndStream, Committing
  <2>. QED BY <2>1, <2>3, <2>4 DEF LaterInv
<1>7. CASE UNCHANGED <<xml, sequence, streams, pc>>
  BY <1>7 DEF LaterInv, Committing
<1>8. CASE Interrupt \/ CleanupFiles \/ InterruptCleanup \/ PowerCut
  <2>1. ~Committing
    BY <1>8 DEF Interrupt, CleanupFiles, InterruptCleanup, PowerCut, NoWindows, Committing, Cleaning
  <2>2. streams' \subseteq streams /\ UNCHANGED <<xml, sequence>>
    <3>1. CASE Interrupt \/ CleanupFiles \/ InterruptCleanup
      BY <3>1 DEF Interrupt, CleanupFiles, InterruptCleanup, folder
    <3>2. CASE PowerCut BY <3>2 DEF PowerCut, NoWindows
    <3>. QED BY <1>8, <3>1, <3>2
  <2>. QED BY <1>1, <2>1, <2>2
<1>9. CASE \/ Start \/ MarkFrozen \/ FreezeGuest \/ SnapshotPool \/ RecordSnapshots \/ ThawGuest
           \/ Refuse \/ Finish \/ Prune \/ End \/ CleanupThaw \/ CleanupSnapshots
  <2>1. UNCHANGED <<xml, sequence, streams>> /\ ~Committing
    BY <1>9 DEF Start, MarkFrozen, FreezeGuest, SnapshotPool, RecordSnapshots, ThawGuest, Refuse,
                Finish, Prune, End, CleanupThaw, CleanupSnapshots, folder, Committing
  <2>. QED BY <1>1, <2>1
<1>10. CASE ChangeDisks \/ StartOrStopGuest \/ UNCHANGED vars
  BY <1>7, <1>10 DEF ChangeDisks, StartOrStopGuest, vars, folder
<1>. QED BY <1>2, <1>3, <1>4, <1>5, <1>6, <1>8, <1>9, <1>10 DEF Next

LEMMA BackupInit == Init /\ TypeInv /\ CutInv /\ BackupInv => Point!Init
<1>. SUFFICES ASSUME Init, TypeInv, CutInv, BackupInv PROVE Point!Init
  OBVIOUS
<1>1. xml.disks \subseteq Disks BY FolderTypes
<1>2. ~Committing BY DEF Init, Committing
<1>3. \A d : ~Extra(d)
  <2>1. NewFolder => \A d : ~Extra(d) BY DEF NewFolder, Extra
  <2>2. LegacyFolder => \A d : ~Extra(d) BY DEF LegacyFolder, Extra
  <2>. QED BY <2>1, <2>2 DEF Init
<1>4. Cut = {} BY <1>2, <1>3 DEF CutInv
<1>. QED BY <1>1, <1>4 DEF BackupInv, Point!Init

\* A run that recorded itself, or is about to, left nothing uncounted.
LEMMA NothingCut ==
  ASSUME TypeInv, FolderInv, CutInv, Committing \/ Recorded
  PROVE  Cut = {}
<1>1. CASE Committing BY <1>1 DEF Cut
<1>2. CASE ~Committing /\ Recorded
  <2>1. \A s \in streams : s.seq < sequence.next /\ s.seq \in Nat
    BY <1>2, FolderTypes DEF FolderInv, StreamInv
  <2>2. \A d : ~Extra(d) BY <2>1, FolderTypes DEF Extra
  <2>. QED BY <1>2, <2>2 DEF CutInv
<1>. QED BY <1>1, <1>2

\* Nothing of the work of a run is cut while it is at it.
LEMMA CutNext ==
  ASSUME NoWindows, TypeInv, FolderInv, CutInv, CutInv', [Next]_vars,
         ~Committing, ~Committing', ~Recorded, UNCHANGED xml, ~MoveFolder
  PROVE  Cut \subseteq Cut' \/ Cut' \subseteq Cut
<1>. DEFINE Same == \A d : Extra(d)' <=> Extra(d)
<1>1. pc # "idle" => sequence.next = run.seq /\ run \in Run BY RunTypes DEF FolderInv, PhaseInv
<1>2. CASE Start
  <2>1. pc = "idle" /\ run'.outFiles = {} /\ UNCHANGED <<streams, sequence>>
    BY <1>2 DEF Start, folder
  <2>2. Same BY <2>1 DEF Extra
  <2>. QED BY <2>1, <2>2 DEF CutInv
<1>3. CASE \/ MarkFrozen \/ FreezeGuest \/ SnapshotPool \/ RecordSnapshots \/ ThawGuest
           \/ Refuse \/ Interrupt \/ CleanupThaw \/ CleanupSnapshots
  <2>1. pc # "idle" /\ pc' # "idle" /\ UNCHANGED <<streams, sequence>>
    BY <1>3 DEF MarkFrozen, FreezeGuest, SnapshotPool, RecordSnapshots, ThawGuest, Refuse,
                Interrupt, CleanupThaw, CleanupSnapshots, AfterThaw, folder
  <2>2. run.outFiles \subseteq run'.outFiles
    BY <1>1, <1>3, <2>1 DEF MarkFrozen, FreezeGuest, SnapshotPool, RecordSnapshots, ThawGuest,
                Refuse, Interrupt, CleanupThaw, CleanupSnapshots, Run
  <2>3. Same BY <2>1 DEF Extra
  <2>. QED BY <2>1, <2>2, <2>3 DEF CutInv
<1>4. CASE OpenStream
  <2>1. PICK d \in run.todo :
          /\ streams' = {s \in streams : s.disk # d \/ s.seq # run.seq} \cup
               {[disk |-> d, seq |-> run.seq, from |-> StreamFrom(d), to |-> run.snap,
                 whole |-> FALSE]}
          /\ run' = [run EXCEPT !.outFiles = @ \cup {d}, !.todo = @ \ {d}]
    BY <1>4 DEF OpenStream
  <2>2. pc # "idle" /\ pc' # "idle" /\ UNCHANGED sequence BY <1>4 DEF OpenStream
  <2>3. run'.outFiles = run.outFiles \cup {d} BY <1>1, <2>1, <2>2 DEF Run
  <2>4. \A e : e # d /\ Extra(e)' => Extra(e) BY <2>1, <2>2 DEF Extra
  <2>. QED BY <2>2, <2>3, <2>4 DEF CutInv
<1>5. CASE EndStream
  <2>. DEFINE ended(s) == IF s.seq = run.seq /\ s.disk \in run.outFiles
                          THEN [s EXCEPT !.whole = TRUE] ELSE s
  <2>1. streams' = {ended(s) : s \in streams} BY <1>5 DEF EndStream
  <2>2. streams \subseteq Stream BY DEF TypeInv, TypeOK
  <2>3. \A s \in streams : ended(s).disk = s.disk /\ ended(s).seq = s.seq
    BY <2>2 DEF Stream
  <2>. HIDE DEF ended
  <2>4. pc # "idle" /\ pc' # "idle" /\ UNCHANGED <<run, sequence>> BY <1>5 DEF EndStream
  <2>5. Same BY <2>1, <2>3, <2>4 DEF Extra
  <2>. QED BY <2>4, <2>5 DEF CutInv
<1>6. CASE CleanupFiles
  <2>1. pc = "cleanFiles" /\ pc' = "idle" /\ UNCHANGED sequence BY <1>6 DEF CleanupFiles
  <2>2. ~run.finished BY <2>1 DEF Recorded, Cleaning
  <2>3. streams' = streams \ Own BY <1>6, <2>2 DEF CleanupFiles
  <2>4. ASSUME NEW d, Extra(d)' PROVE Extra(d) /\ d \notin run.outFiles
    BY <1>1, <2>1, <2>3, <2>4 DEF Extra, Own
  <2>. QED BY <2>1, <2>4 DEF CutInv
<1>7. CASE InterruptCleanup \/ PowerCut
  <2>1. pc # "idle" /\ pc' = "idle" /\ UNCHANGED sequence
    BY <1>7 DEF InterruptCleanup, PowerCut, Cleaning, NoWindows
  <2>2. \A s \in streams : s \in Own \/ s \in streams' BY <1>7 DEF InterruptCleanup, PowerCut
  <2>3. ASSUME NEW d, Extra(d), d \notin run.outFiles PROVE Extra(d)'
    BY <2>1, <2>2, <2>3 DEF Extra, Own
  <2>. QED BY <2>1, <2>3 DEF CutInv
<1>8. CASE ChangeDisks \/ StartOrStopGuest \/ UNCHANGED vars
  <2>1. UNCHANGED <<streams, sequence, pc, run>>
    BY <1>8 DEF ChangeDisks, StartOrStopGuest, vars, folder
  <2>2. Same BY <2>1 DEF Extra
  <2>. QED BY <2>1, <2>2 DEF CutInv
<1>9. ~(PlaceXml \/ PlaceVars \/ RecordSequence \/ Finish \/ Prune \/ End)
  BY DEF PlaceXml, PlaceVars, RecordSequence, Finish, Prune, End, Committing, Recorded
<1>. QED BY <1>2, <1>3, <1>4, <1>5, <1>6, <1>7, <1>8, <1>9 DEF Next

LEMMA BackupNext ==
  ASSUME NoWindows, TypeInv, FolderInv, CutInv, BackupInv, TypeInv', CutInv', BackupInv',
         [Next]_vars
  PROVE  [Point!Next]_(Point!vars)
<1>1. xml' \in [disks : SUBSET Disks, at : Times \cup {NoSnap}, nvram : BOOLEAN]
  BY DEF TypeInv, TypeOK
<1>2. Point!Promise' BY DEF BackupInv
<1>3. CASE PlaceXml
  <2>1. xml'.disks \subseteq Disks /\ xml'.at = run.snap BY <1>1, <1>3 DEF PlaceXml
  <2>2. run.snap \in Times BY <1>3, RunTyped DEF PlaceXml
  <2>3. xml.disks # {} => xml'.at > xml.at BY <1>3, <2>1, RunTypes, XmlLater DEF PlaceXml
  <2>4. Committing' BY <1>3 DEF PlaceXml, Committing
  <2>5. Cut' = {} BY <2>4 DEF Cut
  <2>. QED BY <1>2, <2>1, <2>2, <2>3, <2>5 DEF Point!Next, Point!Replace
<1>4. CASE MoveFolder
  <2>1. xml'.disks = {} BY <1>4 DEF MoveFolder, NoXml
  <2>. QED BY <1>2, <2>1 DEF Point!Next, Point!MoveAway
<1>5. CASE UNCHANGED xml /\ ~MoveFolder
  <2>1. Cut \subseteq Cut' \/ Cut' \subseteq Cut
    <3>1. CASE Committing \/ Recorded BY <3>1, NothingCut
    <3>2. CASE Committing' BY <3>2 DEF Cut
    <3>3. CASE ~Committing /\ ~Committing' /\ ~Recorded BY <1>5, <3>3, CutNext
    <3>. QED BY <3>1, <3>2, <3>3
  <2>2. CASE Cut \subseteq Cut' BY <1>2, <1>5, <2>2 DEF Point!Next, Point!Spoil
  <2>3. CASE Cut' \subseteq Cut BY <1>2, <1>5, <2>3 DEF Point!Next, Point!Mend
  <2>. QED BY <2>1, <2>2, <2>3
<1>6. xml' = xml \/ PlaceXml \/ MoveFolder
  BY DEF Next, vars, folder, ChangeDisks, StartOrStopGuest, Start, MarkFrozen, FreezeGuest,
         SnapshotPool, RecordSnapshots, ThawGuest, OpenStream, Refuse, EndStream, PlaceVars,
         RecordSequence, Finish, Prune, End, Interrupt, CleanupThaw, CleanupSnapshots,
         CleanupFiles, InterruptCleanup, PowerCut
<1>. QED BY <1>3, <1>4, <1>5, <1>6

\* Interrupted anywhere but at the weak points, also in the cleanup, with power cuts,
\* disks that come and go and folders of old versions: there is one backup, of one
\* moment, until a later one replaces it, and a restore from all streams in the folder
\* gives it; of a disk of which a run left a stream, it fails or gives a later moment.
THEOREM OneBackup ==
  ASSUME NoWindows
  PROVE  Spec => ImplementsBackupPoint
<1>. DEFINE Inv == TypeInv /\ FolderInv /\ OneStream /\ LaterInv /\ CutInv /\ BackupInv
<1>1. Init => TypeInv /\ FolderInv /\ OneStream /\ LaterInv
  BY TypeInit, FolderInit, OneStreamInit, LaterInit
<1>2. TypeInv /\ FolderInv /\ OneStream /\ LaterInv => CutInv /\ BackupInv
  BY CutFound, BackupWhole
<1>3. Inv /\ [Next]_vars => TypeInv' /\ FolderInv' /\ OneStream'
  BY TypeNext, FolderNext, OneStreamNext
<1>4. Inv /\ FolderInv' /\ [Next]_vars => LaterInv' BY LaterNext
<1>5. Init /\ Inv => Point!Init BY BackupInit
<1>6. Inv /\ Inv' /\ [Next]_vars => [Point!Next]_(Point!vars) BY BackupNext
<1>. QED BY <1>1, <1>2, <1>3, <1>4, <1>5, <1>6, PTL DEF Spec, ImplementsBackupPoint, Point!Spec

\* The next run finds the snapshot it continues from on every disk of that backup.
THEOREM BaseStaysThere ==
  ASSUME NoWindows
  PROVE  Spec => []BaseKept
<1>1. TypeInv /\ FolderInv /\ [Next]_vars => FolderInv' BY FolderNext
<1>2. TypeInv /\ FolderInv => BaseKept
  <2>1. ASSUME TypeInv PROVE xml.disks \subseteq Disks BY <2>1, FolderTypes
  <2>. QED BY <2>1 DEF FolderInv, BaseInv, BaseKept
<1>. QED BY <1>1, <1>2, TypeInit, TypeNext, FolderInit, PTL DEF Spec

\* A run that has finished leaves one set: XML, NVRAM, sequence file and streams,
\* and nothing of an earlier run that did not finish.
THEOREM OneSet ==
  ASSUME NoWindows
  PROVE  Spec => []FinishedSet
<1>1. TypeInv /\ FolderInv /\ [Next]_vars => FolderInv' BY FolderNext
<1>2. ASSUME TypeInv, FolderInv PROVE FinishedSet
  <2>1. SUFFICES ASSUME pc = "prune"
                 PROVE  /\ xml.at = sequence.base
                        /\ run.vars = "there" => nvram = sequence.base
                        /\ \A d \in xml.disks : StreamsOf(d) = Counted(d)
    BY DEF FinishedSet
  <2>2. Recorded /\ ~Committing BY <2>1 DEF Recorded, Committing
  <2>3. run.snap >= 1 /\ run.snap \in Nat BY <1>2, <2>1, RunTypes
  <2>4. sequence.base # NoSnap BY <1>2, <2>2, <2>3, Numbers DEF FolderInv, PhaseInv
  <2>5. \A s \in streams : s.seq < sequence.next BY <1>2, <2>2 DEF FolderInv, StreamInv
  <2>6. \A d : StreamsOf(d) = Counted(d) BY <2>5 DEF StreamsOf, Counted
  <2>. QED BY <1>2, <2>1, <2>2, <2>4, <2>6 DEF FolderInv, BaseInv
<1>. QED BY <1>1, <1>2, TypeInit, TypeNext, FolderInit, PTL DEF Spec

\* Every disk of the XML has a stream, as hd-restore-vm expects of the folder, unless
\* a run is interrupted while the files are placed.
THEOREM XmlAlwaysHasStreams ==
  ASSUME NoWindows
  PROVE  Spec => []XmlHasStreams
<1>1. TypeInv /\ FolderInv /\ [Next]_vars => FolderInv' BY FolderNext
<1>2. FolderInv => XmlHasStreams
  <2>1. SUFFICES ASSUME FolderInv, NEW d \in xml.disks PROVE StreamsOf(d) # {}
    BY DEF XmlHasStreams
  <2>2. CASE Committing
    <3>1. LeadsTo(StreamsOf(d), run.snap) BY <2>1, <2>2 DEF FolderInv, CommitInv
    <3>. QED BY <3>1, LeadsSomewhere
  <2>3. CASE ~Committing
    <3>1. LeadsTo(Counted(d), xml.at) BY <2>1, <2>3 DEF FolderInv, BaseInv
    <3>2. Counted(d) # {} BY <3>1, LeadsSomewhere
    <3>. QED BY <3>2 DEF Counted
  <2>. QED BY <2>2, <2>3
<1>. QED BY <1>1, <1>2, TypeInit, TypeNext, FolderInit, PTL DEF Spec
=============================================================================
