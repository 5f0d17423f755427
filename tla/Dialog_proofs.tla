---------------------------- MODULE Dialog_proofs ----------------------------
(***************************************************************************)
(* Proofs about hd-menu and hd-message, for any inputs, themes, sizes,     *)
(* scales, keymaps and events of the compositor, in any number.            *)
(***************************************************************************)
EXTENDS Dialog, DesktopInput_proofs, FiniteSetTheorems

-----------------------------------------------------------------------------
(* Queues of events                                                        *)

\* The events of a program with these keys.
EventOf(K) ==
  Greeting \cup [kind : {"down", "up"}, key : K] \cup [kind : {"repeat_info"}, rate : Int]
    \cup [kind : {"modifiers"}, shift : BOOLEAN] \cup [kind : {"leave", "closed"}]
    \cup [kind : {"release"}, buffer : Buffers]

LEMMA AfterTyped ==
  ASSUME NEW K, NEW down \in SUBSET K, NEW e \in EventOf(K)
  PROVE  After(down, e) \in SUBSET K
BY DEF After, EventOf, Greeting

\* Down goes through the keys that are down after each event.
Downs(d, K, keys, queue) ==
  /\ d \in [0 .. Len(queue) -> SUBSET K]
  /\ d[0] = keys /\ d[Len(queue)] = Down(keys, queue)
  /\ \A i \in 1 .. Len(queue) : d[i] = After(d[i - 1], queue[i])

LEMMA DownTrace ==
  ASSUME NEW K, NEW keys \in SUBSET K, NEW queue \in Seq(EventOf(K))
  PROVE  \E d : Downs(d, K, keys, queue)
<1>. DEFINE n == Len(queue)
            A == SUBSET K
            E == EventOf(K)
            step == [p \in A \X (1 .. n) |-> After(p[1], queue[p[2]])]
            Eq(it) == it = [s \in SUBSET (1 .. n) |->
                              IF s = {} THEN keys ELSE After(it[s \ {Max(s)}], queue[Max(s)])]
            it == CHOOSE it : Eq(it)
<1>1. n \in Nat /\ DOMAIN queue = 1 .. n /\ \A i \in 1 .. n : queue[i] \in E
  <2>. HIDE DEF E
  <2>1. queue \in Seq(E) BY DEF E
  <2>. QED BY <2>1
<1>2. \A a \in A, i \in 1 .. n : After(a, queue[i]) \in A
  <2>. HIDE DEF n
  <2>. QED BY <1>1, AfterTyped
<1>3. step \in [A \X (1 .. n) -> A]
  BY <1>2
<1>4. PICK g \in [SUBSET (1 .. n) -> A] : FoldsBy(g, keys, step, n)
  BY <1>1, <1>3, FoldExists
<1>5. Down(keys, queue) = it[1 .. n]
  BY <1>1 DEF Down, FoldLeft, MapThenFoldSet
<1>. HIDE DEF A, n
<1>6. \A s \in SUBSET (1 .. n) : s # {} => Max(s) \in 1 .. n
  BY <1>1, MaxOfSome
<1>7. Eq(g)
  BY <1>4, <1>6 DEF FoldsBy
<1>8. Eq(it) BY <1>7
<1>. HIDE DEF it
<1>9. StepsBy(it, A, keys, step, n)
  BY <1>6, <1>8 DEF StepsBy
<1>. HIDE DEF step
<1>10. keys \in A BY DEF A
<1>11. PICK d \in [0 .. n -> A] : Trace(d, keys, step, it[1 .. n], n)
  BY <1>1, <1>3, <1>9, <1>10, FoldTrace
<1>12. ASSUME NEW i \in 1 .. n PROVE d[i] = After(d[i - 1], queue[i])
  <2>1. i - 1 \in 0 .. n BY <1>1
  <2>. QED BY <1>11, <2>1 DEF step, Trace
<1>. QED BY <1>5, <1>11, <1>12 DEF A, Trace, n, Downs

LEMMA DownTyped ==
  ASSUME NEW K, NEW keys \in SUBSET K, NEW queue \in Seq(EventOf(K))
  PROVE  Down(keys, queue) \in SUBSET K
<1>. DEFINE E == EventOf(K)
<1>. HIDE DEF E
<1>1. Len(queue) \in Nat
  <2>1. queue \in Seq(E) BY DEF E
  <2>. QED BY <2>1
<1>2. PICK d : Downs(d, K, keys, queue) BY DownTrace
<1>. QED BY <1>1, <1>2 DEF Downs

LEMMA DownEmpty ==
  ASSUME NEW K, NEW keys \in SUBSET K
  PROVE  Down(keys, <<>>) = keys
<1>1. <<>> \in Seq(EventOf(K)) /\ Len(<<>>) = 0 OBVIOUS
<1>2. PICK d : Downs(d, K, keys, <<>>) BY <1>1, DownTrace
<1>. QED BY <1>1, <1>2 DEF Downs

\* One more event, at the end or at the start.
LEMMA DownAppend ==
  ASSUME NEW K, NEW keys \in SUBSET K, NEW queue \in Seq(EventOf(K)), NEW e \in EventOf(K)
  PROVE  Down(keys, Append(queue, e)) = After(Down(keys, queue), e)
<1>. DEFINE E == EventOf(K)
            n == Len(queue)
            longer == Append(queue, e)
<1>. HIDE DEF E
<1>1. queue \in Seq(E) /\ e \in E BY DEF E
<1>2. /\ n \in Nat /\ longer \in Seq(E) /\ Len(longer) = n + 1
      /\ \A i \in 1 .. n : longer[i] = queue[i]
      /\ longer[n + 1] = e
  BY <1>1
<1>. HIDE DEF longer, n
<1>3. PICK d : Downs(d, K, keys, queue) BY DownTrace
<1>4. PICK c : Downs(c, K, keys, longer)
  <2>1. longer \in Seq(EventOf(K)) BY <1>2 DEF E
  <2>. QED BY <2>1, DownTrace
<1>5. d[0] = keys /\ d[n] = Down(keys, queue)
        /\ \A i \in 1 .. n : d[i] = After(d[i - 1], queue[i])
  BY <1>3 DEF Downs, n
<1>6. c[0] = keys /\ c[n + 1] = Down(keys, longer)
        /\ \A i \in 1 .. n + 1 : c[i] = After(c[i - 1], longer[i])
  BY <1>2, <1>4 DEF Downs
<1>. DEFINE P == {i \in 0 .. n : c[i] = d[i]}
<1>7. 0 \in P BY <1>2, <1>5, <1>6
<1>8. ASSUME NEW i \in 0 .. n - 1, i \in P PROVE i + 1 \in P
  <2>1. i + 1 \in 1 .. n /\ i + 1 \in 1 .. n + 1 /\ i + 1 \in 0 .. n /\ (i + 1) - 1 = i BY <1>2
  <2>2. d[i + 1] = After(d[i], queue[i + 1]) /\ c[i + 1] = After(c[i], longer[i + 1])
    BY <1>5, <1>6, <2>1
  <2>3. c[i] = d[i] /\ longer[i + 1] = queue[i + 1] BY <1>2, <1>8, <2>1
  <2>. QED BY <2>1, <2>2, <2>3
<1>. HIDE DEF P
<1>9. 0 .. n \subseteq P BY <1>2, <1>7, <1>8, InductTo
<1>10. c[n] = d[n] BY <1>2, <1>9 DEF P
<1>11. n + 1 \in 1 .. n + 1 /\ (n + 1) - 1 = n BY <1>2
<1>. QED BY <1>2, <1>10, <1>11, <1>5, <1>6 DEF longer

LEMMA DownTail ==
  ASSUME NEW K, NEW keys \in SUBSET K, NEW queue \in Seq(EventOf(K)), queue # <<>>
  PROVE  Down(keys, queue) = Down(After(keys, Head(queue)), Tail(queue))
<1>. DEFINE E == EventOf(K)
            n == Len(queue)
            rest == Tail(queue)
            first == After(keys, Head(queue))
<1>. HIDE DEF E
<1>1. /\ n \in Nat /\ n >= 1 /\ rest \in Seq(E) /\ Len(rest) = n - 1
      /\ \A i \in 1 .. n - 1 : rest[i] = queue[i + 1]
      /\ Head(queue) = queue[1] /\ Head(queue) \in E
  <2>1. queue \in Seq(E) BY DEF E
  <2>. QED BY <2>1
<1>. HIDE DEF rest, n
<1>2. first \in SUBSET K BY <1>1, AfterTyped DEF E
<1>. HIDE DEF first
<1>3. PICK c : Downs(c, K, keys, queue) BY DownTrace
<1>4. PICK d : Downs(d, K, first, rest)
  <2>1. rest \in Seq(EventOf(K)) BY <1>1 DEF E
  <2>. QED BY <1>2, <2>1, DownTrace
<1>5. c[0] = keys /\ c[n] = Down(keys, queue)
        /\ \A i \in 1 .. n : c[i] = After(c[i - 1], queue[i])
  BY <1>3 DEF Downs, n
<1>6. d[0] = first /\ d[n - 1] = Down(first, rest)
        /\ \A i \in 1 .. n - 1 : d[i] = After(d[i - 1], rest[i])
  BY <1>1, <1>4 DEF Downs
<1>. DEFINE P == {i \in 0 .. n - 1 : c[i + 1] = d[i]}
<1>7. 0 \in P
  <2>1. 1 \in 1 .. n /\ 1 - 1 = 0 /\ 0 + 1 = 1 /\ 0 \in 0 .. n - 1 BY <1>1
  <2>2. c[1] = After(c[0], queue[1]) BY <1>5, <2>1
  <2>. QED BY <1>1, <1>5, <1>6, <2>1, <2>2 DEF first
<1>8. ASSUME NEW i \in 0 .. (n - 1) - 1, i \in P PROVE i + 1 \in P
  <2>1. i + 1 \in 1 .. n - 1 /\ i + 2 \in 1 .. n /\ i + 1 \in 0 .. n - 1 /\ (i + 1) - 1 = i
        /\ (i + 2) - 1 = i + 1 /\ (i + 1) + 1 = i + 2
    BY <1>1
  <2>2. d[i + 1] = After(d[i], rest[i + 1]) /\ c[i + 2] = After(c[i + 1], queue[i + 2])
    BY <1>5, <1>6, <2>1
  <2>3. c[i + 1] = d[i] /\ rest[i + 1] = queue[i + 2] BY <1>1, <1>8, <2>1
  <2>. QED BY <2>1, <2>2, <2>3
<1>. HIDE DEF P
<1>9. n - 1 \in Nat BY <1>1
<1>10. 0 .. n - 1 \subseteq P BY <1>7, <1>8, <1>9, InductTo
<1>11. c[n] = d[n - 1]
  <2>1. n - 1 \in P /\ (n - 1) + 1 = n BY <1>1, <1>9, <1>10
  <2>. QED BY <2>1 DEF P
<1>. QED BY <1>11, <1>5, <1>6 DEF first, rest

\* What is left of a queue without the releases of buffers.
Unreleasing(K) == {e \in EventOf(K) : e.kind # "release"}
Keeps(d, K, queue) ==
  /\ d \in [0 .. Len(queue) -> Seq(Unreleasing(K))]
  /\ d[0] = <<>> /\ d[Len(queue)] = WithoutReleases(queue)
  /\ \A i \in 1 .. Len(queue) : d[i] = Keep(d[i - 1], queue[i])

LEMMA KeepTrace ==
  ASSUME NEW K, NEW queue \in Seq(EventOf(K))
  PROVE  \E d : Keeps(d, K, queue)
<1>. DEFINE n == Len(queue)
            B == Unreleasing(K)
            A == Seq(B)
            E == EventOf(K)
            step == [p \in A \X (1 .. n) |-> Keep(p[1], queue[p[2]])]
            Eq(it) == it = [s \in SUBSET (1 .. n) |->
                              IF s = {} THEN <<>> ELSE Keep(it[s \ {Max(s)}], queue[Max(s)])]
            it == CHOOSE it : Eq(it)
<1>1. n \in Nat /\ DOMAIN queue = 1 .. n /\ \A i \in 1 .. n : queue[i] \in E
  <2>. HIDE DEF E
  <2>1. queue \in Seq(E) BY DEF E
  <2>. QED BY <2>1
<1>2. \A a \in A, i \in 1 .. n : Keep(a, queue[i]) \in A
  <2>. SUFFICES ASSUME NEW a \in A, NEW i \in 1 .. n PROVE Keep(a, queue[i]) \in A OBVIOUS
  <2>1. queue[i].kind # "release" => queue[i] \in B BY <1>1 DEF Unreleasing
  <2>. HIDE DEF B
  <2>. QED BY <2>1 DEF Keep
<1>3. step \in [A \X (1 .. n) -> A]
  BY <1>2
<1>4. <<>> \in A
  <2>. HIDE DEF B
  <2>. QED OBVIOUS
<1>. HIDE DEF A
<1>5. PICK g \in [SUBSET (1 .. n) -> A] : FoldsBy(g, <<>>, step, n)
  BY <1>1, <1>3, <1>4, FoldExists
<1>6. WithoutReleases(queue) = it[1 .. n]
  BY <1>1 DEF WithoutReleases, FoldLeft, MapThenFoldSet
<1>. HIDE DEF n
<1>7. \A s \in SUBSET (1 .. n) : s # {} => Max(s) \in 1 .. n
  BY <1>1, MaxOfSome
<1>8. Eq(g)
  BY <1>5, <1>7 DEF FoldsBy
<1>9. Eq(it) BY <1>8
<1>. HIDE DEF it
<1>10. StepsBy(it, A, <<>>, step, n)
  BY <1>7, <1>9 DEF StepsBy
<1>. HIDE DEF step
<1>11. PICK d \in [0 .. n -> A] : Trace(d, <<>>, step, it[1 .. n], n)
  BY <1>1, <1>3, <1>4, <1>10, FoldTrace
<1>12. ASSUME NEW i \in 1 .. n PROVE d[i] = Keep(d[i - 1], queue[i])
  <2>1. i - 1 \in 0 .. n BY <1>1
  <2>. QED BY <1>11, <2>1 DEF step, Trace
<1>. QED BY <1>6, <1>11, <1>12 DEF A, Trace, n, Keeps

\* The releases are gone, and the keys go up and down as before.
LEMMA KeptEvents ==
  ASSUME NEW K, NEW keys \in SUBSET K, NEW queue \in Seq(EventOf(K))
  PROVE  /\ WithoutReleases(queue) \in Seq(Unreleasing(K))
         /\ Down(keys, WithoutReleases(queue)) = Down(keys, queue)
<1>. DEFINE n == Len(queue)
            E == EventOf(K)
            B == Unreleasing(K)
<1>1. n \in Nat /\ DOMAIN queue = 1 .. n /\ \A i \in 1 .. n : queue[i] \in E
  <2>. HIDE DEF E
  <2>1. queue \in Seq(E) BY DEF E
  <2>. QED BY <2>1
<1>. HIDE DEF n
<1>2. PICK d : Keeps(d, K, queue) BY KeepTrace
<1>3. /\ \A i \in 0 .. n : d[i] \in Seq(B)
      /\ d[0] = <<>> /\ d[n] = WithoutReleases(queue)
      /\ \A i \in 1 .. n : d[i] = Keep(d[i - 1], queue[i])
  BY <1>2 DEF Keeps, n
<1>4. PICK c : Downs(c, K, keys, queue) BY DownTrace
<1>5. /\ c[0] = keys /\ c[n] = Down(keys, queue)
      /\ \A i \in 1 .. n : c[i] = After(c[i - 1], queue[i])
  BY <1>4 DEF Downs, n
<1>. DEFINE P == {i \in 0 .. n : Down(keys, d[i]) = c[i]}
<1>6. 0 \in P
  <2>1. Down(keys, <<>>) = keys BY DownEmpty
  <2>. QED BY <1>1, <1>3, <1>5, <2>1
<1>7. ASSUME NEW i \in 0 .. n - 1, i \in P PROVE i + 1 \in P
  <2>1. i + 1 \in 1 .. n /\ i + 1 \in 0 .. n /\ (i + 1) - 1 = i BY <1>1
  <2>. DEFINE e == queue[i + 1]
  <2>2. d[i + 1] = Keep(d[i], e) /\ c[i + 1] = After(c[i], e) BY <1>3, <1>5, <2>1
  <2>3. e \in EventOf(K) /\ d[i] \in Seq(B) BY <1>1, <1>3, <2>1
  <2>. HIDE DEF e
  <2>4. d[i] \in Seq(EventOf(K))
    <3>. DEFINE C == EventOf(K)
    <3>1. B \subseteq C BY DEF Unreleasing
    <3>. HIDE DEF B, C
    <3>2. d[i] \in Seq(C) BY <2>3, <3>1
    <3>. QED BY <3>2 DEF C
  <2>5. CASE e.kind = "release"
    <3>1. After(c[i], e) = c[i] BY <2>5 DEF After
    <3>. QED BY <1>7, <2>1, <2>2, <2>5, <3>1 DEF Keep
  <2>6. CASE e.kind # "release"
    <3>1. Down(keys, Append(d[i], e)) = After(Down(keys, d[i]), e) BY <2>3, <2>4, DownAppend
    <3>. QED BY <1>7, <2>1, <2>2, <2>6, <3>1 DEF Keep
  <2>. QED BY <2>5, <2>6
<1>. HIDE DEF P
<1>8. 0 .. n \subseteq P BY <1>1, <1>6, <1>7, InductTo
<1>9. n \in P /\ n \in 0 .. n BY <1>1, <1>8
<1>. QED BY <1>3, <1>5, <1>9 DEF P

-----------------------------------------------------------------------------
(* Types                                                                   *)

Starting == {"read", "lock", "theme", "connect"}

\* The dialog that was read has items, the events are of its keys, and nothing
\* happens to the window before it is connected.
TypeInv ==
  /\ TypeOK
  /\ dialog # Unreadable => DialogTyped(dialog)
  /\ pc = "read" => dialog = Unreadable
  /\ pc \notin {"read", "ended"} => dialog # Unreadable
  /\ ThemeTyped(theme)
  /\ rows \in Nat /\ rows >= 1
  /\ inbox \in Seq(EventOf(Keys[dialog.program]))
  /\ batch \in Seq(EventOf(Keys[dialog.program]))
  /\ pc \in Starting =>
       /\ inbox = <<>> /\ batch = <<>> /\ held = {} /\ repeat_key = NoKey
       /\ scroll = 1 /\ surface = NoFrame

LEMMA TypeInit == Init => TypeInv
<1>. SUFFICES ASSUME Init PROVE TypeInv
  OBVIOUS
<1>1. ThemeTyped(DefaultTheme) BY DEF ThemeTyped, DefaultTheme, Whole
<1>2. \A S : <<>> \in Seq(S) OBVIOUS
<1>3. MaxRepeats \in Nat /\ MaxEvents \in Nat BY DialogAssumption
<1>4. TypeOK
  <2>1. exit \in -1 .. 2 /\ (exit = -1 <=> pc # "ended") BY DEF Init
  <2>2. /\ expired \in 0 .. MaxRepeats /\ left \in 0 .. MaxRepeats
        /\ events \in 0 .. MaxEvents
    BY <1>3 DEF Init
  <2>3. lent \subseteq Buffers /\ polled \subseteq {"repeat", "timer"} /\ held \subseteq Keys[dialog.program]
    BY DEF Init
  <2>. QED BY <2>1, <2>2, <2>3 DEF Init, TypeOK
<1>5. /\ inbox \in Seq(EventOf(Keys[dialog.program]))
      /\ batch \in Seq(EventOf(Keys[dialog.program]))
  BY <1>2 DEF Init
<1>. QED BY <1>1, <1>4, <1>5 DEF Init, TypeInv

\* The selection is an item, the compositor gets a buffer there is, and a frame
\* of a menu has rows.
ViewOK ==
  /\ selected \in 1 .. Count /\ scroll \in 1 .. Count
  /\ rows \in Nat /\ rows >= 1
  /\ lent \subseteq Buffers /\ dirty \in BOOLEAN
SizeOK == size \in Nat \X Nat
FrameDrawn ==
  surface' # surface /\ Menu =>
    /\ rows' = MenuRows(dialog, theme, size'[2])
    /\ selected' \in scroll' .. scroll' + rows' - 1

LEMMA DrawTyped ==
  ASSUME NEW due \in BOOLEAN, NEW current, NEW held_back,
         DrawIfPossible(due, current, held_back), held_back \subseteq Buffers,
         DialogTyped(dialog), ThemeTyped(theme), UNCHANGED <<dialog, theme>>,
         ViewOK, selected' \in 1 .. Count, SizeOK'
  PROVE  ViewOK' /\ FrameDrawn
<1>. DEFINE free == {b \in Buffers : ~current[b].busy}
            first == CHOOSE b \in free : \A c \in free : b <= c
            drawable == configured' /\ due /\ size'[1] > 0 /\ size'[2] > 0
<1>1. CASE free # {} /\ Draw(first, held_back) /\ dirty' = FALSE
  <2>1. \E b \in free : \A c \in free : b <= c
    <3>1. free \subseteq {1, 2} BY DEF Buffers
    <3>. QED BY <1>1, <3>1
  <2>2. first \in Buffers BY <2>1
  <2>. HIDE DEF first, free
  <2>3. lent' \subseteq Buffers BY <1>1, <2>2 DEF Draw
  <2>4. Count \in Nat BY DEF DialogTyped, Count
  <2>5. CASE Menu
    <3>1. rows' = MenuRows(dialog, theme, size'[2]) /\ scroll' = Scrolled(scroll, selected', rows')
      BY <1>1, <2>5 DEF Draw
    <3>2. size'[2] \in Int BY DEF SizeOK
    <3>3. rows' \in Nat /\ rows' >= 1 BY <3>1, <3>2, RowsFit
    <3>4. scroll' \in 1 .. Count /\ selected' \in scroll' .. scroll' + rows' - 1
      BY <2>4, <3>1, <3>3, ScrolledShows DEF ViewOK
    <3>. QED BY <1>1, <2>3, <3>1, <3>3, <3>4 DEF ViewOK, Count, FrameDrawn
  <2>6. CASE ~Menu
    <3>1. UNCHANGED <<rows, scroll>> BY <1>1, <2>6 DEF Draw
    <3>. QED BY <1>1, <2>3, <2>6, <3>1 DEF ViewOK, Count, FrameDrawn
  <2>. QED BY <2>5, <2>6
<1>2. CASE dirty' = due /\ lent' = held_back /\ UNCHANGED <<scroll, rows, surface>>
  BY <1>2 DEF ViewOK, Count, FrameDrawn
<1>. QED BY <1>1, <1>2 DEF DrawIfPossible

LEMMA TargetTyped ==
  ASSUME DialogTyped(dialog), ViewOK, NEW k, k \in DOMAIN Targets
  PROVE  Larger(1, Smaller(Targets[k], Count)) \in 1 .. Count
<1>1. Count \in Nat /\ Count >= 1 BY DEF DialogTyped, ViewOK, Count
<1>2. \A i \in Int : Larger(1, Smaller(i, Count)) \in 1 .. Count BY <1>1 DEF Larger, Smaller
<1>3. Targets[k] \in Int
  BY <1>1 DEF Targets, MenuTargets, MessageTargets, ViewOK
<1>. QED BY <1>2, <1>3

LEMMA FoundTyped ==
  ASSUME DialogTyped(dialog), NEW word
  PROVE  find_option(dialog.items, word) \in 0 .. Count
<1>. DEFINE I == {i \in 1 .. Count : IsPrefix(word, lower_label(dialog.items[i].label))}
            found == find_option(dialog.items, word)
<1>1. found = IF I # {} THEN Min(I) ELSE 0 BY DEF find_option, SelectInSeq, Count
<1>2. I \subseteq 1 .. Count /\ Count \in Nat BY DEF DialogTyped, Count
<1>. HIDE DEF I, found
<1>3. found \in 0 .. Count BY <1>1, <1>2, FirstOfSome
<1>. QED BY <1>3 DEF found

LEMMA KeyKeepsView ==
  ASSUME DialogTyped(dialog), ThemeTyped(theme), UNCHANGED <<dialog, theme, size>>,
         ViewOK, SizeOK, NEW k, AppKey(k)
  PROVE  ViewOK' /\ FrameDrawn
<1>1. CASE UNCHANGED <<selected, frames>> BY <1>1 DEF ViewOK, Count, FrameDrawn, frames
<1>2. CASE Redraw /\ selected' \in 1 .. Count
  <2>1. lent \subseteq Buffers /\ SizeOK' BY DEF ViewOK, SizeOK
  <2>. QED BY <1>2, <2>1, DrawTyped DEF Redraw
<1>3. CASE MoveSelection(k) /\ k \in DOMAIN Targets
  BY <1>2, <1>3, TargetTyped DEF MoveSelection
<1>4. CASE Type(k)
  <2>1. find_option(dialog.items, typed') \in 0 .. Count BY FoundTyped
  <2>2. Count \in Nat BY DEF DialogTyped, Count
  <2>. QED BY <1>1, <1>2, <1>4, <2>1, <2>2 DEF Type
<1>. QED BY <1>1, <1>3, <1>4 DEF AppKey, Cancel, Choose, app

LEMMA Bounds == MaxRepeats \in Nat /\ MaxEvents \in Nat
BY DialogAssumption

LEMMA SizesTyped ==
  ASSUME size \in Sizes \cup {<<0, 0>>}
  PROVE  SizeOK
BY DialogAssumption DEF SizeOK

LEMMA WindowTyped ==
  ASSUME TypeInv, pc \notin Starting, pc # "ended"
  PROVE  /\ DialogTyped(dialog) /\ ThemeTyped(theme) /\ ViewOK /\ SizeOK
BY SizesTyped DEF TypeInv, TypeOK, ViewOK, Starting

QueuesOK ==
  inbox \in Seq(EventOf(Keys[dialog.program])) /\ batch \in Seq(EventOf(Keys[dialog.program]))

LEMMA QueuesTaken ==
  ASSUME QueuesOK, batch # <<>>, UNCHANGED dialog, Taken \/ TakenWithoutReleases
  PROVE  QueuesOK' /\ Head(batch) \in EventOf(Keys[dialog.program])
<1>. DEFINE K == Keys[dialog.program]
            E == EventOf(K)
<1>1. inbox \in Seq(E) /\ batch \in Seq(E) BY DEF QueuesOK
<1>2. \A q \in Seq(E) : WithoutReleases(q) \in Seq(E)
  <2>. SUFFICES ASSUME NEW q \in Seq(E) PROVE WithoutReleases(q) \in Seq(E) OBVIOUS
  <2>1. {} \in SUBSET K OBVIOUS
  <2>2. WithoutReleases(q) \in Seq(Unreleasing(K)) BY <2>1, KeptEvents
  <2>. DEFINE U == Unreleasing(K)
  <2>3. U \subseteq E BY DEF Unreleasing
  <2>. HIDE DEF U, E
  <2>. QED BY <2>2, <2>3 DEF U
<1>. HIDE DEF E
<1>3. Tail(batch) \in Seq(E) /\ Head(batch) \in E BY <1>1
<1>4. inbox' \in Seq(E) /\ batch' \in Seq(E)
  BY <1>1, <1>2, <1>3 DEF Taken, TakenWithoutReleases
<1>. QED BY <1>3, <1>4 DEF QueuesOK, E

\* What a handler may change of the types.
HandlerOK ==
  /\ running \in BOOLEAN /\ configured \in BOOLEAN /\ keymap \in BOOLEAN /\ shift \in BOOLEAN
  /\ timer \in {"off", "armed", "fired"} /\ result \in {0, 1}
  /\ repeat_key \in Keys[dialog.program] \cup {NoKey} /\ expired \in 0 .. MaxRepeats
  /\ size \in Sizes \cup {<<0, 0>>} /\ scale \in Scales \cup {1}

LEMMA TypeHandled ==
  ASSUME TypeInv, pc \in {"dispatch", "repeat"}, UNCHANGED <<pc, exit, dialog, theme, lock, held,
                                                             polled, events>>,
         QueuesOK', ViewOK', HandlerOK', left' \in 0 .. MaxRepeats
  PROVE  TypeInv'
<1>1. TypeOK' BY DEF TypeInv, TypeOK, ViewOK, HandlerOK
<1>. QED BY <1>1 DEF TypeInv, QueuesOK, ViewOK, Starting

LEMMA KeyTypes ==
  ASSUME HandlerOK, NEW k, AppKey(k)
  PROVE  running' \in BOOLEAN /\ timer' \in {"off", "armed", "fired"} /\ result' \in {0, 1}
BY DEF HandlerOK, AppKey, Cancel, Choose, MoveSelection, Type, app, typing

LEMMA TypeDispatch ==
  ASSUME TypeInv, Dispatch
  PROVE  TypeInv'
<1>1. pc = "dispatch" /\ batch # <<>> /\ (Taken \/ TakenWithoutReleases)
      /\ UNCHANGED <<pc, exit, dialog, theme, lock, held, polled, events, left>>
  BY DEF Dispatch, Configure, SetScale, Release, KeyDown, KeyUp, Leave, SetRepeat, SetKeymap,
         Modifiers, Closed, Handling, Taken, TakenWithoutReleases, startup
<1>2. /\ DialogTyped(dialog) /\ ThemeTyped(theme) /\ ViewOK /\ SizeOK
      /\ left \in 0 .. MaxRepeats /\ QueuesOK /\ HandlerOK
  <2>1. DialogTyped(dialog) /\ ThemeTyped(theme) /\ ViewOK /\ SizeOK
    BY <1>1, WindowTyped DEF Starting
  <2>. QED BY <2>1 DEF TypeInv, TypeOK, QueuesOK, HandlerOK
<1>3. QueuesOK' /\ Head(batch) \in EventOf(Keys[dialog.program]) BY <1>1, <1>2, QueuesTaken
<1>4. SUFFICES ViewOK' /\ HandlerOK'
  BY <1>1, <1>2, <1>3, TypeHandled
<1>5. CASE Configure \/ SetScale
  <2>1. UNCHANGED <<running, keymap, shift, timer, result, repeat_key, expired, selected>>
    BY <1>5 DEF Configure, SetScale, app, keyboard, typing
  <2>2. configured' \in BOOLEAN /\ size' \in Sizes \cup {<<0, 0>>}
    BY <1>2, <1>3, <1>5 DEF Configure, SetScale, Handling, EventOf, Greeting, HandlerOK
  <2>3. scale' \in Scales \cup {1}
    BY <1>2, <1>3, <1>5 DEF Configure, SetScale, Handling, EventOf, Greeting, HandlerOK
  <2>4. HandlerOK' BY <1>1, <1>2, <2>1, <2>2, <2>3 DEF HandlerOK
  <2>5. SizeOK'
    BY <2>2, DialogAssumption DEF SizeOK
  <2>6. selected' \in 1 .. Count /\ lent \subseteq Buffers BY <1>2, <2>1 DEF ViewOK
  <2>7. CASE Redraw BY <1>1, <1>2, <2>4, <2>5, <2>6, <2>7, DrawTyped DEF Redraw
  <2>8. CASE DestroyBuffersAndRedraw
    <3>. DEFINE due == TRUE
                current == [b \in Buffers |-> NoBuffer]
                away == {}
    <3>1. due \in BOOLEAN /\ away \subseteq Buffers /\ DrawIfPossible(due, current, away)
      BY <2>8 DEF DestroyBuffersAndRedraw
    <3>. HIDE DEF due, current, away
    <3>2. ViewOK' BY <1>1, <1>2, <2>5, <2>6, <3>1, DrawTyped
    <3>. QED BY <2>4, <3>2
  <2>9. CASE UNCHANGED frames BY <1>1, <1>2, <2>1, <2>4, <2>9 DEF ViewOK, frames, Count
  <2>. QED BY <1>5, <2>4, <2>7, <2>8, <2>9 DEF Configure, SetScale
<1>6. CASE Release
  <2>1. UNCHANGED <<running, keymap, shift, timer, result, repeat_key, expired, selected, configured,
                    size, scale>>
    BY <1>6 DEF Release, app, keyboard, typing, geometry
  <2>2. HandlerOK' BY <1>1, <1>2, <2>1 DEF HandlerOK
  <2>3. SizeOK' /\ selected' \in 1 .. Count /\ lent \subseteq Buffers /\ dirty \in BOOLEAN
    BY <1>2, <2>1 DEF ViewOK, SizeOK
  <2>4. PICK freed : DrawIfPossible(dirty, freed, lent) BY <1>6 DEF Release
  <2>5. ViewOK' BY <1>1, <1>2, <2>3, <2>4, DrawTyped
  <2>. QED BY <2>2, <2>5
<1>7. CASE KeyDown
  <2>. DEFINE k == Head(batch).key
  <2>1. /\ UNCHANGED <<keymap, shift, configured, size, scale>> /\ AppKey(k) /\ expired' = 0
        /\ repeat_key' \in {k, NoKey}
    BY <1>7 DEF KeyDown, geometry
  <2>2. k \in Keys[dialog.program]
    BY <1>3, <1>7 DEF KeyDown, Handling, EventOf, Greeting
  <2>3. running' \in BOOLEAN /\ timer' \in {"off", "armed", "fired"} /\ result' \in {0, 1}
    BY <1>2, <2>1, KeyTypes
  <2>4. HandlerOK' BY <1>1, <1>2, <2>1, <2>2, <2>3, DialogAssumption DEF HandlerOK
  <2>5. ViewOK' BY <1>1, <1>2, <2>1, KeyKeepsView
  <2>. QED BY <2>4, <2>5
<1>8. CASE KeyUp \/ Leave \/ SetRepeat \/ SetKeymap \/ Modifiers \/ Closed
  <2>1. UNCHANGED <<configured, size, scale, frames, selected, timer>>
    BY <1>8 DEF KeyUp, Leave, SetRepeat, SetKeymap, Modifiers, Closed, Cancel, app, typing, geometry
  <2>2. ViewOK' BY <1>1, <1>2, <2>1 DEF ViewOK, frames, Count
  <2>3. repeat_key' \in {repeat_key, NoKey} /\ expired' \in {expired, 0}
    BY <1>8 DEF KeyUp, Leave, SetRepeat, SetKeymap, Modifiers, Closed, Cancel, StopRepeat, keyboard
  <2>4. running' \in {running, FALSE} /\ result' \in {result, 1}
    BY <1>8 DEF KeyUp, Leave, SetRepeat, SetKeymap, Modifiers, Closed, Cancel, app
  <2>5. keymap' \in BOOLEAN /\ shift' \in BOOLEAN
    BY <1>2, <1>3, <1>8 DEF KeyUp, Leave, SetRepeat, SetKeymap, Modifiers, Closed, keyboard,
                            HandlerOK, Handling, EventOf, Greeting
  <2>6. 0 \in 0 .. MaxRepeats BY Bounds
  <2>7. HandlerOK' BY <1>1, <1>2, <2>1, <2>3, <2>4, <2>5, <2>6 DEF HandlerOK
  <2>. QED BY <2>2, <2>7
<1>. QED BY <1>5, <1>6, <1>7, <1>8 DEF Dispatch

\* One event more.
LEMMA Sent ==
  ASSUME QueuesOK, UNCHANGED <<dialog, batch>>, NEW e \in EventOf(Keys[dialog.program]),
         inbox' = Append(inbox, e)
  PROVE  QueuesOK'
<1>. DEFINE E == EventOf(Keys[dialog.program])
<1>1. inbox \in Seq(E) /\ e \in E BY DEF QueuesOK
<1>. HIDE DEF E
<1>2. inbox' \in Seq(E) BY <1>1
<1>. QED BY <1>2 DEF QueuesOK, E

LEMMA TypeSend ==
  ASSUME TypeInv, Send \/ (\E b \in Buffers : SendRelease(b))
  PROVE  TypeInv'
<1>. DEFINE K == Keys[dialog.program]
<1>1. pc = "poll" /\ UNCHANGED <<pc, exit, startup, app, keyboard, geometry, scroll, rows, dirty,
                                 surface, batch, polled, left, held>>
  BY DEF Send, SendRelease, frames, ghosts
<1>2. QueuesOK /\ held \in SUBSET K BY DEF TypeInv, TypeOK, QueuesOK
<1>3. events' \in 0 .. MaxEvents
  <2>1. events \in 0 .. MaxEvents BY DEF TypeInv, TypeOK
  <2>2. events' = events \/ (events < MaxEvents /\ events' = events + 1)
    BY DEF Send, SendRelease, ghosts
  <2>. QED BY <2>1, <2>2, Bounds
<1>4. lent' \subseteq Buffers BY DEF Send, SendRelease, frames, TypeInv, TypeOK
<1>5. QueuesOK'
  <2>1. CASE Send
    <3>1. PICK e \in Events : inbox' = Append(inbox, e) BY <2>1 DEF Send
    <3>2. Down(held, inbox) \in SUBSET K BY <1>2, DownTyped DEF QueuesOK
    <3>3. e \in EventOf(K)
      <4>. DEFINE down == Down(held, inbox)
                  keys == IF surface = NoFrame THEN {} ELSE K
      <4>1. keys \subseteq K /\ down \subseteq K BY <3>2
      <4>2. e \in [kind : {"configure"}, size : Sizes] \cup [kind : {"scale"}, scale : Scales]
                    \cup [kind : {"down"}, key : keys \ down] \cup [kind : {"up"}, key : down]
                    \cup [kind : {"repeat_info"}, rate : {0, 25} \ {repeat_rate}]
                    \cup [kind : {"modifiers"}, shift : {~shift}]
                    \cup [kind : {"leave", "closed"}]
        BY <3>1 DEF Events
      <4>. HIDE DEF down, keys, K
      <4>3. CASE e \in [kind : {"configure"}, size : Sizes] \cup [kind : {"scale"}, scale : Scales]
        BY <4>3 DEF EventOf, Greeting
      <4>4. CASE e \in [kind : {"down"}, key : keys \ down] \cup [kind : {"up"}, key : down]
        BY <4>1, <4>4 DEF EventOf
      <4>5. CASE e \in [kind : {"repeat_info"}, rate : {0, 25} \ {repeat_rate}]
        BY <4>5 DEF EventOf
      <4>6. CASE e \in [kind : {"modifiers"}, shift : {~shift}]
        BY <4>6 DEF EventOf
      <4>7. CASE e \in [kind : {"leave", "closed"}]
        BY <4>7 DEF EventOf
      <4>. QED BY <4>2, <4>3, <4>4, <4>5, <4>6, <4>7
    <3>4. UNCHANGED <<dialog, batch>> BY <1>1 DEF startup
    <3>. QED BY <1>2, <3>1, <3>3, <3>4, Sent
  <2>2. CASE \E b \in Buffers : SendRelease(b)
    <3>1. PICK b \in Buffers : inbox' = Append(inbox, [kind |-> "release", buffer |-> b])
      BY <2>2 DEF SendRelease
    <3>2. [kind |-> "release", buffer |-> b] \in EventOf(K) BY DEF EventOf
    <3>3. UNCHANGED <<dialog, batch>> BY <1>1 DEF startup
    <3>. QED BY <1>2, <3>1, <3>2, <3>3, Sent
  <2>. QED BY <2>1, <2>2
<1>6. TypeOK'
  BY <1>1, <1>3, <1>4 DEF TypeInv, TypeOK, startup, app, keyboard, geometry, typing, Count
<1>. QED BY <1>1, <1>5, <1>6 DEF TypeInv, QueuesOK, startup, Starting

LEMMA TypeStart ==
  ASSUME TypeInv, ReadInput \/ TakeLock \/ LoadTheme \/ Connect
  PROVE  TypeInv'
<1>1. CASE ReadInput
  <2>1. pc = "read" /\ pc' \in {"lock", "ended"}
        /\ UNCHANGED <<theme, scroll, rows, typing, result, running, keyboard, geometry, dirty, surface,
                       lent, inbox, batch, polled, left, held, events>>
    BY <1>1 DEF ReadInput, Exit, ghosts
  <2>2. inbox = <<>> /\ batch = <<>> /\ held = {} /\ repeat_key = NoKey /\ scroll = 1 /\ rows >= 1
        /\ dialog = Unreadable /\ exit = -1 /\ lock \in BOOLEAN
    BY <2>1 DEF TypeInv, TypeOK, Starting
  <2>3. \/ /\ dialog' # Unreadable /\ DialogTyped(dialog') /\ selected' = dialog'.selected
           /\ pc' = "lock" /\ exit' = exit /\ lock' = lock
        \/ /\ dialog' = dialog /\ selected' = selected
           /\ pc' = "ended" /\ exit' = 2 /\ lock' = FALSE
    <3>1. ASSUME NEW input \in Inputs, Read(input) # Unreadable PROVE DialogTyped(Read(input))
      <4>1. InputTyped(input.text.v) BY DialogAssumption
      <4>. QED BY <3>1, <4>1, MenuTyped, MessageTyped DEF Read
    <3>. QED BY <1>1, <3>1 DEF ReadInput, Exit
  <2>4. QueuesOK'
    <3>1. \A S : <<>> \in Seq(S) OBVIOUS
    <3>. QED BY <2>1, <2>2, <3>1 DEF QueuesOK
  <2>5. dialog' # Unreadable => selected' \in 1 .. Count' /\ scroll' \in 1 .. Count'
    BY <2>1, <2>2, <2>3 DEF DialogTyped, Count
  <2>6. lock' \in BOOLEAN /\ exit' \in -1 .. 2 /\ (exit' = -1 <=> pc' # "ended")
    <3>1. lock' \in BOOLEAN BY <2>2, <2>3
    <3>2. (pc' = "lock" /\ exit' = exit) \/ (pc' = "ended" /\ exit' = 2) BY <2>3
    <3>. QED BY <2>2, <3>1, <3>2
  <2>7. repeat_key' \in Keys[dialog'.program] \cup {NoKey} /\ held' \subseteq Keys[dialog'.program]
    BY <2>1, <2>2 DEF keyboard
  <2>8. rows' >= 1 BY <2>1, <2>2
  <2>9. TypeOK'
    BY <2>1, <2>5, <2>6, <2>7, <2>8 DEF TypeInv, TypeOK, keyboard, geometry, typing
  <2>. QED BY <2>1, <2>2, <2>3, <2>4, <2>9 DEF TypeInv, QueuesOK, Starting, keyboard
<1>2. CASE TakeLock
  <2>1. /\ pc = "lock" /\ pc' \in {"theme", "ended"}
        /\ UNCHANGED <<dialog, theme, app, keyboard, geometry, frames, inbox, batch, polled, left,
                       held, events>>
    BY <1>2 DEF TakeLock, Exit, ghosts
  <2>2. exit = -1 /\ lock \in BOOLEAN BY <2>1 DEF TypeInv, TypeOK
  <2>3. lock' \in BOOLEAN /\ exit' \in -1 .. 2 /\ (exit' = -1 <=> pc' # "ended")
    <3>1. lock' \in BOOLEAN BY <1>2 DEF TakeLock, Exit
    <3>2. (pc' = "theme" /\ exit' = exit) \/ (pc' = "ended" /\ exit' \in {1, 2})
      BY <1>2 DEF TakeLock, Exit
    <3>. QED BY <2>2, <3>1, <3>2
  <2>4. TypeOK'
    BY <2>1, <2>3 DEF TypeInv, TypeOK, app, keyboard, geometry, frames, typing, Count
  <2>. QED BY <2>1, <2>4 DEF TypeInv, Starting, frames, keyboard
<1>3. CASE LoadTheme
  <2>1. /\ pc = "theme" /\ pc' = "connect"
        /\ UNCHANGED <<exit, dialog, lock, app, keyboard, geometry, frames, inbox, batch, polled,
                       left, held, events>>
    BY <1>3 DEF LoadTheme, ghosts
  <2>2. ThemeTyped(theme') BY <1>3, DialogAssumption, ThemeLoaded DEF LoadTheme
  <2>3. TypeOK'
    BY <2>1 DEF TypeInv, TypeOK, app, keyboard, geometry, frames, typing, Count
  <2>. QED BY <2>1, <2>2, <2>3 DEF TypeInv, Starting, frames, keyboard
<1>4. CASE Connect
  <2>1. /\ pc = "connect" /\ pc' \in {"poll", "ended"}
        /\ UNCHANGED <<dialog, theme, app, keyboard, geometry, frames, batch, polled, left, held,
                       events>>
        /\ (inbox' = inbox \/ inbox' \in Greetings)
    BY <1>4 DEF Connect, Exit, ghosts
  <2>2. inbox' \in Seq(EventOf(Keys[dialog.program]))
    <3>. DEFINE E == EventOf(Keys[dialog.program])
    <3>1. Greetings \subseteq Seq(Greeting) BY DialogAssumption
    <3>2. Greeting \subseteq E BY DEF EventOf
    <3>3. inbox \in Seq(E) BY DEF TypeInv
    <3>. HIDE DEF E
    <3>4. inbox' \in Seq(E) BY <2>1, <3>1, <3>2, <3>3
    <3>. QED BY <3>4 DEF E
  <2>3. exit = -1 /\ lock \in BOOLEAN BY <2>1 DEF TypeInv, TypeOK
  <2>4. lock' \in BOOLEAN /\ exit' \in -1 .. 2 /\ (exit' = -1 <=> pc' # "ended")
    <3>1. lock' \in BOOLEAN BY <1>4, <2>3 DEF Connect, Exit
    <3>2. (pc' = "poll" /\ exit' = exit) \/ (pc' = "ended" /\ exit' = 2)
      BY <1>4 DEF Connect, Exit
    <3>. QED BY <2>3, <3>1, <3>2
  <2>5. TypeOK'
    BY <2>1, <2>4 DEF TypeInv, TypeOK, app, keyboard, geometry, frames, typing, Count
  <2>. QED BY <2>1, <2>2, <2>5 DEF TypeInv, Starting, frames, keyboard
<1>. QED BY <1>1, <1>2, <1>3, <1>4

LEMMA TypePoll ==
  ASSUME TypeInv, Poll
  PROVE  TypeInv'
<1>. DEFINE K == Keys[dialog.program]
            E == EventOf(K)
<1>1. pc = "poll" /\ pc' = "dispatch" /\ batch' = inbox /\ inbox' = <<>> /\ held' = Down(held, inbox)
      /\ polled' \subseteq {"repeat", "timer"}
      /\ UNCHANGED <<exit, startup, app, keyboard, geometry, frames, left, events>>
  BY DEF Poll
<1>2. inbox \in Seq(E) /\ held \in SUBSET K BY DEF TypeInv, TypeOK
<1>3. held' \subseteq K
  <2>. HIDE DEF K
  <2>1. Down(held, inbox) \in SUBSET K BY <1>2, DownTyped
  <2>. QED BY <1>1, <2>1
<1>4. QueuesOK'
  <2>. HIDE DEF E
  <2>1. <<>> \in Seq(E) /\ inbox \in Seq(E) BY <1>2
  <2>. QED BY <1>1, <2>1 DEF QueuesOK, E, startup
<1>5. TypeOK'
  BY <1>1, <1>3 DEF TypeInv, TypeOK, startup, app, keyboard, geometry, frames, typing, Count
<1>. QED BY <1>1, <1>4, <1>5 DEF TypeInv, QueuesOK, Starting, startup, frames

LEMMA TypeLoop ==
  ASSUME TypeInv, Dispatched \/ Repeated \/ TimerRead \/ Break
  PROVE  TypeInv'
<1>1. /\ pc \in {"poll", "dispatch", "repeat", "timer"}
      /\ pc' \in {"poll", "repeat", "timer", "ended"}
      /\ UNCHANGED <<dialog, theme, selected, result, running, keymap, shift, repeat_key, geometry,
                     frames, inbox, batch,
                     held, events>>
  BY DEF Dispatched, Repeated, TimerRead, Break, Exit, startup, app, keyboard, ghosts
<1>2. /\ expired \in 0 .. MaxRepeats /\ left \in 0 .. MaxRepeats /\ lock \in BOOLEAN
      /\ timer \in {"off", "armed", "fired"} /\ polled \subseteq {"repeat", "timer"}
      /\ result \in {0, 1} /\ exit = -1
  BY <1>1 DEF TypeInv, TypeOK
<1>3. 0 \in 0 .. MaxRepeats BY Bounds
<1>4. expired' \in 0 .. MaxRepeats /\ left' \in 0 .. MaxRepeats
  BY <1>2, <1>3 DEF Dispatched, Repeated, TimerRead, Break, keyboard
<1>5. timer' \in {"off", "armed", "fired"} /\ polled' \subseteq {"repeat", "timer"}
  BY <1>2 DEF Dispatched, Repeated, TimerRead, Break, app, typing
<1>6. lock' \in BOOLEAN BY <1>2 DEF Dispatched, Repeated, TimerRead, Break, Exit, startup
<1>7. exit' \in -1 .. 2 /\ (exit' = -1 <=> pc' # "ended")
  <2>1. (pc' # "ended" /\ exit' = exit) \/ (pc' = "ended" /\ exit' \in {result, 2})
    BY DEF Dispatched, Repeated, TimerRead, Break, Exit, startup
  <2>. QED BY <1>2, <2>1
<1>8. TypeOK'
  BY <1>1, <1>4, <1>5, <1>6, <1>7 DEF TypeInv, TypeOK, geometry, frames, Count
<1>. QED BY <1>1, <1>8 DEF TypeInv, Starting, frames

LEMMA TypeRepeat ==
  ASSUME TypeInv, Repeat
  PROVE  TypeInv'
<1>1. /\ pc = "repeat" /\ AppKey(repeat_key) /\ left > 0 /\ left' = left - 1
      /\ UNCHANGED <<pc, exit, dialog, theme, lock, held, polled, events, inbox, batch,
                     keymap, shift, repeat_key, expired, configured, size, scale>>
  BY DEF Repeat, startup, keyboard, geometry, ghosts
<1>2. DialogTyped(dialog) /\ ThemeTyped(theme) /\ ViewOK /\ SizeOK
  BY <1>1, WindowTyped DEF Starting
<1>3. QueuesOK /\ HandlerOK /\ left \in 0 .. MaxRepeats
  BY DEF TypeInv, TypeOK, QueuesOK, HandlerOK
<1>4. ViewOK' BY <1>1, <1>2, KeyKeepsView
<1>5. running' \in BOOLEAN /\ timer' \in {"off", "armed", "fired"} /\ result' \in {0, 1}
  BY <1>1, <1>3, KeyTypes
<1>6. HandlerOK' BY <1>1, <1>3, <1>5 DEF HandlerOK
<1>7. QueuesOK' BY <1>1, <1>3 DEF QueuesOK
<1>8. left' \in 0 .. MaxRepeats BY <1>1, <1>3, Bounds
<1>. QED BY <1>1, <1>4, <1>6, <1>7, <1>8, TypeHandled

LEMMA TypeTimers ==
  ASSUME TypeInv, Tick \/ Pause \/ UNCHANGED vars
  PROVE  TypeInv'
<1>1. UNCHANGED <<pc, exit, dialog, theme, lock, selected, result, running, keymap, shift,
                  repeat_key, geometry, frames, inbox,
                  batch, polled, left, held, events>>
  BY DEF Tick, Pause, vars, startup, view, app, keyboard, geometry, frames, ghosts
<1>2. expired' = expired \/ (expired < MaxRepeats /\ expired' = expired + 1)
  BY DEF Tick, Pause, vars, keyboard
<1>3. timer' = timer \/ timer' = "fired"
  BY DEF Tick, Pause, vars, typing, app
<1>4. expired' \in 0 .. MaxRepeats
  <2>1. expired \in 0 .. MaxRepeats BY DEF TypeInv, TypeOK
  <2>. QED BY <1>2, <2>1, Bounds
<1>5. TypeOK'
  BY <1>1, <1>3, <1>4 DEF TypeInv, TypeOK, geometry, frames, Count
<1>. QED BY <1>1, <1>5 DEF TypeInv, Starting, frames

LEMMA TypeNext == TypeInv /\ [Next]_vars => TypeInv'
BY TypeStart, TypePoll, TypeDispatch, TypeLoop, TypeRepeat, TypeSend, TypeTimers DEF Next, Program

\* Whatever is read, sent and pressed: the selection is an item of the dialog, the rows
\* of a menu start at an item and there is at least one, and the keys are those there are.
THEOREM TypeCorrect == Spec => []TypeOK
<1>1. TypeInv => TypeOK BY DEF TypeInv
<1>. QED BY <1>1, TypeInit, TypeNext, PTL DEF Spec

-----------------------------------------------------------------------------
(* Frames                                                                  *)

IsBuffer(r) ==
  r = [made |-> r.made, busy |-> r.busy, size |-> r.size, scale |-> r.scale]

\* A pair of buffers of the size and scale of the window, where they are made.
Fit(pair, to, by) ==
  /\ pair = [b \in Buffers |-> pair[b]]
  /\ \A b \in Buffers :
       IsBuffer(pair[b]) /\ (pair[b].made => pair[b].size = to /\ pair[b].scale = by)

\* No frame is lost because the buffers that are made always are of the size and
\* scale there are: a frame drawn into one shows what is wanted.
FrameInv ==
  /\ NoLostFrame
  /\ Fit(buffers, size, scale)
  /\ dirty \in BOOLEAN
  /\ pc = "read" => ~configured

LEMMA NoBuffersFit ==
  ASSUME NEW to, NEW by
  PROVE  Fit([b \in Buffers |-> NoBuffer], to, by)
BY DEF Fit, IsBuffer, NoBuffer

LEMMA FreedFits ==
  ASSUME NEW pair, NEW to, NEW by, NEW n, Fit(pair, to, by)
  PROVE  Fit([pair EXCEPT ![n].busy = FALSE], to, by)
<1>. DEFINE freed == [pair EXCEPT ![n].busy = FALSE]
<1>1. pair = [b \in Buffers |-> pair[b]] BY DEF Fit
<1>2. freed = [b \in Buffers |-> IF b = n THEN [pair[b] EXCEPT !.busy = FALSE] ELSE pair[b]]
  BY <1>1
<1>3. ASSUME NEW b \in Buffers
      PROVE  IsBuffer(freed[b]) /\ (freed[b].made => freed[b].size = to /\ freed[b].scale = by)
  <2>1. pair[b] = [made |-> pair[b].made, busy |-> pair[b].busy, size |-> pair[b].size,
                   scale |-> pair[b].scale]
    BY DEF Fit, IsBuffer
  <2>2. [pair[b] EXCEPT !.busy = FALSE] =
          [made |-> pair[b].made, busy |-> FALSE, size |-> pair[b].size, scale |-> pair[b].scale]
    <3>. DEFINE old == pair[b]
                made == pair[b].made
                busy == pair[b].busy
                area == pair[b].size
                factor == pair[b].scale
                no == FALSE
    <3>1. old = [made |-> made, busy |-> busy, size |-> area, scale |-> factor] BY <2>1
    <3>2. \A given : [old EXCEPT !.busy = given] =
                       [made |-> made, busy |-> given, size |-> area, scale |-> factor]
      <4>. HIDE DEF old, made, busy, area, factor
      <4>. QED BY <3>1
    <3>. HIDE DEF no
    <3>3. [pair[b] EXCEPT !.busy = no] =
            [made |-> pair[b].made, busy |-> no, size |-> pair[b].size, scale |-> pair[b].scale]
      BY <3>2
    <3>. QED BY <3>3 DEF no
  <2>3. CASE b = n
    <3>1. freed[b] = [made |-> pair[b].made, busy |-> FALSE, size |-> pair[b].size,
                      scale |-> pair[b].scale]
      BY <1>2, <2>2, <2>3
    <3>. QED BY <3>1 DEF Fit, IsBuffer
  <2>4. CASE b # n
    <3>1. freed[b] = pair[b] BY <1>2, <2>4
    <3>. QED BY <3>1 DEF Fit
  <2>. QED BY <2>3, <2>4
<1>4. freed = [b \in Buffers |-> freed[b]] BY <1>2
<1>. QED BY <1>3, <1>4 DEF Fit

\* What draw_if_possible leaves, when what is not due is on the screen already.
LEMMA DrawsOrWaits ==
  ASSUME NEW due \in BOOLEAN, NEW current, NEW held_back,
         DrawIfPossible(due, current, held_back), Fit(current, size', scale'),
         ~due /\ Drawable' => Shown = Wanted'
  PROVE  /\ NoLostFrame' /\ Fit(buffers', size', scale') /\ dirty' \in BOOLEAN
         /\ \/ UNCHANGED <<scroll, rows, surface>>
            \/ surface' = [selected |-> selected', scroll |-> scroll', rows |-> rows',
                           size |-> size', scale |-> scale']
<1>. DEFINE free == {b \in Buffers : ~current[b].busy}
            first == CHOOSE b \in free : \A c \in free : b <= c
            drawable == configured' /\ due /\ size'[1] > 0 /\ size'[2] > 0
<1>1. CASE /\ drawable /\ free # {}
           /\ buffers' = [b \in Buffers |->
                IF b > first THEN current[b]
                ELSE [Made(current[b]) EXCEPT !.busy = (b = first) \/ current[b].busy]]
           /\ Draw(first, held_back)
           /\ dirty' = FALSE
  <2>1. \E b \in free : \A c \in free : b <= c
    <3>1. free \subseteq {1, 2} BY DEF Buffers
    <3>. QED BY <1>1, <3>1
  <2>2. first \in free /\ first \in Buffers BY <2>1
  <2>. HIDE DEF first, free
  <2>3. ASSUME NEW b \in Buffers
        PROVE  /\ IsBuffer(buffers'[b])
               /\ buffers'[b].made => buffers'[b].size = size' /\ buffers'[b].scale = scale'
               /\ b = first => buffers'[b].size = size' /\ buffers'[b].scale = scale'
    <3>1. IsBuffer(current[b])
          /\ (current[b].made => current[b].size = size' /\ current[b].scale = scale')
      BY DEF Fit
    <3>2. CASE b > first
      <4>1. b # first /\ buffers'[b] = current[b] BY <1>1, <2>2, <3>2 DEF Buffers
      <4>. QED BY <3>1, <4>1
    <3>3. CASE ~(b > first)
      <4>. DEFINE made == Made(current[b])
                  now == (b = first) \/ current[b].busy
      <4>1. made = [made |-> made.made, busy |-> made.busy, size |-> size', scale |-> scale']
        BY <3>1 DEF Made, IsBuffer
      <4>. HIDE DEF made, now
      <4>2. buffers'[b] = [made EXCEPT !.busy = now] BY <1>1, <3>3 DEF made, now
      <4>3. buffers'[b] = [made |-> made.made, busy |-> now, size |-> size', scale |-> scale']
        BY <4>1, <4>2
      <4>. QED BY <4>3 DEF IsBuffer
    <3>. QED BY <3>2, <3>3
  <2>4. buffers' = [b \in Buffers |-> buffers'[b]] BY <1>1
  <2>5. Fit(buffers', size', scale') BY <2>3, <2>4 DEF Fit
  <2>6. surface' = [selected |-> selected', scroll |-> scroll', rows |-> rows',
                    size |-> size', scale |-> scale']
    BY <1>1, <2>2, <2>3 DEF Draw
  <2>7. Shown' = Wanted' BY <2>6 DEF Shown, Wanted
  <2>. QED BY <1>1, <2>5, <2>6, <2>7 DEF NoLostFrame
<1>2. CASE /\ ~drawable \/ free = {}
           /\ dirty' = due
           /\ buffers' = current
           /\ lent' = held_back
           /\ UNCHANGED <<scroll, rows, surface>>
  <2>1. Fit(buffers', size', scale') /\ dirty' \in BOOLEAN BY <1>2
  <2>2. ASSUME Drawable', dirty' PROVE \A b \in Buffers : buffers'[b].busy
    BY <1>2, <2>2 DEF Drawable
  <2>3. ASSUME Drawable', ~dirty' PROVE Shown' = Wanted'
    <3>1. Shown' = Shown BY <1>2 DEF Shown
    <3>. QED BY <1>2, <2>3, <3>1
  <2>. QED BY <1>2, <2>1, <2>2, <2>3 DEF NoLostFrame
<1>. QED BY <1>1, <1>2 DEF DrawIfPossible

LEMMA FrameInit == Init => FrameInv
<1>. SUFFICES ASSUME Init PROVE FrameInv
  OBVIOUS
<1>1. Fit(buffers, size, scale) BY NoBuffersFit DEF Init
<1>. QED BY <1>1 DEF Init, FrameInv, NoLostFrame, Drawable

LEMMA FrameStays ==
  ASSUME FrameInv, UNCHANGED <<selected, geometry, dirty, buffers, surface>>, pc' # "read"
  PROVE  FrameInv'
BY DEF FrameInv, NoLostFrame, Drawable, Shown, Wanted, geometry

\* A key of either program, pressed or repeated.
LEMMA FrameKey ==
  ASSUME FrameInv, NEW k, AppKey(k), UNCHANGED geometry, pc' # "read"
  PROVE  FrameInv'
<1>1. UNCHANGED <<configured, size, scale>> BY DEF geometry
<1>2. CASE UNCHANGED <<selected, frames>> BY <1>2, FrameStays DEF frames
<1>3. CASE Redraw
  <2>1. DrawIfPossible(TRUE, buffers, lent) BY <1>3 DEF Redraw
  <2>2. Fit(buffers, size', scale') BY <1>1 DEF FrameInv
  <2>3. NoLostFrame' /\ Fit(buffers', size', scale') /\ dirty' \in BOOLEAN
    BY <2>1, <2>2, DrawsOrWaits
  <2>. QED BY <2>3 DEF FrameInv
<1>. QED BY <1>2, <1>3 DEF AppKey, Cancel, Choose, MoveSelection, Type, app

LEMMA FrameGeometry ==
  ASSUME FrameInv, Configure \/ SetScale
  PROVE  FrameInv'
<1>1. pc = "dispatch" /\ pc' = "dispatch" /\ UNCHANGED selected
  BY DEF Configure, SetScale, Handling, Taken, TakenWithoutReleases, app
<1>2. CASE UNCHANGED <<geometry, frames>> BY <1>1, <1>2, FrameStays DEF frames
<1>3. CASE Redraw /\ UNCHANGED <<size, scale>>
  <2>1. DrawIfPossible(TRUE, buffers, lent) BY <1>3 DEF Redraw
  <2>2. Fit(buffers, size', scale') BY <1>3 DEF FrameInv
  <2>3. NoLostFrame' /\ Fit(buffers', size', scale') /\ dirty' \in BOOLEAN
    BY <2>1, <2>2, DrawsOrWaits
  <2>. QED BY <1>1, <2>3 DEF FrameInv
<1>4. CASE DestroyBuffersAndRedraw
  <2>1. DrawIfPossible(TRUE, [b \in Buffers |-> NoBuffer], {}) BY <1>4 DEF DestroyBuffersAndRedraw
  <2>2. NoLostFrame' /\ Fit(buffers', size', scale') /\ dirty' \in BOOLEAN
    BY <2>1, NoBuffersFit, DrawsOrWaits
  <2>. QED BY <1>1, <2>2 DEF FrameInv
<1>5. CASE Configure
  BY <1>3, <1>4, <1>5 DEF Configure
<1>6. CASE SetScale
  BY <1>2, <1>4, <1>6 DEF SetScale, geometry
<1>. QED BY <1>5, <1>6

LEMMA FrameRelease ==
  ASSUME FrameInv, Release
  PROVE  FrameInv'
<1>. DEFINE freed == [buffers EXCEPT ![Head(batch).buffer].busy = FALSE]
<1>1. /\ pc' = "dispatch" /\ UNCHANGED <<selected, configured, size, scale>>
      /\ DrawIfPossible(dirty, freed, lent)
  BY DEF Release, Handling, Taken, geometry, app
<1>2. Fit(freed, size', scale') BY <1>1, FreedFits DEF FrameInv
<1>3. ~dirty /\ Drawable' => Shown = Wanted'
  BY <1>1 DEF FrameInv, NoLostFrame, Drawable, Wanted
<1>. HIDE DEF freed
<1>4. NoLostFrame' /\ Fit(buffers', size', scale') /\ dirty' \in BOOLEAN
  BY <1>1, <1>2, <1>3, DrawsOrWaits DEF FrameInv
<1>. QED BY <1>1, <1>4 DEF FrameInv

LEMMA FrameNext == FrameInv /\ [Next]_vars => FrameInv'
<1>. SUFFICES ASSUME FrameInv, [Next]_vars PROVE FrameInv'
  OBVIOUS
<1>1. CASE ReadInput
  <2>1. /\ pc = "read" /\ UNCHANGED <<configured, size, scale, dirty, buffers>>
        /\ pc' # "read"
    BY <1>1 DEF ReadInput, Exit, geometry
  <2>2. ~Drawable' BY <2>1 DEF FrameInv, Drawable
  <2>. QED BY <2>1, <2>2 DEF FrameInv, NoLostFrame
<1>2. CASE TakeLock \/ LoadTheme \/ Connect \/ Break
  <2>1. UNCHANGED <<selected, geometry, dirty, buffers, surface>> /\ pc' # "read"
    BY <1>2 DEF TakeLock, LoadTheme, Connect, Break, Exit, app, frames
  <2>. QED BY <2>1, FrameStays
<1>3. CASE Poll \/ Dispatched \/ Repeated \/ TimerRead
  <2>1. UNCHANGED <<selected, geometry, dirty, buffers, surface>> /\ pc' # "read"
    BY <1>3 DEF Poll, Dispatched, Repeated, TimerRead, Exit, app, frames
  <2>. QED BY <2>1, FrameStays
<1>4. CASE Configure \/ SetScale BY <1>4, FrameGeometry
<1>5. CASE Release BY <1>5, FrameRelease
<1>6. CASE KeyDown
  <2>1. AppKey(Head(batch).key) /\ UNCHANGED geometry /\ pc' # "read"
    BY <1>6 DEF KeyDown, Handling, Taken
  <2>. QED BY <2>1, FrameKey
<1>7. CASE Repeat
  <2>1. AppKey(repeat_key) /\ UNCHANGED geometry /\ pc' # "read" BY <1>7 DEF Repeat
  <2>. QED BY <2>1, FrameKey
<1>8. CASE KeyUp \/ Leave \/ SetRepeat \/ SetKeymap \/ Modifiers \/ Closed
  <2>1. UNCHANGED <<selected, geometry, dirty, buffers, surface>> /\ pc' # "read"
    BY <1>8 DEF KeyUp, Leave, SetRepeat, SetKeymap, Modifiers, Closed, Cancel, Handling, Taken, app,
                frames
  <2>. QED BY <2>1, FrameStays
<1>9. CASE Send \/ Tick \/ Pause \/ (\E b \in Buffers : SendRelease(b)) \/ UNCHANGED vars
  <2>1. UNCHANGED <<selected, geometry, dirty, buffers, surface, pc>>
    BY <1>9 DEF Send, Tick, Pause, SendRelease, vars, view, app, frames, geometry
  <2>2. CASE pc # "read" BY <2>1, <2>2, FrameStays
  <2>3. CASE pc = "read"
    <3>1. ~Drawable' BY <2>1, <2>3 DEF FrameInv, Drawable, geometry
    <3>. QED BY <2>1, <3>1 DEF FrameInv, NoLostFrame, geometry
  <2>. QED BY <2>2, <2>3
<1>. QED BY <1>1, <1>2, <1>3, <1>4, <1>5, <1>6, <1>7, <1>8, <1>9 DEF Next, Program, Dispatch

\* Whatever the compositor sends in whatever order: the screen has the selection at
\* the size and scale there are, or both buffers are away and the frame is due.
THEOREM FrameNeverLost == Spec => []NoLostFrame
<1>1. FrameInv => NoLostFrame BY DEF FrameInv
<1>. QED BY <1>1, FrameInit, FrameNext, PTL DEF Spec

-----------------------------------------------------------------------------
(* Typing                                                                  *)

\* What is typed is a word of letters, and the word finds the selection or nothing.
Small == {lower_char(c) : c \in Letters}
TypedInv ==
  /\ typed \in Seq(Small)
  /\ TypedIsSelected
  /\ pc = "read" => typed = <<>>

LEMMA Longer ==
  ASSUME NEW word \in Seq(Small), NEW c \in Small
  PROVE  Append(word, c) \in Seq(Small) /\ Append(word, c) # <<>>
<1>. DEFINE S == Small
<1>. HIDE DEF S
<1>1. word \in Seq(S) /\ c \in S BY DEF S
<1>2. Append(word, c) \in Seq(S) /\ Len(Append(word, c)) = Len(word) + 1 /\ Len(word) \in Nat
  BY <1>1
<1>3. Append(word, c) # <<>> BY <1>2
<1>. QED BY <1>2, <1>3 DEF S

LEMMA TypedInit == Init => TypedInv
<1>. SUFFICES ASSUME Init PROVE TypedInv
  OBVIOUS
<1>1. typed = <<>> /\ timer = "off" BY DEF Init
<1>. QED BY <1>1 DEF TypedInv, TypedIsSelected

LEMMA TypedStays ==
  ASSUME TypedInv, UNCHANGED <<dialog, selected, typed, timer>>, pc' # "read"
  PROVE  TypedInv'
BY DEF TypedInv, TypedIsSelected

LEMMA TypedEnds ==
  ASSUME typed' = <<>>, timer' = "off"
  PROVE  TypedInv'
BY DEF TypedInv, TypedIsSelected

LEMMA TypedKey ==
  ASSUME TypedInv, NEW k, AppKey(k), UNCHANGED dialog, pc' # "read"
  PROVE  TypedInv'
<1>1. CASE UNCHANGED <<selected, typed, timer>> BY <1>1, TypedStays
<1>2. CASE MoveSelection(k) BY <1>2, TypedEnds DEF MoveSelection
<1>3. CASE Types(k) /\ Type(k)
  <2>. DEFINE c == lower_char(keysym(k))
              found == find_option(dialog.items, typed')
  <2>1. c \in Small BY <1>3 DEF Types, Small
  <2>2. typed' = Append(typed, c) /\ timer' = "armed" BY <1>3 DEF Type
  <2>3. found \in {0, selected'}
    BY <1>3 DEF Type
  <2>. HIDE DEF c
  <2>4. typed' \in Seq(Small) /\ typed' # <<>> BY <2>1, <2>2, Longer DEF TypedInv
  <2>. QED BY <2>2, <2>3, <2>4 DEF TypedInv, TypedIsSelected
<1>. QED BY <1>1, <1>2, <1>3 DEF AppKey, Cancel, Choose, app, typing

LEMMA TypedNext == TypedInv /\ [Next]_vars => TypedInv'
<1>. SUFFICES ASSUME TypedInv, [Next]_vars PROVE TypedInv'
  OBVIOUS
<1>1. CASE ReadInput
  <2>1. typed' = <<>> /\ timer' = "off"
    BY <1>1 DEF ReadInput, typing, TypedInv, TypedIsSelected
  <2>. QED BY <2>1, TypedEnds
<1>2. CASE TakeLock \/ LoadTheme \/ Connect \/ Break
  <2>1. UNCHANGED <<dialog, selected, typed, timer>> /\ pc' # "read"
    BY <1>2 DEF TakeLock, LoadTheme, Connect, Break, Exit, app, typing, frames
  <2>. QED BY <2>1, TypedStays
<1>3. CASE Poll \/ Dispatched \/ Repeated
  <2>1. UNCHANGED <<dialog, selected, typed, timer>> /\ pc' # "read"
    BY <1>3 DEF Poll, Dispatched, Repeated, app, typing, startup
  <2>. QED BY <2>1, TypedStays
<1>4. CASE TimerRead
  <2>1. UNCHANGED <<dialog, selected>> /\ pc' # "read" BY <1>4 DEF TimerRead, Exit
  <2>2. (typed' = <<>> /\ timer' = "off") \/ UNCHANGED <<typed, timer>>
    BY <1>4 DEF TimerRead, typing
  <2>. QED BY <2>1, <2>2, TypedStays, TypedEnds
<1>5. CASE Configure \/ SetScale \/ Release
  <2>1. UNCHANGED <<dialog, selected, typed, timer>> /\ pc' # "read"
    BY <1>5 DEF Configure, SetScale, Release, Handling, Taken, TakenWithoutReleases, app, typing,
                startup
  <2>. QED BY <2>1, TypedStays
<1>6. CASE KeyDown
  <2>1. AppKey(Head(batch).key) /\ UNCHANGED dialog /\ pc' # "read"
    BY <1>6 DEF KeyDown, Handling, Taken, startup
  <2>. QED BY <2>1, TypedKey
<1>7. CASE Repeat
  <2>1. AppKey(repeat_key) /\ UNCHANGED dialog /\ pc' # "read" BY <1>7 DEF Repeat, startup
  <2>. QED BY <2>1, TypedKey
<1>8. CASE KeyUp \/ Leave \/ SetRepeat \/ SetKeymap \/ Modifiers \/ Closed
  <2>1. UNCHANGED <<dialog, selected, typed, timer>> /\ pc' # "read"
    BY <1>8 DEF KeyUp, Leave, SetRepeat, SetKeymap, Modifiers, Closed, Cancel, Handling, Taken, app,
                typing, startup
  <2>. QED BY <2>1, TypedStays
<1>9. CASE Send \/ Tick \/ (\E b \in Buffers : SendRelease(b)) \/ UNCHANGED vars
  <2>1. UNCHANGED <<dialog, selected, typed, timer, pc>>
    BY <1>9 DEF Send, Tick, SendRelease, vars, view, app, typing, startup
  <2>. QED BY <2>1 DEF TypedInv, TypedIsSelected
<1>10. CASE Pause
  <2>1. timer = "armed" /\ timer' = "fired" /\ UNCHANGED <<dialog, selected, typed, pc>>
    BY <1>10 DEF Pause, startup
  <2>. QED BY <2>1 DEF TypedInv, TypedIsSelected
<1>. QED BY <1>1, <1>2, <1>3, <1>4, <1>5, <1>6, <1>7, <1>8, <1>9, <1>10 DEF Next, Program, Dispatch

\* As long as letters count as one word, its pause is still to come and the selection
\* is what the word finds, for any options and any keys in between.
THEOREM TypedFinds == Spec => []TypedIsSelected
<1>1. TypedInv => TypedIsSelected BY DEF TypedInv
<1>. QED BY <1>1, TypedInit, TypedNext, PTL DEF Spec

-----------------------------------------------------------------------------
(* Rows                                                                    *)

\* The frame of a menu has the rows that fit, the selected option among them.
RowsInv ==
  surface # NoFrame /\ Menu =>
    /\ surface.size \in Nat \X Nat
    /\ surface.rows = MenuRows(dialog, theme, surface.size[2])
    /\ surface.selected \in surface.scroll .. surface.scroll + surface.rows - 1

NewFrame == [selected |-> selected, scroll |-> scroll, rows |-> rows, size |-> size, scale |-> scale]

\* A handler draws into buffers of the size and scale it leaves, if it draws.
Drawing ==
  \E due \in BOOLEAN : \E current, away :
    /\ DrawIfPossible(due, current, away) /\ away \subseteq Buffers
    /\ Fit(current, size', scale')
    /\ ~due /\ Drawable' => Shown = Wanted'

LEMMA RedrawDraws ==
  ASSUME Redraw, FrameInv, lent \subseteq Buffers, UNCHANGED <<size, scale>>
  PROVE  Drawing
<1>. DEFINE due == TRUE
<1>1. due \in BOOLEAN /\ due /\ DrawIfPossible(due, buffers, lent) BY DEF Redraw
<1>2. Fit(buffers, size', scale') BY DEF FrameInv
<1>. HIDE DEF due
<1>. QED BY <1>1, <1>2 DEF Drawing

LEMMA DestroyDraws ==
  ASSUME DestroyBuffersAndRedraw
  PROVE  Drawing
<1>. DEFINE due == TRUE
            current == [b \in Buffers |-> NoBuffer]
            away == {}
<1>1. due \in BOOLEAN /\ due /\ away \subseteq Buffers /\ DrawIfPossible(due, current, away)
  BY DEF DestroyBuffersAndRedraw
<1>2. Fit(current, size', scale') BY NoBuffersFit
<1>. HIDE DEF due, current, away
<1>. QED BY <1>1, <1>2 DEF Drawing

LEMMA HandlersDraw ==
  ASSUME TypeInv, FrameInv, Dispatch \/ Repeat
  PROVE  UNCHANGED surface \/ Drawing
<1>1. lent \subseteq Buffers BY DEF TypeInv, TypeOK
<1>2. ASSUME NEW k, AppKey(k), UNCHANGED geometry PROVE UNCHANGED surface \/ Drawing
  <2>1. UNCHANGED frames \/ Redraw BY <1>2 DEF AppKey, Cancel, Choose, MoveSelection, Type
  <2>2. UNCHANGED <<size, scale>> BY <1>2 DEF geometry
  <2>. QED BY <1>1, <2>1, <2>2, RedrawDraws DEF frames
<1>3. CASE KeyDown \/ Repeat BY <1>2, <1>3 DEF KeyDown, Repeat
<1>4. CASE Configure \/ SetScale
  <2>1. \/ UNCHANGED frames \/ DestroyBuffersAndRedraw
        \/ Redraw /\ UNCHANGED <<size, scale>>
    BY <1>4 DEF Configure, SetScale
  <2>. QED BY <1>1, <2>1, RedrawDraws, DestroyDraws DEF frames
<1>5. CASE Release
  <2>. DEFINE freed == [buffers EXCEPT ![Head(batch).buffer].busy = FALSE]
  <2>1. UNCHANGED <<selected, configured, size, scale>> /\ DrawIfPossible(dirty, freed, lent)
    BY <1>5 DEF Release, geometry, app
  <2>2. Fit(freed, size', scale') BY <2>1, FreedFits DEF FrameInv
  <2>3. ~dirty /\ Drawable' => Shown = Wanted'
    BY <2>1 DEF FrameInv, NoLostFrame, Drawable, Wanted
  <2>. HIDE DEF freed
  <2>. QED BY <1>1, <2>1, <2>2, <2>3 DEF Drawing, FrameInv
<1>6. CASE KeyUp \/ Leave \/ SetRepeat \/ SetKeymap \/ Modifiers \/ Closed
  BY <1>6 DEF KeyUp, Leave, SetRepeat, SetKeymap, Modifiers, Closed, Cancel, frames
<1>. QED BY <1>3, <1>4, <1>5, <1>6 DEF Dispatch

LEMMA OthersDraw ==
  ASSUME [Next]_vars, ~(Dispatch \/ Repeat)
  PROVE  UNCHANGED surface
BY DEF Next, Program, ReadInput, TakeLock, LoadTheme, Connect, Poll, Dispatched, Repeated, TimerRead,
       Break, Send, SendRelease, Tick, Pause, frames, vars

\* A step leaves the frame on the screen, or brings one that shows what is wanted
\* and, of a menu, the rows there are.
LEMMA FrameSteps ==
  ASSUME TypeInv, FrameInv, TypeInv', [Next]_vars
  PROVE  \/ UNCHANGED surface
         \/ UNCHANGED <<dialog, theme, pc>> /\ surface' = NewFrame' /\ FrameDrawn
<1>1. CASE Dispatch \/ Repeat
  <2>1. pc \in {"dispatch", "repeat"} /\ UNCHANGED <<dialog, theme, pc>>
    BY <1>1 DEF Dispatch, Repeat, Configure, SetScale, Release, KeyDown, KeyUp, Leave, SetRepeat,
                SetKeymap,
                Modifiers, Closed, Handling, Taken, TakenWithoutReleases, startup
  <2>2. CASE Drawing
    <3>0. PICK due \in BOOLEAN : \E current, away :
            /\ DrawIfPossible(due, current, away) /\ away \subseteq Buffers
            /\ Fit(current, size', scale')
            /\ ~due /\ Drawable' => Shown = Wanted'
      BY <2>2 DEF Drawing
    <3>1. PICK current, away :
            /\ DrawIfPossible(due, current, away) /\ away \subseteq Buffers
            /\ Fit(current, size', scale')
            /\ ~due /\ Drawable' => Shown = Wanted'
      BY <3>0
    <3>2. DialogTyped(dialog) /\ ThemeTyped(theme) /\ ViewOK BY <2>1, WindowTyped DEF Starting
    <3>3. selected' \in 1 .. Count
      <4>1. dialog' # Unreadable BY <2>1 DEF TypeInv
      <4>2. selected' \in 1 .. Count' BY <4>1 DEF TypeInv, TypeOK
      <4>. QED BY <2>1, <4>2 DEF Count
    <3>4. SizeOK' BY DialogAssumption DEF SizeOK, TypeInv, TypeOK
    <3>5. FrameDrawn BY <2>1, <3>1, <3>2, <3>3, <3>4, DrawTyped
    <3>6. UNCHANGED surface \/ surface' = NewFrame' BY <3>1, DrawsOrWaits DEF NewFrame
    <3>. QED BY <2>1, <3>5, <3>6
  <2>. QED BY <1>1, <2>2, HandlersDraw
<1>. QED BY <1>1, OthersDraw

LEMMA RowsInit == Init => RowsInv
BY DEF Init, RowsInv

LEMMA RowsNext ==
  ASSUME TypeInv, FrameInv, TypeInv', RowsInv, [Next]_vars
  PROVE  RowsInv'
<1>1. CASE UNCHANGED surface
  <2>1. pc \in Starting => surface = NoFrame BY DEF TypeInv
  <2>2. pc \notin Starting => UNCHANGED <<dialog, theme>>
    BY DEF Next, Program, Dispatch, Configure, SetScale, Release, KeyDown, KeyUp, Leave, SetRepeat,
           SetKeymap,
           Modifiers, Closed, ReadInput, TakeLock, LoadTheme, Connect, Poll, Dispatched, Repeat,
           Repeated, TimerRead,
           Break, Send, SendRelease, Tick, Pause, vars, startup, Starting
  <2>. QED BY <1>1, <2>1, <2>2 DEF RowsInv, Menu
<1>2. CASE surface' # surface
  <2>1. UNCHANGED <<dialog, theme, pc>> /\ surface' = NewFrame' /\ FrameDrawn BY <1>2, FrameSteps
  <2>2. SizeOK' BY DialogAssumption DEF SizeOK, TypeInv, TypeOK
  <2>. QED BY <1>2, <2>1, <2>2 DEF RowsInv, Menu, FrameDrawn, NewFrame, SizeOK
<1>. QED BY <1>1, <1>2

\* Unless a frame is due, the option that Enter chooses is among the rows of the frame on
\* the screen, and at any size the surface had the rows are inside the box.
THEOREM SelectionSeen == Spec => []SelectionShown
<1>1. TypeInv /\ FrameInv /\ RowsInv => SelectionShown
  <2>. SUFFICES ASSUME TypeInv, FrameInv, RowsInv, Menu PROVE SelectionShown
    BY DEF SelectionShown
  <2>1. dialog # Unreadable BY DEF Menu, Unreadable
  <2>2. DialogTyped(dialog) /\ ThemeTyped(theme) /\ selected \in 1 .. Count
    BY <2>1 DEF TypeInv, TypeOK
  <2>3. CASE surface = NoFrame
    <3>1. surface.rows = 0 /\ surface.selected = 0 BY <2>3 DEF NoFrame
    <3>2. ~(Drawable /\ ~dirty)
      <4>1. selected # 0 BY <2>2
      <4>2. Wanted.selected # Shown.selected BY <3>1, <4>1 DEF Wanted, Shown
      <4>. QED BY <4>2 DEF FrameInv, NoLostFrame
    <3>. QED BY <3>1, <3>2 DEF SelectionShown
  <2>4. CASE surface # NoFrame
    <3>1. surface.size[2] \in Int BY <2>4 DEF RowsInv
    <3>2. surface.rows > 1 => surface.rows * ItemHeight(dialog, theme, theme.big)
                                <= OptionsHeight(dialog, theme, surface.size[2])
      BY <2>2, <2>4, <3>1, RowsFit DEF RowsInv
    <3>3. Drawable /\ ~dirty => surface.selected = selected
      <4>1. Drawable /\ ~dirty => Shown = Wanted BY DEF FrameInv, NoLostFrame
      <4>2. Shown.selected = surface.selected /\ Wanted.selected = selected BY DEF Shown, Wanted
      <4>. QED BY <4>1, <4>2, Zenon
    <3>. QED BY <2>4, <3>2, <3>3 DEF RowsInv, SelectionShown
  <2>. QED BY <2>3, <2>4
<1>. QED BY <1>1, TypeInit, TypeNext, FrameInit, FrameNext, RowsInit, RowsNext, PTL DEF Spec

-----------------------------------------------------------------------------
(* The latest frame                                                        *)

Views == [selected : Nat, size : Nat \X Nat, scale : Nat]
ViewsInv == Shown \in Views

\* What the abstract specification takes for the view that is wanted.
Due == IF Drawable THEN Wanted ELSE Shown

LEMMA ViewsInit == Init => ViewsInv
BY DEF Init, ViewsInv, Views, Shown, NoFrame

\* Once there is a window, what it wants is a view.
LEMMA WantedTyped ==
  ASSUME TypeInv', pc' \notin {"read", "ended"}
  PROVE  Wanted' \in Views
<1>1. dialog' # Unreadable BY DEF TypeInv
<1>2. selected' \in 1 .. Count' /\ Count' \in Nat BY <1>1 DEF TypeInv, TypeOK, DialogTyped, Count
<1>3. size' \in Nat \X Nat /\ scale' \in Nat BY DialogAssumption DEF TypeInv, TypeOK
<1>. QED BY <1>2, <1>3 DEF Wanted, Views

\* Every step of the program is a change of what is wanted, drawn or not, a frame that
\* shows it, the end, or none of them.
LEMMA LatestNext ==
  ASSUME TypeInv, FrameInv, ViewsInv, TypeInv', FrameInv', [Next]_vars
  PROVE  ViewsInv' /\ [Latest!Next]_(Latest!vars)
<1>1. CASE pc = "ended"
  <2>1. UNCHANGED vars
    BY <1>1 DEF Next, Program, Dispatch, Configure, SetScale, Release, KeyDown, KeyUp, Leave,
                SetRepeat, SetKeymap,
       Modifiers, Closed, ReadInput, TakeLock, LoadTheme, Connect, Poll, Dispatched, Repeat,
       Repeated, TimerRead,
       Break, Send, SendRelease, Tick, Pause, Handling, Seen
  <2>2. UNCHANGED <<pc, surface, selected, configured, size, scale>>
    BY <2>1 DEF vars, view, geometry
  <2>. QED BY <2>2 DEF ViewsInv, Shown, Latest!vars, Drawable, Wanted
<1>2. CASE pc # "ended" /\ pc' = "ended"
  <2>1. UNCHANGED <<surface, selected, configured, size, scale>>
    BY <1>2 DEF Next, Program, Dispatch, Configure, SetScale, Release, KeyDown, KeyUp, Leave,
                SetRepeat, SetKeymap,
       Modifiers, Closed, ReadInput, TakeLock, LoadTheme, Connect, Poll, Dispatched, Repeat,
       Repeated, TimerRead,
       Break, Send, SendRelease, Tick, Pause, Handling, Taken, TakenWithoutReleases, frames,
       geometry, app, vars
  <2>. QED BY <1>2, <2>1 DEF ViewsInv, Shown, Latest!Next, Latest!End, Drawable, Wanted
<1>3. CASE pc # "ended" /\ pc' # "ended" /\ UNCHANGED surface
  <2>1. Shown' = Shown BY <1>3 DEF Shown
  <2>2. Drawable' => Wanted' \in Views
    <3>1. Drawable' => pc' # "read" BY DEF FrameInv, Drawable
    <3>. QED BY <1>3, <3>1, WantedTyped
  <2>3. Due' \in Views BY <2>1, <2>2 DEF Due, ViewsInv
  <2>. QED BY <1>3, <2>1, <2>3 DEF ViewsInv, Due, Latest!Next, Latest!Change, Views
<1>4. CASE pc # "ended" /\ surface' # surface
  <2>1. UNCHANGED pc /\ surface' = NewFrame' BY <1>4, FrameSteps
  <2>2. Shown' = Wanted' BY <2>1 DEF Shown, Wanted, NewFrame
  <2>3. pc' \notin {"read", "ended"} BY <1>4, <2>1 DEF TypeInv, Starting
  <2>4. Wanted' \in Views BY <2>3, WantedTyped
  <2>5. Due' = Shown' BY <2>2 DEF Due
  <2>. QED BY <2>1, <2>2, <2>3, <2>4, <2>5 DEF ViewsInv, Due, Latest!Next, Latest!Change, Views
<1>. QED BY <1>1, <1>2, <1>3, <1>4

\* What the window shows is what was wanted when it was drawn, and never older than
\* what it showed before: the program implements LatestFrame, but for the liveness.
THEOREM ImplementsLatestFrames == Spec => Latest!Init /\ [][Latest!Next]_(Latest!vars)
<1>. DEFINE Inv == TypeInv /\ FrameInv /\ ViewsInv
<1>1. Init => Latest!Init
  BY DEF Init, Latest!Init, Drawable, Shown, Wanted, NoFrame
<1>2. Init => Inv BY TypeInit, FrameInit, ViewsInit
<1>3. Inv /\ [Next]_vars => Inv' /\ [Latest!Next]_(Latest!vars)
  BY TypeNext, FrameNext, LatestNext
<1>. QED BY <1>1, <1>2, <1>3, PTL DEF Spec

-----------------------------------------------------------------------------
(* The text                                                                *)

\* The lines of a message that was read, for a frame of any size.
LEMMA LinesWhole ==
  ASSUME NEW message, DialogTyped(message), NEW width \in Int, ThemeTyped(theme)
  PROVE  LET lines == Lines(message, theme, width)
         IN /\ Len(lines) \in Nat
            /\ Characters(lines) = Characters(message.text)
            /\ \A i \in DOMAIN lines :
                 Chars(lines[i]) <= Larger(1, LineFits(message, theme, width))
<1>. DEFINE fit == LineFits(message, theme, width)
            lines == Lines(message, theme, width)
<1>1. fit \in Int BY LineFitsTyped
<1>2. message.text \in Texts BY DEF DialogTyped
<1>. HIDE DEF fit
<1>3. lines \in Narrow(fit) /\ Characters(lines) = Characters(message.text)
  <2>1. CASE message.text = NoText BY <2>1, NothingNarrow DEF Lines, NoText
  <2>2. CASE message.text # NoText BY <1>1, <1>2, <2>2, TextWrapped DEF Lines, fit
  <2>. QED BY <2>1, <2>2
<1>. HIDE DEF lines
<1>4. Len(lines) \in Nat
  <2>. HIDE DEF Words
  <2>. QED BY <1>3 DEF Narrow, Texts
<1>. QED BY <1>3, <1>4 DEF Narrow, lines, fit

\* Any text is in its lines, whatever the theme and the size of the surface: no character
\* is left out, none is past the edge, and lines are cut off only by the output.
THEOREM TextKept == Spec => []TextWhole
<1>1. TypeInv /\ ViewsInv => TextWhole
  <2>. SUFFICES ASSUME TypeInv, ViewsInv, pc = "poll" PROVE TextWhole
    BY DEF TextWhole
  <2>1. DialogTyped(dialog) /\ ThemeTyped(theme) BY DEF TypeInv
  <2>2. surface.size[1] \in Nat /\ surface.size[2] \in Nat BY DEF ViewsInv, Views, Shown
  <2>. QED BY <2>1, <2>2, LinesWhole, CutWhenFull DEF TextWhole
<1>. DEFINE Inv == TypeInv /\ FrameInv /\ ViewsInv
<1>2. Init => Inv BY TypeInit, FrameInit, ViewsInit
<1>3. Inv /\ [Next]_vars => Inv' BY TypeNext, FrameNext, LatestNext
<1>. QED BY <1>1, <1>2, <1>3, PTL DEF Spec

-----------------------------------------------------------------------------
(* The key that repeats                                                    *)

\* While events are handled: the keys that are down now, held being those that are
\* down when all are handled. The key that repeats is one of them.
RepeatInv ==
  /\ pc = "dispatch" =>
       \E keys \in SUBSET Keys[dialog.program] :
         held = Down(keys, batch) /\ (repeat_key # NoKey => repeat_key \in keys)
  /\ RepeatIsHeld

LEMMA RepeatInit == Init => RepeatInv
BY DEF Init, RepeatInv, RepeatIsHeld

\* An event that is handled leaves fewer to come.
LEMMA RepeatTaken ==
  ASSUME TypeInv, pc = "dispatch", batch # <<>>, Taken \/ TakenWithoutReleases,
         UNCHANGED <<dialog, pc, held>>, RepeatInv,
         \A keys \in SUBSET Keys[dialog.program] :
           (repeat_key # NoKey => repeat_key \in keys)
             => (repeat_key' # NoKey => repeat_key' \in After(keys, Head(batch)))
  PROVE  RepeatInv'
<1>. DEFINE K == Keys[dialog.program]
            E == EventOf(K)
            first == Head(batch)
            rest == Tail(batch)
<1>1. PICK keys \in SUBSET K :
        held = Down(keys, batch) /\ (repeat_key # NoKey => repeat_key \in keys)
  BY DEF RepeatInv
<1>2. batch \in Seq(E) BY DEF TypeInv
<1>3. first \in E /\ rest \in Seq(E)
  <2>. HIDE DEF E
  <2>. QED BY <1>2
<1>. DEFINE next == After(keys, first)
<1>4. next \in SUBSET K BY <1>3, AfterTyped
<1>5. held = Down(next, rest) BY <1>1, <1>2, DownTail
<1>6. Down(next, WithoutReleases(rest)) = Down(next, rest)
  <2>. HIDE DEF next, rest
  <2>. QED BY <1>3, <1>4, KeptEvents
<1>7. batch' = rest \/ batch' = WithoutReleases(rest) BY DEF Taken, TakenWithoutReleases
<1>8. held' = Down(next, batch') BY <1>5, <1>6, <1>7
<1>9. repeat_key' # NoKey => repeat_key' \in next BY <1>1
<1>. HIDE DEF next
<1>. QED BY <1>4, <1>8, <1>9 DEF RepeatInv, RepeatIsHeld

LEMMA RepeatDispatch ==
  ASSUME TypeInv, RepeatInv, Dispatch
  PROVE  RepeatInv'
<1>1. pc = "dispatch" /\ batch # <<>> /\ (Taken \/ TakenWithoutReleases)
      /\ UNCHANGED <<pc, dialog, held>>
  BY DEF Dispatch, Configure, SetScale, Release, KeyDown, KeyUp, Leave, SetRepeat, SetKeymap,
         Modifiers, Closed, Handling, Taken, TakenWithoutReleases, startup
<1>2. SUFFICES ASSUME NEW keys \in SUBSET Keys[dialog.program], repeat_key # NoKey => repeat_key \in keys,
                      repeat_key' # NoKey
               PROVE  repeat_key' \in After(keys, Head(batch))
  BY <1>1, RepeatTaken
<1>3. CASE Configure \/ SetScale \/ Release \/ SetKeymap \/ Modifiers \/ Closed
  <2>1. UNCHANGED repeat_key /\ Head(batch).kind \notin {"down", "up", "leave"}
    BY <1>3 DEF Configure, SetScale, Release, SetKeymap, Modifiers, Closed, Handling, keyboard
  <2>. QED BY <1>2, <2>1 DEF After
<1>4. CASE KeyDown
  BY <1>2, <1>4 DEF KeyDown, Handling, After
<1>5. CASE KeyUp
  BY <1>2, <1>5 DEF KeyUp, Handling, After, StopRepeat
<1>6. CASE Leave \/ SetRepeat
  BY <1>2, <1>6 DEF Leave, SetRepeat, StopRepeat
<1>. QED BY <1>3, <1>4, <1>5, <1>6 DEF Dispatch

LEMMA RepeatNext ==
  ASSUME TypeInv, RepeatInv, [Next]_vars
  PROVE  RepeatInv'
<1>1. CASE Dispatch BY <1>1, RepeatDispatch
<1>2. CASE Poll
  <2>1. /\ pc = "poll" /\ pc' = "dispatch" /\ batch' = inbox /\ held' = Down(held, inbox)
        /\ UNCHANGED <<dialog, repeat_key>>
    BY <1>2 DEF Poll, startup, keyboard
  <2>2. held \in SUBSET Keys[dialog.program] BY DEF TypeInv, TypeOK
  <2>3. repeat_key # NoKey => repeat_key \in held BY <2>1 DEF RepeatInv, RepeatIsHeld
  <2>. QED BY <2>1, <2>2, <2>3 DEF RepeatInv, RepeatIsHeld
<1>3. CASE Dispatched
  <2>1. pc = "dispatch" /\ pc' = "repeat" /\ batch = <<>> /\ UNCHANGED <<dialog, repeat_key, held>>
    BY <1>3 DEF Dispatched, startup, ghosts
  <2>2. PICK keys \in SUBSET Keys[dialog.program] :
          held = Down(keys, <<>>) /\ (repeat_key # NoKey => repeat_key \in keys)
    BY <2>1 DEF RepeatInv
  <2>3. held = keys BY <2>2, DownEmpty
  <2>. QED BY <2>1, <2>2, <2>3 DEF RepeatInv, RepeatIsHeld
<1>4. CASE Repeat \/ Repeated \/ TimerRead
  <2>1. pc \in {"repeat", "timer"} /\ pc' # "dispatch" /\ UNCHANGED <<repeat_key, held>>
    BY <1>4 DEF Repeat, Repeated, TimerRead, Exit, keyboard, ghosts
  <2>. QED BY <2>1 DEF RepeatInv, RepeatIsHeld
<1>5. CASE ReadInput \/ TakeLock \/ LoadTheme \/ Connect
  <2>1. pc \in Starting /\ pc' # "dispatch" /\ UNCHANGED repeat_key
    BY <1>5 DEF ReadInput, TakeLock, LoadTheme, Connect, Exit, Starting, keyboard
  <2>2. repeat_key' = NoKey BY <2>1 DEF TypeInv
  <2>. QED BY <2>1, <2>2 DEF RepeatInv, RepeatIsHeld
<1>6. CASE Break
  <2>1. pc' = "ended" BY <1>6 DEF Break, Exit
  <2>. QED BY <2>1 DEF RepeatInv, RepeatIsHeld
<1>7. CASE Send \/ Tick \/ Pause \/ (\E b \in Buffers : SendRelease(b)) \/ UNCHANGED vars
  <2>1. UNCHANGED <<pc, dialog, repeat_key, held, batch>>
    BY <1>7 DEF Send, SendRelease, Tick, Pause, vars, startup, keyboard, ghosts
  <2>. QED BY <2>1 DEF RepeatInv, RepeatIsHeld
<1>. QED BY <1>1, <1>2, <1>3, <1>4, <1>5, <1>6, <1>7 DEF Next, Program

\* Once the events that were read are handled, the key that repeats is held, however
\* many events of keys, modifiers, keymaps and focus came in between.
THEOREM RepeatsHeld == Spec => []RepeatIsHeld
<1>1. RepeatInv => RepeatIsHeld BY DEF RepeatInv
<1>. QED BY <1>1, TypeInit, TypeNext, RepeatInit, RepeatNext, PTL DEF Spec

-----------------------------------------------------------------------------
(* Answers                                                                 *)

Answers == {"chosen", "closed"}
ChosenIn(log) == {i \in DOMAIN log : log[i] = "chosen"}

\* The program runs until there is an answer, and the key that repeats then is not one
\* that chooses: a repeat prints nothing. The result is that of the last answer.
AnswerInv ==
  /\ answers \in Seq(Answers)
  /\ \E S : printed \in Seq(S)
  /\ Len(printed) = Cardinality(ChosenIn(answers))
  /\ running => answers = <<>> /\ repeat_key \notin Choosing
  /\ answers = <<>> => result = 1
  /\ answers # <<>> => result = IF Last(answers) = "chosen" THEN 0 ELSE 1
  /\ exit # -1 => exit \in {result, 2} \/ (exit = 1 /\ answers = <<>>)
  /\ pc \in Starting => answers = <<>>

LEMMA OneMore ==
  ASSUME NEW log \in Seq(Answers), NEW a \in Answers
  PROVE  /\ Append(log, a) \in Seq(Answers) /\ Append(log, a) # <<>> /\ Last(Append(log, a)) = a
         /\ Cardinality(ChosenIn(Append(log, a))) =
              Cardinality(ChosenIn(log)) + IF a = "chosen" THEN 1 ELSE 0
<1>. DEFINE n == Len(log)
            longer == Append(log, a)
<1>1. /\ n \in Nat /\ longer \in Seq(Answers) /\ Len(longer) = n + 1
      /\ \A i \in 1 .. n : longer[i] = log[i]
      /\ longer[n + 1] = a
      /\ DOMAIN log = 1 .. n /\ DOMAIN longer = 1 .. n + 1
  <2>. DEFINE A == Answers
  <2>1. log \in Seq(A) /\ a \in A OBVIOUS
  <2>. HIDE DEF A
  <2>2. longer \in Seq(A) BY <2>1
  <2>. QED BY <2>1, <2>2 DEF A
<1>2. longer # <<>> /\ Last(longer) = a BY <1>1 DEF Last
<1>. HIDE DEF longer, n
<1>3. IsFiniteSet(ChosenIn(log)) /\ n + 1 \notin ChosenIn(log)
  <2>1. ChosenIn(log) \subseteq 1 .. n BY <1>1 DEF ChosenIn
  <2>2. IsFiniteSet(1 .. n) BY <1>1, FS_Interval
  <2>3. IsFiniteSet(ChosenIn(log)) BY <2>1, <2>2, FS_Subset
  <2>. QED BY <1>1, <2>1, <2>3
<1>4. CASE a = "chosen"
  <2>1. ChosenIn(longer) = ChosenIn(log) \cup {n + 1} BY <1>1, <1>4 DEF ChosenIn
  <2>2. Cardinality(ChosenIn(longer)) = Cardinality(ChosenIn(log)) + 1 BY <1>3, <2>1, FS_AddElement
  <2>. QED BY <1>1, <1>2, <1>4, <2>2 DEF longer
<1>5. CASE a # "chosen"
  <2>1. ChosenIn(longer) = ChosenIn(log) BY <1>1, <1>5 DEF ChosenIn
  <2>2. Cardinality(ChosenIn(log)) \in Nat BY <1>3, FS_CardinalityType
  <2>. QED BY <1>1, <1>2, <1>5, <2>1, <2>2 DEF longer
<1>. QED BY <1>4, <1>5

LEMMA OnePrint ==
  ASSUME NEW S, NEW text \in Seq(S), NEW v
  PROVE  (\E T : Append(text, v) \in Seq(T)) /\ Len(Append(text, v)) = Len(text) + 1
<1>1. text \in Seq(S \cup {v}) OBVIOUS
<1>2. Append(text, v) \in Seq(S \cup {v}) BY <1>1
<1>. QED BY <1>1, <1>2

LEMMA AnswerInit == Init => AnswerInv
<1>. SUFFICES ASSUME Init PROVE AnswerInv
  OBVIOUS
<1>1. \A S : <<>> \in Seq(S) OBVIOUS
<1>2. Cardinality(ChosenIn(<<>>)) = 0
  <2>1. ChosenIn(<<>>) = {} BY DEF ChosenIn
  <2>. QED BY <2>1, FS_EmptySet
<1>3. NoKey \notin Choosing BY DEF NoKey, Choosing
<1>. QED BY <1>1, <1>2, <1>3 DEF Init, AnswerInv

LEMMA AnswerStays ==
  ASSUME AnswerInv, UNCHANGED <<answers, printed, running, result, repeat_key, exit>>,
         pc' \in Starting => pc \in Starting
  PROVE  AnswerInv'
BY DEF AnswerInv

\* A press of a key, when the program runs or after it was told to quit.
LEMMA AnswerKey ==
  ASSUME AnswerInv, NEW k, AppKey(k), UNCHANGED exit, exit = -1, pc' \notin Starting,
         repeat_key' \in {k, NoKey},
         answers' = IF Chooses(k) THEN Append(answers, "chosen")
                    ELSE IF Cancels(k) THEN Append(answers, "closed") ELSE answers
  PROVE  AnswerInv'
<1>1. PICK S : printed \in Seq(S) BY DEF AnswerInv
<1>2. answers \in Seq(Answers) BY DEF AnswerInv
<1>3. CASE Chooses(k)
  <2>1. /\ printed' = Append(printed, dialog.items[selected].value) /\ result' = 0 /\ running' = FALSE
        /\ answers' = Append(answers, "chosen")
    BY <1>3 DEF AppKey, Chooses, Choose, Types
  <2>2. "chosen" \in Answers BY DEF Answers
  <2>3. /\ answers' \in Seq(Answers) /\ answers' # <<>> /\ Last(answers') = "chosen"
        /\ Cardinality(ChosenIn(answers')) = Cardinality(ChosenIn(answers)) + 1
    BY <1>2, <2>1, <2>2, OneMore
  <2>4. (\E T : printed' \in Seq(T)) /\ Len(printed') = Len(printed) + 1 BY <1>1, <2>1, OnePrint
  <2>. QED BY <2>1, <2>3, <2>4 DEF AnswerInv
<1>4. CASE Cancels(k)
  <2>1. UNCHANGED printed /\ result' = 1 /\ running' = FALSE /\ answers' = Append(answers, "closed")
    BY <1>4 DEF AppKey, Cancel, Chooses, Types
  <2>2. "closed" \in Answers BY DEF Answers
  <2>3. /\ answers' \in Seq(Answers) /\ answers' # <<>> /\ Last(answers') = "closed"
        /\ Cardinality(ChosenIn(answers')) = Cardinality(ChosenIn(answers)) + 0
    BY <1>2, <2>1, <2>2, OneMore
  <2>4. Len(printed) + 0 = Len(printed) BY <1>1
  <2>. QED BY <2>1, <2>3, <2>4 DEF AnswerInv
<1>5. CASE ~Chooses(k) /\ ~Cancels(k)
  <2>1. UNCHANGED <<printed, result, running, answers>>
    BY <1>5 DEF AppKey, MoveSelection, Type, app
  <2>2. repeat_key' \notin Choosing BY <1>5 DEF Chooses, NoKey, Choosing
  <2>. QED BY <2>1, <2>2 DEF AnswerInv
<1>. QED BY <1>3, <1>4, <1>5

LEMMA AnswerNext ==
  ASSUME TypeInv, AnswerInv, [Next]_vars
  PROVE  AnswerInv'
<1>1. CASE KeyDown
  <2>. DEFINE k == Head(batch).key
  <2>1. /\ AppKey(k) /\ pc = "dispatch" /\ UNCHANGED <<exit, pc>> /\ repeat_key' \in {k, NoKey}
        /\ answers' = IF Chooses(k) THEN Append(answers, "chosen")
                      ELSE IF Cancels(k) THEN Append(answers, "closed") ELSE answers
    BY <1>1 DEF KeyDown, Handling, Taken
  <2>2. exit = -1 /\ pc' \notin Starting BY <2>1 DEF TypeInv, TypeOK, Starting
  <2>. HIDE DEF k
  <2>. QED BY <2>1, <2>2, AnswerKey
<1>2. CASE Repeat
  <2>1. /\ AppKey(repeat_key) /\ pc = "repeat" /\ running
        /\ UNCHANGED <<pc, exit, answers, repeat_key>>
    BY <1>2 DEF Repeat, keyboard, ghosts
  <2>2. exit = -1 /\ answers = <<>> /\ ~Chooses(repeat_key)
    BY <2>1 DEF TypeInv, TypeOK, AnswerInv, Chooses
  <2>3. UNCHANGED printed /\ \/ UNCHANGED <<result, running>>
                             \/ result' = 1 /\ running' = FALSE
    BY <2>1, <2>2 DEF AppKey, Cancel, MoveSelection, Type, app
  <2>. QED BY <2>1, <2>2, <2>3 DEF AnswerInv, Starting
<1>3. CASE Closed
  <2>1. /\ UNCHANGED <<printed, exit, pc, repeat_key>> /\ result' = 1 /\ running' = FALSE
        /\ answers' = Append(answers, "closed") /\ pc = "dispatch"
    BY <1>3 DEF Closed, Handling, Cancel, Taken, keyboard
  <2>2. "closed" \in Answers /\ answers \in Seq(Answers) BY DEF Answers, AnswerInv
  <2>3. /\ answers' \in Seq(Answers) /\ answers' # <<>> /\ Last(answers') = "closed"
        /\ Cardinality(ChosenIn(answers')) = Cardinality(ChosenIn(answers)) + 0
    BY <2>1, <2>2, OneMore
  <2>4. exit = -1 BY <2>1 DEF TypeInv, TypeOK
  <2>5. Len(printed) + 0 = Len(printed) BY DEF AnswerInv
  <2>. QED BY <2>1, <2>3, <2>4, <2>5 DEF AnswerInv, Starting
<1>4. CASE Configure \/ SetScale \/ Release \/ KeyUp \/ Leave \/ SetRepeat \/ SetKeymap \/ Modifiers
  <2>1. UNCHANGED <<pc, answers, printed, running, result, exit>> /\ repeat_key' \in {repeat_key, NoKey}
    BY <1>4 DEF Configure, SetScale, Release, KeyUp, Leave, SetRepeat, SetKeymap, Modifiers, Taken,
                TakenWithoutReleases,
                StopRepeat, app, keyboard
  <2>2. NoKey \notin Choosing BY DEF NoKey, Choosing
  <2>. QED BY <2>1, <2>2 DEF AnswerInv
<1>5. CASE TimerRead
  <2>1. UNCHANGED <<answers, printed, running, result, repeat_key>> /\ exit' \in {exit, result}
        /\ pc' \notin Starting
    BY <1>5 DEF TimerRead, Exit, Starting, keyboard, ghosts
  <2>. QED BY <2>1 DEF AnswerInv
<1>6. CASE ReadInput \/ TakeLock \/ Connect
  <2>1. UNCHANGED <<answers, printed, running, result, repeat_key>> /\ exit' \in {exit, 1, 2}
        /\ pc \in Starting
    BY <1>6 DEF ReadInput, TakeLock, Connect, Exit, Starting, keyboard, ghosts, app
  <2>2. CASE exit' = exit BY <2>1, <2>2, AnswerStays
  <2>3. CASE exit' \in {1, 2}
    <3>1. answers = <<>> => exit' \in {result', 2} \/ (exit' = 1 /\ answers' = <<>>) BY <2>1, <2>3
    <3>2. answers = <<>> BY <2>1 DEF AnswerInv
    <3>. QED BY <2>1, <3>1, <3>2 DEF AnswerInv
  <2>. QED BY <2>1, <2>2, <2>3
<1>7. CASE Break
  <2>1. UNCHANGED <<answers, printed, running, result, repeat_key>> /\ exit' = 2 /\ pc' = "ended"
    BY <1>7 DEF Break, Exit, keyboard, ghosts, app
  <2>. QED BY <2>1 DEF AnswerInv, Starting
<1>8. CASE \/ LoadTheme \/ Poll \/ Dispatched \/ Repeated \/ Send \/ Tick \/ Pause
           \/ (\E b \in Buffers : SendRelease(b)) \/ UNCHANGED vars
  <2>1. UNCHANGED <<answers, printed, running, result, repeat_key, exit>>
        /\ (pc' \in Starting => pc \in Starting)
    BY <1>8 DEF LoadTheme, Poll, Starting, Dispatched, Repeated, Send, Tick, Pause, SendRelease,
                vars, app, keyboard, ghosts
  <2>. QED BY <2>1, AnswerStays
<1>. QED BY <1>1, <1>2, <1>3, <1>4, <1>5, <1>6, <1>7, <1>8 DEF Next, Program, Dispatch

\* The exit status tells the last answer, and a value is printed for every time one was
\* chosen: a key that repeats prints nothing, however long it is held.
THEOREM AnswersTold == Spec => []ExitTellsAnswer
<1>1. TypeInv /\ AnswerInv => ExitTellsAnswer
  <2>. SUFFICES ASSUME TypeInv, AnswerInv PROVE ExitTellsAnswer
    OBVIOUS
  <2>1. exit \in -1 .. 2 /\ result \in {0, 1} BY DEF TypeInv, TypeOK
  <2>. QED BY <2>1 DEF AnswerInv, ExitTellsAnswer, ChosenIn
<1>. QED BY <1>1, TypeInit, TypeNext, AnswerInit, AnswerNext, PTL DEF Spec

-----------------------------------------------------------------------------
(* Buffers                                                                 *)

ReleaseOf(b) == [kind |-> "release", buffer |-> b]
Flying(b, queue) == \E i \in DOMAIN queue : queue[i] = ReleaseOf(b)
Once(queue) ==
  \A b \in Buffers, i, j \in DOMAIN queue :
    queue[i] = ReleaseOf(b) /\ queue[j] = ReleaseOf(b) => i = j

\* A buffer is busy when it is away, or else when its release is in a queue.
Accounts(pair, away, in, out) ==
  \A b \in Buffers :
    /\ pair[b].busy \in BOOLEAN
    /\ pair[b].busy <=> b \in away \/ Flying(b, in) \/ Flying(b, out)
    /\ b \in away => ~Flying(b, in) /\ ~Flying(b, out)

\* A buffer is never released twice, and one that is away not at all: a release that is
\* handled frees a buffer that nobody else has.
KeptInv ==
  /\ Accounts(buffers, lent, inbox, batch)
  /\ Once(inbox) /\ Once(batch)
  /\ inbox # <<>> => pc \in {"poll", "ended"}
  /\ batch # <<>> => pc \in {"dispatch", "ended"}

LEMMA EmptyFlies == Once(<<>>) /\ \A b : ~Flying(b, <<>>)
BY DEF Once, Flying

LEMMA OneFlies ==
  ASSUME NEW E, NEW queue \in Seq(E), NEW e \in E
  PROVE  /\ \A b : Flying(b, Append(queue, e)) <=> Flying(b, queue) \/ e = ReleaseOf(b)
         /\ Once(queue) /\ (\A b \in Buffers : e = ReleaseOf(b) => ~Flying(b, queue))
              => Once(Append(queue, e))
<1>. DEFINE n == Len(queue)
            longer == Append(queue, e)
<1>1. /\ n \in Nat /\ DOMAIN queue = 1 .. n /\ DOMAIN longer = 1 .. n + 1
      /\ \A i \in 1 .. n : longer[i] = queue[i]
      /\ longer[n + 1] = e
  OBVIOUS
<1>. HIDE DEF n, longer
<1>2. \A b : Flying(b, longer) <=> Flying(b, queue) \/ e = ReleaseOf(b)
  <2>1. \A i : i \in 1 .. n + 1 <=> i \in 1 .. n \/ i = n + 1 BY <1>1
  <2>. QED BY <1>1, <2>1 DEF Flying
<1>3. ASSUME Once(queue), \A b \in Buffers : e = ReleaseOf(b) => ~Flying(b, queue)
      PROVE  Once(longer)
  <2>1. SUFFICES ASSUME NEW b \in Buffers, NEW i \in 1 .. n + 1, NEW j \in 1 .. n + 1,
                        longer[i] = ReleaseOf(b), longer[j] = ReleaseOf(b)
                 PROVE  i = j
    BY <1>1 DEF Once
  <2>2. CASE i \in 1 .. n /\ j \in 1 .. n BY <1>1, <1>3, <2>1, <2>2 DEF Once
  <2>3. CASE i = n + 1 /\ j \in 1 .. n BY <1>1, <1>3, <2>1, <2>3 DEF Flying
  <2>4. CASE j = n + 1 /\ i \in 1 .. n BY <1>1, <1>3, <2>1, <2>4 DEF Flying
  <2>. QED BY <1>1, <2>2, <2>3, <2>4
<1>. QED BY <1>2, <1>3 DEF longer

LEMMA RestFlies ==
  ASSUME NEW E, NEW queue \in Seq(E), queue # <<>>, Once(queue)
  PROVE  /\ \A b : Flying(b, queue) <=> Flying(b, Tail(queue)) \/ Head(queue) = ReleaseOf(b)
         /\ Once(Tail(queue))
         /\ \A b \in Buffers : Head(queue) = ReleaseOf(b) => ~Flying(b, Tail(queue))
<1>. DEFINE n == Len(queue)
            rest == Tail(queue)
            first == Head(queue)
<1>1. /\ n \in Nat /\ n >= 1 /\ DOMAIN queue = 1 .. n /\ DOMAIN rest = 1 .. n - 1
      /\ \A i \in 1 .. n - 1 : rest[i] = queue[i + 1]
      /\ first = queue[1]
  OBVIOUS
<1>. HIDE DEF n, rest, first
<1>2. \A b : Flying(b, rest) => \E i \in 2 .. n : queue[i] = ReleaseOf(b)
  <2>1. \A i \in 1 .. n - 1 : i + 1 \in 2 .. n BY <1>1
  <2>. QED BY <1>1, <2>1 DEF Flying
<1>3. \A b : (\E i \in 2 .. n : queue[i] = ReleaseOf(b)) => Flying(b, rest)
  <2>1. \A i \in 2 .. n : i - 1 \in 1 .. n - 1 /\ (i - 1) + 1 = i BY <1>1
  <2>2. \A i \in 2 .. n : queue[i] = rest[i - 1] BY <1>1, <2>1
  <2>. QED BY <1>1, <2>1, <2>2 DEF Flying
<1>4. \A i : i \in 1 .. n <=> i = 1 \/ i \in 2 .. n BY <1>1
<1>5. \A b : Flying(b, queue) <=> Flying(b, rest) \/ first = ReleaseOf(b)
  BY <1>1, <1>2, <1>3, <1>4 DEF Flying
<1>6. \A b \in Buffers : first = ReleaseOf(b) => ~Flying(b, rest)
  <2>1. \A i \in 2 .. n : i \in 1 .. n /\ 1 \in 1 .. n /\ i # 1 BY <1>1
  <2>. QED BY <1>1, <1>2, <2>1 DEF Once
<1>7. Once(rest)
  <2>. SUFFICES ASSUME NEW b \in Buffers, NEW i \in 1 .. n - 1, NEW j \in 1 .. n - 1,
                       rest[i] = ReleaseOf(b), rest[j] = ReleaseOf(b)
                PROVE  i = j
    BY <1>1 DEF Once
  <2>1. i + 1 \in 1 .. n /\ j + 1 \in 1 .. n BY <1>1
  <2>2. queue[i + 1] = ReleaseOf(b) /\ queue[j + 1] = ReleaseOf(b) BY <1>1
  <2>3. i + 1 = j + 1 BY <1>1, <2>1, <2>2 DEF Once
  <2>. QED BY <1>1, <2>3
<1>. QED BY <1>5, <1>6, <1>7 DEF rest, first

LEMMA NoneFly ==
  ASSUME NEW E, NEW queue \in Seq(E), \A e \in E : e.kind # "release"
  PROVE  Once(queue) /\ \A b : ~Flying(b, queue)
<1>1. \A i \in DOMAIN queue : queue[i] \in E OBVIOUS
<1>2. \A i \in DOMAIN queue : queue[i].kind # "release" BY <1>1
<1>. QED BY <1>2 DEF Once, Flying, ReleaseOf

\* A frame goes into a buffer that is not busy, which is away then.
LEMMA DrawKeeps ==
  ASSUME NEW due, NEW current, NEW away, DrawIfPossible(due, current, away), NEW to, NEW by,
         Fit(current, to, by), NEW in, NEW out, Accounts(current, away, in, out)
  PROVE  Accounts(buffers', lent', in, out)
<1>. DEFINE free == {b \in Buffers : ~current[b].busy}
            first == CHOOSE b \in free : \A c \in free : b <= c
<1>1. CASE /\ free # {} /\ Draw(first, away)
           /\ buffers' = [b \in Buffers |->
                IF b > first THEN current[b]
                ELSE [Made(current[b]) EXCEPT !.busy = (b = first) \/ current[b].busy]]
  <2>1. \E b \in free : \A c \in free : b <= c
    <3>1. free \subseteq {1, 2} BY DEF Buffers
    <3>. QED BY <1>1, <3>1
  <2>2. first \in free /\ first \in Buffers BY <2>1
  <2>3. ~current[first].busy BY <2>2
  <2>. HIDE DEF first, free
  <2>4. lent' = away \cup {first} BY <1>1 DEF Draw
  <2>5. ASSUME NEW b \in Buffers
        PROVE  buffers'[b].busy = ((b = first) \/ current[b].busy)
    <3>1. IsBuffer(current[b]) /\ current[b].busy \in BOOLEAN BY DEF Fit, Accounts
    <3>2. CASE b > first
      <4>1. b # first /\ buffers'[b] = current[b] BY <1>1, <2>2, <3>2 DEF Buffers
      <4>. QED BY <3>1, <4>1
    <3>3. CASE ~(b > first)
      <4>. DEFINE made == Made(current[b])
                  now == (b = first) \/ current[b].busy
      <4>1. made = [made |-> made.made, busy |-> made.busy, size |-> made.size, scale |-> made.scale]
        BY <3>1 DEF Made, IsBuffer
      <4>. HIDE DEF made, now
      <4>2. buffers'[b] = [made EXCEPT !.busy = now] BY <1>1, <3>3 DEF made, now
      <4>3. buffers'[b].busy = now BY <4>1, <4>2
      <4>. QED BY <4>3 DEF now
    <3>. QED BY <3>2, <3>3
  <2>. SUFFICES ASSUME NEW b \in Buffers
                PROVE  /\ buffers'[b].busy \in BOOLEAN
                       /\ buffers'[b].busy <=> b \in lent' \/ Flying(b, in) \/ Flying(b, out)
                       /\ b \in lent' => ~Flying(b, in) /\ ~Flying(b, out)
    BY DEF Accounts
  <2>6. CASE b = first
    <3>1. ~Flying(b, in) /\ ~Flying(b, out) BY <2>2, <2>3, <2>6 DEF Accounts
    <3>. QED BY <2>4, <2>5, <2>6, <3>1
  <2>7. CASE b # first
    <3>1. buffers'[b].busy = current[b].busy /\ (b \in lent' <=> b \in away)
      <4>1. current[b].busy \in BOOLEAN BY DEF Accounts
      <4>. QED BY <2>4, <2>5, <2>7, <4>1
    <3>. QED BY <3>1 DEF Accounts
  <2>. QED BY <2>6, <2>7
<1>2. CASE buffers' = current /\ lent' = away BY <1>2 DEF Accounts
<1>. QED BY <1>1, <1>2 DEF DrawIfPossible

LEMMA FreedAccounts ==
  ASSUME NEW pair, NEW to, NEW by, Fit(pair, to, by), NEW n \in Buffers, NEW away, NEW in, NEW out,
         NEW rest,
         Accounts(pair, away, in, out), ~Flying(n, in), ~Flying(n, rest),
         \A b \in Buffers : Flying(b, out) <=> Flying(b, rest) \/ b = n
  PROVE  Accounts([pair EXCEPT ![n].busy = FALSE], away, in, rest)
<1>. DEFINE freed == [pair EXCEPT ![n].busy = FALSE]
<1>1. pair = [b \in Buffers |-> pair[b]] BY DEF Fit
<1>2. freed = [b \in Buffers |-> IF b = n THEN [pair[b] EXCEPT !.busy = FALSE] ELSE pair[b]]
  BY <1>1
<1>3. freed[n].busy = FALSE
  <2>. DEFINE old == pair[n]
              no == FALSE
  <2>1. old = [made |-> old.made, busy |-> old.busy, size |-> old.size, scale |-> old.scale]
    BY DEF Fit, IsBuffer
  <2>2. freed[n] = [old EXCEPT !.busy = no] BY <1>2
  <2>. HIDE DEF old, no, freed
  <2>3. freed[n].busy = no BY <2>1, <2>2
  <2>. QED BY <2>3 DEF no
<1>4. \A b \in Buffers : b # n => freed[b] = pair[b] BY <1>2
<1>. HIDE DEF freed
<1>5. n \notin away BY DEF Accounts
<1>. SUFFICES ASSUME NEW b \in Buffers
              PROVE  /\ freed[b].busy \in BOOLEAN
                     /\ freed[b].busy <=> b \in away \/ Flying(b, in) \/ Flying(b, rest)
                     /\ b \in away => ~Flying(b, in) /\ ~Flying(b, rest)
  BY DEF Accounts, freed
<1>6. CASE b = n BY <1>3, <1>5, <1>6
<1>7. CASE b # n
  <2>1. freed[b].busy = pair[b].busy BY <1>4, <1>7
  <2>2. Flying(b, out) <=> Flying(b, rest) BY <1>7
  <2>. QED BY <2>1, <2>2 DEF Accounts
<1>. QED BY <1>6, <1>7

LEMMA KeptDispatch ==
  ASSUME TypeInv, FrameInv, KeptInv, Dispatch
  PROVE  KeptInv'
<1>. DEFINE K == Keys[dialog.program]
            E == EventOf(K)
            U == Unreleasing(K)
            rest == Tail(batch)
<1>1. pc = "dispatch" /\ batch # <<>> /\ UNCHANGED pc /\ (Taken \/ TakenWithoutReleases)
  BY DEF Dispatch, Configure, SetScale, Release, KeyDown, KeyUp, Leave, SetRepeat, SetKeymap,
         Modifiers, Closed, Handling, Taken, TakenWithoutReleases
<1>2. inbox = <<>> BY <1>1 DEF KeptInv
<1>3. inbox \in Seq(E) /\ batch \in Seq(E) BY DEF TypeInv
<1>4. rest \in Seq(E) /\ Head(batch) \in E
  <2>. HIDE DEF E
  <2>. QED BY <1>1, <1>3
<1>5. /\ \A b : Flying(b, batch) <=> Flying(b, rest) \/ Head(batch) = ReleaseOf(b)
      /\ Once(rest)
      /\ \A b \in Buffers : Head(batch) = ReleaseOf(b) => ~Flying(b, rest)
  <2>. HIDE DEF E, rest
  <2>. QED BY <1>1, <1>3, RestFlies DEF KeptInv, rest
<1>. HIDE DEF rest
<1>6. CASE Taken /\ Head(batch).kind # "release" /\ Accounts(buffers', lent', inbox, rest)
  <2>1. inbox' = inbox /\ batch' = rest BY <1>6 DEF Taken, rest
  <2>. QED BY <1>1, <1>2, <1>5, <1>6, <2>1, EmptyFlies DEF KeptInv
<1>7. Head(batch).kind # "release" => Accounts(buffers, lent, inbox, rest)
  <2>. SUFFICES ASSUME Head(batch).kind # "release" PROVE Accounts(buffers, lent, inbox, rest)
    OBVIOUS
  <2>1. \A b : Flying(b, batch) <=> Flying(b, rest) BY <1>5 DEF ReleaseOf
  <2>. QED BY <2>1 DEF KeptInv, Accounts
<1>8. CASE Taken /\ Head(batch).kind # "release" /\ UNCHANGED frames
  <2>1. UNCHANGED <<buffers, lent>> BY <1>8 DEF frames
  <2>. QED BY <1>6, <1>7, <1>8, <2>1
<1>9. CASE Taken /\ Head(batch).kind # "release" /\ Redraw
  <2>1. Fit(buffers, size, scale) BY DEF FrameInv
  <2>. DEFINE due == TRUE
  <2>2. DrawIfPossible(due, buffers, lent) BY <1>9 DEF Redraw
  <2>. HIDE DEF due
  <2>3. Accounts(buffers', lent', inbox, rest) BY <1>7, <1>9, <2>1, <2>2, DrawKeeps
  <2>. QED BY <1>6, <1>9, <2>3
<1>10. CASE TakenWithoutReleases /\ DestroyBuffersAndRedraw
  <2>1. inbox' = WithoutReleases(inbox) /\ batch' = WithoutReleases(rest)
    BY <1>10 DEF TakenWithoutReleases, rest
  <2>2. \A q \in Seq(E) : WithoutReleases(q) \in Seq(U)
    <3>. SUFFICES ASSUME NEW q \in Seq(E) PROVE WithoutReleases(q) \in Seq(U) OBVIOUS
    <3>1. {} \in SUBSET K OBVIOUS
    <3>. QED BY <3>1, KeptEvents
  <2>3. inbox' \in Seq(U) /\ batch' \in Seq(U) BY <1>3, <1>4, <2>1, <2>2
  <2>4. \A e \in U : e.kind # "release" BY DEF Unreleasing
  <2>5. WithoutReleases(<<>>) = <<>>
    <3>. DEFINE none == <<>>
    <3>1. none \in Seq(E) /\ Len(none) = 0 OBVIOUS
    <3>2. PICK d : Keeps(d, K, none) BY <3>1, KeepTrace
    <3>. QED BY <3>1, <3>2 DEF Keeps
  <2>6. inbox' = <<>> BY <1>2, <2>1, <2>5
  <2>. HIDE DEF U
  <2>7. Once(inbox') /\ Once(batch') /\ \A b : ~Flying(b, inbox') /\ ~Flying(b, batch')
    BY <2>3, <2>4, NoneFly
  <2>. DEFINE due == TRUE
              current == [b \in Buffers |-> NoBuffer]
              away == {}
  <2>8. DrawIfPossible(due, current, away) BY <1>10 DEF DestroyBuffersAndRedraw
  <2>9. Fit(current, size, scale) BY NoBuffersFit
  <2>10. Accounts(current, away, inbox', batch') BY <2>7 DEF Accounts, NoBuffer
  <2>. HIDE DEF due, current, away
  <2>11. Accounts(buffers', lent', inbox', batch') BY <2>8, <2>9, <2>10, DrawKeeps
  <2>. QED BY <1>1, <2>6, <2>7, <2>11 DEF KeptInv
<1>11. CASE Release
  <2>. DEFINE n == Head(batch).buffer
              freed == [buffers EXCEPT ![n].busy = FALSE]
  <2>1. DrawIfPossible(dirty, freed, lent) /\ inbox' = inbox /\ batch' = rest
        /\ Head(batch).kind = "release"
    BY <1>11 DEF Release, Handling, Taken, rest
  <2>2. n \in Buffers /\ Head(batch) = ReleaseOf(n)
    BY <1>4, <2>1 DEF EventOf, Greeting, ReleaseOf
  <2>. HIDE DEF n, freed
  <2>3. Fit(buffers, size, scale) /\ Fit(freed, size, scale) BY FreedFits DEF FrameInv, freed
  <2>4. ~Flying(n, inbox) /\ ~Flying(n, rest) BY <1>2, <1>5, <2>2, EmptyFlies
  <2>5. \A b : ReleaseOf(n) = ReleaseOf(b) <=> b = n BY DEF ReleaseOf
  <2>6. \A b \in Buffers : Flying(b, batch) <=> Flying(b, rest) \/ b = n BY <1>5, <2>2, <2>5
  <2>7. Accounts(buffers, lent, inbox, batch) BY DEF KeptInv
  <2>8. Accounts(freed, lent, inbox, rest)
    BY <2>2, <2>3, <2>4, <2>6, <2>7, FreedAccounts DEF freed
  <2>9. Accounts(buffers', lent', inbox, rest) BY <2>1, <2>3, <2>8, DrawKeeps
  <2>. QED BY <1>1, <1>2, <1>5, <2>1, <2>9, EmptyFlies DEF KeptInv
<1>12. CASE KeyDown
  <2>1. Taken /\ Head(batch).kind # "release" /\ AppKey(Head(batch).key)
    BY <1>12 DEF KeyDown, Handling
  <2>2. UNCHANGED frames \/ Redraw BY <2>1 DEF AppKey, Cancel, Choose, MoveSelection, Type
  <2>. QED BY <1>8, <1>9, <2>1, <2>2
<1>13. CASE Configure \/ SetScale
  BY <1>8, <1>9, <1>10, <1>13 DEF Configure, SetScale, Handling
<1>14. CASE KeyUp \/ Leave \/ SetRepeat \/ SetKeymap \/ Modifiers \/ Closed
  BY <1>8, <1>14 DEF KeyUp, Leave, SetRepeat, SetKeymap, Modifiers, Closed, Cancel, Handling
<1>. QED BY <1>11, <1>12, <1>13, <1>14 DEF Dispatch

LEMMA KeptInit == Init => KeptInv
<1>. SUFFICES ASSUME Init PROVE KeptInv
  OBVIOUS
<1>1. \A b \in Buffers : buffers[b].busy = FALSE BY DEF Init, NoBuffer
<1>2. lent = {} /\ inbox = <<>> /\ batch = <<>> BY DEF Init
<1>. QED BY <1>1, <1>2, EmptyFlies DEF KeptInv, Accounts

LEMMA KeptNext ==
  ASSUME TypeInv, FrameInv, KeptInv, [Next]_vars
  PROVE  KeptInv'
<1>. DEFINE E == EventOf(Keys[dialog.program])
<1>1. CASE Dispatch BY <1>1, KeptDispatch
<1>2. CASE Repeat
  <2>1. AppKey(repeat_key) /\ pc = "repeat" /\ UNCHANGED <<pc, inbox, batch>> BY <1>2 DEF Repeat
  <2>2. CASE Redraw
    <3>1. Fit(buffers, size, scale) /\ Accounts(buffers, lent, inbox, batch) BY DEF FrameInv, KeptInv
    <3>. DEFINE due == TRUE
    <3>2. DrawIfPossible(due, buffers, lent) BY <2>2 DEF Redraw
    <3>. HIDE DEF due
    <3>3. Accounts(buffers', lent', inbox, batch) BY <3>1, <3>2, DrawKeeps
    <3>. QED BY <2>1, <3>3 DEF KeptInv
  <2>3. CASE UNCHANGED frames BY <2>1, <2>3 DEF KeptInv, frames, Accounts
  <2>. QED BY <2>1, <2>2, <2>3 DEF AppKey, Cancel, Choose, MoveSelection, Type
<1>3. CASE Poll
  <2>1. pc = "poll" /\ pc' = "dispatch" /\ batch' = inbox /\ inbox' = <<>> /\ UNCHANGED <<buffers,
                                                                                          lent>>
    BY <1>3 DEF Poll, frames
  <2>2. batch = <<>> BY <2>1 DEF KeptInv
  <2>3. Accounts(buffers, lent, batch, inbox) BY DEF KeptInv, Accounts
  <2>. QED BY <2>1, <2>2, <2>3, EmptyFlies DEF KeptInv
<1>4. CASE Connect
  <2>1. /\ pc = "connect" /\ UNCHANGED <<buffers, lent, batch>>
        /\ (inbox' \in Greetings /\ pc' = "poll") \/ (inbox' = inbox /\ pc' = "ended")
    BY <1>4 DEF Connect, Exit, frames
  <2>2. inbox = <<>> /\ batch = <<>> BY <2>1 DEF TypeInv, Starting
  <2>3. Greetings \subseteq Seq(Greeting) BY DialogAssumption
  <2>4. \A e \in Greeting : e.kind # "release" BY DEF Greeting
  <2>5. inbox' \in Seq(Greeting) => Once(inbox') /\ \A b : ~Flying(b, inbox')
    <3>. DEFINE G == Greeting
    <3>. HIDE DEF G
    <3>1. \A e \in G : e.kind # "release" BY <2>4 DEF G
    <3>2. inbox' \in Seq(G) => Once(inbox') /\ \A b : ~Flying(b, inbox') BY <3>1, NoneFly
    <3>. QED BY <3>2 DEF G
  <2>6. Once(inbox') /\ \A b : ~Flying(b, inbox') BY <2>1, <2>2, <2>3, <2>5, EmptyFlies
  <2>. QED BY <2>1, <2>2, <2>6, EmptyFlies DEF KeptInv, Accounts
<1>5. CASE Send
  <2>1. PICK e \in Events : inbox' = Append(inbox, e) BY <1>5 DEF Send
  <2>2. pc = "poll" /\ UNCHANGED <<pc, buffers, lent, batch>> BY <1>5 DEF Send, frames
  <2>3. e.kind # "release" BY DEF Events
  <2>4. inbox \in Seq(E \cup {e})
    <3>1. inbox \in Seq(E) BY DEF TypeInv
    <3>. HIDE DEF E
    <3>. QED BY <3>1
  <2>5. \A b : e # ReleaseOf(b) BY <2>3 DEF ReleaseOf
  <2>6. /\ \A b : Flying(b, inbox') <=> Flying(b, inbox)
        /\ Once(inbox')
    <3>. DEFINE S == E \cup {e}
    <3>1. inbox \in Seq(S) /\ e \in S BY <2>4
    <3>. HIDE DEF S
    <3>. QED BY <2>1, <2>5, <3>1, OneFlies DEF KeptInv
  <2>. QED BY <2>2, <2>6 DEF KeptInv, Accounts
<1>6. ASSUME NEW n \in Buffers, SendRelease(n)
      PROVE  KeptInv'
  <2>1. /\ pc = "poll" /\ n \in lent /\ lent' = lent \ {n} /\ inbox' = Append(inbox, ReleaseOf(n))
        /\ UNCHANGED <<pc, buffers, batch>>
    BY <1>6 DEF SendRelease, ReleaseOf
  <2>2. ReleaseOf(n) \in E BY DEF EventOf, ReleaseOf
  <2>3. inbox \in Seq(E) BY DEF TypeInv
  <2>4. \A b : ReleaseOf(n) = ReleaseOf(b) <=> b = n BY DEF ReleaseOf
  <2>5. ~Flying(n, inbox) /\ ~Flying(n, batch) BY <2>1 DEF KeptInv, Accounts
  <2>6. /\ \A b : Flying(b, inbox') <=> Flying(b, inbox) \/ b = n
        /\ Once(inbox')
    <3>. HIDE DEF E
    <3>. DEFINE r == ReleaseOf(n)
    <3>1. r \in E /\ inbox' = Append(inbox, r) BY <2>1, <2>2
    <3>2. \A b \in Buffers : r = ReleaseOf(b) => ~Flying(b, inbox) BY <2>4, <2>5
    <3>3. \A b : Flying(b, inbox') <=> Flying(b, inbox) \/ r = ReleaseOf(b)
      BY <2>3, <3>1, OneFlies
    <3>4. Once(inbox') BY <2>3, <3>1, <3>2, OneFlies DEF KeptInv
    <3>. QED BY <2>4, <3>3, <3>4
  <2>7. Accounts(buffers, lent', inbox', batch)
    <3>. SUFFICES ASSUME NEW b \in Buffers
                  PROVE  /\ buffers[b].busy \in BOOLEAN
                         /\ buffers[b].busy <=> b \in lent' \/ Flying(b, inbox') \/ Flying(b, batch)
                         /\ b \in lent' => ~Flying(b, inbox') /\ ~Flying(b, batch)
      BY DEF Accounts
    <3>. QED BY <2>1, <2>5, <2>6 DEF KeptInv, Accounts
  <2>. QED BY <2>1, <2>6, <2>7 DEF KeptInv
<1>7. CASE \/ ReadInput \/ TakeLock \/ LoadTheme \/ Dispatched \/ Repeated \/ TimerRead \/ Break
           \/ Tick \/ Pause \/ UNCHANGED vars
  <2>1. UNCHANGED <<buffers, lent, inbox, batch>>
    BY <1>7 DEF ReadInput, TakeLock, LoadTheme, Dispatched, Repeated, TimerRead, Break, Tick,
                Pause, frames, vars
  <2>2. /\ pc \in {"poll", "ended"} /\ inbox # <<>> => pc' \in {"poll", "ended"}
        /\ pc \in {"dispatch", "ended"} /\ batch # <<>> => pc' \in {"dispatch", "ended"}
    BY <1>7 DEF ReadInput, TakeLock, LoadTheme, Dispatched, Repeated, TimerRead, Break, Exit, Tick,
                Pause, vars
  <2>. QED BY <2>1, <2>2 DEF KeptInv
<1>. QED BY <1>1, <1>2, <1>3, <1>4, <1>5, <1>6, <1>7 DEF Next, Program

\* A buffer is busy exactly as long as the compositor has it or its release is not
\* handled, and it is of the size and scale there are: no frame is drawn into pixels
\* the compositor reads, and no buffer is lost, in any order of events.
THEOREM BuffersSafe == Spec => []BuffersKept
<1>1. FrameInv /\ KeptInv => BuffersKept
  BY DEF FrameInv, Fit, KeptInv, Accounts, Flying, ReleaseOf, BuffersKept
<1>. QED BY <1>1, TypeInit, TypeNext, FrameInit, FrameNext, KeptInit, KeptNext, PTL DEF Spec
=============================================================================
