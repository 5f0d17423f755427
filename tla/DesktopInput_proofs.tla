------------------------- MODULE DesktopInput_proofs -------------------------
(***************************************************************************)
(* What hd-menu and hd-message read, whatever the JSON they get.           *)
(***************************************************************************)
EXTENDS DesktopLayout, Induction

-----------------------------------------------------------------------------
(* Members                                                                 *)

\* What some of the members of an object hold, which are arrays or objects.
Held(members, chosen) ==
  UNION {{members[i].value.v[j] : j \in DOMAIN members[i].value.v} :
           i \in chosen \cap DOMAIN members}

LEMMA IsSeqTyped ==
  ASSUME NEW s, IsSeq(s), NEW S, \A i \in DOMAIN s : s[i] \in S
  PROVE  s \in Seq(S) /\ DOMAIN s = 1 .. Len(s) /\ Len(s) \in Nat
<1>1. s = [i \in 1 .. Len(s) |-> s[i]] /\ Len(s) \in Nat BY DEF IsSeq
<1>2. DOMAIN s = 1 .. Len(s) BY <1>1
<1>. QED BY <1>1, <1>2

LEMMA JoinedTyped ==
  ASSUME NEW members, IsSeq(members), NEW chosen,
         \A i \in chosen \cap DOMAIN members : IsSeq(members[i].value.v)
  PROVE  Joined(members, chosen) \in Seq(Held(members, chosen))
<1>. DEFINE n == Len(members)
            A == Seq(Held(members, chosen))
            Step(all, i) == IF i \in chosen THEN all \o members[i].value.v ELSE all
            step == [p \in A \X (1 .. n) |-> Step(p[1], p[2])]
            seq == [i \in DOMAIN members |-> i]
            Eq(it) == it = [s \in SUBSET (1 .. n) |->
                              IF s = {} THEN <<>> ELSE Step(it[s \ {Max(s)}], seq[Max(s)])]
            it == CHOOSE it : Eq(it)
<1>1. n \in Nat /\ DOMAIN members = 1 .. n BY DEF IsSeq
<1>2. step \in [A \X (1 .. n) -> A]
  <2>1. ASSUME NEW i \in 1 .. n, i \in chosen PROVE members[i].value.v \in A
    <3>1. IsSeq(members[i].value.v) BY <1>1, <2>1
    <3>2. \A j \in DOMAIN members[i].value.v : members[i].value.v[j] \in Held(members, chosen)
      BY <1>1, <2>1 DEF Held
    <3>. QED BY <3>1, <3>2, IsSeqTyped
  <2>. QED BY <2>1
<1>. HIDE DEF A
<1>3. <<>> \in A BY DEF A
<1>4. PICK g \in [SUBSET (1 .. n) -> A] : FoldsBy(g, <<>>, step, n)
  BY <1>1, <1>2, <1>3, FoldExists
<1>5. Joined(members, chosen) = it[1 .. n]
  BY <1>1 DEF Joined, FoldLeftDomain, FoldLeft, MapThenFoldSet
<1>6. \A s \in SUBSET (1 .. n) : s # {} => Max(s) \in 1 .. n
  BY <1>1, MaxOfSome
<1>7. Eq(g) BY <1>1, <1>4, <1>6 DEF FoldsBy
<1>8. Eq(it) BY <1>7
<1>. HIDE DEF it
<1>9. StepsBy(it, A, <<>>, step, n) BY <1>1, <1>6, <1>8 DEF StepsBy
<1>. HIDE DEF step
<1>10. PICK d \in [0 .. n -> A] : Trace(d, <<>>, step, it[1 .. n], n)
  BY <1>1, <1>2, <1>3, <1>9, FoldTrace
<1>11. d[n] \in A /\ d[n] = it[1 .. n] BY <1>1, <1>10 DEF Trace
<1>. QED BY <1>5, <1>11 DEF A

\* Of members of the same name, the last one counts: it is one of them.
LEMMA LastIsMember ==
  ASSUME NEW object, IsSeq(object.v), NEW key, Members(object, key) # {}
  PROVE  \E i \in DOMAIN object.v :
           object.v[i].key = key /\ LastMember(object, key) = object.v[i].value
<1>1. Len(object.v) \in Nat /\ DOMAIN object.v = 1 .. Len(object.v) BY DEF IsSeq
<1>2. Members(object, key) \subseteq 1 .. Len(object.v) BY <1>1 DEF Members
<1>3. Max(Members(object, key)) \in Members(object, key) BY <1>1, <1>2, MaxOfSome
<1>. QED BY <1>3 DEF Members, LastMember

LEMMA StringTyped ==
  ASSUME NEW object, MembersTyped(object.v), NEW key,
         \A i \in DOMAIN object.v :
           object.v[i].key = key => object.v[i].value.type \in {"string"}
  PROVE  /\ IsSeq(Member(object, key, NoText))
         /\ key = "text" => Member(object, key, NoText) \in Texts
<1>1. CASE Members(object, key) = {}
  <2>1. IsSeq(NoText) /\ NoText \in Texts BY DEF IsSeq, NoText, Texts
  <2>. QED BY <1>1, <2>1 DEF Member
<1>2. CASE Members(object, key) # {}
  <2>1. IsSeq(object.v) BY DEF MembersTyped
  <2>2. PICK i \in DOMAIN object.v :
          object.v[i].key = key /\ LastMember(object, key) = object.v[i].value
    BY <1>2, <2>1, LastIsMember
  <2>3. IsSeq(object.v[i].value.v) /\ (key = "text" => object.v[i].value.v \in Texts)
    BY <2>2 DEF MembersTyped
  <2>4. Member(object, key, NoText) = object.v[i].value.v BY <1>2, <2>2 DEF Member
  <2>. QED BY <2>3, <2>4
<1>. QED BY <1>1, <1>2

LEMMA ElementsTyped ==
  ASSUME NEW object, object.type = "object", InputTyped(object), NEW key,
         \A i \in DOMAIN object.v :
           object.v[i].key = key => object.v[i].value.type \in {"array"}
  PROVE  \E S : Elements(object, key) \in Seq(S) /\ \A o \in S : ObjectTyped(o)
<1>1. MembersTyped(object.v) BY DEF InputTyped, ObjectTyped
<1>2. \A i \in Members(object, key) : i \in DOMAIN object.v /\ IsSeq(object.v[i].value.v)
  BY <1>1 DEF MembersTyped, Members
<1>3. Elements(object, key) \in Seq(Held(object.v, Members(object, key)))
  BY <1>1, <1>2, JoinedTyped DEF Elements, MembersTyped
<1>4. \A o \in Held(object.v, Members(object, key)) : ObjectTyped(o)
  BY <1>2 DEF Held, Members, InputTyped
<1>. QED BY <1>3, <1>4

SizeSpec == [set : BOOLEAN, percent : BOOLEAN, value : Int]

LEMMA SizeTyped ==
  ASSUME NEW object, MembersTyped(object.v), NEW key,
         \A i \in DOMAIN object.v :
           object.v[i].key = key => object.v[i].value.type \in SizeTypes
  PROVE  read_size(object, key) \in SizeSpec
<1>1. CASE Members(object, key) = {} BY <1>1 DEF read_size, NoSize, SizeSpec
<1>2. CASE Members(object, key) # {}
  <2>1. IsSeq(object.v) BY DEF MembersTyped
  <2>2. LastMember(object, key).v \in Int BY <1>2, <2>1, LastIsMember DEF MembersTyped
  <2>. QED BY <1>2, <2>2 DEF read_size, SizeSpec
<1>. QED BY <1>1, <1>2

\* The index of the first element that passes a test is one of a sequence.
LEMMA FirstOfSome ==
  ASSUME NEW n \in Nat, NEW S, S \subseteq 1 .. n
  PROVE  (IF S # {} THEN Min(S) ELSE 0) \in 0 .. n
<1>1. CASE S # {}
  <2>1. Min(S) \in S BY <1>1, MinOfSome
  <2>2. Min(S) \in 1 .. n BY <2>1
  <2>. HIDE DEF Min
  <2>. QED BY <1>1, <2>2
<1>2. CASE S = {} BY <1>2
<1>. QED BY <1>1, <1>2

-----------------------------------------------------------------------------
(* Dialogs                                                                 *)

\* A dialog that was read has items, and starts at one of them.
DialogTyped(dialog) ==
  /\ dialog.program \in {"menu", "message"}
  /\ dialog.width \in SizeSpec /\ dialog.height \in SizeSpec
  /\ Len(dialog.heading) \in Nat /\ dialog.text \in Texts
  /\ \E S : dialog.items \in Seq(S)
  /\ \A i \in DOMAIN dialog.items : Len(dialog.items[i].label) \in Nat
  /\ dialog.selected \in 1 .. Len(dialog.items)

LEMMA ItemsTyped ==
  ASSUME NEW S, NEW objects \in Seq(S), NEW types, "label" \in DOMAIN types,
         types["label"] = {"string"},
         \A i \in DOMAIN objects : ObjectTyped(objects[i]) /\ ItemValid(objects[i], types)
  PROVE  /\ \E T : Items(objects) \in Seq(T)
         /\ Len(Items(objects)) = Len(objects)
         /\ \A i \in DOMAIN Items(objects) : Len(Items(objects)[i].label) \in Nat
<1>. DEFINE T == {Item(objects[i]) : i \in DOMAIN objects}
<1>1. Items(objects) \in Seq(T) /\ Len(Items(objects)) = Len(objects) BY DEF Items
<1>2. ASSUME NEW i \in DOMAIN objects PROVE Len(Item(objects[i]).label) \in Nat
  <2>. DEFINE object == objects[i]
  <2>1. MembersTyped(object.v) BY DEF ItemValid, ReadsAs, ObjectTyped
  <2>2. \A k \in DOMAIN object.v :
          object.v[k].key = "label" => object.v[k].value.type \in {"string"}
    BY DEF ItemValid, ReadsAs
  <2>3. IsSeq(Member(object, "label", NoText)) BY <2>1, <2>2, StringTyped
  <2>. QED BY <2>3 DEF Item, IsSeq
<1>. QED BY <1>1, <1>2 DEF Items

LEMMA MenuTyped ==
  ASSUME NEW text, InputTyped(text.v), read_menu(text) # Unreadable
  PROVE  DialogTyped(read_menu(text)) /\ read_menu(text).program = "menu"
<1>. DEFINE types == [banner |-> {"string"}, width |-> SizeTypes, height |-> SizeTypes,
                      options |-> {"array"}]
            options == Elements(text.v, "options")
            default == SelectInSeq(options, LAMBDA o : Member(o, "default", FALSE))
<1>1. /\ ReadsAs(text.v, types) /\ options # <<>>
      /\ \A i \in DOMAIN options : ItemValid(options[i], OptionTypes)
  BY DEF read_menu
<1>2. read_menu(text) =
        [program |-> "menu", heading |-> Member(text.v, "banner", NoText), text |-> NoText,
         width |-> read_size(text.v, "width"), height |-> read_size(text.v, "height"),
         items |-> Items(options), selected |-> IF default = 0 THEN 1 ELSE default]
  BY DEF read_menu
<1>3. text.v.type = "object" /\ MembersTyped(text.v.v) BY <1>1 DEF ReadsAs, InputTyped, ObjectTyped
<1>4. \A i \in DOMAIN text.v.v :
        /\ text.v.v[i].key = "banner" => text.v.v[i].value.type \in {"string"}
        /\ text.v.v[i].key \in {"width", "height"} => text.v.v[i].value.type \in SizeTypes
        /\ text.v.v[i].key = "options" => text.v.v[i].value.type \in {"array"}
  BY <1>1 DEF ReadsAs
<1>5. read_size(text.v, "width") \in SizeSpec /\ read_size(text.v, "height") \in SizeSpec
  BY <1>3, <1>4, SizeTyped
<1>6. Len(Member(text.v, "banner", NoText)) \in Nat BY <1>3, <1>4, StringTyped DEF IsSeq
<1>7. PICK S : options \in Seq(S) /\ \A o \in S : ObjectTyped(o) BY <1>3, <1>4, ElementsTyped
<1>8. \A i \in DOMAIN options : ObjectTyped(options[i])
  <2>. HIDE DEF options
  <2>. QED BY <1>7
<1>9. Len(options) \in Nat /\ Len(options) >= 1 BY <1>1, <1>7
<1>10. default \in 0 .. Len(options)
  <2>. DEFINE I == {i \in 1 .. Len(options) : Member(options[i], "default", FALSE)}
  <2>1. default = IF I # {} THEN Min(I) ELSE 0 BY DEF SelectInSeq
  <2>2. I \subseteq 1 .. Len(options) OBVIOUS
  <2>. HIDE DEF I, default, options
  <2>. QED BY <1>9, <2>1, <2>2, FirstOfSome
<1>. HIDE DEF options, default
<1>11. /\ \E T : Items(options) \in Seq(T)
      /\ Len(Items(options)) = Len(options)
      /\ \A i \in DOMAIN Items(options) : Len(Items(options)[i].label) \in Nat
  <2>1. "label" \in DOMAIN OptionTypes /\ OptionTypes["label"] = {"string"} BY DEF OptionTypes
  <2>. QED BY <1>1, <1>7, <1>8, <2>1, ItemsTyped
<1>12. NoText \in Texts BY DEF NoText, Texts
<1>. QED BY <1>2, <1>5, <1>9, <1>10, <1>11, <1>6, <1>12 DEF DialogTyped

LEMMA MessageTyped ==
  ASSUME NEW text, InputTyped(text.v), read_message(text) # Unreadable
  PROVE  DialogTyped(read_message(text)) /\ read_message(text).program = "message"
<1>. DEFINE types == [title |-> {"string"}, text |-> {"string"}, width |-> SizeTypes,
                      buttons |-> {"array"}, default |-> {"string"}]
            buttons == Elements(text.v, "buttons")
            given == Member(text.v, "default", NoText)
            default == IF Members(text.v, "default") = {} THEN 1
                       ELSE SelectInSeq(Items(buttons), LAMBDA b : b.value = given)
<1>1. /\ ReadsAs(text.v, types) /\ buttons # <<>> /\ default # 0
      /\ \A i \in DOMAIN buttons : ItemValid(buttons[i], ButtonTypes)
  BY DEF read_message
<1>2. read_message(text) =
        [program |-> "message", heading |-> Member(text.v, "title", NoText),
         text |-> Member(text.v, "text", NoText),
         width |-> read_size(text.v, "width"), height |-> NoSize,
         items |-> Items(buttons), selected |-> default]
  BY DEF read_message
<1>3. text.v.type = "object" /\ MembersTyped(text.v.v) BY <1>1 DEF ReadsAs, InputTyped, ObjectTyped
<1>4. \A i \in DOMAIN text.v.v :
        /\ text.v.v[i].key \in {"title", "text"} => text.v.v[i].value.type \in {"string"}
        /\ text.v.v[i].key = "width" => text.v.v[i].value.type \in SizeTypes
        /\ text.v.v[i].key = "buttons" => text.v.v[i].value.type \in {"array"}
  BY <1>1 DEF ReadsAs
<1>5. read_size(text.v, "width") \in SizeSpec /\ NoSize \in SizeSpec
  BY <1>3, <1>4, SizeTyped DEF NoSize, SizeSpec
<1>6. Len(Member(text.v, "title", NoText)) \in Nat /\ Member(text.v, "text", NoText) \in Texts
  BY <1>3, <1>4, StringTyped DEF IsSeq
<1>7. PICK S : buttons \in Seq(S) /\ \A o \in S : ObjectTyped(o) BY <1>3, <1>4, ElementsTyped
<1>8. \A i \in DOMAIN buttons : ObjectTyped(buttons[i])
  <2>. HIDE DEF buttons
  <2>. QED BY <1>7
<1>9. Len(buttons) \in Nat /\ Len(buttons) >= 1 BY <1>1, <1>7
<1>. HIDE DEF buttons
<1>10. /\ \E T : Items(buttons) \in Seq(T)
      /\ Len(Items(buttons)) = Len(buttons)
      /\ \A i \in DOMAIN Items(buttons) : Len(Items(buttons)[i].label) \in Nat
  <2>1. "label" \in DOMAIN ButtonTypes /\ ButtonTypes["label"] = {"string"} BY DEF ButtonTypes
  <2>. QED BY <1>1, <1>7, <1>8, <2>1, ItemsTyped DEF buttons
<1>11. default \in 1 .. Len(buttons)
  <2>. DEFINE I == {i \in 1 .. Len(Items(buttons)) : Items(buttons)[i].value = given}
  <2>1. default = IF Members(text.v, "default") = {} THEN 1
                  ELSE IF I # {} THEN Min(I) ELSE 0
    BY DEF SelectInSeq
  <2>2. I \subseteq 1 .. Len(buttons) BY <1>10
  <2>. HIDE DEF I, default
  <2>3. (IF I # {} THEN Min(I) ELSE 0) \in 0 .. Len(buttons) BY <1>9, <2>2, FirstOfSome
  <2>. QED BY <1>1, <1>9, <2>1, <2>3
<1>. HIDE DEF default
<1>. QED BY <1>2, <1>5, <1>10, <1>11, <1>6 DEF DialogTyped

-----------------------------------------------------------------------------
(* Themes                                                                  *)

ThemeTyped(theme) ==
  theme.big \in Int /\ theme.normal \in Int /\ theme.icon \in Nat /\ theme.border \in Nat

\* The fields that were read of a configuration.
FieldsTyped(fields) ==
  /\ IsSeq(fields)
  /\ \A i \in DOMAIN fields : fields[i].value.type = "number" => fields[i].value.v \in Int

LEMMA SeqIsSeq ==
  ASSUME NEW S, NEW s \in Seq(S)
  PROVE  IsSeq(s) /\ \A i \in DOMAIN s : s[i] \in S
BY DEF IsSeq

LEMMA KeyTyped ==
  ASSUME NEW file, FileTyped(file), NEW name
  PROVE  FieldsTyped(read_key(file, name).fields)
<1>. DEFINE named == {i \in Members(file, name) : file.v[i].value.type = "object"}
<1>1. \A i \in named : i \in DOMAIN file.v /\ MembersTyped(file.v[i].value.v)
  BY DEF FileTyped, Members, ObjectTyped
<1>2. Joined(file.v, named) \in Seq(Held(file.v, named))
  BY <1>1, JoinedTyped DEF FileTyped, MembersTyped
<1>3. ASSUME NEW f \in Held(file.v, named), f.value.type = "number" PROVE f.value.v \in Int
  <2>1. PICK i \in named : \E j \in DOMAIN file.v[i].value.v : f = file.v[i].value.v[j]
    BY DEF Held
  <2>2. MembersTyped(file.v[i].value.v) BY <1>1
  <2>3. "number" \in SizeTypes BY DEF SizeTypes
  <2>. HIDE DEF named
  <2>. QED BY <1>3, <2>1, <2>2, <2>3 DEF MembersTyped
<1>4. read_key(file, name).fields = Joined(file.v, named) BY DEF read_key
<1>. HIDE DEF named
<1>. QED BY <1>2, <1>3, <1>4, SeqIsSeq DEF FieldsTyped

LEMMA NumberTyped ==
  ASSUME NEW fields, FieldsTyped(fields), NEW name, NEW least \in Int, NEW default \in Int
  PROVE  /\ Number(fields, name, least, default) \in Int
         /\ default >= least => Number(fields, name, least, default) >= least
<1>. DEFINE numbers == Numbers(fields, name)
<1>1. Len(fields) \in Nat /\ DOMAIN fields = 1 .. Len(fields) BY DEF FieldsTyped, IsSeq
<1>2. numbers \subseteq 1 .. Len(fields) BY <1>1 DEF Numbers
<1>3. numbers # {} => Max(numbers) \in numbers BY <1>1, <1>2, MaxOfSome
<1>4. numbers # {} => fields[Max(numbers)].value.v \in Int
  BY <1>3 DEF Numbers, FieldsTyped
<1>. QED BY <1>4 DEF Number

LEMMA ThemeRead ==
  ASSUME NEW fields, FieldsTyped(fields)
  PROVE  ThemeTyped(read_theme(fields))
<1>1. DefaultTheme.big \in Nat /\ DefaultTheme.normal \in Nat /\ DefaultTheme.icon \in Nat
        /\ DefaultTheme.border \in Nat
  BY DEF DefaultTheme, Whole
<1>2. DefaultTheme.icon >= 1 /\ DefaultTheme.border >= 0 BY DEF DefaultTheme, Whole
<1>3. /\ Number(fields, "font-size-big", 1, DefaultTheme.big) \in Int
      /\ Number(fields, "font-size-normal", 1, DefaultTheme.normal) \in Int
      /\ Number(fields, "icon_size", 1, DefaultTheme.icon) \in Nat
      /\ Number(fields, "border", 0, DefaultTheme.border) \in Nat
  BY <1>1, <1>2, NumberTyped
<1>. QED BY <1>3 DEF read_theme, ThemeTyped

-----------------------------------------------------------------------------
(* The factor                                                              *)

LEMMA Rounded ==
  ASSUME NEW value \in Int, NEW step \in Nat, step > 0
  PROVE  round_to(value, step) \in Int
BY DEF round_to

\* There is a whole root.
LEMMA HypotTyped ==
  ASSUME NEW w \in Nat, NEW h \in Nat
  PROVE  Hypot(w, h) \in 0 .. w + h
<1>. DEFINE N == w * w + h * h
            T == {d \in Nat : (d + 1) * (d + 1) > N}
<1>1. N \in Nat /\ w * w \in Nat /\ h * h \in Nat /\ w * h \in Nat OBVIOUS
<1>2. (w + h + 1) * (w + h + 1) = N + 2 * (w * h) + 2 * w + 2 * h + 1 OBVIOUS
<1>3. w + h \in T BY <1>1, <1>2
<1>4. PICK x \in T : \A y \in T : x <= y BY <1>3, LeastNat
<1>5. x \in Nat /\ x <= w + h BY <1>3, <1>4
<1>6. x * x <= N
  <2>1. CASE x = 0 BY <1>1, <2>1
  <2>2. CASE x # 0
    <3>1. x - 1 \in Nat /\ x - 1 \notin T BY <1>4, <1>5, <2>2
    <3>2. ~((x - 1 + 1) * (x - 1 + 1) > N) BY <3>1
    <3>3. x - 1 + 1 = x BY <1>5
    <3>. QED BY <1>1, <1>5, <3>2, <3>3
  <2>. QED BY <2>1, <2>2
<1>7. x \in 0 .. w + h /\ x * x <= N /\ (x + 1) * (x + 1) > N BY <1>4, <1>5, <1>6
<1>. HIDE DEF N, T
<1>8. \E d \in 0 .. w + h : d * d <= N /\ (d + 1) * (d + 1) > N BY <1>7
<1>. QED BY <1>8 DEF Hypot, N

LEMMA MonitorTyped ==
  ASSUME NEW monitors \in Seq(Monitors)
  PROVE  monitor_size(monitors) \in Monitors
<1>. DEFINE n == Len(monitors)
            A == Monitors
            base == [connected |-> FALSE, width |-> 0, height |-> 0]
            Step(best, m) ==
              IF m.connected /\ m.width * m.height > best.width * best.height THEN m ELSE best
            step == [p \in A \X (1 .. n) |-> Step(p[1], monitors[p[2]])]
            Eq(it) == it = [s \in SUBSET (1 .. n) |->
                              IF s = {} THEN base ELSE Step(it[s \ {Max(s)}], monitors[Max(s)])]
            it == CHOOSE it : Eq(it)
<1>1. n \in Nat /\ DOMAIN monitors = 1 .. n /\ \A i \in 1 .. n : monitors[i] \in Monitors OBVIOUS
<1>2. base \in A BY DEF Monitors
<1>. HIDE DEF A, base
<1>3. step \in [A \X (1 .. n) -> A] BY <1>1 DEF A
<1>4. PICK g \in [SUBSET (1 .. n) -> A] : FoldsBy(g, base, step, n)
  BY <1>1, <1>2, <1>3, FoldExists
<1>5. monitor_size(monitors) = it[1 .. n]
  BY <1>1 DEF monitor_size, FoldLeft, MapThenFoldSet, base
<1>6. \A s \in SUBSET (1 .. n) : s # {} => Max(s) \in 1 .. n
  BY <1>1, MaxOfSome
<1>7. Eq(g) BY <1>1, <1>4, <1>6 DEF FoldsBy
<1>8. Eq(it) BY <1>7
<1>. HIDE DEF it
<1>9. StepsBy(it, A, base, step, n) BY <1>1, <1>6, <1>8 DEF StepsBy
<1>. HIDE DEF step, n
<1>10. PICK d \in [0 .. n -> A] : Trace(d, base, step, it[1 .. n], n)
  BY <1>1, <1>2, <1>3, <1>9, FoldTrace
<1>11. d[n] \in A /\ d[n] = it[1 .. n] BY <1>1, <1>10 DEF Trace
<1>. QED BY <1>5, <1>11 DEF A

LEMMA FactorTyped ==
  ASSUME NEW setup, SetupTyped(setup)
  PROVE  scale_factor(setup) \in Int
<1>. DEFINE display == read_key(setup.system, "hd-display")
            diagonal == Number(display.fields, "diagonal", 1, 0)
            distance == Number(display.fields, "distance", 1, 0)
            factor == Number(display.fields, "factor", 1, Whole)
            monitor == monitor_size(setup.monitors)
<1>1. FieldsTyped(display.fields) BY KeyTyped DEF SetupTyped
<1>2. Whole \in Int /\ 0 \in Int /\ 1 \in Int BY DEF Whole
<1>. HIDE DEF display
<1>3. factor \in Int BY <1>1, <1>2, NumberTyped
<1>4. diagonal \in Int /\ distance \in Int /\ (diagonal # 0 => diagonal >= 1)
  <2>1. diagonal \in Int /\ distance \in Int BY <1>1, <1>2, NumberTyped
  <2>2. diagonal = 0 \/ diagonal >= 1 BY DEF Number
  <2>. QED BY <2>1, <2>2
<1>. HIDE DEF diagonal, distance, factor
<1>5. monitor \in Monitors BY MonitorTyped DEF SetupTyped
<1>. HIDE DEF monitor
<1>6. Hypot(monitor.width, monitor.height) \in Int BY <1>5, HypotTyped DEF Monitors
<1>7. diagonal # 0 => MonitorFactor(monitor, diagonal, distance) \in Int
  BY <1>2, <1>4, <1>6 DEF MonitorFactor
<1>8. round_to(factor, 10) \in Int BY <1>3, Rounded
<1>9. diagonal # 0 => round_to(MonitorFactor(monitor, diagonal, distance), 10) \in Int
  BY <1>7, Rounded
<1>. QED BY <1>2, <1>8, <1>9 DEF scale_factor, display, diagonal, distance, factor, monitor

LEMMA ScaledTyped ==
  ASSUME NEW theme, ThemeTyped(theme), NEW factor \in Int
  PROVE  ThemeTyped(Scaled(theme, factor))
<1>. DEFINE times(value) == (value * (factor \div 10)) \div 100
            pixels(value) == LET v == round_to(times(value), Whole) IN IF v < Whole THEN Whole ELSE v
<1>1. \A value \in Int : times(value) \in Int OBVIOUS
<1>2. Whole \in Nat /\ Whole > 0 BY DEF Whole
<1>3. \A value \in Int : round_to(times(value), 100) \in Int /\ round_to(times(value), Whole) \in Int
  BY <1>1, <1>2, Rounded
<1>4. \A value \in Int : pixels(value) \in Nat BY <1>2, <1>3
<1>5. Scaled(theme, factor) =
        [big |-> round_to(times(theme.big), 100), normal |-> round_to(times(theme.normal), 100),
         icon |-> IF theme.icon > 0 THEN pixels(theme.icon) ELSE 0,
         border |-> IF theme.border > 0 THEN pixels(theme.border) ELSE 0]
  BY DEF Scaled
<1>. HIDE DEF times, pixels
<1>. QED BY <1>3, <1>4, <1>5 DEF ThemeTyped

LEMMA ThemeLoaded ==
  ASSUME NEW setup, SetupTyped(setup)
  PROVE  ThemeTyped(load_theme(setup))
<1>. DEFINE files == config_files(setup)
            keys == [i \in DOMAIN files |-> read_key(files[i], "hd-theme")]
            first == SelectInSeq(keys, LAMBDA k : k.found)
            theme == IF first = 0 THEN DefaultTheme ELSE read_theme(keys[first].fields)
<1>1. Len(keys) \in Nat /\ DOMAIN keys = 1 .. Len(keys)
        /\ \A i \in DOMAIN keys : FieldsTyped(keys[i].fields)
  BY KeyTyped DEF config_files, SetupTyped
<1>. HIDE DEF keys
<1>2. first \in 0 .. Len(keys)
  <2>. DEFINE I == {i \in 1 .. Len(keys) : keys[i].found}
  <2>1. first = IF I # {} THEN Min(I) ELSE 0 BY DEF SelectInSeq
  <2>2. I \subseteq 1 .. Len(keys) OBVIOUS
  <2>. HIDE DEF I, first
  <2>. QED BY <1>1, <2>1, <2>2, FirstOfSome
<1>. HIDE DEF first
<1>3. ThemeTyped(theme) BY <1>1, <1>2, ThemeRead DEF DefaultTheme, Whole, ThemeTyped
<1>. HIDE DEF theme
<1>4. ThemeTyped(Scaled(theme, scale_factor(setup))) BY <1>3, FactorTyped, ScaledTyped
<1>. QED BY <1>3, <1>4 DEF load_theme, theme, first, keys, files

-----------------------------------------------------------------------------
(* Rows                                                                    *)

LEMMA ItemHeightTyped ==
  ASSUME NEW dialog, NEW theme, ThemeTyped(theme), NEW points \in Int
  PROVE  ItemHeight(dialog, theme, points) \in Int /\ ItemHeight(dialog, theme, points) > 0
BY DEF ItemHeight, LineHeight, Larger, Px, Whole, RowPadY, ThemeTyped

LEMMA ResolveTyped ==
  ASSUME NEW set \in SizeSpec, NEW output \in Int, NEW fit \in Int
  PROVE  resolve(set, output, fit) \in Nat
BY DEF resolve, SizeSpec, Larger, Smaller

LEMMA OptionsHeightTyped ==
  ASSUME NEW dialog, DialogTyped(dialog), NEW theme, ThemeTyped(theme), NEW output \in Int
  PROVE  OptionsHeight(dialog, theme, output) \in Nat
<1>1. Len(dialog.items) \in Nat BY DEF DialogTyped
<1>2. ItemHeight(dialog, theme, theme.big) \in Int BY ItemHeightTyped DEF ThemeTyped
<1>3. Frame(theme) \in Int BY DEF Frame, Px, Padding, Whole, ThemeTyped
<1>4. HeadingHeight(dialog, theme) \in Int
  BY DEF HeadingHeight, LineHeight, Larger, RowPadY, HeadingGap, Whole, ThemeTyped
<1>5. Len(dialog.items) * ItemHeight(dialog, theme, theme.big) \in Int BY <1>1, <1>2
<1>6. MenuHeight(dialog, theme, output) \in Nat
  BY <1>3, <1>4, <1>5, ResolveTyped DEF MenuHeight, DialogTyped
<1>. QED BY <1>3, <1>4, <1>6 DEF OptionsHeight, Larger

\* There is a row, and if there are more, they are inside the box.
LEMMA RowsFit ==
  ASSUME NEW dialog, DialogTyped(dialog), NEW theme, ThemeTyped(theme), NEW output \in Int
  PROVE  LET rows == MenuRows(dialog, theme, output)
         IN /\ rows \in Nat /\ rows >= 1
            /\ \/ rows = 1
               \/ rows * ItemHeight(dialog, theme, theme.big)
                    <= OptionsHeight(dialog, theme, output)
<1>. DEFINE height == OptionsHeight(dialog, theme, output)
            item == ItemHeight(dialog, theme, theme.big)
<1>1. height \in Nat BY OptionsHeightTyped
<1>2. item \in Int /\ item > 0 BY ItemHeightTyped DEF ThemeTyped
<1>. HIDE DEF height, item
<1>3. height \div item \in Int /\ (height \div item) * item <= height BY <1>1, <1>2
<1>4. MenuRows(dialog, theme, output) = IF 1 > height \div item THEN 1 ELSE height \div item
  BY DEF MenuRows, Larger, height, item
<1>. QED BY <1>3, <1>4 DEF height, item

\* Scrolled as far as needed, the selected option is among the rows.
LEMMA ScrolledShows ==
  ASSUME NEW count \in Nat, NEW scroll \in 1 .. count, NEW selected \in 1 .. count,
         NEW rows \in Nat, rows >= 1
  PROVE  /\ Scrolled(scroll, selected, rows) \in 1 .. count
         /\ selected \in Scrolled(scroll, selected, rows)
                           .. Scrolled(scroll, selected, rows) + rows - 1
BY DEF Scrolled, Larger, Smaller

-----------------------------------------------------------------------------
(* Totals                                                                  *)

\* What a total goes through.
Sums(d, s) == d[0] = 0 /\ \A i \in 1 .. Len(s) : d[i] = d[i - 1] + s[i]

LEMMA TotalTrace ==
  ASSUME NEW s \in Seq(Nat)
  PROVE  \E d \in [0 .. Len(s) -> Nat] : Sums(d, s) /\ d[Len(s)] = Total(s)
<1>. DEFINE n == Len(s)
            Step(a, b) == a + b
            step == [p \in Nat \X (1 .. n) |-> Step(p[1], s[p[2]])]
            Eq(it) == it = [u \in SUBSET (1 .. n) |->
                              IF u = {} THEN 0 ELSE Step(it[u \ {Max(u)}], s[Max(u)])]
            it == CHOOSE it : Eq(it)
<1>1. n \in Nat /\ DOMAIN s = 1 .. n /\ \A i \in 1 .. n : s[i] \in Nat OBVIOUS
<1>2. step \in [Nat \X (1 .. n) -> Nat] BY <1>1
<1>3. PICK g \in [SUBSET (1 .. n) -> Nat] : FoldsBy(g, 0, step, n)
  BY <1>1, <1>2, FoldExists
<1>4. Total(s) = it[1 .. n]
  BY <1>1 DEF Total, FoldLeft, MapThenFoldSet
<1>5. \A u \in SUBSET (1 .. n) : u # {} => Max(u) \in 1 .. n
  BY <1>1, MaxOfSome
<1>6. Eq(g) BY <1>1, <1>3, <1>5 DEF FoldsBy
<1>7. Eq(it) BY <1>6
<1>. HIDE DEF it
<1>8. StepsBy(it, Nat, 0, step, n) BY <1>1, <1>5, <1>7 DEF StepsBy
<1>9. PICK d \in [0 .. n -> Nat] : Trace(d, 0, step, it[1 .. n], n)
  <2>. HIDE DEF step, n
  <2>. QED BY <1>1, <1>2, <1>8, FoldTrace
<1>10. ASSUME NEW i \in 1 .. n PROVE d[i] = d[i - 1] + s[i]
  <2>1. i - 1 \in 0 .. n BY <1>1
  <2>. QED BY <1>9, <2>1 DEF Trace
<1>. QED BY <1>4, <1>9, <1>10 DEF Sums, Trace

LEMMA TotalIs ==
  ASSUME NEW s \in Seq(Nat), NEW d, Sums(d, s)
  PROVE  Total(s) \in Nat /\ Total(s) = d[Len(s)]
<1>. DEFINE n == Len(s)
<1>1. n \in Nat /\ \A i \in 1 .. n : s[i] \in Nat OBVIOUS
<1>2. PICK c \in [0 .. n -> Nat] : Sums(c, s) /\ c[n] = Total(s) BY TotalTrace
<1>. DEFINE P == {i \in 0 .. n : c[i] = d[i]}
<1>. HIDE DEF n
<1>3. 0 \in P BY <1>1, <1>2 DEF Sums
<1>4. ASSUME NEW i \in 0 .. n - 1, i \in P PROVE i + 1 \in P
  <2>1. i + 1 \in 1 .. n /\ i + 1 \in 0 .. n /\ (i + 1) - 1 = i BY <1>1
  <2>2. c[i + 1] = c[i] + s[i + 1] /\ d[i + 1] = d[i] + s[i + 1] BY <1>2, <2>1 DEF Sums, n
  <2>. QED BY <1>4, <2>1, <2>2
<1>. HIDE DEF P
<1>5. 0 .. n \subseteq P BY <1>1, <1>3, <1>4, InductTo
<1>6. n \in P BY <1>1, <1>5
<1>7. c[n] \in Nat BY <1>1, <1>2
<1>. QED BY <1>2, <1>6, <1>7 DEF P, n

LEMMA TotalTyped ==
  ASSUME NEW s \in Seq(Nat)
  PROVE  Total(s) \in Nat
BY TotalTrace, TotalIs

LEMMA TotalOfBoth ==
  ASSUME NEW s \in Seq(Nat), NEW t \in Seq(Nat)
  PROVE  Total(s \o t) = Total(s) + Total(t)
<1>. DEFINE n == Len(s)
            m == Len(t)
            both == s \o t
<1>1. n \in Nat /\ m \in Nat /\ both \in Seq(Nat) /\ Len(both) = n + m OBVIOUS
<1>2. PICK c \in [0 .. n -> Nat] : Sums(c, s) /\ c[n] = Total(s) BY TotalTrace
<1>3. PICK d \in [0 .. m -> Nat] : Sums(d, t) /\ d[m] = Total(t) BY TotalTrace
<1>4. c[n] \in Nat /\ d[0] = 0 /\ \A i \in 0 .. m : d[i] \in Nat
  <2>1. d[0] = 0 BY <1>3 DEF Sums
  <2>. HIDE DEF n, m
  <2>. QED BY <1>1, <1>2, <1>3, <2>1
<1>. DEFINE e == [i \in 0 .. n + m |-> IF i <= n THEN c[i] ELSE c[n] + d[i - n]]
<1>5. Sums(e, both)
  <2>1. e[0] = 0 BY <1>1, <1>2 DEF Sums
  <2>2. ASSUME NEW i \in 1 .. n + m, i <= n PROVE e[i] = e[i - 1] + both[i]
    <3>1. i \in 1 .. n /\ i \in 0 .. n + m /\ i - 1 \in 0 .. n + m /\ i - 1 <= n BY <1>1, <2>2
    <3>2. both[i] = s[i] /\ c[i] = c[i - 1] + s[i] BY <1>2, <3>1 DEF Sums
    <3>. QED BY <2>2, <3>1, <3>2
  <2>3. ASSUME NEW i \in 1 .. n + m, i > n PROVE e[i] = e[i - 1] + both[i]
    <3>1. i - n \in 1 .. m /\ i \in 0 .. n + m /\ i - 1 \in 0 .. n + m /\ ~(i <= n) BY <1>1, <2>3
    <3>2. both[i] = t[i - n] BY <1>1, <3>1
    <3>3. d[i - n] = d[(i - n) - 1] + t[i - n] BY <1>3, <3>1 DEF Sums
    <3>4. e[i] = c[n] + d[i - n] BY <3>1
    <3>5. e[i - 1] = c[n] + d[(i - n) - 1]
      <4>1. CASE i - 1 <= n
        <5>1. i - 1 = n /\ (i - n) - 1 = 0 BY <1>1, <2>3, <4>1
        <5>. QED BY <1>1, <1>4, <3>1, <5>1
      <4>2. CASE ~(i - 1 <= n)
        <5>1. (i - 1) - n = (i - n) - 1 BY <1>1
        <5>. QED BY <3>1, <4>2, <5>1
      <4>. QED BY <4>1, <4>2
    <3>6. c[n] \in Nat /\ d[(i - n) - 1] \in Nat /\ t[i - n] \in Nat
      <4>1. (i - n) - 1 \in 0 .. m BY <1>1, <3>1
      <4>. QED BY <1>1, <1>4, <3>1, <4>1
    <3>. HIDE DEF e, both, n, m
    <3>. QED BY <3>2, <3>3, <3>4, <3>5, <3>6
  <2>. HIDE DEF e, both
  <2>. QED BY <1>1, <2>1, <2>2, <2>3 DEF Sums
<1>6. e[n + m] = c[n] + d[m]
  <2>1. CASE m = 0
    <3>. QED BY <1>1, <1>4, <2>1
  <2>2. CASE m # 0
    <3>1. n + m \in 0 .. n + m /\ ~(n + m <= n) /\ (n + m) - n = m BY <1>1, <2>2
    <3>. QED BY <3>1
  <2>. QED BY <2>1, <2>2
<1>. HIDE DEF e, both
<1>7. Total(both) = e[n + m] BY <1>1, <1>5, TotalIs
<1>. QED BY <1>2, <1>3, <1>6, <1>7 DEF both

LEMMA TotalOfOne ==
  ASSUME NEW x \in Nat
  PROVE  Total(<<x>>) = x
<1>. DEFINE d == [i \in 0 .. 1 |-> IF i = 0 THEN 0 ELSE x]
<1>1. <<x>> \in Seq(Nat) /\ Len(<<x>>) = 1 /\ <<x>>[1] = x OBVIOUS
<1>2. Sums(d, <<x>>) BY <1>1 DEF Sums
<1>. QED BY <1>1, <1>2, TotalIs

LEMMA TotalOfNone == Total(<<>>) = 0
<1>. DEFINE d == [i \in 0 .. 0 |-> 0]
<1>1. <<>> \in Seq(Nat) /\ Len(<<>>) = 0 OBVIOUS
<1>2. Sums(d, <<>>) BY <1>1 DEF Sums
<1>. QED BY <1>1, <1>2, TotalIs

LEMMA TotalOfMore ==
  ASSUME NEW s \in Seq(Nat), NEW x \in Nat
  PROVE  Total(Append(s, x)) = Total(s) + x
<1>1. Append(s, x) = s \o <<x>> /\ <<x>> \in Seq(Nat) OBVIOUS
<1>. QED BY <1>1, TotalOfBoth, TotalOfOne

-----------------------------------------------------------------------------
(* Lines                                                                   *)

LEMMA WordsAreNumbers ==
  ASSUME NEW line \in Words
  PROVE  line \in Seq(Nat) /\ Total(line) \in Nat /\ Chars(line) \in Int
<1>1. line \in Seq(Nat) /\ Len(line) \in Nat BY DEF Words
<1>. QED BY <1>1, TotalTyped DEF Chars

\* The totals of the lines.
Totals(text) == [i \in DOMAIN text |-> Total(text[i])]

LEMMA TotalsTyped ==
  ASSUME NEW text \in Texts
  PROVE  /\ Totals(text) \in Seq(Nat) /\ Len(Totals(text)) = Len(text)
         /\ Characters(text) = Total(Totals(text)) /\ Characters(text) \in Nat
<1>1. Len(text) \in Nat /\ DOMAIN text = 1 .. Len(text)
        /\ \A i \in DOMAIN text : text[i] \in Words
  <2>. HIDE DEF Words
  <2>. QED BY DEF Texts
<1>2. \A i \in DOMAIN text : Total(text[i]) \in Nat BY <1>1, WordsAreNumbers
<1>3. Totals(text) \in Seq(Nat) /\ Len(Totals(text)) = Len(text)
  BY <1>1, <1>2 DEF Totals
<1>4. Characters(text) = Total(Totals(text)) BY DEF Characters, Totals
<1>. QED BY <1>3, <1>4, TotalTyped

LEMMA Concatenated ==
  ASSUME NEW S, NEW x \in Seq(S), NEW y \in Seq(S), NEW z \in Seq(S), Len(z) = Len(x) + Len(y),
         \A i \in 1 .. Len(x) : z[i] = x[i], \A i \in 1 .. Len(y) : z[Len(x) + i] = y[i]
  PROVE  z = x \o y
<1>. DEFINE n == Len(z)
            both == x \o y
<1>1. both \in Seq(S) /\ Len(both) = n /\ n \in Nat /\ Len(x) \in Nat /\ Len(y) \in Nat OBVIOUS
<1>2. ASSUME NEW i \in 1 .. n PROVE z[i] = both[i]
  <2>1. CASE i <= Len(x) BY <1>1, <2>1
  <2>2. CASE i > Len(x)
    <3>1. i - Len(x) \in 1 .. Len(y) /\ Len(x) + (i - Len(x)) = i BY <1>1, <2>2
    <3>2. z[i] = y[i - Len(x)] BY <3>1
    <3>. QED BY <1>1, <2>2, <3>1, <3>2
  <2>. QED BY <1>1, <2>1, <2>2
<1>3. z = [i \in 1 .. n |-> z[i]] OBVIOUS
<1>. HIDE DEF both
<1>4. both = [i \in 1 .. n |-> both[i]] BY <1>1
<1>5. z = both BY <1>2, <1>3, <1>4
<1>. QED BY <1>5 DEF both

LEMMA CharactersOfBoth ==
  ASSUME NEW a \in Texts, NEW b \in Texts
  PROVE  a \o b \in Texts /\ Characters(a \o b) = Characters(a) + Characters(b)
<1>. DEFINE W == Words
<1>1. a \in Seq(W) /\ b \in Seq(W) BY DEF Texts
<1>. HIDE DEF W
<1>2. a \o b \in Seq(W) BY <1>1
<1>3. a \o b \in Texts BY <1>2 DEF Texts, W
<1>4. /\ Totals(a) \in Seq(Nat) /\ Len(Totals(a)) = Len(a)
      /\ Totals(b) \in Seq(Nat) /\ Len(Totals(b)) = Len(b)
      /\ Totals(a \o b) \in Seq(Nat)
  BY <1>3, TotalsTyped
<1>5. /\ Len(a) \in Nat /\ Len(b) \in Nat /\ Len(a \o b) = Len(a) + Len(b)
      /\ DOMAIN (a \o b) = 1 .. Len(a) + Len(b)
      /\ DOMAIN a = 1 .. Len(a) /\ DOMAIN b = 1 .. Len(b)
  BY <1>1
<1>6. Len(Totals(a \o b)) = Len(a) + Len(b) BY <1>3, <1>5, TotalsTyped
<1>7. \A i \in 1 .. Len(a) : Totals(a \o b)[i] = Totals(a)[i]
  <2>1. \A i \in 1 .. Len(a) : i \in 1 .. Len(a) + Len(b) /\ (a \o b)[i] = a[i] BY <1>1, <1>5
  <2>. QED BY <1>5, <2>1 DEF Totals
<1>8. \A i \in 1 .. Len(b) : Totals(a \o b)[Len(a) + i] = Totals(b)[i]
  <2>1. \A i \in 1 .. Len(b) :
          Len(a) + i \in 1 .. Len(a) + Len(b) /\ (a \o b)[Len(a) + i] = b[i]
    BY <1>1, <1>5
  <2>. QED BY <1>5, <2>1 DEF Totals
<1>9. Totals(a \o b) = Totals(a) \o Totals(b)
  <2>. DEFINE x == Totals(a)
              y == Totals(b)
              z == Totals(a \o b)
  <2>. HIDE DEF x, y, z
  <2>1. /\ x \in Seq(Nat) /\ y \in Seq(Nat) /\ z \in Seq(Nat) /\ Len(z) = Len(x) + Len(y)
        /\ \A i \in 1 .. Len(x) : z[i] = x[i]
        /\ \A i \in 1 .. Len(y) : z[Len(x) + i] = y[i]
    BY <1>4, <1>6, <1>7, <1>8 DEF x, y, z
  <2>2. z = x \o y BY <2>1, Concatenated
  <2>. QED BY <2>2 DEF x, y, z
<1>. QED BY <1>3, <1>4, <1>9, TotalsTyped, TotalOfBoth

LEMMA CharactersOfOne ==
  ASSUME NEW line \in Words
  PROVE  <<line>> \in Texts /\ Characters(<<line>>) = Total(line)
<1>1. <<line>> \in Texts BY DEF Texts
<1>2. Totals(<<line>>) = <<Total(line)>> BY DEF Totals
<1>. QED BY <1>1, <1>2, TotalsTyped, TotalOfOne, WordsAreNumbers

LEMMA CharactersOfMore ==
  ASSUME NEW text \in Texts, NEW line \in Words
  PROVE  /\ Append(text, line) \in Texts
         /\ Characters(Append(text, line)) = Characters(text) + Total(line)
<1>1. Append(text, line) = text \o <<line>> BY DEF Texts
<1>. QED BY <1>1, CharactersOfOne, CharactersOfBoth

\* Lines of one part of a word each.
LEMMA CharactersOfParts ==
  ASSUME NEW k \in Nat, NEW m \in Nat \ {0}
  PROVE  LET parts == [i \in 1 .. k |-> <<m>>]
         IN parts \in Texts /\ Len(parts) = k /\ Characters(parts) = k * m
<1>. DEFINE parts == [i \in 1 .. k |-> <<m>>]
            d == [i \in 0 .. k |-> i * m]
<1>1. <<m>> \in Words /\ Total(<<m>>) = m BY TotalOfOne DEF Words
<1>2. parts \in Texts /\ Len(parts) = k
  <2>. HIDE DEF Words
  <2>. QED BY <1>1 DEF Texts
<1>3. Len(Totals(parts)) = k /\ Totals(parts) \in Seq(Nat) BY <1>2, TotalsTyped
<1>4. \A i \in 1 .. k : Totals(parts)[i] = m BY <1>1 DEF Totals
<1>5. Sums(d, Totals(parts))
  <2>1. \A i \in 1 .. k : i - 1 \in 0 .. k /\ i \in 0 .. k /\ i * m = (i - 1) * m + m OBVIOUS
  <2>2. d[0] = 0 OBVIOUS
  <2>. QED BY <1>3, <1>4, <2>1, <2>2 DEF Sums
<1>6. d[k] = k * m OBVIOUS
<1>. HIDE DEF d, parts
<1>7. Characters(parts) = k * m BY <1>2, <1>3, <1>5, <1>6, TotalIs, TotalsTyped
<1>. QED BY <1>2, <1>7 DEF parts

-----------------------------------------------------------------------------
(* Wrapping                                                                *)

\* Lines that are no wider than what fits, unless of one character.
Narrow(fit) == {lines \in Texts : \A i \in DOMAIN lines : Chars(lines[i]) <= Larger(1, fit)}
Wrapping(fit) ==
  {state \in [lines : Narrow(fit), line : Words] : Chars(state.line) <= Larger(1, fit)}
Wrapped(state) == Characters(state.lines) + Total(state.line)

LEMMA LargerTyped ==
  ASSUME NEW fit \in Int
  PROVE  Larger(1, fit) \in Nat \ {0} /\ fit <= Larger(1, fit)
BY DEF Larger

LEMMA CharsOfOne ==
  ASSUME NEW x \in Nat
  PROVE  Chars(<<x>>) = x
<1>1. <<x>> # <<>> /\ Len(<<x>>) = 1 /\ Total(<<x>>) = x BY TotalOfOne
<1>. QED BY <1>1 DEF Chars

LEMMA NarrowMore ==
  ASSUME NEW fit \in Int, NEW lines \in Narrow(fit), NEW line \in Words,
         Chars(line) <= Larger(1, fit)
  PROVE  /\ Append(lines, line) \in Narrow(fit)
         /\ Characters(Append(lines, line)) = Characters(lines) + Total(line)
<1>1. lines \in Texts /\ Append(lines, line) \in Texts
        /\ Characters(Append(lines, line)) = Characters(lines) + Total(line)
  BY CharactersOfMore DEF Narrow
<1>2. Len(lines) \in Nat /\ DOMAIN lines = 1 .. Len(lines) BY <1>1 DEF Texts
<1>3. DOMAIN Append(lines, line) = 1 .. Len(lines) + 1
        /\ \A i \in 1 .. Len(lines) : Append(lines, line)[i] = lines[i]
        /\ Append(lines, line)[Len(lines) + 1] = line
  BY <1>1, <1>2 DEF Texts
<1>4. \A i \in DOMAIN Append(lines, line) : Chars(Append(lines, line)[i]) <= Larger(1, fit)
  BY <1>2, <1>3 DEF Narrow
<1>. QED BY <1>1, <1>4 DEF Narrow

LEMMA NarrowBoth ==
  ASSUME NEW fit \in Int, NEW a \in Narrow(fit), NEW b \in Narrow(fit)
  PROVE  /\ a \o b \in Narrow(fit)
         /\ Characters(a \o b) = Characters(a) + Characters(b)
<1>. DEFINE W == Words
<1>1. a \in Texts /\ b \in Texts BY DEF Narrow
<1>2. a \in Seq(W) /\ b \in Seq(W) BY <1>1 DEF Texts
<1>3. a \o b \in Texts /\ Characters(a \o b) = Characters(a) + Characters(b)
  BY <1>1, CharactersOfBoth
<1>. HIDE DEF W
<1>4. Len(a) \in Nat /\ Len(b) \in Nat /\ DOMAIN (a \o b) = 1 .. Len(a) + Len(b)
        /\ DOMAIN a = 1 .. Len(a) /\ DOMAIN b = 1 .. Len(b)
  BY <1>2
<1>5. ASSUME NEW i \in DOMAIN (a \o b) PROVE Chars((a \o b)[i]) <= Larger(1, fit)
  <2>1. CASE i <= Len(a)
    <3>1. i \in DOMAIN a /\ (a \o b)[i] = a[i] BY <1>2, <1>4, <2>1
    <3>. QED BY <3>1 DEF Narrow
  <2>2. CASE i > Len(a)
    <3>1. i - Len(a) \in DOMAIN b /\ (a \o b)[i] = b[i - Len(a)] BY <1>2, <1>4, <2>2
    <3>. QED BY <3>1 DEF Narrow
  <2>. QED BY <1>4, <2>1, <2>2
<1>. QED BY <1>3, <1>5 DEF Narrow

\* A word of several lines: all but the last are full, and no character is left out.
LEMMA WordBroken ==
  ASSUME NEW word \in Nat \ {0}, NEW wide \in Nat \ {0}
  PROVE  LET full == (word - 1) \div wide
         IN /\ full \in Nat /\ full * wide \in Nat
            /\ word - full * wide \in 1 .. wide
<1>. DEFINE x == word - 1
            full == x \div wide
<1>1. x \in Nat OBVIOUS
<1>. HIDE DEF x
<1>2. full \in Int /\ full * wide <= x /\ x < full * wide + wide BY <1>1
<1>3. full >= 0 BY <1>1, <1>2
<1>. HIDE DEF full
<1>4. full \in Nat BY <1>2, <1>3
<1>5. full * wide \in Nat BY <1>4
<1>. QED BY <1>2, <1>4, <1>5 DEF x, full

LEMMA WordAdded ==
  ASSUME NEW fit \in Int, NEW state \in Wrapping(fit), NEW word \in Nat \ {0}
  PROVE  /\ AddWord(state, word, fit) \in Wrapping(fit)
         /\ Wrapped(AddWord(state, word, fit)) = Wrapped(state) + word
<1>. DEFINE wide == Larger(1, fit)
            full == (word - 1) \div wide
            parts == [i \in 1 .. full |-> <<wide>>]
            rest == word - full * wide
            longer == Append(state.line, word)
            ended == IF state.line = <<>> THEN state.lines ELSE Append(state.lines, state.line)
<1>1. /\ state.lines \in Narrow(fit) /\ state.line \in Words /\ Chars(state.line) <= wide
      /\ state = [lines |-> state.lines, line |-> state.line]
  BY DEF Wrapping
<1>2. state.lines \in Texts /\ Characters(state.lines) \in Nat BY <1>1, TotalsTyped DEF Narrow
<1>3. wide \in Nat \ {0} /\ fit <= wide BY LargerTyped
<1>4. longer \in Words /\ Total(longer) = Total(state.line) + word
  BY <1>1, WordsAreNumbers, TotalOfMore DEF Words
<1>5. Total(state.line) \in Nat /\ Chars(longer) \in Int BY <1>1, <1>4, WordsAreNumbers
<1>. HIDE DEF wide
<1>6. CASE Chars(longer) <= fit
  <2>1. AddWord(state, word, fit) = [lines |-> state.lines, line |-> longer]
    BY <1>1, <1>6 DEF AddWord
  <2>2. Chars(longer) <= wide BY <1>3, <1>5, <1>6
  <2>. HIDE DEF longer
  <2>. QED BY <1>1, <1>2, <1>4, <1>5, <2>1, <2>2 DEF Wrapping, Wrapped, wide
<1>7. CASE ~(Chars(longer) <= fit)
  <2>1. AddWord(state, word, fit) = [lines |-> ended \o parts, line |-> <<rest>>]
    BY <1>7 DEF AddWord, wide
  <2>2. full \in Nat /\ full * wide \in Nat /\ rest \in 1 .. wide BY <1>3, WordBroken
  <2>3. ended \in Narrow(fit) /\ Characters(ended) = Characters(state.lines) + Total(state.line)
    <3>1. CASE state.line = <<>> BY <1>1, <1>2, <3>1, TotalOfNone
    <3>2. CASE state.line # <<>> BY <1>1, <3>2, NarrowMore DEF wide
    <3>. QED BY <3>1, <3>2
  <2>4. parts \in Texts /\ Len(parts) = full /\ Characters(parts) = full * wide
    BY <1>3, <2>2, CharactersOfParts
  <2>5. parts \in Narrow(fit)
    <3>1. Chars(<<wide>>) = wide BY <1>3, CharsOfOne
    <3>2. \A i \in DOMAIN parts : Chars(parts[i]) <= wide BY <1>3, <3>1
    <3>. QED BY <2>4, <3>2 DEF Narrow, wide
  <2>. HIDE DEF full, rest, ended, parts
  <2>6. ended \o parts \in Narrow(fit)
          /\ Characters(ended \o parts) = Characters(ended) + Characters(parts)
    BY <2>3, <2>5, NarrowBoth
  <2>7. rest \in Nat \ {0} /\ <<rest>> \in Words /\ Total(<<rest>>) = rest /\ Chars(<<rest>>) = rest
    <3>1. rest \in Nat \ {0} BY <1>3, <2>2
    <3>. QED BY <3>1, TotalOfOne, CharsOfOne DEF Words
  <2>8. full * wide + rest = word BY <2>2 DEF rest
  <2>9. AddWord(state, word, fit) \in Wrapping(fit)
    BY <1>3, <2>1, <2>2, <2>6, <2>7 DEF Wrapping, wide
  <2>10. Wrapped(AddWord(state, word, fit)) = Characters(ended \o parts) + rest
    BY <2>1, <2>7 DEF Wrapped
  <2>11. Characters(ended \o parts) = Wrapped(state) + full * wide
    BY <2>3, <2>4, <2>6 DEF Wrapped
  <2>12. Wrapped(state) \in Nat BY <1>2, <1>5 DEF Wrapped
  <2>. QED BY <2>2, <2>7, <2>8, <2>9, <2>10, <2>11, <2>12
<1>. QED BY <1>6, <1>7

LEMMA NothingNarrow ==
  ASSUME NEW fit
  PROVE  <<>> \in Narrow(fit) /\ Characters(<<>>) = 0 /\ <<>> \in Words /\ Chars(<<>>) = 0
<1>1. <<>> \in Texts /\ <<>> \in Words BY DEF Texts, Words
<1>2. [i \in DOMAIN <<>> |-> Total(<<>>[i])] = <<>> OBVIOUS
<1>3. Characters(<<>>) = 0 BY <1>2, TotalOfNone DEF Characters
<1>. QED BY <1>1, <1>3 DEF Narrow, Chars

\* All words of a paragraph are in its lines.
LEMMA WordsWrapped ==
  ASSUME NEW fit \in Int, NEW words \in Words
  PROVE  /\ WrapWords(words, fit) \in Wrapping(fit)
         /\ Wrapped(WrapWords(words, fit)) = Total(words)
<1>. DEFINE n == Len(words)
            A == Wrapping(fit)
            base == [lines |-> <<>>, line |-> <<>>]
            step == [p \in A \X (1 .. n) |-> AddWord(p[1], words[p[2]], fit)]
            Eq(it) == it = [u \in SUBSET (1 .. n) |->
                              IF u = {} THEN base
                              ELSE AddWord(it[u \ {Max(u)}], words[Max(u)], fit)]
            it == CHOOSE it : Eq(it)
<1>1. n \in Nat /\ DOMAIN words = 1 .. n /\ \A i \in 1 .. n : words[i] \in Nat \ {0} BY DEF Words
<1>2. base \in A /\ Wrapped(base) = 0
  <2>1. 0 <= Larger(1, fit) BY DEF Larger
  <2>. QED BY <2>1, NothingNarrow, TotalOfNone DEF Wrapping, Wrapped
<1>3. \A a \in A, i \in 1 .. n :
        /\ AddWord(a, words[i], fit) \in A
        /\ Wrapped(AddWord(a, words[i], fit)) = Wrapped(a) + words[i]
  BY <1>1, WordAdded
<1>. HIDE DEF A, base
<1>4. step \in [A \X (1 .. n) -> A] BY <1>3
<1>5. PICK g \in [SUBSET (1 .. n) -> A] : FoldsBy(g, base, step, n)
  BY <1>1, <1>2, <1>4, FoldExists
<1>6. WrapWords(words, fit) = it[1 .. n]
  BY <1>1 DEF WrapWords, FoldLeft, MapThenFoldSet, base
<1>7. \A u \in SUBSET (1 .. n) : u # {} => Max(u) \in 1 .. n
  BY <1>1, MaxOfSome
<1>8. Eq(g) BY <1>1, <1>5, <1>7 DEF FoldsBy
<1>9. Eq(it) BY <1>8
<1>. HIDE DEF it
<1>10. StepsBy(it, A, base, step, n) BY <1>7, <1>9 DEF StepsBy
<1>11. PICK d \in [0 .. n -> A] : Trace(d, base, step, it[1 .. n], n)
  <2>. HIDE DEF step, n
  <2>. QED BY <1>1, <1>2, <1>4, <1>10, FoldTrace
<1>12. \A i \in 1 .. n : i - 1 \in 0 .. n /\ i \in 0 .. n BY <1>1
<1>13. \A i \in 1 .. n : d[i] = AddWord(d[i - 1], words[i], fit)
  BY <1>11, <1>12 DEF Trace
<1>. DEFINE e == [i \in 0 .. n |-> Wrapped(d[i])]
<1>14. Sums(e, words)
  <2>1. e[0] = 0 BY <1>1, <1>2, <1>11 DEF Trace
  <2>2. ASSUME NEW i \in 1 .. n PROVE e[i] = e[i - 1] + words[i]
    <3>1. d[i - 1] \in A BY <1>11, <1>12
    <3>. QED BY <1>3, <1>12, <1>13, <3>1
  <2>. HIDE DEF e
  <2>. QED BY <2>1, <2>2 DEF Sums
<1>15. words \in Seq(Nat) BY WordsAreNumbers
<1>16. e[n] = Wrapped(d[n]) /\ d[n] \in A /\ d[n] = it[1 .. n] BY <1>1, <1>11 DEF Trace
<1>. HIDE DEF e
<1>17. Total(words) = e[n] BY <1>14, <1>15, TotalIs
<1>. QED BY <1>6, <1>16, <1>17 DEF A

LEMMA ParagraphWrapped ==
  ASSUME NEW fit \in Int, NEW words \in Words
  PROVE  /\ WrapParagraph(words, fit) \in Narrow(fit)
         /\ Characters(WrapParagraph(words, fit)) = Total(words)
<1>. DEFINE end == WrapWords(words, fit)
<1>1. end \in Wrapping(fit) /\ Wrapped(end) = Total(words) BY WordsWrapped
<1>2. WrapParagraph(words, fit) = Append(end.lines, end.line) BY DEF WrapParagraph
<1>. HIDE DEF end
<1>3. end.lines \in Narrow(fit) /\ end.line \in Words /\ Chars(end.line) <= Larger(1, fit)
  BY <1>1 DEF Wrapping
<1>. QED BY <1>1, <1>2, <1>3, NarrowMore DEF Wrapped

\* And all paragraphs of a text.
LEMMA TextWrapped ==
  ASSUME NEW fit \in Int, NEW text \in Texts
  PROVE  /\ wrap(text, fit) \in Narrow(fit)
         /\ Characters(wrap(text, fit)) = Characters(text)
<1>. DEFINE n == Len(text)
            A == Narrow(fit)
            Step(lines, words) == lines \o WrapParagraph(words, fit)
            step == [p \in A \X (1 .. n) |-> Step(p[1], text[p[2]])]
            Eq(it) == it = [u \in SUBSET (1 .. n) |->
                              IF u = {} THEN <<>> ELSE Step(it[u \ {Max(u)}], text[Max(u)])]
            it == CHOOSE it : Eq(it)
<1>1. n \in Nat /\ DOMAIN text = 1 .. n /\ \A i \in 1 .. n : text[i] \in Words
  <2>. HIDE DEF Words
  <2>. QED BY DEF Texts
<1>2. <<>> \in A /\ Characters(<<>>) = 0 BY NothingNarrow
<1>3. \A a \in A, i \in 1 .. n :
        Step(a, text[i]) \in A /\ Characters(Step(a, text[i])) = Characters(a) + Total(text[i])
  BY <1>1, ParagraphWrapped, NarrowBoth
<1>. HIDE DEF A
<1>4. step \in [A \X (1 .. n) -> A] BY <1>3
<1>5. PICK g \in [SUBSET (1 .. n) -> A] : FoldsBy(g, <<>>, step, n)
  BY <1>1, <1>2, <1>4, FoldExists
<1>6. wrap(text, fit) = it[1 .. n]
  BY <1>1 DEF wrap, FoldLeft, MapThenFoldSet
<1>7. \A u \in SUBSET (1 .. n) : u # {} => Max(u) \in 1 .. n
  BY <1>1, MaxOfSome
<1>8. Eq(g) BY <1>1, <1>5, <1>7 DEF FoldsBy
<1>9. Eq(it) BY <1>8
<1>. HIDE DEF it
<1>10. StepsBy(it, A, <<>>, step, n) BY <1>7, <1>9 DEF StepsBy
<1>11. PICK d \in [0 .. n -> A] : Trace(d, <<>>, step, it[1 .. n], n)
  <2>. HIDE DEF step, n
  <2>. QED BY <1>1, <1>2, <1>4, <1>10, FoldTrace
<1>12. \A i \in 1 .. n : i - 1 \in 0 .. n /\ i \in 0 .. n BY <1>1
<1>13. \A i \in 1 .. n : d[i] = Step(d[i - 1], text[i])
  BY <1>11, <1>12 DEF Trace
<1>. DEFINE e == [i \in 0 .. n |-> Characters(d[i])]
<1>. HIDE DEF Step, step
<1>14. Totals(text) \in Seq(Nat) /\ Len(Totals(text)) = n /\ Characters(text) = Total(Totals(text))
  BY TotalsTyped
<1>15. Sums(e, Totals(text))
  <2>1. e[0] = 0 BY <1>1, <1>2, <1>11 DEF Trace
  <2>2. ASSUME NEW i \in 1 .. n PROVE e[i] = e[i - 1] + Totals(text)[i]
    <3>1. d[i - 1] \in A BY <1>11, <1>12
    <3>2. Totals(text)[i] = Total(text[i]) BY <1>1 DEF Totals
    <3>. QED BY <1>3, <1>12, <1>13, <3>1, <3>2
  <2>. HIDE DEF e
  <2>. QED BY <1>14, <2>1, <2>2 DEF Sums
<1>16. e[n] = Characters(d[n]) /\ d[n] \in A /\ d[n] = it[1 .. n] BY <1>1, <1>11 DEF Trace
<1>. HIDE DEF e, n
<1>17. Total(Totals(text)) = e[n] BY <1>14, <1>15, TotalIs
<1>. QED BY <1>6, <1>14, <1>16, <1>17 DEF A

-----------------------------------------------------------------------------
(* The text in its box                                                     *)

LEMMA LargestTyped ==
  ASSUME NEW s \in Seq(Int)
  PROVE  Largest(s) \in Int
<1>. DEFINE n == Len(s)
            step == [p \in Int \X (1 .. n) |-> Larger(p[1], s[p[2]])]
            Eq(it) == it = [u \in SUBSET (1 .. n) |->
                              IF u = {} THEN 0 ELSE Larger(it[u \ {Max(u)}], s[Max(u)])]
            it == CHOOSE it : Eq(it)
<1>1. n \in Nat /\ DOMAIN s = 1 .. n /\ \A i \in 1 .. n : s[i] \in Int OBVIOUS
<1>2. step \in [Int \X (1 .. n) -> Int] BY <1>1 DEF Larger
<1>3. PICK g \in [SUBSET (1 .. n) -> Int] : FoldsBy(g, 0, step, n)
  <2>1. 0 \in Int OBVIOUS
  <2>. HIDE DEF step, n
  <2>. QED BY <1>1, <1>2, <2>1, FoldExists
<1>4. Largest(s) = it[1 .. n]
  BY <1>1 DEF Largest, FoldLeft, MapThenFoldSet
<1>5. \A u \in SUBSET (1 .. n) : u # {} => Max(u) \in 1 .. n
  BY <1>1, MaxOfSome
<1>6. Eq(g) BY <1>1, <1>3, <1>5 DEF FoldsBy
<1>7. Eq(it) BY <1>6
<1>. HIDE DEF it
<1>8. StepsBy(it, Int, 0, step, n) BY <1>1, <1>5, <1>7 DEF StepsBy
<1>. HIDE DEF step, n
<1>9. PICK d \in [0 .. n -> Int] : Trace(d, 0, step, it[1 .. n], n)
  <2>1. 0 \in Int OBVIOUS
  <2>. QED BY <1>1, <1>2, <1>8, <2>1, FoldTrace
<1>10. d[n] \in Int /\ d[n] = it[1 .. n] BY <1>1, <1>9 DEF Trace
<1>. QED BY <1>4, <1>10 DEF n

LEMMA FontTyped ==
  ASSUME NEW points \in Int
  PROVE  LineHeight(points) \in Nat \ {0} /\ CharWidth(points) \in Nat \ {0}
BY DEF LineHeight, CharWidth, Larger, Whole

\* A button, the heading and the text have a width, and so has a line.
LEMMA LineFitsTyped ==
  ASSUME NEW message, DialogTyped(message), NEW theme, ThemeTyped(theme), NEW output \in Int
  PROVE  LineFits(message, theme, output) \in Int
<1>. DEFINE char == CharWidth(theme.normal)
            big == CharWidth(theme.big)
            frame == Frame(theme)
            icon == Px(theme.icon)
            buttons == [i \in DOMAIN message.items |->
                          Len(message.items[i].label) * char + 2 * ButtonPadX
                            + IF message.items[i].icon THEN icon + IconGap ELSE 0]
            chars == [i \in DOMAIN message.text |-> Chars(message.text[i])]
            widths == <<HeadingWidth(message, theme), ButtonsWidth(message, theme),
                        TextWidth(message, theme, output)>>
<1>1. char \in Nat \ {0} /\ big \in Nat BY FontTyped DEF ThemeTyped
<1>2. frame \in Int /\ icon \in Int BY DEF Frame, Px, Padding, Whole, ThemeTyped
<1>. HIDE DEF char, big, frame, icon
<1>3. HeadingWidth(message, theme) \in Int
  <2>1. Len(message.heading) * big \in Int BY <1>1 DEF DialogTyped
  <2>. QED BY <2>1 DEF HeadingWidth, RowPadX, big
<1>4. buttons \in Seq(Int)
  <2>1. \A i \in DOMAIN message.items : Len(message.items[i].label) * char \in Int
    BY <1>1 DEF DialogTyped
  <2>2. \A i \in DOMAIN message.items : buttons[i] \in Int
    BY <1>2, <2>1 DEF ButtonPadX, IconGap
  <2>3. Len(message.items) \in Nat /\ DOMAIN message.items = 1 .. Len(message.items)
    BY DEF DialogTyped
  <2>4. /\ DOMAIN buttons = DOMAIN message.items
        /\ buttons = [i \in DOMAIN message.items |-> buttons[i]]
    OBVIOUS
  <2>. HIDE DEF buttons
  <2>. QED BY <2>2, <2>3, <2>4
<1>5. ButtonsWidth(message, theme) \in Int
  <2>1. ButtonWidth(message, theme) = Largest(buttons) BY DEF ButtonWidth, char, icon
  <2>. HIDE DEF buttons
  <2>2. ButtonWidth(message, theme) + ButtonGap \in Int BY <1>4, <2>1, LargestTyped DEF ButtonGap
  <2>3. Len(message.items) \in Int BY DEF DialogTyped
  <2>4. Len(message.items) * (ButtonWidth(message, theme) + ButtonGap) \in Int BY <2>2, <2>3
  <2>. QED BY <2>4 DEF ButtonsWidth, ButtonGap
<1>6. chars \in Seq(Int)
  <2>1. Len(message.text) \in Nat /\ DOMAIN message.text = 1 .. Len(message.text)
          /\ \A i \in DOMAIN message.text : message.text[i] \in Words
    <3>. HIDE DEF Words
    <3>. QED BY DEF DialogTyped, Texts
  <2>2. \A i \in DOMAIN message.text : Chars(message.text[i]) \in Int BY <2>1, WordsAreNumbers
  <2>. QED BY <2>1, <2>2
<1>7. TextWidth(message, theme, output) \in Int
  <2>1. Largest(chars) * char \in Int BY <1>1, <1>6, LargestTyped
  <2>2. output \div 2 \in Int OBVIOUS
  <2>. QED BY <1>2, <2>1, <2>2 DEF TextWidth, Smaller, RowPadX, char, frame
<1>8. MessageWidth(message, theme, output) \in Nat
  <2>1. widths \in Seq(Int) BY <1>3, <1>5, <1>7
  <2>. HIDE DEF widths
  <2>2. frame + Largest(widths) \in Int BY <1>2, <2>1, LargestTyped
  <2>3. message.width \in SizeSpec BY DEF DialogTyped
  <2>4. MessageWidth(message, theme, output) = resolve(message.width, output, frame + Largest(widths))
    BY DEF MessageWidth, widths, frame
  <2>. QED BY <2>2, <2>3, <2>4, ResolveTyped
<1>. DEFINE room == Larger(1, MessageWidth(message, theme, output) - frame - 2 * RowPadX)
<1>9. room \in Int BY <1>2, <1>8 DEF Larger, RowPadX
<1>10. LineFits(message, theme, output) = room \div char BY DEF LineFits, frame, char
<1>. HIDE DEF room
<1>. QED BY <1>1, <1>9, <1>10

\* Lines are left out only when the box is as high as the output.
LEMMA CutWhenFull ==
  ASSUME NEW message, DialogTyped(message), NEW theme, ThemeTyped(theme),
         NEW width \in Int, NEW height \in Nat, Len(Lines(message, theme, width)) \in Nat,
         LinesShown(message, theme, width, height) < Len(Lines(message, theme, width))
  PROVE  MessageHeight(message, theme, width, height) = height
<1>. DEFINE lines == Lines(message, theme, width)
            n == Len(lines)
            high == LineHeight(theme.normal)
            frame == Frame(theme)
            heading == HeadingHeight(message, theme)
            item == ItemHeight(message, theme, theme.normal)
            text == TextHeight(lines, theme)
            box == MessageHeight(message, theme, width, height)
            content == Larger(0, box - frame - heading)
            room == Larger(0, Larger(0, content - item - TextGap) - RowPadY)
<1>1. high \in Nat \ {0} BY FontTyped DEF ThemeTyped
<1>2. frame \in Int BY DEF Frame, Px, Padding, Whole, ThemeTyped
<1>3. heading \in Int
  BY DEF HeadingHeight, LineHeight, Larger, RowPadY, HeadingGap, Whole, ThemeTyped
<1>4. item \in Int BY ItemHeightTyped DEF ThemeTyped
<1>5. n \in Nat /\ n * high \in Nat
  <2>. HIDE DEF lines, high
  <2>1. n \in Nat BY DEF lines
  <2>. QED BY <1>1, <2>1
<1>6. text \in Int /\ (lines # <<>> => text = n * high + 20)
  BY <1>5 DEF TextHeight, RowPadY, TextGap
<1>7. LinesShown(message, theme, width, height) = Smaller(n, room \div high)
  BY DEF LinesShown, TextRoom
<1>8. box = Larger(0, Smaller(frame + heading + text + item, height))
  BY DEF MessageHeight, MessageNeeds, resolve, NoSize
<1>. HIDE DEF high, frame, heading, item, text, box
<1>9. box \in Nat BY <1>2, <1>3, <1>4, <1>6, <1>8 DEF Larger, Smaller
<1>10. room \in Nat BY <1>2, <1>3, <1>4, <1>9 DEF Larger, TextGap, RowPadY
<1>11. ASSUME box # height PROVE lines = <<>> \/ room >= n * high
  <2>1. box >= frame + heading + text + item
    BY <1>2, <1>3, <1>4, <1>6, <1>8, <1>11 DEF Larger, Smaller
  <2>2. content \in Int /\ content >= text + item
    BY <1>2, <1>3, <1>4, <1>6, <1>9, <2>1 DEF Larger
  <2>. HIDE DEF content, n, lines
  <2>3. room >= text - 16 BY <1>4, <1>6, <2>2 DEF Larger, TextGap, RowPadY
  <2>. HIDE DEF room
  <2>. QED BY <1>5, <1>6, <1>10, <2>3
<1>. HIDE DEF room
<1>12. room \div high \in Nat BY <1>1, <1>10
<1>13. lines = <<>> => n = 0 OBVIOUS
<1>. HIDE DEF n, lines
<1>14. room \div high < n
  BY <1>5, <1>7, <1>12 DEF Smaller, n, lines
<1>15. ~(room >= n * high)
  <2>. DEFINE q == room \div high
  <2>1. q \in Nat /\ room < q * high + high BY <1>1, <1>10, <1>12
  <2>. HIDE DEF q
  <2>2. q + 1 <= n BY <1>5, <1>14, <2>1 DEF q
  <2>3. (q + 1) * high <= n * high BY <1>1, <1>5, <2>1, <2>2
  <2>4. (q + 1) * high = q * high + high BY <1>1, <2>1
  <2>5. q * high \in Nat BY <1>1, <2>1
  <2>. QED BY <1>1, <1>5, <1>10, <2>1, <2>3, <2>4, <2>5
<1>. QED BY <1>5, <1>11, <1>12, <1>13, <1>14, <1>15 DEF box
=============================================================================
