---------------------------- MODULE DesktopInput ----------------------------
(***************************************************************************)
(* What hd-menu and hd-message read: the menu or the message, as JSON on   *)
(* stdin, and the theme, from the configurations.                          *)
(*                                                                         *)
(* Abstractions.  A JSON value is [type, v]: the v of an object is the     *)
(* sequence of its members [key, value], of an array the sequence of its   *)
(* values.  A percentage is a string such as "50%".  A label, a value or a *)
(* path is a sequence of letters, a text a sequence of paragraphs, each    *)
(* the lengths of its words.  Numbers of a configuration are in            *)
(* thousandths.  Colours, opacity and font name are left out.              *)
(***************************************************************************)
EXTENDS Integers, SequencesExt

CONSTANT Icons        \* the paths of images that can be loaded

NoText == <<>>
NoSize == [set |-> FALSE, percent |-> FALSE, value |-> 0]
SizeTypes == {"number", "percent"}

-----------------------------------------------------------------------------
(* The JSON reader.                                                        *)

\* No word is empty.
Words == Seq(Nat \ {0})
Texts == Seq(Words)

\* What a parser makes of a text: members are in order, numbers are whole.
IsSeq(s) == Len(s) \in Nat /\ s = [i \in 1 .. Len(s) |-> s[i]]
MembersTyped(members) ==
  /\ IsSeq(members)
  /\ \A i \in DOMAIN members :
       LET value == members[i].value
       IN /\ value.type \in SizeTypes => value.v \in Int
          /\ value.type \in {"string", "array", "object"} => IsSeq(value.v)
          /\ value.type = "string" /\ members[i].key = "text" => value.v \in Texts

\* An object, and the objects that its arrays hold.
ObjectTyped(object) == object.type = "object" => MembersTyped(object.v)
InputTyped(object) ==
  /\ ObjectTyped(object)
  /\ object.type = "object" => \A i \in DOMAIN object.v :
       LET value == object.v[i].value
       IN value.type = "array" => \A j \in DOMAIN value.v : ObjectTyped(value.v[j])

\* Every member that is asked for has the type that is asked for.
ReadsAs(object, types) ==
  /\ object.type = "object"
  /\ \A i \in DOMAIN object.v :
       object.v[i].key \in DOMAIN types => object.v[i].value.type \in types[object.v[i].key]

\* Of members of the same name, the last one counts.
Members(object, key) == {i \in DOMAIN object.v : object.v[i].key = key}
LastMember(object, key) == object.v[Max(Members(object, key))].value
Member(object, key, default) ==
  IF Members(object, key) = {} THEN default ELSE LastMember(object, key).v

\* The values of some of the members, one after the other.
Joined(members, chosen) ==
  FoldLeftDomain(LAMBDA all, i : IF i \in chosen THEN all \o members[i].value.v ELSE all,
                 <<>>, members)

\* But arrays of the same name are read one after the other.
Elements(object, key) ==
  Joined(object.v, Members(object, key))

\* The sizes are read by peeking at the value: none is negative.
SizesValid(object, keys) ==
  \A i \in DOMAIN object.v :
    object.v[i].key \in keys /\ object.v[i].value.type \in SizeTypes => object.v[i].value.v >= 0

read_size(object, key) ==
  IF Members(object, key) = {} THEN NoSize
  ELSE [set |-> TRUE, percent |-> LastMember(object, key).type = "percent",
        value |-> LastMember(object, key).v]

-----------------------------------------------------------------------------
(* Menus and messages.                                                     *)

\* An icon that cannot be loaded is left out.
load_icon(path) == path # NoText /\ path \in Icons

OptionTypes ==
  [label |-> {"string"}, value |-> {"string"}, icon |-> {"string"}, default |-> {"boolean"}]
ButtonTypes == [label |-> {"string"}, value |-> {"string"}, icon |-> {"string"}]

ItemValid(object, types) == ReadsAs(object, types) /\ Member(object, "label", NoText) # NoText

Item(object) ==
  LET label == Member(object, "label", NoText)
      value == Member(object, "value", NoText)
  IN [label |-> label, value |-> IF value = NoText THEN label ELSE value,
      icon |-> load_icon(Member(object, "icon", NoText))]

Items(objects) == [i \in DOMAIN objects |-> Item(objects[i])]

\* items is empty for an input with an error in it.
Unreadable ==
  [program |-> "none", heading |-> NoText, text |-> NoText, width |-> NoSize, height |-> NoSize,
   items |-> <<>>, selected |-> 0]

read_menu(text) ==
  LET types == [banner |-> {"string"}, width |-> SizeTypes, height |-> SizeTypes,
                options |-> {"array"}]
      options == Elements(text.v, "options")
      default == SelectInSeq(options, LAMBDA o : Member(o, "default", FALSE))
  IN IF /\ text.whole /\ ReadsAs(text.v, types) /\ SizesValid(text.v, {"width", "height"})
        /\ options # <<>> /\ \A i \in DOMAIN options : ItemValid(options[i], OptionTypes)
     THEN [program |-> "menu", heading |-> Member(text.v, "banner", NoText), text |-> NoText,
           width |-> read_size(text.v, "width"), height |-> read_size(text.v, "height"),
           items |-> Items(options), selected |-> IF default = 0 THEN 1 ELSE default]
     ELSE Unreadable

\* The default of a message is the value of a button.  It has no height: that member is
\* skipped, as any other.
read_message(text) ==
  LET types == [title |-> {"string"}, text |-> {"string"}, width |-> SizeTypes,
                buttons |-> {"array"}, default |-> {"string"}]
      buttons == Elements(text.v, "buttons")
      default == IF Members(text.v, "default") = {} THEN 1
                 ELSE SelectInSeq(Items(buttons),
                        LAMBDA b : b.value = Member(text.v, "default", NoText))
  IN IF /\ text.whole /\ ReadsAs(text.v, types) /\ SizesValid(text.v, {"width"})
        /\ buttons # <<>> /\ \A i \in DOMAIN buttons : ItemValid(buttons[i], ButtonTypes)
        /\ default # 0
     THEN [program |-> "message", heading |-> Member(text.v, "title", NoText),
           text |-> Member(text.v, "text", NoText),
           width |-> read_size(text.v, "width"), height |-> NoSize,
           items |-> Items(buttons), selected |-> default]
     ELSE Unreadable

-----------------------------------------------------------------------------
(* Typing.                                                                 *)

Capitals == [A |-> "a", B |-> "b", C |-> "c", Q |-> "q"]
lower_char(c) == IF c \in DOMAIN Capitals THEN Capitals[c] ELSE c
lower_label(label) == [i \in DOMAIN label |-> lower_char(label[i])]

\* The first option whose label starts with what was typed, 0 if there is none.
find_option(items, typed) ==
  SelectInSeq(items, LAMBDA o : IsPrefix(typed, lower_label(o.label)))

-----------------------------------------------------------------------------
(* The theme, scaled for the monitor.                                      *)

Whole == 1000
DefaultTheme ==
  [big |-> 24 * Whole, normal |-> 18 * Whole, icon |-> 64 * Whole, border |-> 4 * Whole]

\* A configuration holds objects of numbers and other things.
FileTyped(file) ==
  /\ MembersTyped(file.v)
  /\ \A i \in DOMAIN file.v : ObjectTyped(file.v[i].value)

Monitors == [connected : BOOLEAN, width : Nat, height : Nat]
SetupTyped(setup) ==
  /\ FileTyped(setup.user) /\ FileTyped(setup.system)
  /\ setup.monitors \in Seq(Monitors)

\* Root has no configuration of its own.
config_files(setup) == IF setup.root THEN <<setup.system>> ELSE <<setup.user, setup.system>>

\* The fields of all objects under the name, and whether there is one.
read_key(file, name) ==
  LET named == {i \in Members(file, name) : file.v[i].value.type = "object"}
  IN [found |-> file.readable /\ named # {}, fields |-> Joined(file.v, named)]

Numbers(fields, name) ==
  {i \in DOMAIN fields : fields[i].key = name /\ fields[i].value.type = "number"}

\* A field that is missing or too small keeps its default.
Number(fields, name, least, default) ==
  LET number == fields[Max(Numbers(fields, name))].value.v
  IN IF Numbers(fields, name) # {} /\ number >= least THEN number ELSE default

read_theme(fields) ==
  [big |-> Number(fields, "font-size-big", 1, DefaultTheme.big),
   normal |-> Number(fields, "font-size-normal", 1, DefaultTheme.normal),
   icon |-> Number(fields, "icon_size", 1, DefaultTheme.icon),
   border |-> Number(fields, "border", 0, DefaultTheme.border)]

\* To multiples of the step, halves up.
round_to(value, step) == ((2 * value + step) \div (2 * step)) * step

\* The connected monitor with the most pixels, the first one of equals.
monitor_size(monitors) ==
  FoldLeft(LAMBDA best, m :
             IF m.connected /\ m.width * m.height > best.width * best.height THEN m ELSE best,
           [connected |-> FALSE, width |-> 0, height |-> 0], monitors)

Hypot(w, h) == CHOOSE d \in 0 .. w + h : d * d <= w * w + h * h /\ (d + 1) * (d + 1) > w * w + h * h

\* Pixels per inch over 96, and the distance over 70 centimetres.
MonitorFactor(monitor, diagonal, distance) ==
  (((Hypot(monitor.width, monitor.height) * distance) \div (96 * 70)) * Whole) \div diagonal

scale_factor(setup) ==
  LET display == read_key(setup.system, "hd-display")
      diagonal == Number(display.fields, "diagonal", 1, 0)
      distance == Number(display.fields, "distance", 1, 0)
      monitor == monitor_size(setup.monitors)
  IN IF ~display.found THEN Whole
     ELSE IF Numbers(display.fields, "factor") # {}
          THEN LET factor == Number(display.fields, "factor", 1, Whole) IN round_to(factor, 10)
     ELSE IF diagonal = 0 \/ distance = 0 \/ ~monitor.connected THEN Whole
     ELSE round_to(MonitorFactor(monitor, diagonal, distance), 10)

Scaled(theme, factor) ==
  LET times(value) == (value * (factor \div 10)) \div 100
      pixels(value) == LET v == round_to(times(value), Whole) IN IF v < Whole THEN Whole ELSE v
  IN [big |-> round_to(times(theme.big), 100), normal |-> round_to(times(theme.normal), 100),
      icon |-> IF theme.icon > 0 THEN pixels(theme.icon) ELSE 0,
      border |-> IF theme.border > 0 THEN pixels(theme.border) ELSE 0]

\* The first configuration that has a theme gives all of it.
load_theme(setup) ==
  LET keys == [i \in DOMAIN config_files(setup) |-> read_key(config_files(setup)[i], "hd-theme")]
      first == SelectInSeq(keys, LAMBDA k : k.found)
      theme == IF first = 0 THEN DefaultTheme ELSE read_theme(keys[first].fields)
      factor == scale_factor(setup)
  IN IF factor = Whole THEN theme ELSE Scaled(theme, factor)
=============================================================================
