------------------------------ MODULE MCDialog ------------------------------
(* A small instance of Dialog: a menu that scrolls, a message that wraps,   *)
(* and inputs with errors; themes of root and of a user, with and without   *)
(* a factor.                                                                *)
EXTENDS Dialog

String(v) == [type |-> "string", v |-> v]
Num(v) == [type |-> "number", v |-> v]
True == [type |-> "boolean", v |-> TRUE]
Array(v) == [type |-> "array", v |-> v]
Object(v) == [type |-> "object", v |-> v]
M(key, value) == [key |-> key, value |-> value]
Text(program, whole, v) == [program |-> program, text |-> [whole |-> whole, v |-> Object(v)]]

Labelled(label) == Object(<<M("label", String(label))>>)
GoodMenu == Text("menu", TRUE, <<
  M("banner", String(<<"C">>)), M("height", [type |-> "percent", v |-> 90]), M("other", True),
  M("options", Array(<<
    Labelled(<<"B", "a">>),
    Object(<<M("label", String(<<"a">>)), M("value", String(<<"x">>)),
             M("icon", String(<<"png">>))>>)>>)),
  M("options", Array(<<
    Object(<<M("default", True), M("label", String(<<"b", "B">>))>>)>>))>>)
GoodMessage == Text("message", TRUE, <<
  M("title", String(<<"C", "C">>)), M("text", String(<< <<3, 5, 30>>, <<>>, <<2, 9>> >>)),
  M("default", String(<<"b">>)), M("height", Num(-1)),
  M("buttons", Array(<<Labelled(<<"a">>), Labelled(<<"b">>)>>))>>)

MCInputs == {
  GoodMenu, GoodMessage,
  Text("menu", FALSE, GoodMenu.text.v.v), Text("menu", TRUE, <<>>),
  Text("menu", TRUE, <<M("height", Num(-1)), M("options", Array(<<Labelled(<<"a">>)>>))>>),
  Text("message", TRUE, <<M("buttons", Array(<<Labelled(<<>>)>>))>>),
  Text("message", TRUE, <<M("buttons", Array(<<Labelled(<<"a">>)>>)), M("default", String(<<"b">>))>>)}

File(v) == [readable |-> TRUE, v |-> v]
Gone == [readable |-> FALSE, v |-> <<>>]
Small == M("hd-theme", Object(<<M("font-size-big", Num(12000)), M("font-size-normal", Num(9000)),
                                M("icon_size", Num(16000)), M("border", Num(2000))>>))
Factor(v) == M("hd-display", Object(<<M("factor", Num(v))>>))
Monitor == M("hd-display", Object(<<M("diagonal", Num(24000)), M("distance", Num(140000))>>))
MCSetups == {
  [root |-> FALSE, user |-> Gone, system |-> File(<<Small, Monitor>>),
   monitors |-> <<[connected |-> FALSE, width |-> 1600, height |-> 1200],
                  [connected |-> TRUE, width |-> 800, height |-> 600]>>],
  [root |-> FALSE, user |-> File(<<Small>>), system |-> File(<<Factor(870)>>), monitors |-> <<>>],
  [root |-> TRUE, user |-> Gone, system |-> File(<<Small, Factor(870)>>), monitors |-> <<>>]}

MCIcons == {<<"png">>}
MCSizes == {<<200, 100>>, <<100, 160>>}
MCScales == {2}
MCKeys == [menu |-> {"Enter", "PageUp", "KeyB", "Shift"},
           message |-> {"Enter", "Tab", "KeyQ"}, none |-> {}]
MCGreetings == {
  <<[kind |-> "keymap", readable |-> TRUE], [kind |-> "scale", scale |-> 0],
    [kind |-> "configure", size |-> <<200, 100>>]>>,
  <<[kind |-> "keymap", readable |-> FALSE], [kind |-> "scale", scale |-> 2],
    [kind |-> "configure", size |-> <<100, 160>>]>>}
MCKeymap == [k \in MCKeys.menu \cup MCKeys.message |->
  CASE k = "KeyB" -> <<"b", "B">> [] k = "KeyQ" -> <<"q", "Q">>
    [] k = "Tab" -> <<"Tab", "ISO_Left_Tab">> [] OTHER -> <<k, k>>]
=============================================================================
