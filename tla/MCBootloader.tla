---------------------------- MODULE MCBootloader ----------------------------
(* A small instance of Bootloader: three slots, two consoles and three      *)
(* graphics outputs, and files with good, missing and malformed sections.   *)
(* The graphics outputs are one that takes the size of the background or    *)
(* stays smaller, one that is larger than it, and none at all.  Below them  *)
(* are the machines on which the code does not do what it says.             *)
EXTENDS Bootloader

\* Sections.
Section(name, bytes, holds) == [name |-> name, at |-> 600, size |-> bytes, holds |-> holds]
Slot(n, name, profile) ==
  Section(slot_sections[n], 6, [form |-> TRUE, length |-> 4, name |-> name, profile |-> profile])
BadSlot(n) ==
  Section(slot_sections[n], 6, [form |-> FALSE, length |-> 4, name |-> "", profile |-> 0])
Label(n, length) ==
  Section(label_sections[n], 2 * length, [printable |-> TRUE, width |-> 8000, height |-> 8000])
BadLabel(n) ==
  Section(label_sections[n], 6, [printable |-> FALSE, width |-> 0, height |-> 8000])
Image(name, width, height) ==
  Section(name, 8 + width * height * 4,
          [printable |-> FALSE, width |-> width, height |-> height])
Labels(n, width, height) ==
  <<Image(label_sections[n], width, height), Image(bar_sections[n], width, height)>>
Timeout(value) ==
  Section(".config", 9, <<[key |-> "timeout", value |-> value], [key |-> "colour", value |-> 1],
                          [key |-> "timeout", value |-> NotANumber]>>)
Mok(bytes) == Section(".mok", bytes, [listSize |-> 68, headerSize |-> 0, signatureSize |-> 20])
Area(width, height) ==
  Section(".area", 16, [x |-> 5, y |-> 5, width |-> width, height |-> height])

Efi(sections) ==
  [size |-> 20000, mz |-> TRUE, pe |-> TRUE, peOffset |-> 64, optionalSize |-> 240,
   table |-> sections]

TextFiles == {
  Efi(<<Slot(1, "a", 0), Slot(2, "a", 1), Slot(3, "b", 0), Label(1, 3), Label(2, 5), Label(3, 4),
        Mok(68)>>),
  Efi(<<BadSlot(1), Slot(2, "a", 0), Slot(3, "b", 1), Timeout(MaxNumber + 1), Label(2, 9),
        Label(3, 3)>>),
  Efi(<<Slot(2, "a", 0), Slot(3, "b", 1), BadLabel(2), Label(3, 3), Mok(70)>>)}

GraphicalFiles == {
  Efi(<<Slot(1, "a", 0), Slot(2, "a", 1), Slot(3, "b", 0), Timeout(3)>>
      \o Labels(1, 28, 3) \o Labels(2, 28, 3) \o Labels(3, 20, 2)
      \o <<Image(".backgnd", 60, 60), Area(30, 30)>>),
  Efi(<<Slot(1, "a", 0), Slot(2, "a", 1), Slot(3, "b", 0), Timeout(0)>>
      \o Labels(1, 20, 2) \o Labels(3, 20, 2)
      \o <<Image(label_sections[2], 7681, 1), Area(90, 90), Mok(68)>>)}

MCAssetsFiles ==
  TextFiles \cup GraphicalFiles \cup {Efi(<<[Slot(1, "a", 0) EXCEPT !.at = 19999]>>)}

Console(width, height, there) ==
  [kind |-> "text", console |-> there, found |-> there, width |-> width, height |-> height,
   modes |-> {}, paints |-> TRUE]
Graphics(width, height, modes, there) ==
  [kind |-> "graphical", console |-> TRUE, found |-> there, width |-> width, height |-> height,
   modes |-> modes, paints |-> TRUE]

MCDisplays == {
  Console(10, 5, TRUE), Console(9, 9, FALSE),
  Graphics(50, 50, {[width |-> 60, height |-> 60]}, TRUE),
  Graphics(70, 70, {}, TRUE), Graphics(40, 40, {}, FALSE)}

-----------------------------------------------------------------------------
\* An assets.efi as graphical.py makes it, with a work area of 50 x box.
MadeFor(width, height, box) ==
  Efi(<<Slot(1, "a", 0), Slot(2, "a", 1), Slot(3, "b", 0)>>
      \o Labels(1, 48, box \div 10) \o Labels(2, 48, box \div 10) \o Labels(3, 48, box \div 10)
      \o <<Image(".backgnd", width, height), Area(50, box)>>)

\* Displays that cannot take the size of the background: an upright one, on which the
\* box is lower than the background reaches, and a small one, with lower rows.
UprightFiles == {MadeFor(60, 36, 30)}
UprightDisplays == {Graphics(50, 90, {}, TRUE)}
SmallFiles == {MadeFor(60, 60, 50)}
SmallDisplays == {Graphics(30, 30, {}, TRUE)}

\* A graphics output without a frame buffer.
BltOnlyDisplays == {[Graphics(60, 60, {}, TRUE) EXCEPT !.paints = FALSE]}

\* A console of 300 columns, with a label of 260 characters.
WideFiles == {Efi(<<Slot(1, "a", 0), Label(1, 260)>>)}
WideDisplays == {Console(300, 25, TRUE)}

\* A machine without a console.
NoConsoleDisplays == {Console(9, 9, FALSE)}

\* The menu fits on all the displays of the instance, and not on those after it.
ASSUME MCBootloaderAssumption ==
  /\ \A f \in MCAssetsFiles, d \in MCDisplays : MenuFits(f, d)
  /\ \A f \in UprightFiles, d \in UprightDisplays : ~MenuFits(f, d)
  /\ \A f \in SmallFiles, d \in SmallDisplays : ~MenuFits(f, d)
  /\ \A f \in GraphicalFiles, d \in BltOnlyDisplays : ~MenuFits(f, d)
=============================================================================
