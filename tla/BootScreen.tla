----------------------------- MODULE BootScreen -----------------------------
(***************************************************************************)
(* The boot loader of HyprDebian: what it reads from assets.efi, and where *)
(* its two front ends put the menu.  The operators here have no state; the *)
(* steps that use them are in Bootloader.                                  *)
(*                                                                         *)
(* Abstractions.  A section says what it holds instead of its bytes: the   *)
(* fields of a header, whether a text has the right form, the lines of the *)
(* config.  Offsets and sizes are kept, as every range check depends on    *)
(* them.                                                                   *)
(***************************************************************************)
EXTENDS Integers, Sequences

CONSTANT MaxNumber      \* the largest number of 32 bits (TLC takes a smaller one)

ASSUME MaxNumberAssumption == MaxNumber \in Nat

-----------------------------------------------------------------------------
(* Sections of the loaded image.                                           *)

Nothing == [nothing |-> TRUE]
Empty == [at |-> 0, size |-> 0, holds |-> Nothing]

\* The DOS, PE and COFF headers are 64, 24 bytes and what they say of
\* themselves, and the section table with 40 bytes a section lies in the image.
SectionTable(image) == image.peOffset + 24 + image.optionalSize
WellFormed(image) ==
  /\ image.size >= 64 /\ image.mz
  /\ image.peOffset <= image.size /\ image.size - image.peOffset >= 24 /\ image.pe
  /\ SectionTable(image) <= image.size
  /\ (image.size - SectionTable(image)) \div 40 >= Len(image.table)

\* The first section of that name; nothing at all if it sticks out of the image.
AssetSection(image, name) ==
  LET named == {i \in DOMAIN image.table : image.table[i].name = name}
      first == {i \in named : \A j \in named : i <= j}
      found == image.table[CHOOSE i \in first : TRUE]
  IN IF /\ WellFormed(image) /\ first # {}
        /\ found.at <= image.size /\ found.size <= image.size - found.at
     THEN [at |-> found.at, size |-> found.size, holds |-> found.holds]
     ELSE Empty

slot_sections == <<".slot1", ".slot2", ".slot3", ".slot4",
                   ".slot5", ".slot6", ".slot7", ".slot8">>
label_sections == <<".lbl1", ".lbl2", ".lbl3", ".lbl4",
                    ".lbl5", ".lbl6", ".lbl7", ".lbl8">>
bar_sections == <<".lbl1s", ".lbl2s", ".lbl3s", ".lbl4s",
                  ".lbl5s", ".lbl6s", ".lbl7s", ".lbl8s">>

-----------------------------------------------------------------------------
(* The config, the slots and the DKMS MOK.                                 *)

NotANumber == -1

\* Without the check that the number fits.
IsNumberMutant(value) == value \in Nat

IsNumber(value) == value \in 0 .. MaxNumber

\* The last line of the key whose value is a number counts.
ParseConfig(section) ==
  LET lines == IF section.size = 0 THEN <<>> ELSE section.holds
      settings == {i \in DOMAIN lines : lines[i].key = "timeout" /\ IsNumber(lines[i].value)}
      last == {i \in settings : \A j \in settings : j <= i}
  IN IF last = {} THEN 5 ELSE lines[CHOOSE i \in last : TRUE].value

\* Of the form "name profile": printable characters without slashes, at most
\* 255 of them, a space and a digit.
IsSlot(text) == text.size >= 3 /\ text.holds.form /\ text.holds.length < 256
Entry(text) == [name |-> text.holds.name, profile |-> text.holds.profile]

is_signature_list(list) ==
  /\ list.size >= 28
  /\ list.holds.listSize = list.size /\ list.holds.signatureSize > 16
  /\ list.size - 28 >= list.holds.headerSize
  /\ LET signatures == list.size - 28 - list.holds.headerSize
     IN signatures # 0 /\ signatures % list.holds.signatureSize = 0

\* The table for the kernel, which ends with an entry without a name or data.
MokTable(list) ==
  <<[name |-> "MokListRT", data |-> list.holds], [name |-> "MokListTrustedRT", data |-> 1],
    [name |-> "", data |-> Nothing]>>

-----------------------------------------------------------------------------
(* The text console.                                                       *)

max_text_length == 256

\* Not empty, whole characters, all of them printable, and not too long.
ReadText(section, maxLength) ==
  /\ section.size # 0 /\ section.size % 2 = 0 /\ section.size \div 2 <= maxLength
  /\ section.holds.printable

CentredColumn(columns, length) == IF length < columns THEN (columns - length) \div 2 ELSE 0
BannerLine(lines) == lines \div 10
TextLine(lines, row) == BannerLine(lines) + 2 + row

\* Down to the last line.
TextRowFitsMutant(section, columns, lines, row) ==
  /\ columns >= 3 /\ ReadText(section, columns - 3)
  /\ TextLine(lines, row) < lines

\* A label needs a space on either side, and a line above the last one.
TextRowFits(section, columns, lines, row) ==
  /\ columns >= 3 /\ ReadText(section, columns - 3)
  /\ TextLine(lines, row) + 1 < lines

-----------------------------------------------------------------------------
(* The graphics output.  A rectangle has its top left corner and its size. *)

Rectangle(x, y, width, height) == [x |-> x, y |-> y, width |-> width, height |-> height]

\* All of r, or nothing at all, is in s; some of r is in s.
Within(r, s) ==
  \/ r.width = 0 \/ r.height = 0
  \/ /\ s.x <= r.x /\ r.x + r.width <= s.x + s.width
     /\ s.y <= r.y /\ r.y + r.height <= s.y + s.height
Meet(r, s) ==
  /\ r.width > 0 /\ s.width > 0 /\ r.x < s.x + s.width /\ s.x < r.x + r.width
  /\ r.height > 0 /\ s.height > 0 /\ r.y < s.y + s.height /\ s.y < r.y + r.height

Lesser(m, n) == IF m <= n THEN m ELSE n

\* What is left of a rectangle in width x height.
Clip(r, width, height) ==
  IF r.x >= width \/ r.y >= height THEN Rectangle(r.x, r.y, 0, 0)
  ELSE Rectangle(r.x, r.y, Lesser(r.width, width - r.x), Lesser(r.height, height - r.y))

max_image_width == 7680
max_image_height == 4320

\* An image: its header of 8 bytes and exactly its pixels of 4 bytes.
IsImage(section) ==
  /\ section.size >= 8
  /\ section.holds.width <= max_image_width /\ section.holds.height <= max_image_height
  /\ section.size - 8 = section.holds.width * section.holds.height * 4

work_area_rows == 10
RowHeight(area) == area.height \div work_area_rows

\* The work area of the section if it fits on the screen, else half of it, centred.
WorkArea(section, width, height) ==
  LET given == section.holds
      w == (width + 1) \div 2
      h == (height + 1) \div 2
  IN IF /\ section.size = 16
        /\ given.width >= work_area_rows /\ given.height >= work_area_rows
        /\ given.x <= width /\ given.width <= width - given.x
        /\ given.y <= height /\ given.height <= height - given.y
     THEN Rectangle(given.x, given.y, given.width, given.height)
     ELSE Rectangle((width - w) \div 2, (height - h) \div 2, w, h)

CentredX(area, width) ==
  IF width < area.width THEN area.x + (area.width - width) \div 2 ELSE area.x
CentredY(area, height, top) ==
  IF height < RowHeight(area) THEN top + (RowHeight(area) - height) \div 2 ELSE top

\* The rows start half a row below the banner.
RowTop(area, row) == area.y + RowHeight(area) + RowHeight(area) \div 2 + row * RowHeight(area)
ImageRowFits(area, row) == RowTop(area, row) + RowHeight(area) <= area.y + area.height

\* Where a label of a row goes: both its images where the plain one is centred.
LabelPlace(area, row, plain, label) ==
  Rectangle(CentredX(area, plain.width), CentredY(area, plain.height, RowTop(area, row)),
            label.width, label.height)

\* The part of a rectangle that the background, or black without one, is drawn on.
Redrawn(r, screen, background) ==
  IF background.size = 0
  THEN Clip(r, screen.width, screen.height)
  ELSE Clip(Clip(r, screen.width, screen.height), background.holds.width, background.holds.height)
=============================================================================
