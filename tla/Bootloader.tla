----------------------------- MODULE Bootloader -----------------------------
(***************************************************************************)
(* The boot loader of HyprDebian, with either of its front ends: it loads  *)
(* assets.efi, builds the menu from the slots in it, shows the menu,       *)
(* handles the keys against a countdown, and boots the selected UKI.       *)
(*                                                                         *)
(* Abstractions.  A call of the firmware fails whenever it likes.  The     *)
(* geometry and the formats are in BootScreen.  A row of the screen is the *)
(* slot its label is from and the looks of which something can be seen     *)
(* there, "other" if the label of another row was drawn over it.  A key    *)
(* press carries what was on the screen when it was made; the Reset of the *)
(* console drops what was typed.                                           *)
(***************************************************************************)
EXTENDS BootScreen, FiniteSets

CONSTANTS
  SlotCount,      \* slot_count, 8 in the code
  AssetsFiles,    \* bound: the assets.efi that may be on the boot device
  Displays,       \* bound: the consoles and graphics outputs there may be
  MaxKeys         \* bound: the keys that are pressed

\* The sections that the graphics output takes for images.
Images ==
  {label_sections[i] : i \in 1 .. 8} \cup {bar_sections[i] : i \in 1 .. 8} \cup {".backgnd"}

ASSUME BootloaderAssumption ==
  /\ SlotCount \in 1 .. 8 /\ MaxKeys \in Nat
  /\ \A f \in AssetsFiles :
       /\ {f.size, f.peOffset, f.optionalSize} \subseteq Nat
       /\ DOMAIN f.table = 1 .. Len(f.table)
       /\ \A i \in DOMAIN f.table :
            LET section == f.table[i]
            IN /\ {section.at, section.size} \subseteq Nat
               /\ section.name \in Images => {section.holds.width, section.holds.height} \subseteq Nat
               /\ \A n \in 1 .. 8 : section.name = slot_sections[n] /\ section.holds.form
                                 => section.holds.profile \in 0 .. 9
               /\ section.name = ".area" =>
                    section.holds \in [x : Nat, y : Nat, width : Nat, height : Nat]
  /\ \A d \in Displays : d.kind \in {"text", "graphical"} /\ {d.width, d.height} \subseteq Nat \ {0}

Slots == 1 .. SlotCount
Rows == 0 .. SlotCount - 1
KeyKinds == {"up", "down", "enter", "other", "partial"}
Looks == {"plain", "bar"}

\* What is left in an entry whose slot was not of the form, and at the start.
Torn == [name |-> "", profile |-> -1]
NoRow == [slot |-> 0, plain |-> Empty, bar |-> Empty]
Blank == [slot |-> 0, looks |-> {}]

VARIABLES
  file, display,    \* the assets.efi and the display of this machine
  pc,
  memory,           \* memory[i]: the image i is "none", "trusted" or "rejected"
  assets,           \* assets_image, assets_base and assets_size are set
  mok, timeout,     \* mok_table: "none", "built" or "installed"
  slot, menu, menuCount, selected,
  rows, labelWidth, background, area, size,    \* of the front end
  screen, showing,  \* the rows on the screen; "firmware", "menu" or "error"
  keys, presses, touched, timer,
  running, status   \* the entry that was started; what efi_main returns

machine == <<file, display>>
images == <<memory, assets>>
settings == <<mok, timeout>>
entries == <<slot, menu, menuCount>>
front == <<rows, labelWidth, background, area, size>>
shown == <<screen, showing>>
user == <<keys, presses, touched>>
result == <<running, status>>
vars == <<machine, pc, images, settings, entries, selected, front, shown, user, timer, result>>

Text == display.kind = "text"
asset_section(name) == IF assets THEN AssetSection(file, name) ELSE Empty

-----------------------------------------------------------------------------
(* The front ends.                                                         *)

\* The text console keeps a copy of the label, the graphics output two views.
TextRow(s) ==
  [slot |-> s, plain |-> asset_section(label_sections[s]), bar |-> asset_section(label_sections[s])]
ImageRow(s) ==
  [slot |-> s, plain |-> asset_section(label_sections[s]), bar |-> asset_section(bar_sections[s])]
RowOf(s) == IF Text THEN TextRow(s) ELSE ImageRow(s)

TakesRow(row, r) ==
  IF Text THEN TextRowFits(row.plain, size.width, size.height, r)
          ELSE IsImage(row.plain) /\ IsImage(row.bar) /\ ImageRowFits(area, r)

\* The rows of the console are all as wide as the widest.
DrawTextRow(r, look) == [slot |-> rows[r].slot, looks |-> {look}]

LabelOf(r, look) == IF look = "bar" THEN rows[r].bar ELSE rows[r].plain
Place(r, look) == LabelPlace(area, r, rows[r].plain.holds, LabelOf(r, look).holds)
Seen(r, look) == Clip(Place(r, look), size.width, size.height)

\* Drawing a row in a look first redraws the background under that look's label, as far
\* as there is a background, and no more: what else was there stays.
Cleans(r, look, old) ==
  Within(Seen(r, IF old = "other" THEN look ELSE old), Redrawn(Place(r, look), size, background))

\* An image is blended onto pixels of 8 bits a colour, and on no others.
Blit(look) == IF display.paints THEN {look} ELSE {}

DrawImageRow(r, look, old) ==
  IF IsImage(LabelOf(r, look))
  THEN [slot |-> rows[r].slot, looks |-> {l \in old.looks : ~Cleans(r, look, l)} \cup Blit(look)]
  ELSE old

DrawRow(r, look, old) == IF Text THEN DrawTextRow(r, look) ELSE DrawImageRow(r, look, old)

\* A label that is higher than its row goes over the rows below it.
Spoils(r, look, q) ==
  ~Text /\ r # q /\ q < menuCount /\ \E l \in Looks : Meet(Seen(r, look), Seen(q, l))

\* The screen after draw_row.
Draw(shownRows, r, look) ==
  [q \in Rows |->
     IF q = r THEN DrawRow(r, look, shownRows[r])
     ELSE [shownRows[q] EXCEPT !.looks = @ \cup IF Spoils(r, look, q) THEN {"other"} ELSE {}]]

LookOf(r) == IF r = selected THEN "bar" ELSE "plain"

\* A row of the menu when all of them were drawn on the empty screen, top to bottom: a row
\* drawn later spoils it, and one drawn earlier if the redraw did not reach all of it.
DrawNew(r) ==
  LET spoilt == \E q \in 0 .. menuCount - 1 :
                  Spoils(q, LookOf(q), r) /\ (q > r \/ ~Cleans(r, LookOf(r), "other"))
      new == DrawRow(r, LookOf(r), screen[r])
  IN [new EXCEPT !.looks = @ \cup IF spoilt THEN {"other"} ELSE {}]

\* The console keeps its mode, 80 x 25 if it does not say which.
InitText ==
  /\ size' \in {[width |-> display.width, height |-> display.height], [width |-> 80, height |-> 25]}
  /\ UNCHANGED area

\* The output takes the size of the background if it has and can set such a mode.
SetDisplayMode ==
  \/ size' = [width |-> display.width, height |-> display.height]
  \/ /\ background' # Empty
     /\ size' = [width |-> background'.holds.width, height |-> background'.holds.height]
     /\ size' \in display.modes

InitGraphics ==
  /\ SetDisplayMode
  /\ area' = WorkArea(asset_section(".area"), size'.width, size'.height)

\* Sets up the screen; false if there is none to show the menu on.
InitFrontend ==
  /\ pc = "init"
  /\ background' = LET section == asset_section(".backgnd")
                   IN IF ~Text /\ IsImage(section) THEN section ELSE Empty
  /\ \/ /\ display.found
        /\ IF Text THEN InitText ELSE InitGraphics
        /\ pc' = "build"
        /\ UNCHANGED status
     \/ /\ ~display.found
        /\ pc' = "returned" /\ status' = "unsupported"
        /\ UNCHANGED <<size, area>>
  /\ UNCHANGED <<machine, images, settings, entries, selected, rows, labelWidth, shown, user,
                 timer, running>>

-----------------------------------------------------------------------------
(* Starting, and the assets.                                               *)

Init ==
  /\ file \in AssetsFiles /\ display \in Displays
  /\ pc = "start"
  /\ memory = [assets |-> "none", uki |-> "none"] /\ assets = FALSE
  /\ mok = "none" /\ timeout = 5
  /\ slot = 1 /\ menu = [r \in Rows |-> Torn] /\ menuCount = 0 /\ selected = 0
  /\ rows = [r \in Rows |-> NoRow] /\ labelWidth = 0 /\ background = Empty
  /\ area = Rectangle(0, 0, 0, 0) /\ size = [width |-> 80, height |-> 25]
  /\ screen = [r \in Rows |-> Blank] /\ showing = "firmware"
  /\ keys = <<>> /\ presses = 0 /\ touched = FALSE /\ timer = "none"
  /\ running = <<>> /\ status = "none"

Fail(s) == pc' = "fail" /\ status' = s

\* Without its own loaded image protocol there is no device to boot from.
Start ==
  /\ pc = "start"
  /\ \/ pc' = "load_assets" /\ UNCHANGED status
     \/ pc' = "returned" /\ status' = "load_error"
  /\ UNCHANGED <<machine, images, settings, entries, selected, front, shown, user, timer, running>>

\* LoadImage of the file at the device path.  An image that failed the Secure
\* Boot check is in memory all the same.
LoadImage(which, next) ==
  /\ \E loaded \in {"none", "rejected", "trusted"} : memory' = [memory EXCEPT ![which] = loaded]
  /\ pc' = next

\* The device path takes the protocol of the boot device and memory for it.
FileDevicePath(which, next) ==
  \/ LoadImage(which, next)
  \/ memory' = memory /\ pc' = next

LoadAssets ==
  /\ pc = "load_assets"
  /\ FileDevicePath("assets", "check_assets")
  /\ UNCHANGED <<machine, assets, settings, entries, selected, front, shown, user, timer, result>>

\* A rejected image is unloaded, and so is one without the protocol that says
\* where it is.
CheckAssets ==
  /\ pc = "check_assets"
  /\ \/ /\ memory.assets = "trusted"
        /\ assets' = TRUE /\ pc' = "mok"
        /\ UNCHANGED <<memory, status>>
     \/ /\ memory' = [memory EXCEPT !.assets = "none"]
        /\ Fail("not_found")
        /\ UNCHANGED assets
  /\ UNCHANGED <<machine, settings, entries, selected, front, shown, user, timer, running>>

ReadMok ==
  /\ pc = "mok"
  /\ LET list == asset_section(".mok")
     IN \/ list.size = 0 /\ pc' = "config" /\ UNCHANGED <<mok, status>>
        \/ list.size # 0 /\ is_signature_list(list) /\ mok' = "built" /\ pc' = "config"
           /\ UNCHANGED status
        \/ list.size # 0 /\ Fail("not_found") /\ UNCHANGED mok
  /\ UNCHANGED <<machine, images, timeout, entries, selected, front, shown, user, timer, running>>

ReadConfig ==
  /\ pc = "config"
  /\ timeout' = ParseConfig(asset_section(".config"))
  /\ pc' = "init"
  /\ UNCHANGED <<machine, images, mok, entries, selected, front, shown, user, timer, result>>

\* A slot becomes the next entry of the menu if it has the right form, its UKI
\* exists and the front end takes it.  What it left in the entry and in the
\* row stays there for the next slot to overwrite.
BuildSlot ==
  /\ pc = "build" /\ slot \in Slots
  /\ LET text == asset_section(slot_sections[slot])
         row == RowOf(slot)
     IN \/ /\ ~IsSlot(text)
           /\ menu' = [menu EXCEPT ![menuCount] = IF text.size = 0 THEN @ ELSE Torn]
           /\ UNCHANGED <<menuCount, rows, labelWidth>>
        \/ /\ IsSlot(text)
           /\ menu' = [menu EXCEPT ![menuCount] = Entry(text)]
           /\ \/ UNCHANGED <<menuCount, rows, labelWidth>>    \* there is no such UKI
              \/ /\ rows' = [rows EXCEPT ![menuCount] = row]
                 /\ \/ /\ TakesRow(row, menuCount)
                       /\ menuCount' = menuCount + 1
                       /\ labelWidth' = IF Text /\ row.plain.size \div 2 > labelWidth
                                        THEN row.plain.size \div 2 ELSE labelWidth
                    \/ /\ ~TakesRow(row, menuCount)
                       /\ UNCHANGED <<menuCount, labelWidth>>
  /\ slot' = slot + 1
  /\ UNCHANGED <<machine, pc, images, settings, selected, background, area, size, shown, user,
                 timer, result>>

DrawMenu ==
  /\ pc = "build" /\ slot \notin Slots
  /\ \/ menuCount = 0 /\ Fail("not_found") /\ UNCHANGED shown
     \/ /\ menuCount > 0
        /\ screen' = [r \in Rows |-> IF r >= menuCount THEN screen[r] ELSE DrawNew(r)]
        /\ showing' = "menu" /\ pc' = "loop"
        /\ UNCHANGED status
  /\ UNCHANGED <<machine, images, settings, entries, selected, front, user, timer, running>>

-----------------------------------------------------------------------------
(* The keys and the countdown.                                             *)

Press ==
  /\ presses < MaxKeys /\ pc \notin {"running", "returned", "crashed"}
  /\ \E k \in KeyKinds : keys' = Append(keys, [key |-> k, seen |-> showing])
  /\ presses' = presses + 1
  /\ touched' = (touched \/ pc = "wait")
  /\ UNCHANGED <<machine, pc, images, settings, entries, selected, front, shown, timer, result>>

Expire ==
  /\ timer = "armed" /\ timer' = "fired"
  /\ UNCHANGED <<machine, pc, images, settings, entries, selected, front, shown, user, result>>

\* Without the reset.
StartLoopMutant ==
  /\ pc = "loop"
  /\ \/ timeout = 0 /\ pc' = "unload" /\ UNCHANGED timer
     \/ timeout > 0 /\ pc' = "wait" /\ timer' \in {"absent", "armed"}
  /\ UNCHANGED <<machine, images, settings, entries, selected, front, shown, user, result>>

\* Keys that were pressed before the menu was there are dropped.
StartLoop ==
  /\ pc = "loop"
  /\ keys' = <<>>
  /\ \/ timeout = 0 /\ pc' = "unload" /\ UNCHANGED timer
     \/ timeout > 0 /\ pc' = "wait" /\ timer' \in {"absent", "armed"}
  /\ UNCHANGED <<machine, images, settings, entries, selected, front, shown, presses, touched,
                 result>>

\* The row that was left is not drawn again.
MoveToMutant(r) ==
  /\ screen' = Draw(screen, r, "bar")
  /\ selected' = r

MoveTo(r) ==
  /\ screen' = Draw(Draw(screen, selected, "plain"), r, "bar")
  /\ selected' = r

up == IF selected = 0 THEN UNCHANGED <<screen, selected>> ELSE MoveTo(selected - 1)
down == IF selected + 1 >= menuCount THEN UNCHANGED <<screen, selected>> ELSE MoveTo(selected + 1)

\* The timer is closed only when there was a key stroke to read.
HandleKeyMutant ==
  /\ pc = "wait" /\ keys # <<>>
  /\ timer' = IF Head(keys).key = "partial" THEN timer ELSE "none"
  /\ keys' = Tail(keys)
  /\ \/ Head(keys).key = "up" /\ up /\ UNCHANGED pc
     \/ Head(keys).key = "down" /\ down /\ UNCHANGED pc
     \/ Head(keys).key = "enter" /\ pc' = "unload" /\ UNCHANGED <<screen, selected>>
     \/ Head(keys).key \in {"other", "partial"} /\ UNCHANGED <<pc, screen, selected>>
  /\ UNCHANGED <<machine, images, settings, entries, front, showing, presses, touched, result>>

\* A key comes before the countdown if both are there, and ends it, even if
\* there is no key stroke to read.
HandleKey ==
  /\ pc = "wait" /\ keys # <<>>
  /\ timer' = "none"
  /\ keys' = Tail(keys)
  /\ \/ Head(keys).key = "up" /\ up /\ UNCHANGED pc
     \/ Head(keys).key = "down" /\ down /\ UNCHANGED pc
     \/ Head(keys).key = "enter" /\ pc' = "unload" /\ UNCHANGED <<screen, selected>>
     \/ Head(keys).key \in {"other", "partial"} /\ UNCHANGED <<pc, screen, selected>>
  /\ UNCHANGED <<machine, images, settings, entries, front, showing, presses, touched, result>>

\* continue instead of break.
TimedOutMutant ==
  /\ pc = "wait" /\ keys = <<>> /\ timer = "fired"
  /\ timer' = "none"
  /\ UNCHANGED <<machine, pc, images, settings, entries, selected, front, shown, user, result>>

TimedOut ==
  /\ pc = "wait" /\ keys = <<>> /\ timer = "fired"
  /\ timer' = "none" /\ pc' = "unload"
  /\ UNCHANGED <<machine, images, settings, entries, selected, front, shown, user, result>>

-----------------------------------------------------------------------------
(* Booting, and giving up.                                                 *)

\* The labels are forgotten.
release_assetsMutant ==
  UNCHANGED rows /\ background' = IF Text THEN background ELSE Empty

\* The graphics output drops its views of the assets before they go.
release_assets ==
  IF Text THEN UNCHANGED <<background, rows>>
  ELSE /\ background' = Empty
       /\ rows' = [r \in Rows |-> [rows[r] EXCEPT !.plain = Empty, !.bar = Empty]]

UnloadAssets ==
  /\ pc = "unload"
  /\ release_assets
  /\ memory' = [memory EXCEPT !.assets = "none"] /\ assets' = FALSE
  /\ pc' = "install"
  /\ UNCHANGED <<machine, settings, entries, selected, labelWidth, area, size, shown, user, timer,
                 result>>

\* A failure is ignored.
InstallTableMutant ==
  /\ pc = "install"
  /\ \/ mok = "none" /\ UNCHANGED mok
     \/ mok = "built" /\ mok' \in {"built", "installed"}
  /\ pc' = "load_uki"
  /\ UNCHANGED <<machine, images, timeout, entries, selected, front, shown, user, timer, result>>

InstallTable ==
  /\ pc = "install"
  /\ \/ mok = "none" /\ pc' = "load_uki" /\ UNCHANGED <<mok, status>>
     \/ mok = "built" /\ mok' = "installed" /\ pc' = "load_uki" /\ UNCHANGED status
     \/ mok = "built" /\ Fail("out_of_resources") /\ UNCHANGED mok
  /\ UNCHANGED <<machine, images, timeout, entries, selected, front, shown, user, timer, running>>

LoadUki ==
  /\ pc = "load_uki"
  /\ FileDevicePath("uki", "start_uki")
  /\ UNCHANGED <<machine, assets, settings, entries, selected, front, shown, user, timer, result>>

\* The first entry instead of the selected one.
StartUkiMutant ==
  /\ pc = "start_uki"
  /\ \/ /\ memory.uki = "trusted"
        /\ running' = <<menu[0]>> /\ pc' = "running"
        /\ UNCHANGED <<memory, status>>
     \/ /\ memory' = [memory EXCEPT !.uki = "none"]
        /\ Fail("load_error")
        /\ UNCHANGED running
  /\ UNCHANGED <<machine, assets, settings, entries, selected, front, shown, user, timer>>

StartUki ==
  /\ pc = "start_uki"
  /\ \/ /\ memory.uki = "trusted"
        /\ running' = <<menu[selected]>> /\ pc' = "running"
        /\ UNCHANGED <<memory, status>>
     \/ /\ memory' = [memory EXCEPT !.uki = "none"]
        /\ Fail("load_error")
        /\ UNCHANGED running
  /\ UNCHANGED <<machine, assets, settings, entries, selected, front, shown, user, timer>>

\* A UKI that exits is unloaded by the firmware.
UkiReturns ==
  /\ pc = "running"
  /\ running' = <<>> /\ memory' = [memory EXCEPT !.uki = "none"]
  /\ Fail("load_error")
  /\ UNCHANGED <<machine, assets, settings, entries, selected, front, shown, user, timer>>

Clear == screen' = [r \in Rows |-> Blank]

\* The message is written through the console, which may not be there at all:
\* only the text front end asks, and only later.
ShowError ==
  /\ pc = "fail"
  /\ \/ /\ display.console
        /\ Clear /\ showing' = "error"
        /\ keys' = <<>>
        /\ pc' = "acknowledge"
     \/ ~display.console /\ pc' = "crashed" /\ UNCHANGED <<shown, keys>>
  /\ UNCHANGED <<machine, images, settings, entries, selected, front, presses, touched, timer,
                 result>>

Acknowledge ==
  /\ pc = "acknowledge" /\ keys # <<>>
  /\ keys' = Tail(keys)
  /\ pc' = "returned"
  /\ UNCHANGED <<machine, images, settings, entries, selected, front, shown, presses, touched,
                 timer, result>>

Program ==
  \/ Start \/ LoadAssets \/ CheckAssets \/ ReadMok \/ ReadConfig \/ InitFrontend \/ BuildSlot
  \/ DrawMenu \/ StartLoop \/ HandleKey \/ TimedOut \/ UnloadAssets \/ InstallTable \/ LoadUki
  \/ StartUki \/ ShowError \/ Acknowledge

Next == Program \/ UkiReturns \/ Press \/ Expire

\* The program goes on, and time passes; nobody has to press a key.
Spec == Init /\ [][Next]_vars /\ WF_vars(Program) /\ WF_vars(Expire)

-----------------------------------------------------------------------------
(* Properties.                                                             *)

Sections == {Empty} \cup UNION {{AssetSection(f, n) : n \in Images} : f \in AssetsFiles}
EntriesOf(f) ==
  {Entry(AssetSection(f, slot_sections[s])) :
     s \in {t \in Slots : IsSlot(AssetSection(f, slot_sections[t]))}}
MenuEntries == {Torn} \cup UNION {EntriesOf(f) : f \in AssetsFiles}
Phases == {"start", "load_assets", "check_assets", "mok", "config", "init", "build", "loop", "wait",
           "unload", "install", "load_uki", "start_uki", "running", "fail", "acknowledge",
           "returned", "crashed"}

TypeOK ==
  /\ file \in AssetsFiles /\ display \in Displays /\ pc \in Phases
  /\ memory \in [{"assets", "uki"} -> {"none", "rejected", "trusted"}] /\ assets \in BOOLEAN
  /\ mok \in {"none", "built", "installed"} /\ timeout \in 0 .. MaxNumber \cup {5}
  /\ slot \in 1 .. SlotCount + 1 /\ menuCount \in 0 .. SlotCount /\ selected \in Rows
  /\ menu \in [Rows -> MenuEntries]
  /\ rows \in [Rows -> [slot : Slots \cup {0}, plain : Sections, bar : Sections]]
  /\ labelWidth \in Nat /\ background \in Sections
  /\ area \in [x : Nat, y : Nat, width : Nat, height : Nat] /\ size \in [width : Nat, height : Nat]
  /\ screen \in [Rows -> [slot : Slots \cup {0}, looks : SUBSET (Looks \cup {"other"})]]
  /\ showing \in {"firmware", "menu", "error"}
  /\ keys \in Seq([key : KeyKinds, seen : {"firmware", "menu", "error"}])
  /\ presses \in 0 .. MaxKeys /\ touched \in BOOLEAN /\ timer \in {"none", "absent", "armed", "fired"}
  /\ status \in {"none", "load_error", "not_found", "unsupported", "out_of_resources"}
  /\ running = <<>> \/ \E e \in MenuEntries : running = <<e>>

Drawn == {r \in Rows : screen[r] # Blank}

\* The two labels of a row are of one size, as graphical.py makes them, and no larger
\* than the row.
LabelsFit(row, a) ==
  /\ row.plain.holds.width = row.bar.holds.width /\ row.plain.holds.height = row.bar.holds.height
  /\ row.plain.holds.width <= a.width /\ row.plain.holds.height <= RowHeight(a)
OnBackground(a, image) ==
  a.x + a.width <= image.holds.width /\ a.y + a.height <= image.holds.height

\* The menu of the file f fits on the display d, at any size that d may take: images can be
\* drawn on it, the labels fit their rows and the work area is on the background.
MenuFits(f, d) ==
  LET image == AssetSection(f, ".backgnd")
      sizes == {[width |-> d.width, height |-> d.height]} \cup
               (IF IsImage(image)
                THEN {[width |-> image.holds.width, height |-> image.holds.height]} \cap d.modes
                ELSE {})
  IN d.kind = "graphical" =>
       /\ d.paints
       /\ \A s \in sizes :
            LET a == WorkArea(AssetSection(f, ".area"), s.width, s.height)
            IN /\ IsImage(image) => OnBackground(a, image)
               /\ \A n \in Slots :
                    LET row == [plain |-> AssetSection(f, label_sections[n]),
                                bar |-> AssetSection(f, bar_sections[n])]
                    IN IsImage(row.plain) /\ IsImage(row.bar) => LabelsFit(row, a)

\* While the menu is up, its rows are the entries of the menu in their order,
\* each with the label of its own slot, and the bar is on the selected row and
\* nowhere else: no refused slot shifted a label, and no move left a bar behind.
\* That takes a display on which the menu fits.
HighlightIsSelection ==
  showing = "menu" /\ pc \notin {"fail", "crashed"} =>
    /\ Drawn = 0 .. menuCount - 1 /\ selected \in Drawn
    /\ \A r \in Drawn :
         /\ screen[r].looks = IF r = selected THEN {"bar"} ELSE {"plain"}
         /\ LET text == AssetSection(file, slot_sections[screen[r].slot])
            IN IsSlot(text) /\ menu[r] = Entry(text)
    /\ \A r \in Drawn : \A q \in Drawn : q < r => screen[q].slot < screen[r].slot

\* "The background under it is redrawn first": a move takes the bar along, on every
\* display.  It does not (BootloaderUpright.cfg).
BarMoves ==
  showing = "menu" /\ pc \notin {"fail", "crashed"} =>
    \A r \in Drawn : "bar" \in screen[r].looks => r = selected

\* "Each label is centred in its row", and so no label is drawn over another row.
\* On a small display it is (BootloaderSmall.cfg).
RowsApart ==
  showing = "menu" /\ pc \notin {"fail", "crashed"} =>
    \A r \in Drawn : "other" \notin screen[r].looks

\* "Returns false if there is no display to show the menu on": a menu that waits for keys
\* can be seen.  Not without a frame buffer (BootloaderBltOnly.cfg).
MenuIsSeen == pc = "wait" => \A r \in 0 .. menuCount - 1 : screen[r].looks # {}

\* "Wider than any text console, so the screen width is what limits a text": the labels
\* fit in the buffers of the front end.  They need not (BootloaderWide.cfg).
LabelsFitBuffers == Text => labelWidth <= max_text_length

\* Every row of the menu is inside what it is drawn in: a line of the console
\* that it cannot make wrap or scroll, the rows of the work area and with it the
\* screen.
RowsFit ==
  \A r \in 0 .. menuCount - 1 :
    IF Text THEN labelWidth + 2 < size.width /\ TextLine(size.height, r) + 1 < size.height
    ELSE /\ RowTop(area, r) + RowHeight(area) <= area.y + area.height
         /\ area.x + area.width <= size.width /\ area.y + area.height <= size.height

\* What the loader reads of assets.efi is in an image that passed the Secure
\* Boot check and is still loaded, and so are the views the graphics output
\* keeps; an image that failed the check is gone before anything else happens,
\* and no UKI starts with the assets still in memory.
PointersValid ==
  /\ memory.assets # "trusted" =>
       /\ ~assets
       /\ ~Text => /\ background = Empty
                   /\ \A r \in Rows : rows[r].plain = Empty /\ rows[r].bar = Empty
  /\ memory.assets = "rejected" => pc = "check_assets"
  /\ memory.uki = "rejected" => pc = "start_uki"
  /\ running # <<>> => memory.uki = "trusted" /\ memory.assets = "none"

\* A UKI runs with the MOK variable table exactly if assets.efi has a .mok
\* section, and then that section is a signature list.
MokHandedOver ==
  running # <<>> =>
    LET list == AssetSection(file, ".mok")
    IN /\ (mok = "installed") <=> (list.size # 0)
       /\ list.size # 0 => is_signature_list(list)

\* The keys that the menu handles were pressed while it was shown, and the one
\* that leaves an error message while that was shown: nothing that was typed
\* before answers it.
OnlyKeysSeen ==
  \A i \in DOMAIN keys : /\ pc = "wait" => keys[i].seen = "menu"
                         /\ pc = "acknowledge" => keys[i].seen = "error"

\* Once a key was pressed at the menu, only Enter boots: the countdown never
\* takes the choice away from someone who began to make it.
KeyStopsCountdown ==
  [][pc = "wait" /\ pc' # "wait" /\ touched => keys # <<>> /\ Head(keys).key = "enter"]_vars

\* A machine with a console that nobody touches boots or says why not, unless the
\* firmware has no timer for the countdown.
UnattendedBoots ==
  display.console /\ [](~touched) =>
    <>(running # <<>> \/ pc \in {"acknowledge", "returned"} \/ timer = "absent")

\* "The bootloader then returns to the firmware" when there is no display to show the
\* menu on, and does not crash.  Without a console it does (BootloaderNoConsole.cfg).
NeverCrashes == pc # "crashed"

\* What the user sees is what is booted: the menu implements BootMenu, with the
\* entries taken from the labels on the screen and not from the loader's memory.
GaveUp == pc \in {"fail", "acknowledge", "returned", "crashed"}
Offered ==
  IF showing = "menu" /\ ~GaveUp
  THEN [i \in 1 .. Cardinality(Drawn) |->
          Entry(AssetSection(file, slot_sections[screen[i - 1].slot]))]
  ELSE <<>>
Highlighted ==
  IF showing = "menu" /\ ~GaveUp
  THEN 1 + CHOOSE r \in Rows : "bar" \in screen[r].looks
  ELSE 0
Menu == INSTANCE BootMenu WITH
          Entries <- MenuEntries \ {Torn}, offered <- Offered, highlighted <- Highlighted,
          running <- running, over <- GaveUp
ImplementsBootMenu == Menu!Spec
=============================================================================
