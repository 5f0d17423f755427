------------------------- MODULE Bootloader_proofs -------------------------
(***************************************************************************)
(* Proofs about the boot menu, for any number of slots, any assets.efi,    *)
(* display and number of key presses.                                      *)
(***************************************************************************)
EXTENDS Bootloader, FiniteSetTheorems, TLAPS

USE DEF machine, images, settings, entries, front, shown, user, result

-----------------------------------------------------------------------------
(* Operators                                                               *)

LEMMA Bounds == SlotCount \in 1 .. 8 /\ SlotCount \in Nat /\ MaxKeys \in Nat
BY BootloaderAssumption

LEMMA DisplayIsSized ==
  ASSUME NEW d \in Displays
  PROVE  d.kind \in {"text", "graphical"} /\ d.width \in Nat /\ d.height \in Nat
BY BootloaderAssumption

\* A section that is there is one of the file's, with its contents.
LEMMA SectionOfFile ==
  ASSUME NEW f \in AssetsFiles, NEW name
  PROVE  \/ AssetSection(f, name) = Empty
         \/ \E i \in DOMAIN f.table :
              /\ f.table[i].name = name
              /\ AssetSection(f, name) =
                   [at |-> f.table[i].at, size |-> f.table[i].size, holds |-> f.table[i].holds]
<1>. DEFINE named == {i \in DOMAIN f.table : f.table[i].name = name}
            first == {i \in named : \A j \in named : i <= j}
            found == f.table[CHOOSE i \in first : TRUE]
<1>1. CASE first = {} BY <1>1 DEF AssetSection
<1>2. CASE first # {}
  <2>1. (CHOOSE i \in first : TRUE) \in first BY <1>2
  <2>2. \/ AssetSection(f, name) = Empty
        \/ AssetSection(f, name) = [at |-> found.at, size |-> found.size, holds |-> found.holds]
    BY DEF AssetSection
  <2>. QED BY <2>1, <2>2
<1>. QED BY <1>1, <1>2

LEMMA SectionSize ==
  ASSUME NEW f \in AssetsFiles, NEW name
  PROVE  AssetSection(f, name).size \in Nat
<1>1. CASE AssetSection(f, name) = Empty BY <1>1 DEF Empty
<1>2. CASE AssetSection(f, name) # Empty
  <2>1. PICK i \in DOMAIN f.table :
          AssetSection(f, name) =
            [at |-> f.table[i].at, size |-> f.table[i].size, holds |-> f.table[i].holds]
    BY <1>2, SectionOfFile
  <2>2. f.table[i].size \in Nat BY BootloaderAssumption
  <2>. QED BY <2>1, <2>2
<1>. QED BY <1>1, <1>2

LEMMA ImageSize ==
  ASSUME NEW f \in AssetsFiles, NEW name \in Images, AssetSection(f, name) # Empty
  PROVE  /\ AssetSection(f, name).holds.width \in Nat
         /\ AssetSection(f, name).holds.height \in Nat
<1>1. PICK i \in DOMAIN f.table :
        /\ f.table[i].name = name
        /\ AssetSection(f, name) =
             [at |-> f.table[i].at, size |-> f.table[i].size, holds |-> f.table[i].holds]
  BY SectionOfFile
<1>2. {f.table[i].holds.width, f.table[i].holds.height} \subseteq Nat BY <1>1, BootloaderAssumption
<1>. QED BY <1>1, <1>2

\* The work area is on the screen, whatever the section says.
LEMMA WorkAreaOnScreen ==
  ASSUME NEW f \in AssetsFiles, NEW width \in Nat, NEW height \in Nat,
         NEW section \in {Empty, AssetSection(f, ".area")}
  PROVE  LET area0 == WorkArea(section, width, height)
         IN /\ area0 \in [x : Nat, y : Nat, width : Nat, height : Nat]
            /\ area0.x + area0.width <= width /\ area0.y + area0.height <= height
<1>. DEFINE w == (width + 1) \div 2
            h == (height + 1) \div 2
<1>1. w \in Nat /\ h \in Nat /\ w <= width /\ h <= height OBVIOUS
<1>2. (width - w) \div 2 \in Nat /\ (width - w) \div 2 + w <= width
  BY <1>1
<1>3. (height - h) \div 2 \in Nat /\ (height - h) \div 2 + h <= height
  BY <1>1
<1>. HIDE DEF w, h
<1>4. CASE WorkArea(section, width, height) = Rectangle((width - w) \div 2, (height - h) \div 2, w, h)
  BY <1>1, <1>2, <1>3, <1>4 DEF Rectangle
<1>5. CASE WorkArea(section, width, height) # Rectangle((width - w) \div 2, (height - h) \div 2, w, h)
  <2>. DEFINE given == section.holds
  <2>1. /\ section.size = 16
        /\ given.x <= width /\ given.width <= width - given.x
        /\ given.y <= height /\ given.height <= height - given.y
        /\ WorkArea(section, width, height)
             = Rectangle(given.x, given.y, given.width, given.height)
    BY <1>5 DEF WorkArea, w, h
  <2>2. section # Empty BY <2>1 DEF Empty
  <2>3. PICK i \in DOMAIN f.table :
          /\ f.table[i].name = ".area"
          /\ section = [at |-> f.table[i].at, size |-> f.table[i].size, holds |-> f.table[i].holds]
    BY <2>2, SectionOfFile
  <2>4. given \in [x : Nat, y : Nat, width : Nat, height : Nat] BY <2>3, BootloaderAssumption
  <2>. QED BY <2>1, <2>4 DEF Rectangle
<1>. QED BY <1>4, <1>5
-----------------------------------------------------------------------------
(* Types                                                                   *)

\* A slot is behind the entries that were made from those before it.
TypeInv == TypeOK /\ menuCount < slot

Row == [slot : Slots \cup {0}, plain : Sections, bar : Sections]
OnScreen == [slot : Slots \cup {0}, looks : SUBSET (Looks \cup {"other"})]
KeyPress == [key : KeyKinds, seen : {"firmware", "menu", "error"}]

LEMMA EmptySection == Empty \in Sections
BY DEF Sections

LEMMA AssetIsSection ==
  ASSUME TypeOK, NEW name \in Images
  PROVE  asset_section(name) \in Sections
BY DEF asset_section, Sections, TypeOK

LEMMA RowIsRow ==
  ASSUME TypeOK, NEW s \in Slots
  PROVE  RowOf(s) \in Row /\ RowOf(s).slot = s
<1>1. s \in 1 .. 8 BY Bounds DEF Slots
<1>2. label_sections[s] \in Images /\ bar_sections[s] \in Images BY <1>1 DEF Images
<1>3. asset_section(label_sections[s]) \in Sections /\ asset_section(bar_sections[s]) \in Sections
  BY <1>2, AssetIsSection
<1>. QED BY <1>3 DEF RowOf, TextRow, ImageRow, Row

LEMMA EntryIsEntry ==
  ASSUME TypeOK, NEW s \in Slots, IsSlot(asset_section(slot_sections[s]))
  PROVE  assets /\ Entry(asset_section(slot_sections[s])) \in EntriesOf(file) \ {Torn}
<1>1. assets BY SectionSize DEF asset_section, IsSlot, Empty
<1>2. Entry(asset_section(slot_sections[s])) \in EntriesOf(file)
  BY <1>1 DEF asset_section, EntriesOf
<1>3. s \in 1 .. 8 BY Bounds DEF Slots
<1>. DEFINE text == AssetSection(file, slot_sections[s])
<1>4. file \in AssetsFiles BY DEF TypeOK
<1>5. text.size \in Nat /\ IsSlot(text) BY <1>1, <1>4, SectionSize DEF asset_section
<1>6. text # Empty /\ text.holds.form BY <1>5 DEF IsSlot, Empty
<1>7. PICK i \in DOMAIN file.table :
        /\ file.table[i].name = slot_sections[s]
        /\ text = [at |-> file.table[i].at, size |-> file.table[i].size, holds |-> file.table[i].holds]
  BY <1>4, <1>6, SectionOfFile
<1>8. file.table[i].holds = text.holds BY <1>7
<1>9. file.table[i].holds.form BY <1>6, <1>8, Zenon
<1>10. text.holds.profile \in 0 .. 9 BY <1>3, <1>4, <1>7, <1>8, <1>9, BootloaderAssumption
<1>11. Entry(text) # Torn
  <2>1. Entry(text).profile \in 0 .. 9 BY <1>10 DEF Entry
  <2>2. Torn.profile = -1 BY DEF Torn
  <2>. QED BY <2>1, <2>2
<1>. QED BY <1>1, <1>2, <1>11 DEF asset_section

LEMMA OnScreenIs ==
  /\ \A sl \in Slots \cup {0} : \A ls \in SUBSET (Looks \cup {"other"}) :
       [slot |-> sl, looks |-> ls] \in OnScreen
  /\ \A x \in OnScreen : /\ x.looks \in SUBSET (Looks \cup {"other"})
                         /\ x = [x EXCEPT !.looks = x.looks \cup {}]
                         /\ [x EXCEPT !.looks = x.looks \cup {"other"}] \in OnScreen
BY DEF OnScreen

LEMMA DrawnIsOnScreen ==
  ASSUME TypeOK, NEW r \in Rows, NEW look \in Looks, NEW old \in OnScreen
  PROVE  DrawRow(r, look, old) \in OnScreen
<1>1. rows[r].slot \in Slots \cup {0} /\ old.looks \in SUBSET (Looks \cup {"other"})
  BY OnScreenIs DEF TypeOK
<1>2. DrawTextRow(r, look) \in OnScreen BY <1>1, OnScreenIs DEF DrawTextRow
<1>3. DrawImageRow(r, look, old) \in OnScreen
  <2>. DEFINE left == {l \in old.looks : ~Cleans(r, look, l)}
  <2>1. left \cup Blit(look) \in SUBSET (Looks \cup {"other"}) BY <1>1 DEF Blit
  <2>2. [slot |-> rows[r].slot, looks |-> left \cup Blit(look)] \in OnScreen
    BY <1>1, <2>1, OnScreenIs, Zenon
  <2>. QED BY <2>2 DEF DrawImageRow
<1>. QED BY <1>2, <1>3 DEF DrawRow

LEMMA DrawIsOnScreen ==
  ASSUME TypeOK, NEW r \in Rows, NEW look \in Looks, NEW scr \in [Rows -> OnScreen]
  PROVE  Draw(scr, r, look) \in [Rows -> OnScreen]
<1>1. DrawRow(r, look, scr[r]) \in OnScreen BY DrawnIsOnScreen
<1>2. ASSUME NEW q \in Rows
      PROVE  [scr[q] EXCEPT !.looks = @ \cup IF Spoils(r, look, q) THEN {"other"} ELSE {}] \in OnScreen
  <2>1. scr[q] \in OnScreen OBVIOUS
  <2>2. CASE Spoils(r, look, q) BY <2>1, <2>2, OnScreenIs
  <2>3. CASE ~Spoils(r, look, q) BY <2>1, <2>3, OnScreenIs
  <2>. QED BY <2>2, <2>3
<1>. QED BY <1>1, <1>2 DEF Draw

LEMMA DrawNewIsOnScreen ==
  ASSUME TypeOK, NEW r \in Rows
  PROVE  DrawNew(r) \in OnScreen
<1>. DEFINE new == DrawRow(r, LookOf(r), screen[r])
            spoilt == \E q \in 0 .. menuCount - 1 :
                        Spoils(q, LookOf(q), r) /\ (q > r \/ ~Cleans(r, LookOf(r), "other"))
<1>1. LookOf(r) \in Looks /\ screen[r] \in OnScreen BY DEF LookOf, Looks, TypeOK, OnScreen
<1>2. new \in OnScreen BY <1>1, DrawnIsOnScreen
<1>3. DrawNew(r) = [new EXCEPT !.looks = @ \cup IF spoilt THEN {"other"} ELSE {}] BY DEF DrawNew
<1>. HIDE DEF new, spoilt
<1>. QED BY <1>2, <1>3, OnScreenIs

LEMMA TimeoutIsNumber ==
  ASSUME NEW section
  PROVE  ParseConfig(section) \in 0 .. MaxNumber \cup {5}
<1>. DEFINE lines == IF section.size = 0 THEN <<>> ELSE section.holds
            numbers == {i \in DOMAIN lines : lines[i].key = "timeout" /\ IsNumber(lines[i].value)}
            last == {i \in numbers : \A j \in numbers : j <= i}
<1>1. ParseConfig(section) = IF last = {} THEN 5 ELSE lines[CHOOSE i \in last : TRUE].value
  BY DEF ParseConfig
<1>2. last # {} => (CHOOSE i \in last : TRUE) \in last OBVIOUS
<1>. QED BY <1>1, <1>2 DEF IsNumber

LEMMA TypeInvInit == Init => TypeInv
<1>. SUFFICES ASSUME Init PROVE TypeInv
  OBVIOUS
<1>1. 0 \in Rows /\ SlotCount \in Nat BY Bounds DEF Rows
<1>2. menu \in [Rows -> MenuEntries] BY DEF Init, MenuEntries
<1>3. rows \in [Rows -> Row] BY EmptySection DEF Init, NoRow, Row
<1>4. screen \in [Rows -> OnScreen] BY DEF Init, Blank, OnScreen
<1>5. area \in [x : Nat, y : Nat, width : Nat, height : Nat] BY DEF Init, Rectangle
<1>6. size \in [width : Nat, height : Nat] BY DEF Init
<1>7. keys \in Seq(KeyPress) BY DEF Init
<1>8. background \in Sections BY EmptySection DEF Init
<1>9. memory \in [{"assets", "uki"} -> {"none", "rejected", "trusted"}]
  BY DEF Init
<1>10. presses \in 0 .. MaxKeys BY Bounds DEF Init
<1>11. labelWidth \in Nat BY DEF Init
<1>12. /\ file \in AssetsFiles /\ display \in Displays /\ pc \in Phases /\ assets \in BOOLEAN
       /\ mok \in {"none", "built", "installed"} /\ timeout \in 0 .. MaxNumber \cup {5}
       /\ showing \in {"firmware", "menu", "error"} /\ touched \in BOOLEAN
       /\ timer \in {"none", "absent", "armed", "fired"}
       /\ status \in {"none", "load_error", "not_found", "unsupported", "out_of_resources"}
       /\ running = <<>>
  BY DEF Init, Phases
<1>13. slot = 1 /\ menuCount = 0 /\ selected = 0 BY DEF Init
<1>14. slot \in 1 .. SlotCount + 1 /\ menuCount \in 0 .. SlotCount /\ menuCount < slot /\ selected \in Rows
  BY <1>1, <1>13
<1>. QED BY <1>2, <1>3, <1>4, <1>5, <1>6, <1>7, <1>8, <1>9, <1>10, <1>11, <1>12, <1>14
     DEF TypeInv, TypeOK, Row, OnScreen, KeyPress

\* The steps that load, start and unload images, and the settings.
LEMMA TypeInvLoad ==
  ASSUME TypeInv,
         \/ Start \/ LoadAssets \/ CheckAssets \/ ReadMok \/ ReadConfig \/ InstallTable
         \/ LoadUki \/ UkiReturns \/ ShowError \/ Acknowledge
  PROVE  TypeInv'
<1>. USE DEF TypeInv, TypeOK, Phases, Fail
<1>1. CASE Start BY <1>1 DEF Start
<1>2. CASE LoadAssets BY <1>2 DEF LoadAssets, FileDevicePath, LoadImage
<1>3. CASE CheckAssets
  <2>1. memory' \in [{"assets", "uki"} -> {"none", "rejected", "trusted"}]
    BY <1>3 DEF CheckAssets
  <2>2. assets' \in BOOLEAN BY <1>3, Zenon DEF CheckAssets
  <2>3. pc' \in Phases /\ status' \in {status, "not_found"} BY <1>3 DEF CheckAssets
  <2>. QED BY <1>3, <2>1, <2>2, <2>3 DEF CheckAssets
<1>4. CASE ReadMok BY <1>4 DEF ReadMok
<1>5. CASE ReadConfig BY <1>5, TimeoutIsNumber DEF ReadConfig
<1>6. CASE InstallTable BY <1>6 DEF InstallTable
<1>7. CASE LoadUki BY <1>7 DEF LoadUki, FileDevicePath, LoadImage
<1>8. CASE UkiReturns BY <1>8 DEF UkiReturns
<1>9. CASE ShowError
  <2>1. screen' \in [Rows -> [slot : Slots \cup {0}, looks : SUBSET (Looks \cup {"other"})]]
    BY <1>9 DEF ShowError, Clear, Blank
  <2>2. CASE display.console BY <1>9, <2>1, <2>2 DEF ShowError
  <2>3. CASE ~display.console
    <3>1. pc' = "crashed" /\ UNCHANGED <<shown, keys>> BY <1>9, <2>3 DEF ShowError
    <3>. QED BY <1>9, <3>1 DEF ShowError
  <2>. QED BY <2>2, <2>3
<1>10. CASE Acknowledge BY <1>10 DEF Acknowledge
<1>. QED BY <1>1, <1>2, <1>3, <1>4, <1>5, <1>6, <1>7, <1>8, <1>9, <1>10

LEMMA TypeInvStartUki ==
  ASSUME TypeInv, StartUki
  PROVE  TypeInv'
<1>1. menu[selected] \in MenuEntries BY DEF TypeInv, TypeOK
<1>2. running' = running \/ running' = <<menu[selected]>> BY DEF StartUki
<1>3. running' = <<>> \/ \E e \in MenuEntries : running' = <<e>>
  BY <1>1, <1>2 DEF TypeInv, TypeOK
<1>. QED BY <1>3 DEF StartUki, Fail, TypeInv, TypeOK, Phases

LEMMA TypeInvInitFrontend ==
  ASSUME TypeInv, InitFrontend
  PROVE  TypeInv'
<1>1. background' \in Sections /\ (background' # Empty => /\ background'.holds.width \in Nat
                                                          /\ background'.holds.height \in Nat)
  <2>1. ".backgnd" \in Images /\ file \in AssetsFiles BY DEF Images, TypeInv, TypeOK
  <2>2. asset_section(".backgnd") \in Sections BY <2>1, AssetIsSection DEF TypeInv
  <2>3. background' = Empty \/ background' = asset_section(".backgnd") BY DEF InitFrontend
  <2>. QED BY <2>1, <2>2, <2>3, EmptySection, ImageSize DEF asset_section
<1>2. display.width \in Nat /\ display.height \in Nat BY DisplayIsSized DEF TypeInv, TypeOK
<1>3. /\ area' \in [x : Nat, y : Nat, width : Nat, height : Nat]
      /\ size' \in [width : Nat, height : Nat]
  <2>1. CASE InitText BY <1>2, <2>1 DEF InitText, TypeInv, TypeOK
  <2>2. CASE InitGraphics
    <3>1. size' \in [width : Nat, height : Nat]
      BY <1>1, <1>2, <2>2 DEF InitGraphics, SetDisplayMode
    <3>2. asset_section(".area") \in {Empty, AssetSection(file, ".area")} BY DEF asset_section
    <3>3. size'.width \in Nat /\ size'.height \in Nat BY <3>1
    <3>. QED BY <2>2, <3>1, <3>2, <3>3, WorkAreaOnScreen DEF InitGraphics, TypeInv, TypeOK
  <2>3. CASE UNCHANGED <<size, area>> BY <2>3 DEF TypeInv, TypeOK
  <2>. QED BY <2>1, <2>2, <2>3 DEF InitFrontend
<1>4. pc' \in {"build", "returned"} /\ status' \in {status, "unsupported"} BY Zenon DEF InitFrontend
<1>5. UNCHANGED <<machine, images, settings, entries, selected, rows, labelWidth, shown, user,
                  timer, running>>
  BY DEF InitFrontend
<1>. QED BY <1>1, <1>3, <1>4, <1>5, SMTT(30) DEF TypeInv, TypeOK, Phases

LEMMA TypeInvBuildSlot ==
  ASSUME TypeInv, BuildSlot
  PROVE  TypeInv'
<1>. DEFINE text == asset_section(slot_sections[slot])
            row == RowOf(slot)
<1>1. slot \in Slots /\ slot < SlotCount + 1 /\ SlotCount \in Nat
  BY Bounds DEF BuildSlot, Slots
<1>2. menuCount \in Rows /\ menuCount + 1 \in 0 .. SlotCount /\ menuCount + 1 < slot + 1
  BY <1>1 DEF TypeInv, TypeOK, Rows
<1>3. slot' = slot + 1 /\ menuCount' \in {menuCount, menuCount + 1} BY DEF BuildSlot
<1>4. slot' \in 1 .. SlotCount + 1 /\ menuCount' \in 0 .. SlotCount /\ menuCount' < slot'
  BY <1>1, <1>2, <1>3 DEF TypeInv, TypeOK, Slots
<1>5. menu' \in [Rows -> MenuEntries]
  <2>1. Torn \in MenuEntries /\ (IsSlot(text) => Entry(text) \in MenuEntries)
    BY <1>1, EntryIsEntry DEF MenuEntries, TypeInv, TypeOK
  <2>2. \/ menu' \in {menu, [menu EXCEPT ![menuCount] = Torn]}
        \/ IsSlot(text) /\ menu' = [menu EXCEPT ![menuCount] = Entry(text)]
    <3>1. CASE IsSlot(text) BY <3>1 DEF BuildSlot
    <3>2. CASE ~IsSlot(text)
      <4>1. menu' = [menu EXCEPT ![menuCount] = IF text.size = 0 THEN @ ELSE Torn]
        BY <3>2 DEF BuildSlot
      <4>2. menu[menuCount] = menu[menuCount] /\ menu \in [Rows -> MenuEntries] BY DEF TypeInv, TypeOK
      <4>. QED BY <1>2, <4>1, <4>2
    <3>. QED BY <3>1, <3>2
  <2>. HIDE DEF text
  <2>. QED BY <2>1, <2>2 DEF TypeInv, TypeOK
<1>6. rows' \in [Rows -> Row]
  <2>1. row \in Row BY <1>1, RowIsRow DEF TypeInv
  <2>2. rows' = rows \/ rows' = [rows EXCEPT ![menuCount] = row] BY DEF BuildSlot
  <2>. HIDE DEF row
  <2>. QED BY <2>1, <2>2 DEF TypeInv, TypeOK, Row
<1>7. labelWidth' \in Nat
  <2>1. row.plain.size \in Nat
    <3>1. row.plain \in Sections BY <1>1, RowIsRow DEF TypeInv, Row
    <3>. HIDE DEF row
    <3>. QED BY <3>1, SectionSize DEF Sections, Empty
  <2>2. labelWidth' \in {labelWidth, row.plain.size \div 2} BY DEF BuildSlot
  <2>3. labelWidth \in Nat BY DEF TypeInv, TypeOK
  <2>. HIDE DEF row
  <2>. QED BY <2>1, <2>2, <2>3
<1>8. UNCHANGED <<machine, pc, images, settings, selected, background, area, size, shown, user,
                  timer, result>>
  BY DEF BuildSlot
<1>. QED BY <1>4, <1>5, <1>6, <1>7, <1>8 DEF TypeInv, TypeOK, Row

LEMMA TypeInvDrawMenu ==
  ASSUME TypeInv, DrawMenu
  PROVE  TypeInv'
<1>1. screen' \in [Rows -> OnScreen]
  <2>1. \A r \in Rows : screen[r] \in OnScreen /\ DrawNew(r) \in OnScreen
    BY DrawNewIsOnScreen DEF TypeInv, TypeOK, OnScreen
  <2>2. \/ screen' = screen
        \/ screen' = [r \in Rows |-> IF r >= menuCount THEN screen[r] ELSE DrawNew(r)]
    BY DEF DrawMenu
  <2>. QED BY <2>1, <2>2 DEF TypeInv, TypeOK, OnScreen
<1>2. /\ pc' \in {"loop", "fail"} /\ showing' \in {showing, "menu"} /\ status' \in {status, "not_found"}
      /\ UNCHANGED <<machine, images, settings, entries, selected, front, user, timer, running>>
  BY DEF DrawMenu, Fail
<1>. QED BY <1>1, <1>2, SMTT(30) DEF TypeInv, TypeOK, OnScreen, Phases

LEMMA TypeInvMove ==
  ASSUME TypeInv, up \/ down
  PROVE  screen' \in [Rows -> OnScreen] /\ selected' \in Rows
<1>1. selected \in Rows /\ menuCount \in 0 .. SlotCount /\ SlotCount \in Nat
  BY Bounds DEF TypeInv, TypeOK
<1>2. ASSUME NEW r \in Rows, MoveTo(r)
      PROVE  screen' \in [Rows -> OnScreen] /\ selected' \in Rows
  <2>. DEFINE scr == Draw(screen, selected, "plain")
  <2>1. screen \in [Rows -> OnScreen] BY DEF TypeInv, TypeOK, OnScreen
  <2>2. scr \in [Rows -> OnScreen] BY <1>1, <2>1, DrawIsOnScreen DEF TypeInv, Looks
  <2>3. screen' = Draw(scr, r, "bar") /\ selected' = r BY <1>2 DEF MoveTo
  <2>. HIDE DEF scr
  <2>4. Draw(scr, r, "bar") \in [Rows -> OnScreen] BY <2>2, DrawIsOnScreen DEF TypeInv, Looks
  <2>. QED BY <2>3, <2>4
<1>3. selected # 0 => selected - 1 \in Rows BY <1>1 DEF Rows
<1>4. selected + 1 < menuCount => selected + 1 \in Rows BY <1>1 DEF Rows
<1>5. CASE UNCHANGED <<screen, selected>> BY <1>5 DEF TypeInv, TypeOK, OnScreen
<1>6. CASE selected # 0 /\ MoveTo(selected - 1) BY <1>2, <1>3, <1>6
<1>7. CASE selected + 1 < menuCount /\ MoveTo(selected + 1) BY <1>2, <1>4, <1>7
<1>8. selected + 1 >= menuCount \/ selected + 1 < menuCount BY <1>1 DEF Rows
<1>. QED BY <1>5, <1>6, <1>7, <1>8 DEF up, down

LEMMA TypeInvKeys ==
  ASSUME TypeInv, Press \/ Expire \/ StartLoop \/ HandleKey \/ TimedOut
  PROVE  TypeInv'
<1>1. keys' \in Seq(KeyPress)
  <2>1. keys \in Seq(KeyPress) BY DEF TypeInv, TypeOK, KeyPress
  <2>2. CASE Press
    <3>1. PICK k \in KeyKinds : keys' = Append(keys, [key |-> k, seen |-> showing]) BY <2>2 DEF Press
    <3>2. [key |-> k, seen |-> showing] \in KeyPress BY DEF KeyPress, TypeInv, TypeOK
    <3>. QED BY <2>1, <3>1, <3>2
  <2>3. CASE ~Press
    <3>1. CASE HandleKey BY <2>1, <3>1 DEF HandleKey
    <3>2. CASE StartLoop BY <3>2 DEF StartLoop
    <3>3. CASE Expire \/ TimedOut BY <2>1, <3>3 DEF Expire, TimedOut
    <3>. QED BY <2>3, <3>1, <3>2, <3>3
  <2>. QED BY <2>2, <2>3
<1>2. /\ screen' \in [Rows -> OnScreen] /\ selected' \in Rows
      /\ timer' \in {"none", "absent", "armed", "fired"} /\ pc' \in {pc, "unload", "wait"}
  <2>1. CASE up \/ down BY <2>1, TypeInvMove DEF Press, Expire, StartLoop, HandleKey, TimedOut,
                                                 TypeInv, TypeOK
  <2>2. CASE UNCHANGED <<screen, selected>>
    BY <2>2 DEF Press, Expire, StartLoop, HandleKey, TimedOut, TypeInv, TypeOK, OnScreen
  <2>. QED BY <2>1, <2>2 DEF Press, Expire, StartLoop, HandleKey, TimedOut
<1>3. presses' \in 0 .. MaxKeys /\ touched' \in BOOLEAN
  <2>1. CASE Press BY <2>1, Bounds DEF Press, TypeInv, TypeOK
  <2>2. CASE UNCHANGED <<presses, touched>> BY <2>2 DEF TypeInv, TypeOK
  <2>. QED BY <2>1, <2>2 DEF Expire, StartLoop, HandleKey, TimedOut
<1>4. UNCHANGED <<machine, images, settings, entries, front, showing, result>>
  BY DEF Press, Expire, StartLoop, HandleKey, TimedOut
<1>. QED BY <1>1, <1>2, <1>3, <1>4 DEF TypeInv, TypeOK, OnScreen, KeyPress, Phases

LEMMA TypeInvUnload ==
  ASSUME TypeInv, UnloadAssets
  PROVE  TypeInv'
<1>1. rows' \in [Rows -> Row]
  <2>1. rows \in [Rows -> Row] BY DEF TypeInv, TypeOK, Row
  <2>2. rows' = rows \/ rows' = [r \in Rows |-> [rows[r] EXCEPT !.plain = Empty, !.bar = Empty]]
    BY DEF UnloadAssets, release_assets
  <2>3. \A r \in Rows : [rows[r] EXCEPT !.plain = Empty, !.bar = Empty] \in Row
    BY <2>1, EmptySection DEF Row
  <2>. QED BY <2>1, <2>2, <2>3
<1>2. background' \in Sections BY EmptySection DEF UnloadAssets, release_assets, TypeInv, TypeOK
<1>3. /\ memory' = [memory EXCEPT !.assets = "none"] /\ assets' = FALSE /\ pc' = "install"
      /\ UNCHANGED <<machine, settings, entries, selected, labelWidth, area, size, shown, user, timer,
                     result>>
  BY DEF UnloadAssets
<1>4. /\ memory' \in [{"assets", "uki"} -> {"none", "rejected", "trusted"}] /\ assets' \in BOOLEAN
      /\ pc' \in Phases
  BY <1>3 DEF TypeInv, TypeOK, Phases
<1>5. file' = file /\ display' = display /\ mok' = mok /\ timeout' = timeout /\ slot' = slot
  BY <1>3
<1>6. menu' = menu /\ menuCount' = menuCount /\ selected' = selected /\ labelWidth' = labelWidth
  BY <1>3
<1>7. area' = area /\ size' = size /\ screen' = screen /\ showing' = showing /\ keys' = keys
  BY <1>3
<1>8. presses' = presses /\ touched' = touched /\ timer' = timer /\ running' = running /\ status' = status
  BY <1>3
<1>. QED BY <1>1, <1>2, <1>4, <1>5, <1>6, <1>7, <1>8 DEF TypeInv, TypeOK, Row

LEMMA TypeInvNext == TypeInv /\ [Next]_vars => TypeInv'
<1>1. ASSUME TypeInv, Next PROVE TypeInv'
  BY <1>1, TypeInvLoad, TypeInvStartUki, TypeInvInitFrontend, TypeInvBuildSlot, TypeInvDrawMenu,
     TypeInvKeys, TypeInvUnload
  DEF Next, Program
<1>2. ASSUME TypeInv, UNCHANGED vars PROVE TypeInv'
  BY <1>2 DEF vars, TypeInv, TypeOK
<1>. QED BY <1>1, <1>2

\* Every variable of the boot loader keeps its type, among them the counts that
\* index the menu and the rows of the front end.
THEOREM TypeCorrect == Spec => []TypeOK
<1>1. TypeInv => TypeOK BY DEF TypeInv
<1>. QED BY <1>1, TypeInvInit, TypeInvNext, PTL DEF Spec
-----------------------------------------------------------------------------
(* The keys and the countdown                                              *)

Preparing == {"start", "load_assets", "check_assets", "mok", "config", "init", "build", "loop"}

\* Nobody touched the menu before it waits; from then on a key that was pressed
\* is still there to be handled, or was and ended the countdown.
KeysInv ==
  /\ pc \in {"loop", "wait"} => showing = "menu"
  /\ pc = "acknowledge" => showing = "error"
  /\ OnlyKeysSeen
  /\ pc \in Preparing => ~touched
  /\ pc = "wait" /\ touched => keys # <<>> \/ timer = "none"

LEMMA KeysInvInit == Init => KeysInv
BY DEF Init, KeysInv, OnlyKeysSeen, Preparing

LEMMA KeysInvPress ==
  ASSUME TypeInv, KeysInv, Press
  PROVE  KeysInv'
<1>1. PICK k \in KeyKinds : keys' = Append(keys, [key |-> k, seen |-> showing]) BY DEF Press
<1>2. keys \in Seq(KeyPress) /\ [key |-> k, seen |-> showing] \in KeyPress
  BY DEF TypeInv, TypeOK, KeyPress
<1>3. /\ keys' # <<>> /\ keys' \in Seq(KeyPress)
      /\ \A i \in DOMAIN keys' : keys'[i].seen = showing \/ (i \in DOMAIN keys /\ keys'[i] = keys[i])
  BY <1>1, <1>2
<1>4. pc' = pc /\ showing' = showing /\ timer' = timer /\ (touched' <=> touched \/ pc = "wait")
  BY DEF Press
<1>5. OnlyKeysSeen' BY <1>3, <1>4 DEF OnlyKeysSeen, KeysInv
<1>. QED BY <1>3, <1>4, <1>5 DEF KeysInv, Preparing

\* Taking the first key leaves keys that were seen before.
LEMMA KeysInvTake ==
  ASSUME TypeInv, KeysInv, keys # <<>>, keys' = Tail(keys), showing' = showing, pc' = pc
  PROVE  OnlyKeysSeen'
<1>1. keys \in Seq(KeyPress) BY DEF TypeInv, TypeOK, KeyPress
<1>2. \A i \in DOMAIN keys' : i + 1 \in DOMAIN keys /\ keys'[i] = keys[i + 1] BY <1>1
<1>. QED BY <1>2 DEF OnlyKeysSeen, KeysInv

LEMMA KeysInvHandleKey ==
  ASSUME TypeInv, KeysInv, HandleKey
  PROVE  KeysInv'
<1>1. /\ keys # <<>> /\ keys' = Tail(keys) /\ timer' = "none" /\ pc = "wait"
      /\ showing' = showing /\ touched' = touched
      /\ pc' \in {"wait", "unload"}
  BY DEF HandleKey
<1>2. CASE pc' = "wait" BY <1>1, <1>2, KeysInvTake DEF KeysInv, Preparing
<1>3. CASE pc' = "unload" BY <1>1, <1>3 DEF KeysInv, Preparing, OnlyKeysSeen
<1>. QED BY <1>1, <1>2, <1>3

LEMMA KeysInvNext == TypeInv /\ KeysInv /\ [Next]_vars => KeysInv'
<1>. SUFFICES ASSUME TypeInv, KeysInv, [Next]_vars PROVE KeysInv'
  OBVIOUS
<1>. USE DEF KeysInv, OnlyKeysSeen, Preparing
<1>1. CASE Press BY <1>1, KeysInvPress
<1>2. CASE HandleKey BY <1>2, KeysInvHandleKey
<1>3. CASE StartLoop BY <1>3 DEF StartLoop
<1>4. CASE DrawMenu BY <1>4 DEF DrawMenu, Fail
<1>5. CASE ShowError
  <2>1. pc' \in {"acknowledge", "crashed"} /\ (pc' = "acknowledge" => showing' = "error" /\ keys' = <<>>)
    BY <1>5 DEF ShowError
  <2>. QED BY <2>1
<1>6. CASE TimedOut \/ Expire BY <1>6 DEF TimedOut, Expire
<1>7. CASE Start \/ LoadAssets \/ CheckAssets
  BY <1>7 DEF Start, LoadAssets, CheckAssets, FileDevicePath, LoadImage, Fail
<1>8. CASE ReadMok \/ ReadConfig BY <1>8 DEF ReadMok, ReadConfig, Fail
<1>9. CASE InitFrontend
  <2>1. pc' \in {"build", "returned"} /\ UNCHANGED user /\ pc = "init" BY <1>9 DEF InitFrontend
  <2>. QED BY <2>1
<1>10. CASE BuildSlot BY <1>10 DEF BuildSlot
<1>11. CASE UnloadAssets \/ InstallTable \/ LoadUki \/ StartUki \/ UkiReturns
  BY <1>11 DEF UnloadAssets, InstallTable, LoadUki, StartUki, UkiReturns, FileDevicePath,
               LoadImage, Fail
<1>12. CASE Acknowledge BY <1>12 DEF Acknowledge
<1>13. CASE UNCHANGED vars BY <1>13 DEF vars
<1>. QED BY <1>1, <1>2, <1>3, <1>4, <1>5, <1>6, <1>7, <1>8, <1>9, <1>10, <1>11, <1>12, <1>13
     DEF Next, Program

LEMMA KeysInvAlways == Spec => [](TypeInv /\ KeysInv)
BY TypeInvInit, TypeInvNext, KeysInvInit, KeysInvNext, PTL DEF Spec

\* The menu handles no key that was pressed before it was shown, and no message
\* is left by a key from before it.
THEOREM KeysSeen == Spec => []OnlyKeysSeen
<1>1. KeysInv => OnlyKeysSeen BY DEF KeysInv
<1>. QED BY <1>1, KeysInvAlways, PTL

\* With a key pressed at the menu, no countdown ends the choice: the loop is
\* left with the key at the head of the queue, and that key is Enter.
THEOREM CountdownStops == Spec => KeyStopsCountdown
<1>1. TypeInv /\ KeysInv /\ [Next]_vars =>
        [pc = "wait" /\ pc' # "wait" /\ touched => keys # <<>> /\ Head(keys).key = "enter"]_vars
  <2>. SUFFICES ASSUME KeysInv, Next, pc = "wait", pc' # "wait", touched
                PROVE  keys # <<>> /\ Head(keys).key = "enter"
    OBVIOUS
  <2>1. CASE HandleKey BY <2>1 DEF HandleKey
  <2>2. CASE TimedOut BY <2>2 DEF TimedOut, KeysInv
  <2>3. CASE Press \/ Expire BY <2>3 DEF Press, Expire
  <2>4. ~UkiReturns /\ ~DrawMenu /\ ~InitFrontend /\ ~ShowError /\ ~BuildSlot /\ ~StartLoop
    BY DEF UkiReturns, DrawMenu, InitFrontend, ShowError, BuildSlot, StartLoop
  <2>5. ~Start /\ ~LoadAssets /\ ~CheckAssets /\ ~ReadMok /\ ~ReadConfig /\ ~UnloadAssets
        /\ ~InstallTable /\ ~LoadUki /\ ~StartUki /\ ~Acknowledge
    BY DEF Start, LoadAssets, CheckAssets, ReadMok, ReadConfig, UnloadAssets, InstallTable,
           LoadUki, StartUki, Acknowledge
  <2>. QED BY <2>1, <2>2, <2>3, <2>4, <2>5 DEF Next, Program
<1>. QED BY <1>1, KeysInvAlways, PTL DEF Spec, KeyStopsCountdown
-----------------------------------------------------------------------------
(* The images and the DKMS MOK                                             *)

WithAssets == {"mok", "config", "init", "build", "loop", "wait", "unload"}
Booting == {"load_uki", "start_uki", "running"}
Views == background # Empty \/ \E r \in Rows : rows[r].plain # Empty \/ rows[r].bar # Empty

\* The assets are read while they are loaded, the graphics output views nothing
\* else, and what is rejected is met by the next step.
ImagesInv ==
  /\ pc \in WithAssets => assets
  /\ assets => memory.assets = "trusted" /\ pc # "check_assets"
  /\ Views /\ ~Text => assets
  /\ pc \in {"start", "load_assets", "install"} \cup Booting => memory.assets = "none"
  /\ memory.assets = "rejected" => pc = "check_assets"
  /\ memory.uki = "rejected" => pc = "start_uki"
  /\ running # <<>> => pc = "running"
  /\ pc = "running" => memory.uki = "trusted"

LEMMA ImagesInvInit == Init => ImagesInv
BY DEF Init, ImagesInv, WithAssets, Booting, Views, NoRow

LEMMA ViewsStay ==
  ASSUME ImagesInv, UNCHANGED <<display, background, rows, assets>>
  PROVE  (Views /\ ~Text => assets)'
BY DEF ImagesInv, Views, Text

LEMMA ImagesInvNext == TypeInv /\ ImagesInv /\ [Next]_vars => ImagesInv'
<1>. SUFFICES ASSUME TypeInv, ImagesInv, [Next]_vars PROVE ImagesInv'
  OBVIOUS
<1>. USE DEF WithAssets, Booting
<1>0. memory \in [{"assets", "uki"} -> {"none", "rejected", "trusted"}] BY DEF TypeInv, TypeOK
<1>1. CASE Start BY <1>1, ViewsStay DEF Start, ImagesInv
<1>2. CASE LoadAssets
  <2>1. /\ pc = "load_assets" /\ pc' = "check_assets" /\ memory'.uki = memory.uki
        /\ UNCHANGED <<display, background, rows, assets, running>>
    BY <1>0, <1>2 DEF LoadAssets, FileDevicePath, LoadImage
  <2>. QED BY <2>1, ViewsStay DEF ImagesInv
<1>3. CASE CheckAssets
  <2>1. /\ pc = "check_assets" /\ pc' \in {"mok", "fail"}
        /\ UNCHANGED <<display, background, rows, running>>
    BY <1>3 DEF CheckAssets, Fail
  <2>2. CASE memory.assets = "trusted" /\ assets' = TRUE /\ pc' = "mok" /\ UNCHANGED memory
    BY <2>1, <2>2 DEF ImagesInv
  <2>3. CASE memory' = [memory EXCEPT !.assets = "none"] /\ pc' = "fail" /\ UNCHANGED assets
    BY <1>0, <2>1, <2>3, ViewsStay DEF ImagesInv
  <2>. QED BY <1>3, <2>2, <2>3 DEF CheckAssets, Fail
<1>4. CASE ReadMok \/ ReadConfig BY <1>4, ViewsStay DEF ReadMok, ReadConfig, Fail, ImagesInv
<1>5. CASE InitFrontend
  <2>1. /\ pc = "init" /\ pc' \in {"build", "returned"} /\ UNCHANGED <<memory, assets, running>>
    BY <1>5 DEF InitFrontend
  <2>. QED BY <2>1 DEF ImagesInv
<1>6. CASE BuildSlot BY <1>6 DEF BuildSlot, ImagesInv
<1>7. CASE DrawMenu BY <1>7, ViewsStay DEF DrawMenu, Fail, ImagesInv
<1>8. CASE Press \/ Expire BY <1>8, ViewsStay DEF Press, Expire, ImagesInv
<1>9. CASE StartLoop \/ HandleKey \/ TimedOut
  <2>1. /\ pc \in {"loop", "wait"} /\ pc' \in {"wait", "unload"}
        /\ UNCHANGED <<display, background, rows, memory, assets, running>>
    BY <1>9 DEF StartLoop, HandleKey, TimedOut
  <2>. QED BY <2>1, ViewsStay DEF ImagesInv
<1>10. CASE UnloadAssets
  <2>1. /\ pc = "unload" /\ pc' = "install" /\ memory' = [memory EXCEPT !.assets = "none"]
        /\ assets' = FALSE /\ UNCHANGED <<display, running>>
    BY <1>10 DEF UnloadAssets
  <2>2. (~Text /\ ~Views)' \/ Text'
    <3>1. \A r \in Rows : rows[r] \in Row BY DEF TypeInv, TypeOK, Row
    <3>2. CASE Text BY <2>1, <3>2 DEF Text
    <3>3. CASE ~Text
      <4>1. background' = Empty
            /\ rows' = [r \in Rows |-> [rows[r] EXCEPT !.plain = Empty, !.bar = Empty]]
        BY <1>10, <3>3 DEF UnloadAssets, release_assets
      <4>2. \A r \in Rows : rows'[r].plain = Empty /\ rows'[r].bar = Empty BY <3>1, <4>1 DEF Row
      <4>. QED BY <2>1, <3>3, <4>1, <4>2 DEF Views, Text
    <3>. QED BY <3>2, <3>3
  <2>. QED BY <1>0, <2>1, <2>2 DEF ImagesInv
<1>11. CASE InstallTable BY <1>11, ViewsStay DEF InstallTable, Fail, ImagesInv
<1>12. CASE LoadUki
  <2>1. /\ pc = "load_uki" /\ pc' = "start_uki" /\ memory'.assets = memory.assets
        /\ UNCHANGED <<display, background, rows, assets, running>>
    BY <1>0, <1>12 DEF LoadUki, FileDevicePath, LoadImage
  <2>. QED BY <2>1, ViewsStay DEF ImagesInv
<1>13. CASE StartUki
  <2>1. pc = "start_uki" /\ UNCHANGED <<display, background, rows, assets>> BY <1>13 DEF StartUki
  <2>2. CASE memory.uki = "trusted" /\ pc' = "running" /\ UNCHANGED memory
    BY <2>1, <2>2, ViewsStay DEF ImagesInv
  <2>3. CASE memory' = [memory EXCEPT !.uki = "none"] /\ pc' = "fail" /\ UNCHANGED running
    <3>1. memory'.uki = "none" /\ memory'.assets = memory.assets BY <1>0, <2>3
    <3>2. running = <<>> BY <2>1 DEF ImagesInv
    <3>. QED BY <2>1, <2>3, <3>1, <3>2, ViewsStay DEF ImagesInv
  <2>. QED BY <1>13, <2>2, <2>3 DEF StartUki, Fail
<1>14. CASE UkiReturns
  <2>1. /\ pc = "running" /\ pc' = "fail" /\ running' = <<>>
        /\ memory' = [memory EXCEPT !.uki = "none"]
        /\ UNCHANGED <<display, background, rows, assets>>
    BY <1>14 DEF UkiReturns, Fail
  <2>. QED BY <1>0, <2>1, ViewsStay DEF ImagesInv
<1>15. CASE ShowError \/ Acknowledge
  <2>1. /\ pc \in {"fail", "acknowledge"} /\ pc' \in {"acknowledge", "crashed", "returned"}
        /\ UNCHANGED <<display, background, rows, memory, assets, running>>
    BY <1>15, Zenon DEF ShowError, Acknowledge
  <2>. QED BY <2>1, ViewsStay DEF ImagesInv
<1>16. CASE UNCHANGED vars BY <1>16, ViewsStay DEF vars, ImagesInv
<1>. QED BY <1>1, <1>2, <1>3, <1>4, <1>5, <1>6, <1>7, <1>8, <1>9, <1>10, <1>11, <1>12, <1>13,
            <1>14, <1>15, <1>16
     DEF Next, Program

LEMMA ImagesInvAlways == Spec => [](TypeInv /\ ImagesInv)
BY TypeInvInit, TypeInvNext, ImagesInvInit, ImagesInvNext, PTL DEF Spec

\* Nothing of assets.efi is read, and nothing the graphics output draws lies in
\* it, once the image is not both trusted and loaded; and no UKI runs beside it.
THEOREM PointersStayValid == Spec => []PointersValid
<1>1. ImagesInv => PointersValid BY DEF ImagesInv, PointersValid, Views, Booting
<1>. QED BY <1>1, ImagesInvAlways, PTL

\* The table is built from the .mok section, if there is one of the right form,
\* and installed before any UKI is loaded.
MokList == AssetSection(file, ".mok")
MokInv ==
  /\ pc \in {"start", "load_assets", "check_assets", "mok"} => mok = "none"
  /\ pc \in (WithAssets \ {"mok"}) \cup {"install"} =>
       /\ mok \in {"none", "built"} /\ (mok = "built" <=> MokList.size # 0)
       /\ MokList.size # 0 => is_signature_list(MokList)
  /\ pc \in Booting =>
       /\ (mok = "installed" <=> MokList.size # 0)
       /\ MokList.size # 0 => is_signature_list(MokList)

LEMMA MokInvNext == TypeInv /\ ImagesInv /\ MokInv /\ [Next]_vars => MokInv'
<1>. SUFFICES ASSUME TypeInv, ImagesInv, MokInv, [Next]_vars PROVE MokInv'
  OBVIOUS
<1>. USE DEF WithAssets, Booting
<1>1. file' = file /\ (mok' = mok \/ ReadMok \/ InstallTable)
  <2>1. CASE Start \/ LoadAssets \/ CheckAssets \/ ReadMok \/ ReadConfig \/ InitFrontend \/ BuildSlot
    BY <2>1 DEF Start, LoadAssets, CheckAssets, ReadMok, ReadConfig, InitFrontend, BuildSlot
  <2>2. CASE DrawMenu \/ StartLoop \/ HandleKey \/ TimedOut \/ UnloadAssets \/ InstallTable \/ LoadUki
    BY <2>2 DEF DrawMenu, StartLoop, HandleKey, TimedOut, UnloadAssets, InstallTable, LoadUki
  <2>3. CASE StartUki \/ ShowError \/ Acknowledge \/ UkiReturns \/ Press \/ Expire
    BY <2>3 DEF StartUki, ShowError, Acknowledge, UkiReturns, Press, Expire
  <2>. QED BY <2>1, <2>2, <2>3 DEF Next, Program, vars
<1>2. CASE ReadMok
  <2>1. asset_section(".mok") = MokList BY <1>2 DEF ReadMok, ImagesInv, asset_section, MokList
  <2>2. mok = "none" BY <1>2 DEF ReadMok, MokInv
  <2>. QED BY <1>1, <1>2, <2>1, <2>2 DEF ReadMok, Fail, MokInv, MokList
<1>3. CASE InstallTable BY <1>1, <1>3 DEF InstallTable, Fail, MokInv, MokList
<1>4. CASE mok' = mok /\ ~ReadMok /\ ~InstallTable
  <2>. DEFINE Before == {"start", "load_assets", "check_assets", "mok"}
              Between == (WithAssets \ {"mok"}) \cup {"install"}
  <2>1. /\ pc' \in Before => pc \in Before
        /\ pc' \in Between => pc \in Between
        /\ pc' \in Booting => pc \in Booting
    <3>1. CASE Start \/ LoadAssets \/ CheckAssets \/ ReadConfig
      BY <3>1 DEF Start, LoadAssets, CheckAssets, ReadConfig, FileDevicePath, LoadImage, Fail
    <3>2. CASE InitFrontend \/ BuildSlot
      <4>1. pc \in {"init", "build"} /\ pc' \in {"build", "returned"}
        BY <3>2, Zenon DEF InitFrontend, BuildSlot
      <4>. QED BY <4>1
    <3>3. CASE DrawMenu \/ StartLoop \/ HandleKey \/ TimedOut \/ UnloadAssets \/ LoadUki
      BY <3>3 DEF DrawMenu, StartLoop, HandleKey, TimedOut, UnloadAssets, LoadUki,
                  FileDevicePath, LoadImage, Fail
    <3>4. CASE StartUki \/ Acknowledge \/ UkiReturns \/ Press \/ Expire
      BY <3>4 DEF StartUki, Acknowledge, UkiReturns, Press, Expire, Fail
    <3>5. CASE ShowError
      <4>1. pc' \in {"acknowledge", "crashed"} BY <3>5, Zenon DEF ShowError
      <4>. QED BY <4>1
    <3>6. CASE UNCHANGED vars BY <3>6 DEF vars
    <3>. QED BY <1>4, <3>1, <3>2, <3>3, <3>4, <3>5, <3>6 DEF Next, Program
  <2>2. MokList' = MokList BY <1>1 DEF MokList
  <2>. HIDE DEF Before, Between
  <2>3. is_signature_list(MokList)' <=> is_signature_list(MokList) BY <2>2 DEF is_signature_list
  <2>. QED BY <1>4, <2>1, <2>2, <2>3 DEF MokInv, Before, Between
<1>. QED BY <1>1, <1>2, <1>3, <1>4

\* A UKI that runs finds the DKMS MOK in the table if assets.efi has one, and no
\* table at all if it has none.
THEOREM HandedOver == Spec => []MokHandedOver
<1>1. Init => MokInv BY DEF Init, MokInv, WithAssets, Booting
<1>2. ImagesInv /\ MokInv => MokHandedOver
  BY DEF ImagesInv, MokInv, MokHandedOver, MokList, Booting
<1>. QED BY <1>1, <1>2, TypeInvInit, TypeInvNext, ImagesInvInit, ImagesInvNext, MokInvNext, PTL DEF Spec
-----------------------------------------------------------------------------
(* The rows fit                                                            *)

LEMMA RowHeightNat ==
  ASSUME NEW a \in [x : Nat, y : Nat, width : Nat, height : Nat], NEW r \in Nat
  PROVE  RowHeight(a) \in Nat /\ RowTop(a, r) \in Nat
<1>1. RowHeight(a) \in Nat BY DEF RowHeight, work_area_rows
<1>2. r * RowHeight(a) \in Nat BY <1>1
<1>3. RowHeight(a) \div 2 \in Nat BY <1>1
<1>. QED BY <1>1, <1>2, <1>3 DEF RowTop

\* A row above one that fits fits.
LEMMA HigherRowsFit ==
  ASSUME NEW a \in [x : Nat, y : Nat, width : Nat, height : Nat], NEW r \in Nat, NEW q \in Nat,
         q <= r, ImageRowFits(a, r)
  PROVE  ImageRowFits(a, q)
<1>. DEFINE h == RowHeight(a)
<1>1. h \in Nat BY RowHeightNat
<1>2. r * h = q * h + (r - q) * h BY <1>1
<1>3. (r - q) * h \in Nat BY <1>1
<1>4. q * h \in Nat /\ r * h \in Nat BY <1>1
<1>5. q * h <= r * h BY <1>2, <1>3, <1>4
<1>6. h \div 2 \in Nat BY <1>1
<1>. HIDE DEF h
<1>. QED BY <1>1, <1>4, <1>5, <1>6 DEF ImageRowFits, RowTop, h

Reading == {"start", "load_assets", "check_assets", "mok", "config", "init"}

\* The rows that were taken fit, and so does the width they share.
RowsInv ==
  /\ pc \in Reading => menuCount = 0
  /\ menuCount = 0 => labelWidth = 0
  /\ Text /\ menuCount > 0 =>
       /\ labelWidth + 2 < size.width
       /\ \A r \in 0 .. menuCount - 1 : TextLine(size.height, r) + 1 < size.height
  /\ ~Text => /\ area.x + area.width <= size.width /\ area.y + area.height <= size.height
              /\ \A r \in 0 .. menuCount - 1 : ImageRowFits(area, r)

LEMMA RowsInvInit == Init => RowsInv
BY DEF Init, RowsInv, Rectangle, Text, Reading

LEMMA RowsInvInitFrontend ==
  ASSUME TypeInv, RowsInv, InitFrontend
  PROVE  RowsInv'
<1>1. /\ menuCount = 0 /\ labelWidth = 0 /\ UNCHANGED <<menuCount, labelWidth, display, file>>
      /\ display \in Displays /\ (pc' \in {"build", "returned"})
  BY Zenon DEF InitFrontend, RowsInv, Reading, TypeInv, TypeOK
<1>2. CASE UNCHANGED <<size, area>> BY <1>1, <1>2 DEF RowsInv, Text
<1>3. CASE Text /\ InitText
  BY <1>1, <1>3 DEF RowsInv, Text, InitText
<1>4. CASE ~Text /\ InitGraphics
  <2>1. size' \in [width : Nat, height : Nat] BY TypeInvInitFrontend DEF TypeInv, TypeOK
  <2>2. asset_section(".area") \in {Empty, AssetSection(file, ".area")} BY DEF asset_section
  <2>3. area'.x + area'.width <= size'.width /\ area'.y + area'.height <= size'.height
    BY <1>4, <2>1, <2>2, WorkAreaOnScreen DEF InitGraphics, TypeInv, TypeOK
  <2>. QED BY <1>1, <1>4, <2>3 DEF RowsInv, Text
<1>. QED BY <1>2, <1>3, <1>4 DEF InitFrontend

LEMMA RowsInvBuildSlot ==
  ASSUME TypeInv, RowsInv, BuildSlot
  PROVE  RowsInv'
<1>. DEFINE row == RowOf(slot)
<1>1. pc' = "build" /\ UNCHANGED <<display, size, area>> BY DEF BuildSlot
<1>2. CASE UNCHANGED <<menuCount, labelWidth>> BY <1>1, <1>2 DEF RowsInv, Text, Reading
<1>3. CASE /\ TakesRow(row, menuCount) /\ menuCount' = menuCount + 1
           /\ labelWidth' = IF Text /\ row.plain.size \div 2 > labelWidth
                            THEN row.plain.size \div 2 ELSE labelWidth
  <2>1. menuCount \in Nat /\ labelWidth \in Nat /\ size.width \in Nat /\ size.height \in Nat
        /\ area \in [x : Nat, y : Nat, width : Nat, height : Nat]
    BY Bounds DEF TypeInv, TypeOK
  <2>2. CASE Text
    <3>1. row.plain.size \in Nat
      <4>1. row.plain \in Sections BY RowIsRow DEF BuildSlot, TypeInv, Row
      <4>. HIDE DEF row
      <4>. QED BY <4>1, SectionSize DEF Sections, Empty
    <3>2. size.width >= 3 /\ row.plain.size \div 2 <= size.width - 3
          /\ TextLine(size.height, menuCount) + 1 < size.height
      BY <1>3, <2>2 DEF TakesRow, TextRowFits, ReadText
    <3>. HIDE DEF row
    <3>3. labelWidth' + 2 < size.width
      BY <1>3, <2>1, <2>2, <3>1, <3>2 DEF RowsInv
    <3>4. \A r \in 0 .. menuCount : TextLine(size.height, r) + 1 < size.height
      BY <2>1, <3>2 DEF TextLine, BannerLine
    <3>. QED BY <1>1, <1>3, <2>1, <2>2, <3>3, <3>4 DEF RowsInv, Text, Reading
  <2>3. CASE ~Text
    <3>1. ImageRowFits(area, menuCount) BY <1>3, <2>3 DEF TakesRow
    <3>2. \A r \in 0 .. menuCount : ImageRowFits(area, r) BY <2>1, <3>1, HigherRowsFit
    <3>. QED BY <1>1, <1>3, <2>1, <2>3, <3>2 DEF RowsInv, Text, Reading
  <2>. QED BY <2>2, <2>3
<1>. QED BY <1>2, <1>3 DEF BuildSlot

LEMMA RowsInvNext == TypeInv /\ RowsInv /\ [Next]_vars => RowsInv'
<1>. SUFFICES ASSUME TypeInv, RowsInv, [Next]_vars PROVE RowsInv'
  OBVIOUS
<1>1. CASE InitFrontend BY <1>1, RowsInvInitFrontend
<1>2. CASE BuildSlot BY <1>2, RowsInvBuildSlot
<1>3. CASE ~InitFrontend /\ ~BuildSlot
  <2>1. UNCHANGED <<display, menuCount, labelWidth, size, area>> /\ (pc' \in Reading => pc \in Reading)
    <3>1. CASE Start \/ LoadAssets \/ CheckAssets \/ ReadMok \/ ReadConfig
      BY <3>1 DEF Start, LoadAssets, CheckAssets, ReadMok, ReadConfig, FileDevicePath, LoadImage, Fail,
                  Reading
    <3>2. CASE DrawMenu \/ StartLoop \/ HandleKey \/ TimedOut \/ UnloadAssets \/ InstallTable \/ LoadUki
      BY <3>2 DEF DrawMenu, StartLoop, HandleKey, TimedOut, UnloadAssets, InstallTable, LoadUki,
                  FileDevicePath, LoadImage, Fail, Reading
    <3>3. CASE StartUki \/ Acknowledge \/ UkiReturns \/ Press \/ Expire
      BY <3>3 DEF StartUki, Acknowledge, UkiReturns, Press, Expire, Fail, Reading
    <3>4. CASE ShowError
      <4>1. pc' \in {"acknowledge", "crashed"} BY <3>4, Zenon DEF ShowError
      <4>. QED BY <3>4, <4>1 DEF ShowError, Reading
    <3>5. CASE UNCHANGED vars BY <3>5 DEF vars
    <3>. QED BY <1>3, <3>1, <3>2, <3>3, <3>4, <3>5 DEF Next, Program
  <2>. QED BY <2>1 DEF RowsInv, Text
<1>. QED BY <1>1, <1>2, <1>3

\* Every row of the menu is inside the lines and columns of the console, or inside
\* the work area, which is on the screen, on any display.
THEOREM RowsAlwaysFit == Spec => []RowsFit
<1>1. TypeInv /\ RowsInv => RowsFit
  <2>. SUFFICES ASSUME TypeInv, RowsInv, NEW r \in 0 .. menuCount - 1
                PROVE  RowsFit!(r)
    BY DEF RowsFit
  <2>1. menuCount \in Nat /\ labelWidth \in Nat /\ size.width \in Nat
    BY Bounds DEF TypeInv, TypeOK
  <2>. QED BY <2>1 DEF RowsInv, ImageRowFits
<1>2. Init => TypeInv /\ RowsInv BY TypeInvInit, RowsInvInit
<1>3. TypeInv /\ RowsInv /\ [Next]_vars => (TypeInv /\ RowsInv)'
  BY TypeInvNext, RowsInvNext
<1>. QED BY <1>1, <1>2, <1>3, PTL DEF Spec
-----------------------------------------------------------------------------
(* The highlight                                                           *)

\* The menu fits on the display of this machine.
Fits == MenuFits(file, display)

ClearScreen == [r \in Rows |-> Blank]
Shown(s, look) == [slot |-> s, looks |-> {look}]
MenuScreen ==
  [r \in Rows |-> IF r < menuCount THEN Shown(rows[r].slot, LookOf(r)) ELSE Blank]
MenuUp == {"loop", "wait", "unload", "install"} \cup Booting

EntryOfSlot(f, s, entry) ==
  LET text == AssetSection(f, slot_sections[s])
  IN s \in Slots /\ IsSlot(text) /\ entry = Entry(text) /\ entry \in MenuEntries \ {Torn}

\* The entries are those of the slots of their rows, in their order.
EntriesInv ==
  /\ \A r \in 0 .. menuCount - 1 : /\ EntryOfSlot(file, rows[r].slot, menu[r])
                                   /\ rows[r].slot < slot
  /\ \A r \in 0 .. menuCount - 1 : \A q \in 0 .. r - 1 : rows[q].slot < rows[r].slot

ScreenInv ==
  /\ pc \in Reading \cup {"build"} => selected = 0 /\ showing = "firmware"
  /\ pc \in MenuUp => showing = "menu"
  /\ showing = "menu" => selected < menuCount /\ (pc \in MenuUp \cup {"fail", "crashed"})
  /\ screen = IF showing = "menu" THEN MenuScreen ELSE ClearScreen

LEMMA EntriesInvNext == TypeInv /\ ImagesInv /\ EntriesInv /\ [Next]_vars => EntriesInv'
<1>. SUFFICES ASSUME TypeInv, ImagesInv, EntriesInv, [Next]_vars PROVE EntriesInv'
  OBVIOUS
<1>1. CASE BuildSlot
  <2>. DEFINE text == asset_section(slot_sections[slot])
              row == RowOf(slot)
              n == menuCount
  <2>1. /\ slot \in Slots /\ slot' = slot + 1 /\ file' = file /\ n \in Rows /\ n \in Nat
        /\ slot \in Nat /\ SlotCount \in Nat /\ menuCount' \in {n, n + 1} /\ assets
    BY <1>1, Bounds DEF BuildSlot, TypeInv, TypeOK, Slots, Rows, ImagesInv, WithAssets
  <2>2. text = AssetSection(file, slot_sections[slot]) BY <2>1 DEF asset_section
  <2>3. \A r \in 0 .. n - 1 : menu'[r] = menu[r] /\ rows'[r] = rows[r]
    <3>1. menu \in [Rows -> MenuEntries] /\ rows \in [Rows -> Row] BY DEF TypeInv, TypeOK, Row
    <3>2. \A r \in 0 .. n - 1 : r \in Rows /\ r # n BY <2>1 DEF Rows
    <3>3. (\E e : menu' = [menu EXCEPT ![n] = e]) \/ menu' = menu BY <1>1 DEF BuildSlot
    <3>4. rows' = [rows EXCEPT ![n] = row] \/ rows' = rows BY <1>1 DEF BuildSlot
    <3>. HIDE DEF row, n
    <3>. QED BY <3>1, <3>2, <3>3, <3>4
  <2>4. CASE menuCount' = n
    <3>1. \A r \in 0 .. n - 1 : rows[r].slot \in Slots BY DEF EntriesInv, EntryOfSlot
    <3>. QED BY <2>1, <2>3, <2>4, <3>1 DEF EntriesInv, Slots
  <2>5. CASE menuCount' = n + 1
    <3>1. IsSlot(text) /\ menu' = [menu EXCEPT ![n] = Entry(text)] /\ rows' = [rows EXCEPT ![n] = row]
      BY <1>1, <2>1, <2>5 DEF BuildSlot
    <3>2. row.slot = slot BY <2>1, RowIsRow DEF TypeInv
    <3>3. Entry(text) \in MenuEntries \ {Torn}
      <4>1. Entry(text) \in EntriesOf(file) \ {Torn} /\ file \in AssetsFiles
        BY <2>1, <3>1, EntryIsEntry DEF TypeInv, TypeOK
      <4>. HIDE DEF text
      <4>. QED BY <4>1 DEF MenuEntries
    <3>4. menu'[n] = Entry(text) /\ rows'[n].slot = slot
      BY <2>1, <3>1, <3>2 DEF TypeInv, TypeOK
    <3>5. \A r \in 0 .. n - 1 : rows[r].slot < slot /\ rows[r].slot \in Nat
      BY DEF EntriesInv, EntryOfSlot, Slots
    <3>. HIDE DEF text, row, n
    <3>6. \A r \in 0 .. n : r \in 0 .. n - 1 \/ r = n BY <2>1
    <3>7. ASSUME NEW r \in 0 .. n
          PROVE  EntryOfSlot(file, rows'[r].slot, menu'[r]) /\ rows'[r].slot < slot'
      <4>1. CASE r \in 0 .. n - 1
        <5>1. rows'[r] = rows[r] /\ menu'[r] = menu[r] BY <2>3, <4>1
        <5>2. r \in 0 .. menuCount - 1 BY <4>1 DEF n
        <5>. QED BY <2>1, <3>5, <4>1, <5>1, <5>2 DEF EntriesInv
      <4>2. CASE r = n BY <2>1, <2>2, <3>1, <3>3, <3>4, <4>2 DEF EntryOfSlot
      <4>. QED BY <3>6, <4>1, <4>2
    <3>8. ASSUME NEW r \in 0 .. n, NEW q \in 0 .. r - 1
          PROVE  rows'[q].slot < rows'[r].slot
      <4>1. q \in 0 .. n - 1 /\ rows'[q] = rows[q] BY <2>1, <2>3
      <4>2. CASE r = n BY <3>4, <3>5, <4>1, <4>2
      <4>3. CASE r \in 0 .. n - 1
        <5>1. rows'[r] = rows[r] BY <2>3, <4>3
        <5>2. r \in 0 .. menuCount - 1 BY <4>3 DEF n
        <5>. QED BY <4>1, <5>1, <5>2 DEF EntriesInv
      <4>. QED BY <3>6, <4>2, <4>3
    <3>9. 0 .. menuCount' - 1 = 0 .. n BY <2>1, <2>5
    <3>10. file' = file BY <2>1
    <3>. QED BY <3>7, <3>8, <3>9, <3>10 DEF EntriesInv
  <2>. QED BY <2>1, <2>4, <2>5
<1>2. CASE UnloadAssets
  <2>1. UNCHANGED <<file, slot, menu, menuCount>> BY <1>2 DEF UnloadAssets
  <2>2. /\ \A r \in 0 .. menuCount - 1 : r \in Rows
        /\ \A r \in 0 .. menuCount - 1 : \A q \in 0 .. r - 1 : q \in 0 .. menuCount - 1
    BY Bounds DEF Rows, TypeInv, TypeOK
  <2>3. \A r \in Rows : rows[r] \in Row BY DEF TypeInv, TypeOK, Row
  <2>4. \A r \in Rows : rows'[r].slot = rows[r].slot
    <3>1. \/ rows' = rows
          \/ rows' = [r \in Rows |-> [rows[r] EXCEPT !.plain = Empty, !.bar = Empty]]
      BY <1>2 DEF UnloadAssets, release_assets
    <3>. QED BY <2>3, <3>1 DEF Row
  <2>. QED BY <2>1, <2>2, <2>4 DEF EntriesInv
<1>3. CASE ~BuildSlot /\ ~UnloadAssets
  <2>1. UNCHANGED <<file, slot, menu, menuCount, rows>>
    <3>1. CASE Start \/ LoadAssets \/ CheckAssets \/ ReadMok \/ ReadConfig \/ InitFrontend
      BY <3>1 DEF Start, LoadAssets, CheckAssets, ReadMok, ReadConfig, InitFrontend
    <3>2. CASE DrawMenu \/ StartLoop \/ HandleKey \/ TimedOut \/ InstallTable \/ LoadUki
      BY <3>2 DEF DrawMenu, StartLoop, HandleKey, TimedOut, InstallTable, LoadUki
    <3>3. CASE StartUki \/ Acknowledge \/ UkiReturns \/ Press \/ Expire \/ ShowError
      BY <3>3 DEF StartUki, Acknowledge, UkiReturns, Press, Expire, ShowError
    <3>4. CASE UNCHANGED vars BY <3>4 DEF vars
    <3>. QED BY <1>3, <3>1, <3>2, <3>3, <3>4 DEF Next, Program
  <2>. QED BY <2>1 DEF EntriesInv
<1>. QED BY <1>1, <1>2, <1>3

\* A rectangle in another one keeps its place when it is clipped; without a width or a
\* height it stays so.
LEMMA ClipInside ==
  ASSUME NEW a \in [x : Nat, y : Nat, width : Nat, height : Nat],
         NEW w \in Nat, NEW h \in Nat, a.x + a.width <= w, a.y + a.height <= h
  PROVE  /\ a.width > 0 /\ a.height > 0 => Clip(a, w, h) = a
         /\ ~(a.width > 0 /\ a.height > 0) => Clip(a, w, h).width = 0 \/ Clip(a, w, h).height = 0
<1>1. CASE a.width > 0 /\ a.height > 0
  <2>1. ~(a.x >= w \/ a.y >= h) BY <1>1
  <2>2. Lesser(a.width, w - a.x) = a.width /\ Lesser(a.height, h - a.y) = a.height BY DEF Lesser
  <2>3. Clip(a, w, h) = Rectangle(a.x, a.y, a.width, a.height) BY <2>1, <2>2 DEF Clip
  <2>. QED BY <1>1, <2>3 DEF Rectangle
<1>2. CASE a.width = 0 \/ a.height = 0
  <2>1. CASE a.x >= w \/ a.y >= h
    <3>1. Clip(a, w, h) = Rectangle(a.x, a.y, 0, 0) BY <2>1 DEF Clip
    <3>. QED BY <1>2, <3>1 DEF Rectangle
  <2>2. CASE ~(a.x >= w \/ a.y >= h)
    <3>1. Clip(a, w, h) = Rectangle(a.x, a.y, Lesser(a.width, w - a.x), Lesser(a.height, h - a.y))
      BY <2>2 DEF Clip
    <3>2. Lesser(a.width, w - a.x) = a.width /\ Lesser(a.height, h - a.y) = a.height BY DEF Lesser
    <3>. QED BY <1>2, <3>1, <3>2 DEF Rectangle
  <2>. QED BY <2>1, <2>2
<1>. QED BY <1>1, <1>2

\* The rows are one below the other.
LEMMA RowsBelow ==
  ASSUME NEW a \in [x : Nat, y : Nat, width : Nat, height : Nat], NEW q \in Nat, NEW r \in Nat, q < r
  PROVE  RowTop(a, q) + RowHeight(a) <= RowTop(a, r)
<1>. DEFINE h == RowHeight(a)
<1>1. h \in Nat BY RowHeightNat
<1>2. r * h = q * h + h + (r - q - 1) * h BY <1>1
<1>3. (r - q - 1) * h \in Nat /\ q * h \in Nat /\ r * h \in Nat /\ h \div 2 \in Nat
  <2>1. r - q - 1 \in Nat OBVIOUS
  <2>. QED BY <1>1, <2>1
<1>4. q * h + h <= r * h BY <1>1, <1>2, <1>3
<1>. HIDE DEF h
<1>. QED BY <1>1, <1>3, <1>4 DEF RowTop, h

\* A row whose labels fit in rows of the area.
Drawable(row, a) == IsImage(row.plain) /\ IsImage(row.bar) /\ LabelsFit(row, a)

ImagesOfSlot(f, n) ==
  [plain |-> AssetSection(f, label_sections[n]), bar |-> AssetSection(f, bar_sections[n])]

\* What the graphics output draws with, from the first row on: on the background, and
\* labels that fit.
DrawingInv ==
  ~Text /\ pc \in {"build", "loop", "wait"} =>
    /\ display.paints
    /\ background # Empty =>
         /\ background.holds.width \in Nat /\ background.holds.height \in Nat
         /\ OnBackground(area, background)
    /\ \A n \in Slots :
         LET row == ImagesOfSlot(file, n)
         IN IsImage(row.plain) /\ IsImage(row.bar) => LabelsFit(row, area)
    /\ \A r \in 0 .. menuCount - 1 : Drawable(rows[r], area)

LEMMA ImageOfSection ==
  ASSUME NEW image \in Sections, IsImage(image)
  PROVE  image.size # 0 /\ image.holds.width \in Nat /\ image.holds.height \in Nat
<1>1. image # Empty /\ image.size # 0 BY DEF IsImage, Empty
<1>2. PICK f \in AssetsFiles, n \in Images : image = AssetSection(f, n) BY <1>1 DEF Sections
<1>. QED BY <1>1, <1>2, ImageSize

\* Both labels of a row go to the same place, which is in the row and in the area.
LEMMA PlaceInRow ==
  ASSUME TypeInv, RowsInv, DrawingInv, ~Text, pc \in {"build", "loop", "wait"},
         NEW r \in 0 .. menuCount - 1
  PROVE  \E p \in [x : Nat, y : Nat, width : Nat, height : Nat] :
           /\ \A look \in Looks : Place(r, look) = p
           /\ p.x + p.width <= area.x + area.width
           /\ RowTop(area, r) <= p.y /\ p.y + p.height <= RowTop(area, r) + RowHeight(area)
           /\ p.y + p.height <= area.y + area.height
<1>1. /\ r \in Rows /\ r \in Nat /\ rows \in [Rows -> Row]
      /\ area \in [x : Nat, y : Nat, width : Nat, height : Nat]
  BY Bounds DEF TypeInv, TypeOK, Rows, Row
<1>2. rows[r].plain \in Sections /\ rows[r].bar \in Sections BY <1>1 DEF Row
<1>3. Drawable(rows[r], area) BY DEF DrawingInv
<1>4. /\ rows[r].plain.holds.width \in Nat /\ rows[r].plain.holds.height \in Nat
  BY <1>2, <1>3, ImageOfSection DEF Drawable
<1>. DEFINE w == rows[r].plain.holds.width
            h == rows[r].plain.holds.height
            top == RowTop(area, r)
            high == RowHeight(area)
            p == Rectangle(CentredX(area, w), CentredY(area, h, top), w, h)
<1>5. ASSUME NEW look \in Looks PROVE Place(r, look) = p
  <2>1. /\ LabelOf(r, look) \in {rows[r].plain, rows[r].bar}
        /\ rows[r].bar.holds.width = w /\ rows[r].bar.holds.height = h
    BY <1>3 DEF LabelOf, Drawable, LabelsFit
  <2>2. LabelOf(r, look).holds.width = w /\ LabelOf(r, look).holds.height = h BY <2>1
  <2>. QED BY <2>2 DEF Place, LabelPlace
<1>6. top \in Nat /\ high \in Nat BY <1>1, RowHeightNat
<1>7. w \in Nat /\ h \in Nat /\ w <= area.width /\ h <= high
  BY <1>3, <1>4 DEF Drawable, LabelsFit
<1>8. top + high <= area.y + area.height BY DEF RowsInv, ImageRowFits
<1>. HIDE DEF w, h, top, high
<1>9. /\ CentredX(area, w) \in Nat /\ CentredX(area, w) + w <= area.x + area.width
  BY <1>1, <1>7 DEF CentredX
<1>10. /\ CentredY(area, h, top) \in Nat /\ top <= CentredY(area, h, top)
       /\ CentredY(area, h, top) + h <= top + high
  BY <1>6, <1>7 DEF CentredY, high
<1>11. /\ p.x = CentredX(area, w) /\ p.y = CentredY(area, h, top) /\ p.width = w /\ p.height = h
       /\ p \in [x : Nat, y : Nat, width : Nat, height : Nat]
  BY <1>7, <1>9, <1>10 DEF Rectangle
<1>. HIDE DEF p
<1>12. p.y + p.height <= area.y + area.height
  <2>1. area.y \in Nat /\ area.height \in Nat BY <1>1
  <2>. QED BY <1>6, <1>7, <1>8, <1>10, <1>11, <2>1
<1>13. /\ p.x + p.width <= area.x + area.width
       /\ RowTop(area, r) <= p.y /\ p.y + p.height <= RowTop(area, r) + RowHeight(area)
  BY <1>9, <1>10, <1>11 DEF top, high
<1>. QED BY <1>5, <1>11, <1>12, <1>13

\* A row is drawn where nothing of it, and nothing of another label, is left.
LEMMA LabelsCleaned ==
  ASSUME TypeInv, RowsInv, DrawingInv, ~Text, pc \in {"build", "loop", "wait"},
         NEW r \in 0 .. menuCount - 1, NEW look \in Looks, NEW old \in Looks \cup {"other"}
  PROVE  Cleans(r, look, old)
<1>1. PICK p \in [x : Nat, y : Nat, width : Nat, height : Nat] :
        /\ \A l \in Looks : Place(r, l) = p
        /\ p.x + p.width <= area.x + area.width /\ p.y + p.height <= area.y + area.height
  BY PlaceInRow
<1>2. /\ area \in [x : Nat, y : Nat, width : Nat, height : Nat]
      /\ size.width \in Nat /\ size.height \in Nat
      /\ area.x + area.width <= size.width /\ area.y + area.height <= size.height
  BY DEF TypeInv, TypeOK, RowsInv
<1>3. p.x + p.width <= size.width /\ p.y + p.height <= size.height BY <1>1, <1>2
<1>4. (IF old = "other" THEN look ELSE old) \in Looks OBVIOUS
<1>. DEFINE seen == Clip(p, size.width, size.height)
            redrawn == Redrawn(p, size, background)
<1>5. Cleans(r, look, old) <=> Within(seen, redrawn) BY <1>1, <1>4 DEF Cleans, Seen
<1>6. CASE p.width > 0 /\ p.height > 0
  <2>1. seen = p BY <1>2, <1>3, <1>6, ClipInside
  <2>2. redrawn = p
    <3>1. CASE background.size = 0 BY <2>1, <3>1 DEF Redrawn
    <3>2. CASE background.size # 0
      <4>1. background # Empty BY <3>2 DEF Empty
      <4>2. /\ background.holds.width \in Nat /\ background.holds.height \in Nat
            /\ p.x + p.width <= background.holds.width /\ p.y + p.height <= background.holds.height
        BY <1>1, <1>2, <4>1 DEF DrawingInv, OnBackground
      <4>3. Clip(p, background.holds.width, background.holds.height) = p
        BY <1>6, <4>2, ClipInside
      <4>. QED BY <2>1, <3>2, <4>3 DEF Redrawn
    <3>. QED BY <3>1, <3>2
  <2>3. Within(p, p) BY DEF Within
  <2>. QED BY <1>5, <2>1, <2>2, <2>3
<1>7. CASE ~(p.width > 0 /\ p.height > 0)
  <2>1. seen.width = 0 \/ seen.height = 0 BY <1>2, <1>3, <1>7, ClipInside
  <2>. QED BY <1>5, <2>1 DEF Within
<1>. QED BY <1>6, <1>7

LEMMA RowsDoNotMeet ==
  ASSUME TypeInv, RowsInv, DrawingInv, pc \in {"build", "loop", "wait"},
         NEW r \in 0 .. menuCount - 1, NEW look \in Looks, NEW q \in Rows
  PROVE  ~Spoils(r, look, q)
<1>. SUFFICES ASSUME ~Text, r # q, q < menuCount, NEW l \in Looks
              PROVE  ~Meet(Seen(r, look), Seen(q, l))
  BY DEF Spoils
<1>1. q \in 0 .. menuCount - 1 /\ q \in Nat /\ r \in Nat BY Bounds DEF Rows, TypeInv, TypeOK
<1>2. PICK p \in [x : Nat, y : Nat, width : Nat, height : Nat] :
        /\ \A k \in Looks : Place(r, k) = p
        /\ p.x + p.width <= area.x + area.width /\ p.y + p.height <= area.y + area.height
        /\ RowTop(area, r) <= p.y /\ p.y + p.height <= RowTop(area, r) + RowHeight(area)
  BY PlaceInRow
<1>3. PICK o \in [x : Nat, y : Nat, width : Nat, height : Nat] :
        /\ \A k \in Looks : Place(q, k) = o
        /\ o.x + o.width <= area.x + area.width /\ o.y + o.height <= area.y + area.height
        /\ RowTop(area, q) <= o.y /\ o.y + o.height <= RowTop(area, q) + RowHeight(area)
  BY <1>1, PlaceInRow
<1>4. /\ area \in [x : Nat, y : Nat, width : Nat, height : Nat]
      /\ size.width \in Nat /\ size.height \in Nat
      /\ area.x + area.width <= size.width /\ area.y + area.height <= size.height
  BY DEF TypeInv, TypeOK, RowsInv
<1>5. p.y + p.height <= o.y \/ o.y + o.height <= p.y
  <2>1. /\ RowTop(area, r) \in Nat /\ RowTop(area, q) \in Nat /\ RowHeight(area) \in Nat
    BY <1>1, <1>4, RowHeightNat
  <2>2. CASE r < q
    <3>1. RowTop(area, r) + RowHeight(area) <= RowTop(area, q) BY <1>1, <1>4, <2>2, RowsBelow
    <3>. QED BY <1>2, <1>3, <2>1, <3>1
  <2>3. CASE q < r
    <3>1. RowTop(area, q) + RowHeight(area) <= RowTop(area, r) BY <1>1, <1>4, <2>3, RowsBelow
    <3>. QED BY <1>2, <1>3, <2>1, <3>1
  <2>. QED BY <1>1, <2>2, <2>3
<1>6. /\ p.x + p.width <= size.width /\ p.y + p.height <= size.height
      /\ o.x + o.width <= size.width /\ o.y + o.height <= size.height
  BY <1>2, <1>3, <1>4
<1>7. Seen(r, look) = Clip(p, size.width, size.height) /\ Seen(q, l) = Clip(o, size.width, size.height)
  BY <1>2, <1>3 DEF Seen
<1>8. CASE p.width > 0 /\ p.height > 0 /\ o.width > 0 /\ o.height > 0
  <2>1. Seen(r, look) = p /\ Seen(q, l) = o BY <1>4, <1>6, <1>7, <1>8, ClipInside
  <2>. QED BY <1>5, <2>1 DEF Meet
<1>9. CASE ~(p.width > 0 /\ p.height > 0)
  <2>1. Seen(r, look).width = 0 \/ Seen(r, look).height = 0 BY <1>4, <1>6, <1>7, <1>9, ClipInside
  <2>. QED BY <2>1 DEF Meet
<1>10. CASE ~(o.width > 0 /\ o.height > 0)
  <2>1. Seen(q, l).width = 0 \/ Seen(q, l).height = 0 BY <1>4, <1>6, <1>7, <1>10, ClipInside
  <2>. QED BY <2>1 DEF Meet
<1>. QED BY <1>8, <1>9, <1>10

\* A row that is drawn shows the one look and nothing of the other.
LEMMA RowDrawn ==
  ASSUME TypeInv, RowsInv, DrawingInv, pc \in {"build", "loop", "wait"},
         NEW r \in 0 .. menuCount - 1, NEW look \in Looks, NEW old \in OnScreen
  PROVE  DrawRow(r, look, old) = Shown(rows[r].slot, look)
<1>1. CASE Text BY <1>1 DEF DrawRow, DrawTextRow, Shown
<1>2. CASE ~Text
  <2>1. IsImage(LabelOf(r, look)) BY <1>2 DEF DrawingInv, Drawable, LabelOf
  <2>2. \A l \in old.looks : l \in Looks \cup {"other"} BY OnScreenIs
  <2>3. \A l \in old.looks : Cleans(r, look, l) BY <1>2, <2>2, LabelsCleaned
  <2>4. {l \in old.looks : ~Cleans(r, look, l)} \cup Blit(look) = {look}
    BY <1>2, <2>3 DEF Blit, DrawingInv
  <2>. QED BY <1>2, <2>1, <2>4 DEF DrawRow, DrawImageRow, Shown
<1>. QED BY <1>1, <1>2

\* And nothing else on the screen changes.
LEMMA ScreenDrawn ==
  ASSUME TypeInv, RowsInv, DrawingInv, pc \in {"build", "loop", "wait"},
         NEW r \in 0 .. menuCount - 1, NEW look \in Looks, NEW scr \in [Rows -> OnScreen]
  PROVE  Draw(scr, r, look) = [scr EXCEPT ![r] = Shown(rows[r].slot, look)]
<1>1. r \in Rows BY Bounds DEF Rows, TypeInv, TypeOK
<1>2. DrawRow(r, look, scr[r]) = Shown(rows[r].slot, look) BY <1>1, RowDrawn
<1>3. ASSUME NEW q \in Rows, q # r
      PROVE  [scr[q] EXCEPT !.looks = @ \cup IF Spoils(r, look, q) THEN {"other"} ELSE {}] = scr[q]
  <2>1. ~Spoils(r, look, q) BY RowsDoNotMeet
  <2>2. scr[q] \in OnScreen OBVIOUS
  <2>. QED BY <2>1, <2>2, OnScreenIs
<1>. QED BY <1>1, <1>2, <1>3 DEF Draw

LEMMA NewRowDrawn ==
  ASSUME TypeInv, RowsInv, DrawingInv, pc = "build", NEW r \in 0 .. menuCount - 1
  PROVE  DrawNew(r) = Shown(rows[r].slot, LookOf(r))
<1>1. r \in Rows /\ screen[r] \in OnScreen BY Bounds DEF Rows, TypeInv, TypeOK, OnScreen
<1>2. \A q : LookOf(q) \in Looks BY DEF LookOf, Looks
<1>3. DrawRow(r, LookOf(r), screen[r]) = Shown(rows[r].slot, LookOf(r)) BY <1>1, <1>2, RowDrawn
<1>4. \A q \in 0 .. menuCount - 1 : ~Spoils(q, LookOf(q), r) BY <1>1, <1>2, RowsDoNotMeet
<1>5. [Shown(rows[r].slot, LookOf(r)) EXCEPT !.looks = @ \cup {}] = Shown(rows[r].slot, LookOf(r))
  BY DEF Shown
<1>. QED BY <1>3, <1>4, <1>5 DEF DrawNew

LEMMA DrawingInvInitFrontend ==
  ASSUME Fits, TypeInv, RowsInv, ImagesInv, InitFrontend
  PROVE  DrawingInv'
<1>1. /\ menuCount' = 0 /\ display' = display /\ file' = file /\ assets /\ file \in AssetsFiles
      /\ display \in Displays
  BY DEF InitFrontend, RowsInv, Reading, ImagesInv, WithAssets, TypeInv, TypeOK
<1>. DEFINE image == AssetSection(file, ".backgnd")
            given == AssetSection(file, ".area")
<1>. SUFFICES ASSUME (~Text)', pc' = "build" PROVE DrawingInv'
  BY DEF DrawingInv, InitFrontend
<1>2. ~Text /\ display.kind = "graphical" BY <1>1, DisplayIsSized DEF Text
<1>3. background' = (IF IsImage(image) THEN image ELSE Empty) BY <1>1, <1>2 DEF InitFrontend, asset_section
<1>4. SetDisplayMode /\ area' = WorkArea(given, size'.width, size'.height)
  <2>1. pc' # "returned" OBVIOUS
  <2>. QED BY <1>1, <1>2, <2>1 DEF InitFrontend, InitGraphics, asset_section
<1>5. IsImage(image) => image.holds.width \in Nat /\ image.holds.height \in Nat
  <2>1. ".backgnd" \in Images /\ (IsImage(image) => image # Empty) BY DEF Images, IsImage, Empty
  <2>. QED BY <1>1, <2>1, ImageSize
<1>. DEFINE sizes == {[width |-> display.width, height |-> display.height]} \cup
                     (IF IsImage(image)
                      THEN {[width |-> image.holds.width, height |-> image.holds.height]} \cap display.modes
                      ELSE {})
<1>6. size' \in sizes BY <1>3, <1>4 DEF SetDisplayMode
<1>7. /\ display.paints
      /\ \A s \in sizes :
           LET a == WorkArea(given, s.width, s.height)
           IN /\ IsImage(image) => OnBackground(a, image)
              /\ \A n \in Slots :
                   LET row == ImagesOfSlot(file, n)
                   IN IsImage(row.plain) /\ IsImage(row.bar) => LabelsFit(row, a)
  BY <1>2 DEF Fits, MenuFits, ImagesOfSlot
<1>. HIDE DEF sizes, given, image
<1>8. /\ IsImage(image) => OnBackground(area', image)
      /\ \A n \in Slots :
           LET row == ImagesOfSlot(file, n)
           IN IsImage(row.plain) /\ IsImage(row.bar) => LabelsFit(row, area')
  BY <1>4, <1>6, <1>7
<1>. QED BY <1>1, <1>3, <1>5, <1>7, <1>8 DEF DrawingInv

LEMMA DrawingInvBuildSlot ==
  ASSUME TypeInv, ImagesInv, DrawingInv, BuildSlot
  PROVE  DrawingInv'
<1>. SUFFICES ASSUME ~Text
              PROVE  \A r \in 0 .. menuCount' - 1 : Drawable(rows'[r], area)
  BY DEF BuildSlot, DrawingInv, Text
<1>. DEFINE row == RowOf(slot)
            n == menuCount
<1>1. n \in Nat /\ n < slot /\ slot \in Slots /\ SlotCount \in Nat /\ rows \in [Rows -> Row]
  BY Bounds DEF BuildSlot, TypeInv, TypeOK, Row
<1>2. \A r \in 0 .. n : r \in Rows BY <1>1 DEF Rows, Slots
<1>3. \A r \in 0 .. n - 1 : Drawable(rows[r], area) BY DEF DrawingInv, BuildSlot
<1>4. \/ menuCount' = n /\ rows' \in {rows, [rows EXCEPT ![n] = row]}
      \/ menuCount' = n + 1 /\ rows' = [rows EXCEPT ![n] = row] /\ TakesRow(row, n)
  BY DEF BuildSlot
<1>5. TakesRow(row, n) => Drawable(row, area)
  <2>. SUFFICES ASSUME TakesRow(row, n) PROVE Drawable(row, area)
    OBVIOUS
  <2>1. assets BY DEF ImagesInv, WithAssets, BuildSlot
  <2>2. row.plain = ImagesOfSlot(file, slot).plain /\ row.bar = ImagesOfSlot(file, slot).bar
    BY <2>1 DEF RowOf, ImageRow, asset_section, ImagesOfSlot
  <2>3. IsImage(row.plain) /\ IsImage(row.bar) BY DEF TakesRow
  <2>. HIDE DEF row
  <2>4. LabelsFit(ImagesOfSlot(file, slot), area) BY <1>1, <2>2, <2>3 DEF DrawingInv, BuildSlot
  <2>. QED BY <2>2, <2>3, <2>4 DEF Drawable, LabelsFit
<1>. HIDE DEF row, n
<1>6. CASE menuCount' = n
  <2>1. \A r \in 0 .. n - 1 : rows'[r] = rows[r] BY <1>1, <1>2, <1>4, <1>6
  <2>. QED BY <1>3, <1>6, <2>1
<1>7. CASE menuCount' = n + 1
  <2>1. rows' = [rows EXCEPT ![n] = row] /\ TakesRow(row, n) BY <1>1, <1>4, <1>7
  <2>2. \A r \in 0 .. n - 1 : rows'[r] = rows[r] BY <1>1, <1>2, <2>1
  <2>3. rows'[n] = row BY <1>1, <1>2, <2>1
  <2>4. \A r \in 0 .. n : r \in 0 .. n - 1 \/ r = n BY <1>1
  <2>5. 0 .. menuCount' - 1 = 0 .. n BY <1>1, <1>7
  <2>. QED BY <1>3, <1>5, <2>1, <2>2, <2>3, <2>4, <2>5
<1>. QED BY <1>4, <1>6, <1>7

LEMMA DrawingInvNext ==
  Fits /\ TypeInv /\ ImagesInv /\ RowsInv /\ DrawingInv /\ [Next]_vars => DrawingInv'
<1>. SUFFICES ASSUME Fits, TypeInv, ImagesInv, RowsInv, DrawingInv, [Next]_vars
              PROVE  DrawingInv'
  OBVIOUS
<1>1. CASE InitFrontend BY <1>1, DrawingInvInitFrontend
<1>2. CASE BuildSlot BY <1>2, DrawingInvBuildSlot
<1>3. CASE DrawMenu \/ StartLoop \/ HandleKey \/ TimedOut \/ Press \/ Expire
  <2>1. /\ UNCHANGED <<file, display, menuCount, rows, background, area>>
        /\ pc' \in {"build", "loop", "wait"} => pc \in {"build", "loop", "wait"}
    BY <1>3 DEF DrawMenu, StartLoop, HandleKey, TimedOut, Press, Expire, Fail
  <2>. QED BY <2>1 DEF DrawingInv, Text
<1>4. CASE UNCHANGED vars BY <1>4 DEF vars, DrawingInv, Text
<1>5. CASE \/ Start \/ LoadAssets \/ CheckAssets \/ ReadMok \/ ReadConfig \/ UnloadAssets
           \/ InstallTable \/ LoadUki \/ StartUki \/ UkiReturns \/ ShowError \/ Acknowledge
  <2>1. pc' \notin {"build", "loop", "wait"}
    <3>1. CASE ~ShowError
      BY <1>5, <3>1 DEF Start, LoadAssets, CheckAssets, ReadMok, ReadConfig, UnloadAssets,
         InstallTable, LoadUki, StartUki, UkiReturns, Acknowledge, FileDevicePath, LoadImage, Fail
    <3>2. CASE ShowError
      <4>1. pc' \in {"acknowledge", "crashed"} BY <3>2, Zenon DEF ShowError
      <4>. QED BY <4>1
    <3>. QED BY <3>1, <3>2
  <2>. QED BY <2>1 DEF DrawingInv
<1>. QED BY <1>1, <1>2, <1>3, <1>4, <1>5 DEF Next, Program

LEMMA ScreenInvMove ==
  ASSUME TypeInv, RowsInv, DrawingInv, ScreenInv, pc = "wait",
         NEW r \in 0 .. menuCount - 1, MoveTo(r), r # selected, UNCHANGED <<rows, menuCount>>
  PROVE  screen' = MenuScreen' /\ selected' < menuCount'
<1>1. /\ showing = "menu" /\ selected \in 0 .. menuCount - 1 /\ r \in Rows /\ selected \in Rows
      /\ menuCount \in Nat /\ selected < menuCount /\ r < menuCount
  BY Bounds DEF ScreenInv, MenuUp, Booting, TypeInv, TypeOK, Rows
<1>. DEFINE scr == Draw(screen, selected, "plain")
<1>2. scr = [screen EXCEPT ![selected] = Shown(rows[selected].slot, "plain")]
      /\ scr \in [Rows -> OnScreen]
  <2>1. screen \in [Rows -> OnScreen] BY DEF TypeInv, TypeOK, OnScreen
  <2>2. scr = [screen EXCEPT ![selected] = Shown(rows[selected].slot, "plain")]
    BY <1>1, <2>1, ScreenDrawn DEF Looks
  <2>3. scr \in [Rows -> OnScreen] BY <1>1, <2>1, DrawIsOnScreen DEF Looks, TypeInv
  <2>. QED BY <2>2, <2>3
<1>3. Draw(scr, r, "bar") = [scr EXCEPT ![r] = Shown(rows[r].slot, "bar")]
  <2>. HIDE DEF scr
  <2>. QED BY <1>1, <1>2, ScreenDrawn DEF Looks
<1>4. screen' = [MenuScreen EXCEPT ![selected] = Shown(rows[selected].slot, "plain"),
                                   ![r] = Shown(rows[r].slot, "bar")]
      /\ selected' = r
  BY <1>1, <1>2, <1>3 DEF MoveTo, ScreenInv
<1>5. ASSUME NEW q \in Rows
      PROVE  screen'[q] = MenuScreen'[q]
  <2>1. MenuScreen[q] = IF q < menuCount THEN Shown(rows[q].slot, LookOf(q)) ELSE Blank
    BY DEF MenuScreen
  <2>2. MenuScreen'[q] = IF q < menuCount THEN Shown(rows[q].slot, LookOf(q)') ELSE Blank
    BY DEF MenuScreen
  <2>3. CASE q = r BY <1>1, <1>4, <2>2, <2>3 DEF LookOf, MenuScreen
  <2>4. CASE q = selected BY <1>1, <1>4, <2>2, <2>4 DEF LookOf, MenuScreen
  <2>5. CASE q # r /\ q # selected
    <3>1. LookOf(q)' = "plain" /\ LookOf(q) = "plain" BY <1>4, <2>5 DEF LookOf
    <3>2. screen'[q] = MenuScreen[q] BY <1>1, <1>4, <2>5 DEF MenuScreen
    <3>. QED BY <2>1, <2>2, <3>1, <3>2
  <2>. QED BY <2>3, <2>4, <2>5
<1>6. screen' = [q \in Rows |-> screen'[q]] BY <1>4 DEF MenuScreen
<1>7. MenuScreen' = [q \in Rows |-> MenuScreen'[q]] BY DEF MenuScreen
<1>. QED BY <1>1, <1>4, <1>5, <1>6, <1>7

LEMMA ScreenInvNext ==
  TypeInv /\ RowsInv /\ DrawingInv /\ ScreenInv /\ [Next]_vars => ScreenInv'
<1>. SUFFICES ASSUME TypeInv, RowsInv, DrawingInv, ScreenInv, [Next]_vars
              PROVE  ScreenInv'
  OBVIOUS
<1>. USE DEF Reading, MenuUp, Booting
<1>0. menuCount \in Nat /\ menuCount <= SlotCount /\ selected \in Nat
  BY Bounds DEF TypeInv, TypeOK, Rows
<1>1. CASE HandleKey
  <2>1. pc = "wait" /\ pc' \in {"wait", "unload"} /\ UNCHANGED <<showing, rows, menuCount>>
    BY <1>1 DEF HandleKey
  <2>2. screen' = MenuScreen' /\ selected' < menuCount'
    <3>1. CASE UNCHANGED <<screen, selected>> BY <2>1, <3>1 DEF ScreenInv, MenuScreen, LookOf
    <3>2. CASE selected # 0 /\ MoveTo(selected - 1)
      <4>1. selected - 1 \in 0 .. menuCount - 1 /\ selected - 1 # selected
        BY <1>0, <2>1, <3>2 DEF ScreenInv
      <4>. QED BY <2>1, <3>2, <4>1, ScreenInvMove
    <3>3. CASE selected + 1 < menuCount /\ MoveTo(selected + 1)
      <4>1. selected + 1 \in 0 .. menuCount - 1 /\ selected + 1 # selected BY <1>0, <3>3
      <4>. QED BY <2>1, <3>3, <4>1, ScreenInvMove
    <3>4. selected + 1 >= menuCount \/ selected + 1 < menuCount BY <1>0
    <3>. QED BY <1>1, <3>1, <3>2, <3>3, <3>4 DEF HandleKey, up, down
  <2>. QED BY <2>1, <2>2 DEF ScreenInv
<1>2. CASE DrawMenu
  <2>1. /\ pc = "build" /\ showing = "firmware" /\ selected = 0 /\ screen = ClearScreen
        /\ selected' = selected
    BY <1>2 DEF DrawMenu, ScreenInv
  <2>2. CASE Fail("not_found") /\ UNCHANGED shown
    BY <2>1, <2>2 DEF Fail, ScreenInv, ClearScreen
  <2>3. CASE menuCount > 0 /\ pc' = "loop"
    <3>1. /\ showing' = "menu" /\ UNCHANGED <<menuCount, rows>>
          /\ screen' = [r \in Rows |-> IF r >= menuCount THEN screen[r] ELSE DrawNew(r)]
      BY <1>2, <2>3 DEF DrawMenu, Fail
    <3>2. \A r \in 0 .. menuCount - 1 : DrawNew(r) = Shown(rows[r].slot, LookOf(r))
      BY <2>1, NewRowDrawn
    <3>3. screen' = MenuScreen'
      <4>1. \A r \in Rows : LookOf(r)' = LookOf(r) BY <2>1 DEF LookOf
      <4>2. MenuScreen' = [r \in Rows |-> IF r < menuCount THEN Shown(rows[r].slot, LookOf(r)) ELSE Blank]
        BY <3>1, <4>1 DEF MenuScreen
      <4>3. \A r \in Rows : screen[r] = Blank BY <2>1 DEF ClearScreen
      <4>4. ASSUME NEW r \in Rows
            PROVE  (IF r >= menuCount THEN screen[r] ELSE DrawNew(r))
                     = (IF r < menuCount THEN Shown(rows[r].slot, LookOf(r)) ELSE Blank)
        <5>1. r \in Nat /\ menuCount \in Nat BY <1>0 DEF Rows
        <5>2. CASE r < menuCount
          <6>1. r \in 0 .. menuCount - 1 /\ ~(r >= menuCount) BY <5>1, <5>2
          <6>. QED BY <3>2, <5>2, <6>1
        <5>3. CASE ~(r < menuCount)
          <6>1. r >= menuCount BY <5>1, <5>3
          <6>. QED BY <4>3, <5>3, <6>1
        <5>. QED BY <5>2, <5>3
      <4>. QED BY <3>1, <4>2, <4>4, Zenon
    <3>. QED BY <1>0, <2>1, <2>3, <3>1, <3>3 DEF ScreenInv
  <2>. QED BY <1>2, <2>2, <2>3 DEF DrawMenu
<1>3. CASE ShowError
  <2>1. CASE display.console
    BY <1>3, <2>1 DEF ShowError, Clear, ScreenInv, ClearScreen
  <2>2. CASE ~display.console
    <3>1. pc = "fail" /\ pc' = "crashed" /\ UNCHANGED <<screen, showing, selected, rows, menuCount>>
      BY <1>3, <2>2 DEF ShowError
    <3>. QED BY <3>1 DEF ScreenInv, ClearScreen, MenuScreen, LookOf
  <2>. QED BY <2>1, <2>2
<1>4. CASE BuildSlot
  <2>1. pc = "build" /\ UNCHANGED <<pc, selected, screen, showing>> BY <1>4 DEF BuildSlot
  <2>. QED BY <2>1 DEF ScreenInv, ClearScreen
<1>5. CASE UnloadAssets
  <2>1. pc = "unload" /\ pc' = "install" /\ UNCHANGED <<selected, screen, showing, menuCount>>
    BY <1>5 DEF UnloadAssets
  <2>2. \A r \in Rows : rows'[r].slot = rows[r].slot
    <3>1. \A r \in Rows : rows[r] \in Row BY DEF TypeInv, TypeOK, Row
    <3>2. \/ rows' = rows
          \/ rows' = [r \in Rows |-> [rows[r] EXCEPT !.plain = Empty, !.bar = Empty]]
      BY <1>5 DEF UnloadAssets, release_assets
    <3>. QED BY <3>1, <3>2 DEF Row
  <2>. QED BY <2>1, <2>2 DEF ScreenInv, MenuScreen, LookOf
<1>6. CASE InitFrontend
  <2>1. pc = "init" /\ pc' \in {"build", "returned"} /\ UNCHANGED <<selected, screen, showing>>
    BY <1>6, Zenon DEF InitFrontend
  <2>. QED BY <2>1 DEF ScreenInv, ClearScreen
<1>7. CASE Start \/ LoadAssets \/ CheckAssets \/ ReadMok \/ ReadConfig
  <2>1. pc \in Reading /\ pc' \in Reading \cup {"fail", "returned"} /\ UNCHANGED <<selected,
                                                                                   screen, showing>>
    BY <1>7 DEF Start, LoadAssets, CheckAssets, ReadMok, ReadConfig, FileDevicePath, LoadImage, Fail
  <2>. QED BY <2>1 DEF ScreenInv, ClearScreen
<1>8. CASE \/ StartLoop \/ TimedOut \/ InstallTable \/ LoadUki \/ StartUki \/ UkiReturns
  <2>1. /\ pc \in MenuUp /\ pc' \in MenuUp \cup {"fail"}
        /\ UNCHANGED <<selected, screen, showing, rows, menuCount>>
    BY <1>8 DEF StartLoop, TimedOut, InstallTable, LoadUki, StartUki, UkiReturns, FileDevicePath,
                LoadImage, Fail
  <2>. QED BY <2>1 DEF ScreenInv, MenuScreen, LookOf
<1>9. CASE Press \/ Expire \/ UNCHANGED vars
  BY <1>9 DEF Press, Expire, vars, ScreenInv, MenuScreen, ClearScreen, LookOf
<1>10. CASE Acknowledge
  <2>1. pc = "acknowledge" /\ pc' = "returned" /\ UNCHANGED <<selected, screen, showing, rows,
                                                              menuCount>>
    BY <1>10 DEF Acknowledge
  <2>. QED BY <2>1 DEF ScreenInv, MenuScreen, ClearScreen, LookOf
<1>. QED BY <1>1, <1>2, <1>3, <1>4, <1>5, <1>6, <1>7, <1>8, <1>9, <1>10 DEF Next, Program
\* All of it: what the proofs of the highlight and of the menu rest on.
Inv == TypeInv /\ ImagesInv /\ RowsInv /\ EntriesInv /\ DrawingInv /\ ScreenInv

LEMMA InvInit == Init => Inv
<1>. SUFFICES ASSUME Init PROVE Inv
  OBVIOUS
<1>1. menuCount = 0 /\ selected = 0 /\ pc = "start" /\ showing = "firmware" /\ screen = ClearScreen
  BY DEF Init, ClearScreen
<1>2. EntriesInv BY <1>1 DEF EntriesInv
<1>3. DrawingInv BY <1>1 DEF DrawingInv
<1>4. ScreenInv BY <1>1 DEF ScreenInv, MenuUp, Booting, Reading
<1>. QED BY <1>2, <1>3, <1>4, TypeInvInit, ImagesInvInit, RowsInvInit DEF Inv

LEMMA MachineStays == [Next]_vars => UNCHANGED <<file, display>>
<1>. SUFFICES ASSUME [Next]_vars PROVE UNCHANGED <<file, display>>
  OBVIOUS
<1>1. CASE Start \/ LoadAssets \/ CheckAssets \/ ReadMok \/ ReadConfig \/ InitFrontend
  BY <1>1 DEF Start, LoadAssets, CheckAssets, ReadMok, ReadConfig, InitFrontend
<1>2. CASE BuildSlot \/ DrawMenu \/ StartLoop \/ HandleKey \/ TimedOut \/ UnloadAssets
  BY <1>2 DEF BuildSlot, DrawMenu, StartLoop, HandleKey, TimedOut, UnloadAssets
<1>3. CASE InstallTable \/ LoadUki \/ StartUki \/ ShowError \/ Acknowledge
  BY <1>3 DEF InstallTable, LoadUki, StartUki, ShowError, Acknowledge
<1>4. CASE UkiReturns \/ Press \/ Expire BY <1>4 DEF UkiReturns, Press, Expire
<1>5. CASE UNCHANGED vars BY <1>5 DEF vars
<1>. QED BY <1>1, <1>2, <1>3, <1>4, <1>5 DEF Next, Program

\* The machine stays as it is, and so the menu goes on to fit.
LEMMA FitsNext == Fits /\ [Next]_vars => Fits'
BY MachineStays DEF Fits

LEMMA InvNext == Fits /\ Inv /\ [Next]_vars => Inv'
BY TypeInvNext, ImagesInvNext, RowsInvNext, EntriesInvNext, DrawingInvNext, ScreenInvNext DEF Inv

LEMMA ShownIsShown ==
  ASSUME NEW s, NEW look
  PROVE  Shown(s, look).slot = s /\ Shown(s, look).looks = {look}
BY DEF Shown

LEMMA DrawnRows ==
  ASSUME Inv, showing = "menu"
  PROVE  /\ Drawn = 0 .. menuCount - 1
         /\ \A r \in 0 .. menuCount - 1 : screen[r] = Shown(rows[r].slot, LookOf(r))
<1>1. screen = MenuScreen /\ menuCount \in Nat /\ menuCount <= SlotCount /\ SlotCount \in Nat
  BY Bounds DEF Inv, ScreenInv, TypeInv, TypeOK
<1>2. \A r \in Rows : r \in 0 .. menuCount - 1 <=> r < menuCount BY <1>1 DEF Rows
<1>3. \A r \in 0 .. menuCount - 1 : r \in Rows BY <1>1 DEF Rows
<1>4. ASSUME NEW r \in Rows
      PROVE  /\ r < menuCount => screen[r] = Shown(rows[r].slot, LookOf(r))
             /\ ~(r < menuCount) => screen[r] = Blank
  BY <1>1 DEF MenuScreen
<1>5. \A s, look : Shown(s, look) # Blank
  <2>. SUFFICES ASSUME NEW s, NEW look PROVE Shown(s, look) # Blank
    OBVIOUS
  <2>1. Shown(s, look).looks = {look} /\ Blank.looks = {} BY DEF Shown, Blank
  <2>. QED BY <2>1
<1>6. Drawn = {r \in Rows : r < menuCount} BY <1>4, <1>5 DEF Drawn
<1>7. \A r \in 0 .. menuCount - 1 : screen[r] = Shown(rows[r].slot, LookOf(r)) BY <1>2, <1>3, <1>4
<1>. QED BY <1>2, <1>3, <1>6, <1>7

\* What is highlighted is what is selected, one row and no other, and each row has
\* the label of its own entry, on any display on which the menu fits.
THEOREM HighlightFollows == Spec /\ MenuFits(file, display) => []HighlightIsSelection
<1>1. Inv => HighlightIsSelection
  <2>. SUFFICES ASSUME Inv, showing = "menu", pc \notin {"fail", "crashed"}
                PROVE  /\ Drawn = 0 .. menuCount - 1 /\ selected \in Drawn
                       /\ \A r \in Drawn :
                            /\ screen[r].looks = IF r = selected THEN {"bar"} ELSE {"plain"}
                            /\ LET text == AssetSection(file, slot_sections[screen[r].slot])
                               IN IsSlot(text) /\ menu[r] = Entry(text)
                       /\ \A r \in Drawn : \A q \in Drawn : q < r => screen[q].slot < screen[r].slot
    BY DEF HighlightIsSelection
  <2>1. Drawn = 0 .. menuCount - 1 BY DrawnRows
  <2>2. selected \in Drawn
    BY <2>1, Bounds DEF Inv, ScreenInv, TypeInv, TypeOK, Rows
  <2>3. ASSUME NEW r \in Drawn
        PROVE  screen[r].slot = rows[r].slot /\ screen[r].looks = {LookOf(r)}
    <3>1. screen[r] = Shown(rows[r].slot, LookOf(r)) BY <2>1, DrawnRows
    <3>. QED BY <3>1, ShownIsShown
  <2>4. ASSUME NEW r \in Drawn PROVE EntryOfSlot(file, rows[r].slot, menu[r])
    BY <2>1 DEF Inv, EntriesInv
  <2>5. ASSUME NEW r \in Drawn, NEW q \in Drawn, q < r PROVE rows[q].slot < rows[r].slot
    <3>1. r \in 0 .. menuCount - 1 /\ q \in 0 .. r - 1 BY <2>1, <2>5
    <3>. QED BY <3>1 DEF Inv, EntriesInv
  <2>. QED BY <2>1, <2>2, <2>3, <2>4, <2>5 DEF LookOf, EntryOfSlot
<1>2. MenuFits(file, display) <=> Fits BY DEF Fits
<1>. QED BY <1>1, <1>2, FitsNext, InvInit, InvNext, PTL DEF Spec

-----------------------------------------------------------------------------
(* The boot menu                                                           *)

MenuOffered == showing = "menu" /\ ~GaveUp

RowsOffered ==
  /\ Offered = [i \in 1 .. menuCount |-> menu[i - 1]] /\ Highlighted = selected + 1
  /\ selected \in 0 .. menuCount - 1 /\ menuCount \in Nat
NothingOffered == Offered = <<>> /\ Highlighted = 0

\* The menu on the screen is the menu in the memory of the boot loader.
LEMMA OfferedRows ==
  ASSUME Inv, MenuOffered
  PROVE  RowsOffered
<1>1. showing = "menu" /\ menuCount \in Nat /\ menuCount <= SlotCount /\ SlotCount \in Nat
  BY Bounds DEF MenuOffered, Inv, TypeInv, TypeOK
<1>2. /\ Drawn = 0 .. menuCount - 1
      /\ \A r \in 0 .. menuCount - 1 : screen[r] = Shown(rows[r].slot, LookOf(r))
  BY <1>1, DrawnRows
<1>3. Cardinality(Drawn) = menuCount
  <2>1. Cardinality(0 .. menuCount - 1) = IF 0 > menuCount - 1 THEN 0 ELSE (menuCount - 1) - 0 + 1
    BY <1>1, FS_Interval
  <2>. QED BY <1>1, <1>2, <2>1
<1>4. ASSUME NEW i \in 1 .. menuCount
      PROVE  Entry(AssetSection(file, slot_sections[screen[i - 1].slot])) = menu[i - 1]
  <2>1. i - 1 \in 0 .. menuCount - 1 BY <1>1
  <2>2. screen[i - 1].slot = rows[i - 1].slot BY <1>2, <2>1, ShownIsShown
  <2>3. EntryOfSlot(file, rows[i - 1].slot, menu[i - 1]) BY <2>1 DEF Inv, EntriesInv
  <2>. QED BY <2>2, <2>3 DEF EntryOfSlot
<1>5. selected \in 0 .. menuCount - 1 /\ selected \in Rows
  BY <1>1 DEF Inv, ScreenInv, TypeInv, TypeOK, Rows
<1>6. (CHOOSE r \in Rows : "bar" \in screen[r].looks) = selected
  <2>1. \A r \in 0 .. menuCount - 1 : screen[r].looks = {LookOf(r)} BY <1>2, ShownIsShown
  <2>2. "bar" \in screen[selected].looks BY <1>5, <2>1 DEF LookOf
  <2>3. ASSUME NEW r \in Rows, "bar" \in screen[r].looks PROVE r = selected
    <3>1. CASE r \in 0 .. menuCount - 1 BY <2>1, <2>3, <3>1 DEF LookOf
    <3>2. CASE r \notin 0 .. menuCount - 1
      <4>1. screen[r] = Blank BY <1>2, <3>2 DEF Drawn
      <4>. QED BY <2>3, <4>1 DEF Blank
    <3>. QED BY <3>1, <3>2
  <2>. QED BY <1>5, <2>2, <2>3
<1>7. Offered = [i \in 1 .. Cardinality(Drawn) |-> Entry(AssetSection(file, slot_sections[screen[i - 1].slot]))]
  BY DEF Offered, MenuOffered
<1>8. Offered = [i \in 1 .. menuCount |-> menu[i - 1]]
  BY <1>3, <1>4, <1>7
<1>9. Highlighted = selected + 1
  <2>1. Highlighted = 1 + selected BY <1>6 DEF Highlighted, MenuOffered
  <2>. QED BY <1>1, <1>5, <2>1
<1>. QED BY <1>1, <1>5, <1>8, <1>9 DEF RowsOffered

LEMMA OfferedIs ==
  /\ Inv /\ MenuOffered => RowsOffered
  /\ ~MenuOffered => NothingOffered
<1>1. Inv /\ MenuOffered => RowsOffered BY OfferedRows
<1>2. ~MenuOffered => NothingOffered BY DEF MenuOffered, NothingOffered, Offered, Highlighted
<1>. QED BY <1>1, <1>2

LEMMA OfferedIsNext ==
  /\ Inv' /\ MenuOffered' => RowsOffered'
  /\ ~MenuOffered' => NothingOffered'
BY OfferedIs, PTL

\* Steps that change nothing of what the menu offers.
LEMMA MenuStutters ==
  ASSUME Inv, Inv', MenuOffered' <=> MenuOffered, GaveUp' <=> GaveUp, running' = running,
         MenuOffered => UNCHANGED <<menu, menuCount, selected>>
  PROVE  UNCHANGED <<Offered, Highlighted, running, GaveUp>>
<1>1. GaveUp' = GaveUp
  <2>1. GaveUp \in BOOLEAN /\ GaveUp' \in BOOLEAN BY DEF GaveUp
  <2>. QED BY <2>1, Zenon
<1>2. CASE MenuOffered
  <2>1. RowsOffered /\ RowsOffered' BY <1>2, OfferedIs, OfferedIsNext
  <2>. QED BY <1>1, <1>2, <2>1 DEF RowsOffered
<1>3. CASE ~MenuOffered
  <2>1. NothingOffered /\ NothingOffered' BY <1>3, OfferedIs, OfferedIsNext
  <2>. QED BY <1>1, <2>1 DEF NothingOffered
<1>. QED BY <1>2, <1>3
MenuStep == [Menu!Next]_(Menu!vars)

LEMMA StutterIsMenuStep ==
  ASSUME UNCHANGED <<Offered, Highlighted, running, GaveUp>>
  PROVE  MenuStep
BY DEF MenuStep, Menu!vars

\* A step that gives up takes the menu away.
LEMMA GivingUpIsMenuStep ==
  ASSUME ~GaveUp, GaveUp', running' = <<>>
  PROVE  MenuStep
<1>1. NothingOffered' BY OfferedIsNext DEF MenuOffered
<1>2. GaveUp' = TRUE
  <2>1. GaveUp' \in BOOLEAN BY DEF GaveUp
  <2>. QED BY <2>1, Zenon
<1>. QED BY <1>1, <1>2 DEF NothingOffered, MenuStep, Menu!Next, Menu!GiveUp

LEMMA DrawMenuIsMenuStep ==
  ASSUME Inv, Inv', DrawMenu
  PROVE  MenuStep
<1>. USE DEF MenuUp, Booting, Reading
<1>1. /\ pc = "build" /\ showing = "firmware" /\ running' = running /\ running = <<>>
      /\ UNCHANGED <<menu, menuCount, selected>> /\ selected = 0
  BY DEF DrawMenu, Inv, ScreenInv, ImagesInv
<1>2. ~GaveUp /\ ~MenuOffered BY <1>1 DEF GaveUp, MenuOffered
<1>3. CASE pc' = "fail" BY <1>1, <1>2, <1>3, GivingUpIsMenuStep DEF GaveUp
<1>4. CASE pc' = "loop" /\ showing' = "menu" /\ menuCount > 0
  <2>1. ~GaveUp' /\ MenuOffered' BY <1>4 DEF GaveUp, MenuOffered
  <2>2. RowsOffered' /\ NothingOffered BY <1>2, <2>1, OfferedIs, OfferedIsNext
  <2>3. Offered' = [i \in 1 .. menuCount |-> menu[i - 1]] /\ Highlighted' = 1 /\ menuCount \in Nat
    BY <1>1, <2>2 DEF RowsOffered
  <2>4. \A i \in 1 .. menuCount : menu[i - 1] \in MenuEntries \ {Torn}
    <3>1. \A i \in 1 .. menuCount : i - 1 \in 0 .. menuCount - 1 BY <2>3
    <3>. QED BY <3>1 DEF Inv, EntriesInv, EntryOfSlot
  <2>5. Offered' \in Seq(MenuEntries \ {Torn}) /\ Offered' # <<>>
    BY <1>4, <2>3, <2>4
  <2>6. GaveUp' = GaveUp
    <3>1. GaveUp' \in BOOLEAN /\ GaveUp \in BOOLEAN BY DEF GaveUp
    <3>. QED BY <1>2, <2>1, <3>1, Zenon
  <2>7. Menu!Offer BY <1>1, <1>2, <2>2, <2>3, <2>5, <2>6 DEF Menu!Offer, NothingOffered
  <2>. QED BY <2>7 DEF MenuStep, Menu!Next
<1>. QED BY <1>3, <1>4 DEF DrawMenu, Fail

LEMMA NextRow ==
  ASSUME NEW s \in Nat, NEW t \in Nat, NEW n \in Nat, t \in 0 .. n - 1, t \in {s - 1, s + 1}
  PROVE  t + 1 \in {(s + 1) - 1, (s + 1) + 1} \cap (1 .. n)
OBVIOUS

LEMMA HandleKeyIsMenuStep ==
  ASSUME Inv, Inv', HandleKey
  PROVE  MenuStep
<1>. USE DEF MenuUp, Booting, Reading
<1>1. /\ pc = "wait" /\ pc' \in {"wait", "unload"} /\ showing = "menu" /\ showing' = "menu"
      /\ UNCHANGED <<menu, menuCount, running>> /\ running = <<>>
  BY DEF HandleKey, Inv, ScreenInv, ImagesInv
<1>2. ~GaveUp /\ ~GaveUp' /\ MenuOffered /\ MenuOffered' BY <1>1 DEF GaveUp, MenuOffered
<1>3. RowsOffered /\ RowsOffered' BY <1>2, OfferedIs, OfferedIsNext
<1>4. GaveUp' = GaveUp
  <2>1. GaveUp' \in BOOLEAN /\ GaveUp \in BOOLEAN BY DEF GaveUp
  <2>. QED BY <1>2, <2>1, Zenon
<1>5. CASE selected' = selected BY <1>1, <1>2, <1>5, MenuStutters, StutterIsMenuStep
<1>6. CASE selected' \in {selected - 1, selected + 1}
  <2>1. Offered' = Offered /\ Highlighted = selected + 1 /\ Highlighted' = selected' + 1
        /\ selected \in 0 .. menuCount - 1 /\ selected' \in 0 .. menuCount - 1 /\ menuCount \in Nat
    BY <1>1, <1>3 DEF RowsOffered
  <2>2. Offered = [i \in 1 .. menuCount |-> menu[i - 1]] BY <1>3 DEF RowsOffered
  <2>. DEFINE n == menuCount
              entry(i) == menu[i - 1]
  <2>0. n \in Nat /\ n # 0 BY <2>1
  <2>. HIDE DEF n, entry
  <2>9. Offered = [i \in 1 .. n |-> entry(i)] BY <2>2 DEF n, entry
  <2>10. Len(Offered) = n /\ Offered # <<>> BY <2>0, <2>9
  <2>3. Len(Offered) = menuCount /\ Offered # <<>>
    BY <2>10 DEF n
  <2>4. Highlighted' \in {Highlighted - 1, Highlighted + 1} \cap (1 .. Len(Offered))
    <3>1. selected \in Nat /\ selected' \in Nat BY <2>1
    <3>2. selected' + 1 \in {(selected + 1) - 1, (selected + 1) + 1} \cap (1 .. menuCount)
      BY <1>6, <2>1, <3>1, NextRow
    <3>. QED BY <2>1, <2>3, <3>2, Zenon
  <2>5. Menu!Move BY <1>1, <1>4, <2>1, <2>3, <2>4 DEF Menu!Move
  <2>. QED BY <2>5 DEF MenuStep, Menu!Next
<1>7. selected' = selected \/ selected' \in {selected - 1, selected + 1}
  BY DEF HandleKey, up, down, MoveTo
<1>. QED BY <1>5, <1>6, <1>7

LEMMA StartUkiIsMenuStep ==
  ASSUME Inv, Inv', StartUki
  PROVE  MenuStep
<1>. USE DEF MenuUp, Booting, Reading
<1>1. /\ pc = "start_uki" /\ showing = "menu" /\ showing' = showing /\ running = <<>>
      /\ UNCHANGED <<menu, menuCount, selected>>
  BY DEF StartUki, Inv, ScreenInv, ImagesInv
<1>2. ~GaveUp /\ MenuOffered BY <1>1 DEF GaveUp, MenuOffered
<1>3. CASE pc' = "fail" /\ running' = running
  BY <1>1, <1>2, <1>3, GivingUpIsMenuStep DEF GaveUp
<1>4. CASE pc' = "running" /\ running' = <<menu[selected]>>
  <2>1. ~GaveUp' /\ MenuOffered' BY <1>1, <1>4 DEF GaveUp, MenuOffered
  <2>2. RowsOffered /\ RowsOffered' BY <1>2, <2>1, OfferedIs, OfferedIsNext
  <2>3. GaveUp' = GaveUp
    <3>1. GaveUp' \in BOOLEAN /\ GaveUp \in BOOLEAN BY DEF GaveUp
    <3>. QED BY <1>2, <2>1, <3>1, Zenon
  <2>4. Offered' = Offered /\ Highlighted' = Highlighted /\ Highlighted = selected + 1
        /\ selected \in 0 .. menuCount - 1 /\ menuCount \in Nat
        /\ Offered = [i \in 1 .. menuCount |-> menu[i - 1]]
    BY <1>1, <2>2 DEF RowsOffered
  <2>5. selected + 1 \in 1 .. menuCount /\ (selected + 1) - 1 = selected /\ 1 \in 1 .. menuCount
    BY <2>4
  <2>6. Offered[Highlighted] = menu[selected] /\ Offered # <<>>
    BY <2>4, <2>5
  <2>7. Menu!Start BY <1>1, <1>4, <2>3, <2>4, <2>6 DEF Menu!Start
  <2>. QED BY <2>7 DEF MenuStep, Menu!Next
<1>. QED BY <1>3, <1>4 DEF StartUki, Fail

\* Every other step gives up, goes on without touching the menu, or follows after
\* the boot loader gave up.
LEMMA OtherIsMenuStep ==
  ASSUME Inv, Inv', [Next]_vars, ~DrawMenu, ~HandleKey, ~StartUki
  PROVE  MenuStep
<1>. USE DEF MenuUp, Booting, Reading, GaveUp, MenuOffered
<1>1. CASE Start \/ LoadAssets \/ CheckAssets \/ ReadMok \/ ReadConfig \/ InitFrontend
  <2>1. /\ pc \in Reading /\ pc' \in Reading \cup {"build", "fail", "returned"}
        /\ running' = running /\ showing' = showing
    <3>1. CASE InitFrontend BY <3>1, Zenon DEF InitFrontend
    <3>2. CASE ~InitFrontend
      BY <1>1, <3>2 DEF Start, LoadAssets, CheckAssets, ReadMok, ReadConfig, FileDevicePath,
                        LoadImage, Fail
    <3>. QED BY <3>1, <3>2
  <2>2. running = <<>> /\ showing = "firmware" BY <2>1 DEF Inv, ImagesInv, ScreenInv
  <2>3. CASE pc' \in {"fail", "returned"} BY <2>1, <2>2, <2>3, GivingUpIsMenuStep
  <2>4. CASE pc' \notin {"fail", "returned"} BY <2>1, <2>2, <2>4, MenuStutters, StutterIsMenuStep
  <2>. QED BY <2>3, <2>4
<1>2. CASE BuildSlot
  <2>1. pc = "build" /\ pc' = pc /\ running' = running /\ showing' = showing BY <1>2 DEF BuildSlot
  <2>2. showing = "firmware" BY <2>1 DEF Inv, ScreenInv
  <2>. QED BY <2>1, <2>2, MenuStutters, StutterIsMenuStep
<1>3. CASE StartLoop \/ TimedOut \/ UnloadAssets \/ InstallTable \/ LoadUki \/ Press \/ Expire
  <2>1. UNCHANGED <<menu, menuCount, selected, running, showing>>
    BY <1>3 DEF StartLoop, TimedOut, UnloadAssets, InstallTable, LoadUki, Press, Expire
  <2>2. CASE Press \/ Expire BY <2>1, <2>2, MenuStutters, StutterIsMenuStep DEF Press, Expire
  <2>3. CASE ~Press /\ ~Expire
    <3>1. pc \in MenuUp \ {"running"} /\ pc' \in MenuUp \cup {"fail"}
      BY <1>3, <2>3 DEF StartLoop, TimedOut, UnloadAssets, InstallTable, LoadUki, FileDevicePath,
                        LoadImage, Fail
    <3>2. running = <<>> BY <3>1 DEF Inv, ImagesInv
    <3>3. CASE pc' = "fail" BY <2>1, <3>1, <3>2, <3>3, GivingUpIsMenuStep
    <3>4. CASE pc' # "fail" BY <2>1, <3>1, <3>4, MenuStutters, StutterIsMenuStep
    <3>. QED BY <3>3, <3>4
  <2>. QED BY <2>2, <2>3
<1>4. CASE UkiReturns
  <2>1. pc = "running" /\ pc' = "fail" /\ running' = <<>> BY <1>4 DEF UkiReturns, Fail
  <2>. QED BY <2>1, GivingUpIsMenuStep
<1>5. CASE ShowError \/ Acknowledge
  <2>1. GaveUp /\ GaveUp' /\ running' = running
    <3>1. CASE ShowError BY <3>1, Zenon DEF ShowError
    <3>2. CASE Acknowledge BY <3>2 DEF Acknowledge
    <3>. QED BY <1>5, <3>1, <3>2
  <2>. QED BY <2>1, MenuStutters, StutterIsMenuStep
<1>6. CASE UNCHANGED vars
  <2>1. UNCHANGED <<pc, showing, menu, menuCount, selected, running>> BY <1>6 DEF vars
  <2>. QED BY <2>1, MenuStutters, StutterIsMenuStep
<1>. QED BY <1>1, <1>2, <1>3, <1>4, <1>5, <1>6 DEF Next, Program

\* What the user sees is what is booted: for any assets.efi, any keys and any display
\* on which the menu fits, the boot loader implements the abstract menu.
THEOREM MenuImplemented == Spec /\ MenuFits(file, display) => ImplementsBootMenu
<1>1. Init => Menu!Init
  <2>. SUFFICES ASSUME Init PROVE Menu!Init
    OBVIOUS
  <2>1. ~MenuOffered BY DEF Init, MenuOffered
  <2>2. NothingOffered BY <2>1, OfferedIs
  <2>3. running = <<>> /\ ~GaveUp BY DEF Init, GaveUp
  <2>4. GaveUp = FALSE
    <3>1. GaveUp \in BOOLEAN BY DEF GaveUp
    <3>. QED BY <2>3, <3>1, Zenon
  <2>. QED BY <2>2, <2>3, <2>4 DEF Menu!Init, NothingOffered
<1>2. Inv /\ Inv' /\ [Next]_vars => [Menu!Next]_(Menu!vars)
  BY DrawMenuIsMenuStep, HandleKeyIsMenuStep, StartUkiIsMenuStep, OtherIsMenuStep DEF MenuStep
<1>3. MenuFits(file, display) <=> Fits BY DEF Fits
<1>. QED BY <1>1, <1>2, <1>3, FitsNext, InvInit, InvNext, PTL DEF Spec, ImplementsBootMenu, Menu!Spec
=============================================================================
