------------------------------- MODULE Dialog -------------------------------
(***************************************************************************)
(* hd-menu or hd-message, from its start to its exit: the input, the lock, *)
(* the theme, and then the loop of the window, which handles the events of *)
(* the compositor, the repeats of a held key and the pause in the typing,  *)
(* and draws frames into two buffers it shares with the compositor.        *)
(*                                                                         *)
(* Abstractions.  Sizes and scales are those of MC modules; what a frame   *)
(* shows is the selection, the rows it is scrolled to, the size and the    *)
(* scale.  The requests reach the compositor in the step that makes them.  *)
(* libwayland drops the events of a buffer that was destroyed.  The repeat *)
(* timer runs exactly while repeat_key is set: the code sets both at once. *)
(***************************************************************************)
EXTENDS DesktopLayout

CONSTANTS
  Inputs,       \* bound: the programs with their JSON, [program, text]
  Setups,       \* bound: the configurations and monitors there may be
  Sizes,        \* bound: the sizes the compositor gives the surface, <<width, height>>
  Scales,       \* bound: the scales it prefers
  Greetings,    \* bound: what the compositor first sends: a keymap, maybe a scale, a configure
  Keys,         \* bound: the keys that are pressed, for each program
  Keymap,       \* the keysyms of a key, <<plain, with Shift>>
  SingleKeys,   \* the keys that do not repeat in the keymap
  MaxEvents,    \* bound: the events besides the releases of buffers
  MaxUnread,    \* bound: the events that are on their way
  MaxRepeats,   \* bound: the expirations of the repeat timer between two reads
  MaxTyped      \* bound: the letters typed by repeats

Greeting ==
  [kind : {"keymap"}, readable : BOOLEAN] \cup [kind : {"scale"}, scale : Scales \cup {0}]
    \cup [kind : {"configure"}, size : Sizes]

ASSUME DialogAssumption ==
  /\ \A input \in Inputs : InputTyped(input.text.v)
  /\ \A setup \in Setups : SetupTyped(setup)
  /\ Greetings \subseteq Seq(Greeting)
  /\ MaxEvents \in Nat /\ MaxUnread \in Nat /\ MaxRepeats \in Nat /\ MaxTyped \in Nat
  /\ \A s \in Sizes : s \in Nat \X Nat
  /\ Scales \subseteq Nat

Buffers == 1 .. 2
NoBuffer == [made |-> FALSE, busy |-> FALSE, size |-> <<0, 0>>, scale |-> 0]
NoFrame == [selected |-> 0, scroll |-> 0, rows |-> 0, size |-> <<0, 0>>, scale |-> 0]
NoKey == "none"
NoSymbol == "none"
Choosing == {"Enter", "KpEnter"}
Letters == {"a", "b", "A", "B", "q", "Q"}

VARIABLES
  pc, exit,
  dialog, theme,            \* what was read; dialog.selected is where it starts
  lock,                     \* this process holds the lock of the program
  selected, scroll, rows,   \* rows and scroll are those of the last frame drawn
  typed, timer,             \* the timer of start_timer: "off", "armed" or "fired"
  result, running, printed,
  keymap, shift,            \* a keymap was read; Shift is down in its state
  repeat_key, repeat_rate, expired,
  configured, dirty, size, scale, buffers,
  surface,                  \* what was committed last
  lent,                     \* the buffers that the compositor has
  inbox, batch, polled, left,
  held,                     \* the keys that are down after the events read
  answers,                  \* the events that answer, in the order handled
  events

startup == <<dialog, theme, lock>>
view == <<selected, scroll, rows>>
typing == <<typed, timer>>
app == <<selected, typing, result, running, printed>>
keyboard == <<keymap, shift, repeat_key, repeat_rate, expired>>
geometry == <<configured, size, scale>>
frames == <<scroll, rows, dirty, buffers, surface, lent>>
loop == <<pc, exit, inbox, batch, polled, left>>
ghosts == <<held, answers, events>>
vars == <<pc, exit, startup, view, typing, result, running, printed, keyboard, geometry, dirty,
          buffers, surface, lent, inbox, batch, polled, left, ghosts>>

Menu == dialog.program = "menu"
Count == Len(dialog.items)

-----------------------------------------------------------------------------
(* Drawing.                                                                *)

\* A buffer is made at the size and scale the handler leaves.
Made(b) ==
  IF b.made THEN b ELSE [made |-> TRUE, busy |-> FALSE, size |-> size', scale |-> scale']

Draw(b, held_back) ==
  /\ rows' = IF Menu THEN MenuRows(dialog, theme, size'[2]) ELSE rows
  /\ scroll' = IF Menu THEN Scrolled(scroll, selected', rows') ELSE scroll
  /\ surface' = [selected |-> selected', scroll |-> scroll', rows |-> rows',
                 size |-> buffers'[b].size, scale |-> buffers'[b].scale]
  /\ lent' = held_back \cup {b}

\* draw_if_possible, for the buffers there are now: the first one that the
\* compositor does not have takes the frame. Buffers are made up to that one.
DrawIfPossible(due, current, held_back) ==
  LET drawable == configured' /\ due /\ size'[1] > 0 /\ size'[2] > 0
      free == {b \in Buffers : ~current[b].busy}
      first == CHOOSE b \in free : \A c \in free : b <= c
  IN \/ /\ drawable /\ free # {}
        /\ buffers' = [b \in Buffers |->
             IF b > first THEN current[b]
             ELSE [Made(current[b]) EXCEPT !.busy = (b = first) \/ current[b].busy]]
        /\ Draw(first, held_back)
        /\ dirty' = FALSE
     \/ /\ ~drawable \/ free = {}
        /\ dirty' = due
        /\ buffers' = current
        /\ lent' = held_back
        /\ UNCHANGED <<scroll, rows, surface>>

Redraw == DrawIfPossible(TRUE, buffers, lent)

\* New buffers, of which the compositor has none.
DestroyBuffersAndRedraw == DrawIfPossible(TRUE, [b \in Buffers |-> NoBuffer], {})
Keep(kept, e) == IF e.kind = "release" THEN kept ELSE Append(kept, e)
WithoutReleases(queue) == FoldLeft(Keep, <<>>, queue)

-----------------------------------------------------------------------------
(* The App of each program: a key, going by its code or its keysym.        *)

keysym(k) == IF keymap THEN Keymap[k][IF shift THEN 2 ELSE 1] ELSE NoSymbol

MenuTargets ==
  [Up |-> selected - 1, Down |-> selected + 1, Tab |-> selected + 1,
   PageUp |-> selected - rows, PageDown |-> selected + rows, Home |-> 1, End |-> Count]

\* Shift+Tab is Tab with the keysym ISO_Left_Tab.
MessageTargets ==
  [Left |-> selected - 1, Right |-> selected + 1,
   Tab |-> selected + IF keysym("Tab") = "ISO_Left_Tab" THEN -1 ELSE 1,
   Home |-> 1, End |-> Count]

Targets == IF Menu THEN MenuTargets ELSE MessageTargets
Cancels(k) == k = "Esc" \/ (~Menu /\ keysym(k) \in {"q", "Q"})
Chooses(k) == k \in Choosing /\ ~Cancels(k)
Types(k) == Menu /\ ~Cancels(k) /\ ~Chooses(k) /\ k \notin DOMAIN Targets /\ keysym(k) \in Letters

Cancel ==
  /\ result' = 1
  /\ running' = FALSE
  /\ UNCHANGED <<selected, typing, printed, frames>>

ChooseMutant ==
  /\ printed' = Append(printed, dialog.items[selected].value)
  /\ result' = 0
  /\ UNCHANGED <<selected, running, typing, frames>>

Choose ==
  /\ printed' = Append(printed, dialog.items[selected].value)
  /\ result' = 0
  /\ running' = FALSE
  /\ UNCHANGED <<selected, typing, frames>>

MoveSelectionUnclampedMutant(k) ==
  /\ typed' = <<>> /\ timer' = "off"
  /\ selected' = Targets[k]
  /\ Redraw
  /\ UNCHANGED <<result, running, printed>>

MoveSelectionTypingMutant(k) ==
  /\ selected' = Larger(1, Smaller(Targets[k], Count))
  /\ Redraw
  /\ UNCHANGED <<typing, result, running, printed>>

\* Moving the selection starts the typing over.
MoveSelection(k) ==
  /\ typed' = <<>> /\ timer' = "off"
  /\ selected' = Larger(1, Smaller(Targets[k], Count))
  /\ Redraw
  /\ UNCHANGED <<result, running, printed>>

\* Typing selects the first option whose label starts with what was typed.
Type(k) ==
  LET found == find_option(dialog.items, typed')
  IN /\ typed' = Append(typed, lower_char(keysym(k)))
     /\ timer' = "armed"
     /\ \/ /\ found > 0 /\ found # selected
           /\ selected' = found /\ Redraw
        \/ /\ found = 0 \/ found = selected
           /\ UNCHANGED <<selected, frames>>
     /\ UNCHANGED <<result, running, printed>>

AppKey(k) ==
  \/ Cancels(k) /\ Cancel
  \/ Chooses(k) /\ Choose
  \/ /\ ~Cancels(k) /\ ~Chooses(k) /\ k \in DOMAIN Targets
     /\ MoveSelection(k)
  \/ Types(k) /\ Type(k)
  \/ /\ ~Cancels(k) /\ ~Chooses(k) /\ k \notin DOMAIN Targets /\ ~Types(k)
     /\ UNCHANGED <<app, frames>>

-----------------------------------------------------------------------------
(* Starting.                                                               *)

Init ==
  /\ pc = "read" /\ exit = -1
  /\ dialog = Unreadable /\ theme = DefaultTheme /\ lock = FALSE
  /\ selected = 0 /\ scroll = 1 /\ rows = 1
  /\ typed = <<>> /\ timer = "off"
  /\ result = 1 /\ running = TRUE /\ printed = <<>>
  /\ keymap = FALSE /\ shift = FALSE
  /\ repeat_key = NoKey /\ repeat_rate = 25 /\ expired = 0
  /\ configured = FALSE /\ dirty = FALSE /\ size = <<0, 0>> /\ scale = 1
  /\ buffers = [b \in Buffers |-> NoBuffer]
  /\ surface = NoFrame /\ lent = {}
  /\ inbox = <<>> /\ batch = <<>> /\ polled = {} /\ left = 0
  /\ held = {} /\ answers = <<>> /\ events = 0

\* The process ends, and with it the lock and the connection.
Exit(status) == pc' = "ended" /\ exit' = status /\ lock' = FALSE

Read(input) == IF input.program = "menu" THEN read_menu(input.text) ELSE read_message(input.text)

\* An argument on the command line is an error too.
ReadInput ==
  /\ pc = "read"
  /\ \/ \E input \in Inputs :
          /\ Read(input) # Unreadable
          /\ dialog' = Read(input) /\ selected' = dialog'.selected
          /\ pc' = "lock"
          /\ UNCHANGED <<exit, lock>>
     \/ Exit(2) /\ UNCHANGED <<dialog, selected>>
  /\ UNCHANGED <<theme, scroll, rows, typing, result, running, printed, keyboard, geometry, dirty,
                 buffers, surface, lent, inbox, batch, polled, left, ghosts>>

\* Another hd-menu has the lock, or it cannot be taken.
TakeLock ==
  /\ pc = "lock"
  /\ \/ lock' = TRUE /\ pc' = "theme" /\ UNCHANGED exit
     \/ \E status \in {1, 2} : Exit(status)
  /\ UNCHANGED <<dialog, theme, app, keyboard, geometry, frames, inbox, batch, polled, left, ghosts>>

LoadTheme ==
  /\ pc = "theme"
  /\ \E setup \in Setups : theme' = load_theme(setup)
  /\ pc' = "connect"
  /\ UNCHANGED <<exit, dialog, lock, app, keyboard, geometry, frames, inbox, batch, polled, left,
                 ghosts>>

\* The constructor of the window fails without what it needs of the compositor.
Connect ==
  /\ pc = "connect"
  /\ \/ inbox' \in Greetings /\ pc' = "poll" /\ UNCHANGED <<exit, lock>>
     \/ Exit(2) /\ UNCHANGED inbox
  /\ UNCHANGED <<dialog, theme, app, keyboard, geometry, frames, batch, polled, left, ghosts>>

-----------------------------------------------------------------------------
(* The events of the compositor.                                           *)

Handling(kind) == pc = "dispatch" /\ batch # <<>> /\ Head(batch).kind = kind
Taken == batch' = Tail(batch) /\ UNCHANGED <<inbox, pc, exit, polled, left, held, events>>

\* What is on its way of buffers that are destroyed is dropped.
TakenWithoutReleases ==
  /\ batch' = WithoutReleases(Tail(batch)) /\ inbox' = WithoutReleases(inbox)
  /\ UNCHANGED <<pc, exit, polled, left, held, events>>

ConfigureMutant ==
  /\ Handling("configure")
  /\ UNCHANGED <<scale, startup, app, keyboard, answers>>
  /\ size' = Head(batch).size /\ configured' = TRUE
  /\ Redraw /\ Taken

\* Every configure is drawn, also one that keeps the size.
Configure ==
  /\ Handling("configure")
  /\ UNCHANGED <<scale, startup, app, keyboard, answers>>
  /\ size' = Head(batch).size /\ configured' = TRUE
  /\ \/ size' = size /\ Redraw /\ Taken
     \/ size' # size /\ DestroyBuffersAndRedraw /\ TakenWithoutReleases

SetScaleMutant ==
  /\ Handling("scale")
  /\ UNCHANGED <<configured, size, startup, app, keyboard, answers>>
  /\ scale' = Head(batch).scale
  /\ UNCHANGED frames /\ Taken

SetScale ==
  /\ Handling("scale")
  /\ UNCHANGED <<configured, size, startup, app, keyboard, answers>>
  /\ \/ /\ Head(batch).scale \in {0, scale}
        /\ Taken /\ UNCHANGED <<scale, frames>>
     \/ /\ Head(batch).scale \notin {0, scale}
        /\ scale' = Head(batch).scale
        /\ DestroyBuffersAndRedraw /\ TakenWithoutReleases

ReleaseMutant ==
  /\ Handling("release")
  /\ UNCHANGED <<scroll, rows, dirty, surface, lent, geometry, startup, app, keyboard, answers>>
  /\ buffers' = [buffers EXCEPT ![Head(batch).buffer].busy = FALSE]
  /\ Taken

\* A buffer that is free again takes the frame that is due.
Release ==
  /\ Handling("release")
  /\ UNCHANGED <<geometry, startup, app, keyboard, answers>>
  /\ DrawIfPossible(dirty, [buffers EXCEPT ![Head(batch).buffer].busy = FALSE], lent)
  /\ Taken

StopRepeat == repeat_key' = NoKey /\ expired' = 0

Repeats(k) == repeat_rate > 0 /\ (keymap => k \notin SingleKeys)

KeyDown ==
  /\ Handling("down")
  /\ UNCHANGED <<keymap, shift, repeat_rate, geometry, startup>>
  /\ LET k == Head(batch).key
     IN /\ repeat_key' = IF Repeats(k) THEN k ELSE NoKey
        /\ expired' = 0
        /\ AppKey(k)
        /\ answers' = IF Chooses(k) THEN Append(answers, "chosen")
                      ELSE IF Cancels(k) THEN Append(answers, "closed") ELSE answers
  /\ Taken

KeyUpMutant ==
  /\ Handling("up")
  /\ Taken
  /\ UNCHANGED <<keyboard, geometry, frames, startup, app, answers>>

KeyUp ==
  /\ Handling("up")
  /\ \/ Head(batch).key = repeat_key /\ StopRepeat
     \/ Head(batch).key # repeat_key /\ UNCHANGED <<repeat_key, expired>>
  /\ Taken
  /\ UNCHANGED <<keymap, shift, repeat_rate, geometry, frames, startup, app, answers>>

\* The keyboard leaves the surface.
Leave ==
  /\ Handling("leave")
  /\ StopRepeat /\ Taken
  /\ UNCHANGED <<keymap, shift, repeat_rate, geometry, frames, startup, app, answers>>

SetRepeat ==
  /\ Handling("repeat_info")
  /\ repeat_rate' = Larger(Head(batch).rate, 0)
  /\ StopRepeat /\ Taken
  /\ UNCHANGED <<keymap, shift, geometry, frames, startup, app, answers>>

\* A keymap that cannot be read leaves the one there was; a new one starts
\* without modifiers.
SetKeymap ==
  /\ Handling("keymap")
  /\ \/ Head(batch).readable /\ keymap' = TRUE /\ shift' = FALSE
     \/ ~Head(batch).readable /\ UNCHANGED <<keymap, shift>>
  /\ Taken
  /\ UNCHANGED <<repeat_key, repeat_rate, expired, geometry, frames, startup, app, answers>>

Modifiers ==
  /\ Handling("modifiers")
  /\ shift' = (keymap /\ Head(batch).shift)
  /\ Taken
  /\ UNCHANGED <<keymap, repeat_key, repeat_rate, expired, geometry, frames, startup, app, answers>>

Closed ==
  /\ Handling("closed")
  /\ Cancel /\ Taken
  /\ answers' = Append(answers, "closed")
  /\ UNCHANGED <<keyboard, geometry, startup>>

Dispatch ==
  \/ Configure \/ SetScale \/ Release \/ KeyDown \/ KeyUp \/ Leave \/ SetRepeat \/ SetKeymap
  \/ Modifiers \/ Closed

-----------------------------------------------------------------------------
(* The loop.                                                               *)

\* The keys that are down after an event, and after those of a queue.
After(down, e) ==
  CASE e.kind = "down" -> down \cup {e.key}
    [] e.kind = "up" -> down \ {e.key}
    [] e.kind = "leave" -> {}
    [] OTHER -> down
Down(keys, queue) == FoldLeft(After, keys, queue)

\* Waits for events and for the timers, and reads all events there are.
Poll ==
  /\ pc = "poll"
  /\ inbox # <<>> \/ expired > 0 \/ timer = "fired"
  /\ batch' = inbox /\ inbox' = <<>>
  /\ polled' = {t \in {"repeat", "timer"} :
                  (t = "repeat" /\ expired > 0) \/ (t = "timer" /\ timer = "fired")}
  /\ held' = Down(held, inbox)
  /\ pc' = "dispatch"
  /\ UNCHANGED <<exit, startup, app, keyboard, geometry, frames, left, answers, events>>

\* All events are handled, also those after one that quits; then the timers
\* are read, which may have stopped or started again.
Dispatched ==
  /\ pc = "dispatch" /\ batch = <<>>
  /\ \/ /\ running /\ "repeat" \in polled
        /\ left' = expired /\ expired' = 0
     \/ /\ ~(running /\ "repeat" \in polled)
        /\ left' = 0 /\ UNCHANGED expired
  /\ pc' = "repeat"
  /\ UNCHANGED <<exit, startup, app, keymap, shift, repeat_key, repeat_rate, geometry, frames,
                 inbox, batch, polled, ghosts>>

\* One key press for each expiration.
Repeat ==
  /\ pc = "repeat" /\ left > 0 /\ running /\ repeat_key # NoKey
  /\ UNCHANGED <<startup, keyboard, geometry, pc, exit, inbox, batch, polled, ghosts>>
  /\ AppKey(repeat_key)
  /\ left' = left - 1

Repeated ==
  /\ pc = "repeat" /\ ~(left > 0 /\ running /\ repeat_key # NoKey)
  /\ left' = 0 /\ pc' = "timer"
  /\ UNCHANGED <<exit, startup, app, keyboard, geometry, frames, inbox, batch, polled, ghosts>>

\* A pause in the typing starts it over; then around the loop, or out of it.
TimerRead ==
  /\ pc = "timer"
  /\ \/ /\ running /\ "timer" \in polled /\ timer = "fired"
        /\ typed' = <<>> /\ timer' = "off"
     \/ /\ ~(running /\ "timer" \in polled /\ timer = "fired")
        /\ UNCHANGED typing
  /\ \/ running /\ pc' = "poll" /\ polled' = {} /\ UNCHANGED <<exit, lock>>
     \/ ~running /\ Exit(result) /\ UNCHANGED polled
  /\ UNCHANGED <<dialog, theme, selected, result, running, printed, keyboard, geometry, frames,
                 inbox, batch, left, ghosts>>

\* The connection is lost, or a handler cannot make a buffer.
Break ==
  /\ pc = "poll" \/ (pc \in {"dispatch", "repeat"} /\ \E b \in Buffers : ~buffers[b].made)
  /\ Exit(2)
  /\ UNCHANGED <<dialog, theme, app, keyboard, geometry, frames, inbox, batch, polled, left, ghosts>>

-----------------------------------------------------------------------------
(* The compositor, the one who presses the keys, and the clock.            *)

\* The loop sees an event when it polls, and a timer when it polls and, if it had
\* fired then, after the events, so nothing needs to happen elsewhere.
Seen(t) == pc = "poll" \/ (pc = "dispatch" /\ t \in polled)

\* Keys come when the surface is on the screen.
Events ==
  LET down == Down(held, inbox)
      keys == IF surface = NoFrame THEN {} ELSE Keys[dialog.program]
  IN [kind : {"configure"}, size : Sizes] \cup [kind : {"scale"}, scale : Scales]
     \cup [kind : {"down"}, key : keys \ down] \cup [kind : {"up"}, key : down]
     \cup [kind : {"repeat_info"}, rate : {0, 25} \ {repeat_rate}]
     \cup [kind : {"modifiers"}, shift : {~shift}]
     \cup [kind : {"leave", "closed"}]

Send ==
  /\ pc = "poll" /\ events < MaxEvents /\ Len(inbox) < MaxUnread
  /\ \E e \in Events : inbox' = Append(inbox, e)
  /\ events' = events + 1
  /\ UNCHANGED <<pc, exit, startup, app, keyboard, geometry, frames, batch, polled, left, held,
                 answers>>

\* The compositor may release a buffer as soon as it has read it.
SendRelease(b) ==
  /\ pc = "poll" /\ b \in lent
  /\ lent' = lent \ {b}
  /\ inbox' = Append(inbox, [kind |-> "release", buffer |-> b])
  /\ UNCHANGED <<pc, exit, startup, app, keyboard, geometry, scroll, rows, dirty, buffers, surface,
                 batch, polled, left, ghosts>>

Tick ==
  /\ Seen("repeat") /\ repeat_key # NoKey /\ expired < MaxRepeats /\ Len(typed) < MaxTyped
  /\ expired' = expired + 1
  /\ UNCHANGED <<pc, exit, startup, app, keymap, shift, repeat_key, repeat_rate, geometry, frames,
                 inbox, batch, polled, left, ghosts>>

Pause ==
  /\ Seen("timer") /\ timer = "armed"
  /\ timer' = "fired"
  /\ UNCHANGED <<pc, exit, startup, selected, typed, result, running, printed, keyboard, geometry,
                 frames, inbox, batch, polled, left, ghosts>>

Program ==
  \/ ReadInput \/ TakeLock \/ LoadTheme \/ Connect
  \/ Poll \/ Dispatch \/ Dispatched \/ Repeat \/ Repeated \/ TimerRead

Next ==
  \/ Program \/ Break
  \/ Send \/ Tick \/ Pause
  \/ \E b \in Buffers : SendRelease(b)

\* When the compositor has both buffers, one of them is out of sight. Strong
\* fairness, as SendRelease is only enabled when the loop waits.
ReleaseSuperseded == lent = Buffers /\ \E b \in Buffers : SendRelease(b)

\* The program runs when it can, and the compositor gives buffers back.
Spec == Init /\ [][Next]_vars /\ WF_vars(Program) /\ SF_vars(ReleaseSuperseded)

-----------------------------------------------------------------------------
(* Properties.                                                             *)

\* Every variable holds what the code can put there; the selection is an item
\* of the dialog once there is one.
TypeOK ==
  /\ pc \in {"read", "lock", "theme", "connect", "poll", "dispatch", "repeat", "timer", "ended"}
  /\ exit \in -1 .. 2 /\ (exit = -1 <=> pc # "ended")
  /\ lock \in BOOLEAN /\ running \in BOOLEAN /\ configured \in BOOLEAN /\ dirty \in BOOLEAN
  /\ keymap \in BOOLEAN /\ shift \in BOOLEAN
  /\ dialog # Unreadable => selected \in 1 .. Count /\ scroll \in 1 .. Count /\ rows >= 1
  /\ timer \in {"off", "armed", "fired"} /\ result \in {0, 1}
  /\ repeat_key \in Keys[dialog.program] \cup {NoKey} /\ held \subseteq Keys[dialog.program]
  /\ size \in Sizes \cup {<<0, 0>>} /\ scale \in Scales \cup {1}
  /\ lent \subseteq Buffers /\ polled \subseteq {"repeat", "timer"}
  /\ expired \in 0 .. MaxRepeats /\ left \in 0 .. MaxRepeats /\ events \in 0 .. MaxEvents

Drawable == configured /\ size[1] > 0 /\ size[2] > 0
Wanted == [selected |-> selected, size |-> size, scale |-> scale]
Shown == [selected |-> surface.selected, size |-> surface.size, scale |-> surface.scale]

\* Whatever changes in whatever order, the screen has the selection at the size
\* and scale there are now, or the frame is due and both buffers are with the
\* compositor: redraw, and the release that draws what is due.
NoLostFrame ==
  Drawable => IF dirty THEN \A b \in Buffers : buffers[b].busy ELSE Shown = Wanted

\* A buffer counts as busy exactly as long as the compositor has it or its
\* release is not handled yet, so no frame is drawn into pixels the compositor
\* reads and no buffer is lost; and all buffers are of the size and scale there
\* are now, also when events of destroyed ones were on their way.
BuffersKept ==
  \A b \in Buffers :
    /\ buffers[b].busy <=> \/ b \in lent
                           \/ \E i \in DOMAIN inbox : inbox[i] = [kind |-> "release", buffer |-> b]
                           \/ \E i \in DOMAIN batch : batch[i] = [kind |-> "release", buffer |-> b]
    /\ buffers[b].made => buffers[b].size = size /\ buffers[b].scale = scale

\* Unless a frame is due, the option that Enter chooses is among the rows on the
\* screen, also after the selection moved and the surface changed its size between
\* the frames; and the rows are inside the box, at any size the surface had.
SelectionShown ==
  Menu =>
    /\ Drawable /\ ~dirty => selected \in surface.scroll .. surface.scroll + surface.rows - 1
    /\ surface.rows > 1 =>
         surface.rows * ItemHeight(dialog, theme, theme.big)
           <= OptionsHeight(dialog, theme, surface.size[2])

\* As long as letters count as one word, the pause that ends it is still to
\* come, and the selection is what the word finds: the arrows start it over.
TypedIsSelected ==
  /\ typed # <<>> <=> timer # "off"
  /\ typed # <<>> => find_option(dialog.items, typed) \in {0, selected}

\* Once the events that were read are handled, the key that repeats is held: no
\* key moves the selection after its release was read, nor without the keyboard.
RepeatIsHeld ==
  pc \in {"poll", "repeat", "timer"} /\ repeat_key # NoKey => repeat_key \in held

\* The loop handles what it read to the end, also after an answer: the exit status
\* tells the last answer, and what is printed is a value for every press of Enter,
\* however long it is held.  Nothing is printed without one.
ExitTellsAnswer ==
  /\ Len(printed) = Cardinality({i \in DOMAIN answers : answers[i] = "chosen"})
  /\ exit \in {0, 1} /\ pc = "ended" /\ dialog # Unreadable /\ answers # <<>> =>
       exit = IF Last(answers) = "chosen" THEN 0 ELSE 1
  /\ exit = 0 => answers # <<>>

\* "Makes run() return after the event it is handling": there is one answer, and
\* nothing is printed when the window was closed without a choice.
\* Not if one batch holds two answers (DialogAnswers.cfg).
OneAnswer == Len(printed) <= 1 /\ (exit = 1 => printed = <<>>)

\* All of the text is in the lines, none is wider than the box, unless of one
\* character; and lines are only left out when the box fills the output.
TextWhole ==
  pc = "poll" /\ inbox = <<>> /\ ~Menu /\ surface # NoFrame =>
  LET lines == Lines(dialog, theme, surface.size[1])
  IN /\ Characters(lines) = Characters(dialog.text)
     /\ \A i \in DOMAIN lines :
          Chars(lines[i]) <= Larger(1, LineFits(dialog, theme, surface.size[1]))
     /\ LinesShown(dialog, theme, surface.size[1], surface.size[2]) < Len(lines)
          => MessageHeight(dialog, theme, surface.size[1], surface.size[2]) = surface.size[2]

\* The window shows frames that were wanted, in order, and the last one comes
\* to the screen. Of a surface without a size nothing is wanted.
Latest ==
  INSTANCE LatestFrame WITH
    Views <- [selected : Nat, size : Nat \X Nat, scale : Nat],
    wanted <- IF Drawable THEN Wanted ELSE Shown, shown <- Shown, over <- pc = "ended"
ImplementsLatestFrame == Latest!Spec
=============================================================================
