--------------------------- MODULE DesktopLayout ---------------------------
(***************************************************************************)
(* Where the renderers of hd-menu and hd-message put what they draw, in    *)
(* logical pixels: the rows of a menu that fit, and the scrolling to the   *)
(* selected one; the lines of a message, and the buttons under them.       *)
(***************************************************************************)
EXTENDS DesktopInput

Padding == 6          \* between the border and the content
RowPadX == 8
RowPadY == 4
HeadingGap == 8       \* under a banner or a title
TextGap == 12         \* between the text and the buttons
ButtonGap == 12
ButtonPadX == 16
IconGap == 10

Px(size) == size \div Whole

Larger(a, b) == IF a > b THEN a ELSE b
Smaller(a, b) == IF a < b THEN a ELSE b
Largest(numbers) == FoldLeft(Larger, 0, numbers)
Total(numbers) == FoldLeft(LAMBDA a, b : a + b, 0, numbers)

\* The font, in pixels of 96 to an inch of 72 points: a line, and characters
\* of the same width, of a pixel at least.
LineHeight(points) == Larger(1, (points * 4) \div (3 * Whole))
CharWidth(points) == Larger(1, (points * 2) \div (3 * Whole))

\* A size in whole pixels, no larger than the output. A percentage is rounded up.
resolve(set, output, fit) ==
  LET v == IF ~set.set THEN fit
           ELSE IF set.percent THEN (output * set.value + 99) \div 100
           ELSE set.value
  IN Larger(0, Smaller(v, output))

Frame(theme) == 2 * (Px(theme.border) + Padding)
AnyIcon(dialog) == \E i \in DOMAIN dialog.items : dialog.items[i].icon

\* As high as an icon when one has an icon.
ItemHeight(dialog, theme, points) ==
  Larger(LineHeight(points), IF AnyIcon(dialog) THEN Px(theme.icon) ELSE 0) + 2 * RowPadY

HeadingHeight(dialog, theme) ==
  IF dialog.heading = NoText THEN 0 ELSE LineHeight(theme.big) + 2 * RowPadY + HeadingGap

-----------------------------------------------------------------------------
(* hd-menu                                                                 *)

MenuHeight(menu, theme, output) ==
  resolve(menu.height, output,
          HeadingHeight(menu, theme) + Len(menu.items) * ItemHeight(menu, theme, theme.big)
            + Frame(theme))

\* What is left for the options under the banner.
OptionsHeight(menu, theme, output) ==
  Larger(0, MenuHeight(menu, theme, output) - Frame(theme) - HeadingHeight(menu, theme))

\* The number of options that fit, at least one.
MenuRows(menu, theme, output) ==
  Larger(1, OptionsHeight(menu, theme, output) \div ItemHeight(menu, theme, theme.big))

ScrolledMutant(scroll, selected, rows) == Larger(selected - rows, Smaller(scroll, selected))

\* Scrolled no further than needed to have the selected option among the rows.
Scrolled(scroll, selected, rows) == Larger(selected - rows + 1, Smaller(scroll, selected))

-----------------------------------------------------------------------------
(* hd-message                                                              *)

\* The characters of a line of words, with the spaces between them.
Chars(line) == IF line = <<>> THEN 0 ELSE Total(line) + Len(line) - 1

\* The characters of a text, without spaces.
Characters(text) == Total([i \in DOMAIN text |-> Total(text[i])])

AddWordMutant(state, word, fit) ==
  LET full == (word - 1) \div Larger(1, fit)
  IN IF Chars(Append(state.line, word)) <= fit
     THEN [state EXCEPT !.line = Append(state.line, word)]
     ELSE [lines |-> state.lines \o [i \in 1 .. full |-> <<Larger(1, fit)>>],
           line |-> <<word - full * Larger(1, fit)>>]

\* A word that does not fit on the line starts a line; one wider than a line is
\* broken between characters, of which every line has at least one.
AddWord(state, word, fit) ==
  LET full == (word - 1) \div Larger(1, fit)
      ended == IF state.line = <<>> THEN state.lines ELSE Append(state.lines, state.line)
  IN IF Chars(Append(state.line, word)) <= fit
     THEN [state EXCEPT !.line = Append(state.line, word)]
     ELSE [lines |-> ended \o [i \in 1 .. full |-> <<Larger(1, fit)>>],
           line |-> <<word - full * Larger(1, fit)>>]

WrapWords(words, fit) ==
  FoldLeft(LAMBDA state, word : AddWord(state, word, fit), [lines |-> <<>>, line |-> <<>>], words)

\* Every paragraph starts a line; an empty one is an empty line.
WrapParagraph(words, fit) ==
  LET end == WrapWords(words, fit) IN Append(end.lines, end.line)
wrap(text, fit) ==
  FoldLeft(LAMBDA lines, words : lines \o WrapParagraph(words, fit), <<>>, text)

\* All buttons are as wide as the widest.
ButtonWidth(message, theme) ==
  Largest([i \in DOMAIN message.items |->
             Len(message.items[i].label) * CharWidth(theme.normal) + 2 * ButtonPadX
               + IF message.items[i].icon THEN Px(theme.icon) + IconGap ELSE 0])

ButtonsWidth(message, theme) ==
  Len(message.items) * (ButtonWidth(message, theme) + ButtonGap) - ButtonGap

HeadingWidth(dialog, theme) ==
  IF dialog.heading = NoText THEN 0 ELSE Len(dialog.heading) * CharWidth(theme.big) + 2 * RowPadX

\* Without a width, the text wraps at half the width of the output.
TextWidth(message, theme, output) ==
  IF message.text = NoText THEN 0
  ELSE 2 * RowPadX
         + Smaller(Largest([i \in DOMAIN message.text |-> Chars(message.text[i])]) * CharWidth(theme.normal),
                   output \div 2 - Frame(theme) - 2 * RowPadX)

MessageWidth(message, theme, output) ==
  resolve(message.width, output,
          Frame(theme) + Largest(<<HeadingWidth(message, theme), ButtonsWidth(message, theme),
                                   TextWidth(message, theme, output)>>))

\* The characters of the text that fit on a line of the box.
LineFits(message, theme, output) ==
  Larger(1, MessageWidth(message, theme, output) - Frame(theme) - 2 * RowPadX) \div CharWidth(theme.normal)

Lines(message, theme, output) ==
  IF message.text = NoText THEN <<>> ELSE wrap(message.text, LineFits(message, theme, output))

TextHeight(lines, theme) ==
  IF lines = <<>> THEN 0 ELSE Len(lines) * LineHeight(theme.normal) + 2 * RowPadY + TextGap

MessageNeeds(message, theme, lines) ==
  Frame(theme) + HeadingHeight(message, theme) + TextHeight(lines, theme)
    + ItemHeight(message, theme, theme.normal)

MessageHeight(message, theme, width, height) ==
  resolve(NoSize, height, MessageNeeds(message, theme, Lines(message, theme, width)))

\* The text fills what is above the buttons, and is cut off when it does not fit.
TextRoom(message, theme, width, height) ==
  LET content == Larger(0, MessageHeight(message, theme, width, height) - Frame(theme)
                             - HeadingHeight(message, theme))
  IN Larger(0, content - ItemHeight(message, theme, theme.normal) - TextGap)

LinesShown(message, theme, width, height) ==
  LET room == TextRoom(message, theme, width, height) - RowPadY
  IN Smaller(Len(Lines(message, theme, width)), Larger(0, room) \div LineHeight(theme.normal))
=============================================================================
