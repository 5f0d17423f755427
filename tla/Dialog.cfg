SPECIFICATION Spec
CONSTANTS
  Icons <- MCIcons
  Inputs <- MCInputs
  Setups <- MCSetups
  Sizes <- MCSizes
  Greetings <- MCGreetings
  Scales <- MCScales
  Keys <- MCKeys
  Keymap <- MCKeymap
  SingleKeys = {"Shift"}
  MaxEvents = 3
  MaxUnread = 3
  MaxRepeats = 1
  MaxTyped = 2
INVARIANTS TypeOK NoLostFrame BuffersKept SelectionShown TypedIsSelected RepeatIsHeld ExitTellsAnswer TextWhole
PROPERTIES ImplementsLatestFrame
CHECK_DEADLOCK FALSE
