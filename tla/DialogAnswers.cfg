SPECIFICATION Spec
CONSTANTS
  Icons <- MCIcons
  Inputs <- MCInputs
  Setups <- MCSetups
  Sizes <- MCSizes
  Greetings <- MCGreetings
  Scales <- MCScales
  Keys <- MCKeys
  Keymap <- MCKeymap
  SingleKeys = {"Shift"}
  MaxEvents = 3
  MaxUnread = 2
  MaxRepeats = 1
  MaxTyped = 2
INVARIANT OneAnswer
CHECK_DEADLOCK FALSE
