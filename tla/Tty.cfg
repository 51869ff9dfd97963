CONSTANTS
  NEvents = 3
  Chars <- MCChars
  Codes <- MCCodes
  MaxKeys = 4
  Ttys <- MCTtys
  First = "tty1"
  Shells <- MCShells
  Lines = 2
  Columns = 2
  CookBuf = 5
  Prompt <- MCPrompt
  Switch <- MCSwitch
SPECIFICATION LiveSpec
INVARIANTS QueueInv CookedCountsLines EventsAreCounted ScreenIsRight
PROPERTIES EverythingArrives
CHECK_DEADLOCK FALSE
