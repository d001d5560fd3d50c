SPECIFICATION Spec
CONSTANTS
  Keys = {97, 10, 8192, 8195, 12288}
  Extended = {10}
  Prefix = Prefix
  Off = Off
  Strays = {0}
  MaxPresses = 2
  VGA_WIDTH = 4
  VGA_HEIGHT = 2
  Warning <- WarningText
  LineMax = 1
  Clear <- ClearLine
  Reply <- ReplyText
INVARIANTS InOrder ShiftSettles CursorSettles RunsWhatWasTyped
PROPERTY KeyReturned
CHECK_DEADLOCK FALSE
