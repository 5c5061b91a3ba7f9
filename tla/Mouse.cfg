SPECIFICATION FairSpec
CONSTANTS
  Sizes <- MCSizes
  Positions <- MCPositions
  Packets <- MCPackets
  Scancodes = {30}
  Leftovers = {30}
  ACK = 250
  CommandByte = 97
INVARIANTS CursorOnScreen InStep ChangeNotMissed
PROPERTY InputFlows
