SPECIFICATION FairKeySpec
CONSTANTS
  KEY_BUFFER_SIZE = 3
  Scancodes <- MCScancodes
  ModifierOf <- MCModifierOf
  KEY_CAPSLOCK = "CAPS"
  lower <- MCLower
  upper <- MCUpper
  NoChar = "0"
PROPERTIES ImplementsQueue CallsReturn
