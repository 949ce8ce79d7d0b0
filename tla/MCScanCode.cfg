CONSTANTS
  Keys = {"lshift", "lctl", "rctl", "caps", "num", "a", "8", "np8", "up",
          "pause", "prtsc"}
  MaxDown = 2
  MaxLost = 1
SPECIFICATION Spec
INVARIANTS
  ModifiersTrack
  OneEventPerKey
  SingleKeyDelivered
  KeyStateRight
