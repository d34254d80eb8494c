CONSTANTS
  Producers = {p1, p2, p3}
  Slots = 4
  MaxMessages = 6
  MaxLag = 3
  MaxCrashes = 1
  MaxRestarts = 1
SPECIFICATION Spec
INVARIANTS
  TypeOK
  SlotHasOneUser
  FlagMarksUnreadMessage
  ReceivedInOrder
PROPERTIES
  EveryMessageIsTaken
  ImplementsMessageChannel
CHECK_DEADLOCK FALSE
