SPECIFICATION FairSpec
CONSTANTS
  U2fRing = 4
  MaxFrames = 3
  Pings = {3, 4}
  MaxPackets = 2
  Protects <- MCProtects
  Channels = {1, 2}
  Registers = {"r"}
  Auths = {"a", "b"}
INVARIANTS MessagesAreWhole PressIsForTheRequest OneSender NothingIsDropped
PROPERTIES SignatureUsesUpItsPress SessionsEnd
