SPECIFICATION Spec
CONSTANTS
  NumZones = 2
  MaxAttempts = 3
  Passwords = {"ffffff", "w1"}
  DefaultPW = "ffffff"
  Keys <- MCKeys
  Pins <- MCPins
  PinWord <- MCPinWord
  Interleaved = TRUE
  MaxLosses = 0
PROPERTIES InitializedKeepsItsSeed
