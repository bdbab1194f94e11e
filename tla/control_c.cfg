SPECIFICATION FairSpec
CONSTANTS
  text = text
  Seconds <- MCSeconds
  Number <- MCNumber
  Capability <- MCCapability
  Text <- MCText
  IntMax = 32767
  CapModulus = 4
  InC = TRUE
  MaxCalls = 2
PROPERTIES SettingsFollow SettingsArrive
