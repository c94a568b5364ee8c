SPECIFICATION FullSpec
CONSTANTS
  Range <- MCRange
  MaxPerHour <- MCMaxPerHour
  FaucetLimit = 1
  MaxRows = 2
  MaxHour = 1
  MaxLeft = 1
INVARIANTS
  IInv
  HourlyBound
  ProtectionBounded
PROPERTIES
  RoundsEnd
  RoundsShrink
  ProtectionLasts
