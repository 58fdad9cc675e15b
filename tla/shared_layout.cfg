SPECIFICATION Spec
CONSTANTS
  HeaderSize = 3
  ItemSize <- MCItemSize
  Alignment <- MCAlignment
  MaxUsize = 31
  Settings <- MCSettings
  Specific <- MCSpecific
  MaxWrites = 2
INVARIANTS TypeOK NothingClobbered RefusedExactlyWhenTooLarge
