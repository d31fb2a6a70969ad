SPECIFICATION JsonSpec
CONSTANTS
  Readers = {r1}
  NoObject = NoObject
  SharedPtr = TRUE
  MaxLoads = 3
  NaN = NaN  NoDoc = NoDoc
  Fields <- MCFields
  InnerFields <- MCInnerFields
  TypeOf <- MCTypeOf
  JsonName <- MCJsonName
  Bits <- MCBits
  Configs <- MCConfigs
  HandWritten <- MCHandWritten
  TooLarge = 14  MaxWrites = 2
INVARIANT WrittenIsLoaded NothingInvented ReloadedOrKept
