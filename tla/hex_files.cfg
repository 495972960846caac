CONSTANTS
  MemSize = 16
  Radix = 2
  Byte <- Octets
  Written <- UpToThree
  Found <- Others
  Files <- AnyFile
SPECIFICATION TextSpec
INVARIANT TypeOK
INVARIANT ImageIsFile
INVARIANT LengthIsEnd
INVARIANT RejectsBadFiles
INVARIANT ResultIsLoad
INVARIANT WrittenIsLoaded
INVARIANT OneWrongCharacterIsSeen
