SPECIFICATION FairSpec
CONSTANTS
  Settings <- MCSettings
  Help <- MCHelp
  Readers <- MCReaders
  Sizes <- MCSizes
  Offsets <- MCOffsets
  MaxGot = 8
INVARIANTS
  InBuffer
  WholeText
PROPERTIES
  ReadersEnd
  ImplementsTextFile
