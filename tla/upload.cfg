\* Two signed files, chunks of two or three units, two attempts each, two losses.
SPECIFICATION FairSpec
CONSTANTS
  d1 = d1
  d2 = d2
  NoDigest = NoDigest
  Nothing = Nothing
  Units <- MCUnits
  Files <- MCFiles
  Samples <- MCSamples
  Trailers <- MCTrailers
  Faults <- MCFaults
  ChunkSizes = {2, 3}
  Retries = 1
  MaxLost = 2
  MaxClients = 2
INVARIANTS
  ReceivedIsPrefix
  SuccessIsStaged
  OnlyBadHashMismatches
  ParserFindsDigest
PROPERTIES
  TransferEnds
  StagesWhole
CHECK_DEADLOCK FALSE
