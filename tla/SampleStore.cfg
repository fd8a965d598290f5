CONSTANTS
  Requests = {r1, r2, r3}
  Hashes = {h1, h2}
  Copies = {c1}
  Chunks = 2
  MaxFaults = 2
  Null = Null
SPECIFICATION FairSpec
INVARIANTS
  TypeOK
  OneJobPerSample
  StoredFileIsWhole
  SampleIsReadWhole
PROPERTY EveryUploadIsAnswered
CHECK_DEADLOCK FALSE
