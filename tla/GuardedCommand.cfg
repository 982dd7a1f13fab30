\* A child with one possible descendant, and one file
SPECIFICATION FairSpec
CONSTANTS
  Files = {f1}
  MaxWrites = 2
  Child = child
  Kids = {kid}
  Streams = {"stdout", "stderr"}
  Limit = 1
  Room = 1
  Volume = 2
  Input = 2
  Commands = 2
INVARIANTS EvidenceIsWhole NoStragglers
PROPERTY CommandsEnd
