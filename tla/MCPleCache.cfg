CONSTANTS
  Sessions = {s1, s2, s3}
  Inodes = {i1, i2}
  MaxClock = 2
  None = None
SPECIFICATION Spec
SYMMETRY Symmetry
INVARIANTS
  TypeOK
  MappedIsVerified
  ReceiptHonest
  UndisturbedSucceeds
  DriftNeverCopies
PROPERTIES
  PublishesGood
