\* Every message of up to five bytes, and some of six, with names of at most four.  The reader
\* stops when it has read the name.
SPECIFICATION FairSpec
CONSTANTS
  Messages <- MCMessages
  NameMax = 4
INVARIANTS
  TypeOK
  SameEnd
  PlainIsRead
PROPERTIES
  Descends
  Terminates
CHECK_DEADLOCK FALSE
