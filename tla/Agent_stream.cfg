\* Queues of two, so that every wait for room happens; three commands, and two
\* streams, so that the frames of an old one meet those of the new one.
SPECIFICATION FairSpec
CONSTANTS
  InCap = 2
  OutCap = 2
  BufferCap = 2
  MaxCommands = 3
  MaxStreams = 2
INVARIANTS
  TypeOK
  ResultsInOrder
PROPERTIES
  StreamRecovers
\* The circular wait on a broken connection is a deadlock.
CHECK_DEADLOCK FALSE
