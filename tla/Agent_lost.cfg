\* One command whose result is on a stream when the connection breaks.
SPECIFICATION Spec
CONSTANTS
  InCap = 1
  OutCap = 1
  BufferCap = 1
  MaxCommands = 1
  MaxStreams = 2
INVARIANTS
  ResultsAreDelivered
\* The agent stops when it has used up the streams of the instance.
CHECK_DEADLOCK FALSE
