SPECIFICATION FairSpec
CHECK_DEADLOCK FALSE
CONSTANTS
  fw = fw
  main = main
  io = io
  io2 = io2
  end = end
  Producer = {fw, main}
  Consumer = {io, io2}
  Closer = {end}
  Job = {j, k}
  Room = 3
  Nothing = Nothing
  Over = Over
  None = None
INVARIANT TypeOK
INVARIANT FindsAJob
INVARIANT NoneSleepsOnWork
PROPERTY FifoRefined
PROPERTY EveryJobTaken
