SPECIFICATION FairSpec
CONSTANTS
  BUF_SIZE = 2
  SockBuf = 1
  MsgLen <- MCMsgLen
  Rounds = 2
  LooseLen = 3
INVARIANTS
  BytesKept
  DrainedOrFull
  BufferedIsArmed
PROPERTY AnswersArrive
CHECK_DEADLOCK FALSE
