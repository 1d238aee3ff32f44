\* Each of the small programs, alone.
SPECIFICATION FairSpec
CONSTANTS
  KeyLen = 2
  ClientChunk = 2
  ServerChunk = 1
  MaxSize = 3
  MaxRounds = 2
  MaxDeaths = 1
  MaxLines = 4
  MaxLost = 1
  NumMessages = 3
  MaxRetransmissions = 2
  MaxSeqNum = 4
  MaxDrops = 3
  Peers = {c1, c2, c3}
  MaxFailures = 2
  Guests = {g1, g2, g3}
  Sums = {0, 1, 65535, 65536, 131070, 131071, 655350}
INVARIANTS  FileInOrder AckedIsReceived VersionsAgree
PROPERTIES TransferEnds BothEnd BothFinish EveryoneServed
\* The programs end.
CHECK_DEADLOCK FALSE
