SPECIFICATION FairSpec
CONSTANTS
  Conns = {c1}
  Workers = {w1}
  MaxConnection = 1
  SendSize = 2
  RecvSize = 2
  SockCap = 1
  MaxOut = 2
  MaxIn = 2
  Faults = {"fin", "reset"}
  PacketLen <- ShortPackets
  NoWorker = NoWorker
  NoJob = NoJob
  NoConn = NoConn
PROPERTIES
  SendFlushed
  InputRead
  TeardownCompletes
  PeerCloseFrees
