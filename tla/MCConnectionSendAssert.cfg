SPECIFICATION Spec
CONSTANTS
  Conns = {c1}
  Workers = {w1}
  MaxConnection = 1
  SendSize = 1
  RecvSize = 1
  SockCap = 1
  MaxOut = 1
  MaxIn = 0
  Faults = {"fin"}
  PacketLen <- ShortPackets
  NoWorker = NoWorker
  NoJob = NoJob
  NoConn = NoConn
INVARIANT SendBufferFilled
