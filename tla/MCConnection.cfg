SPECIFICATION Spec
CONSTANTS
  Conns = {c1}
  Workers = {w1}
  MaxConnection = 1
  SendSize = 2
  RecvSize = 2
  SockCap = 1
  MaxOut = 4
  MaxIn = 3
  Faults = {"fin", "reset"}
  PacketLen <- Packets
  NoWorker = NoWorker
  NoJob = NoJob
  NoConn = NoConn
INVARIANTS
  TypeOK
  NoStaleJob
  OneJobWhileBusy
  ParsedIsOpen
  BuffersBounded
  SendStream
  RecvStream
  PipeSignal
PROPERTIES
  PipeSpec
  BufferOwnership
  SendKeepsOpen
