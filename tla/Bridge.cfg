SPECIFICATION Spec
CONSTANTS
  Capacity = 13
  Chunk = 5
  MinReserve = 5
  Blocks = {1, 3}
  MaxCalls = 5
  MaxResets = 2
CHECK_DEADLOCK FALSE
INVARIANTS TypeOK Exclusive ReserveBounded OldAudioSkipped
PROPERTIES TxIsFifo RxIsFifo
