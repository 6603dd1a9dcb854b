SPECIFICATION Spec
CONSTANTS
  c1 = c1
  c2 = c2
  Conns = {c1, c2}
  Sends = {"HELLO_PRO","REQUEST","STOP"}
  MaxMessages = 2
  SndBuf = 1
INVARIANTS TypeOK NoAnswerForgotten BacklogBounded OnlyStopBlocks
PROPERTIES AnswersLeave PeersAccepted
CHECK_DEADLOCK FALSE
