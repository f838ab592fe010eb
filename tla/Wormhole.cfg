SPECIFICATION MCSpec
CONSTANTS
  a1 = a1
  b1 = b1
  b2 = b2
  Sessions = {a1, b1, b2}
  None = None
  UserOf <- MCUserOf
  OfferLife = 2
  OfferEvery = 1
  AnswerLife = 2
  ConnectTimeout = 3
  HandshakeTimeout = 2
  MaxFaults = 1
  Sides = {a1, b1}
  Typing <- MCTyping
INVARIANTS  InOrder  InStep
PROPERTIES SessionsSettle  
CHECK_DEADLOCK FALSE
