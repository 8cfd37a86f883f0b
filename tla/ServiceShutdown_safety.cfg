\* Stop and kill with two calls of each direction.
SPECIFICATION ServiceFairSpec
CONSTANTS
  Inbound = {"i1", "i2"}
  Outbound = {"o1", "o2"}
INVARIANT CountedCallsFinish
PROPERTY RunReturns
CHECK_DEADLOCK FALSE
