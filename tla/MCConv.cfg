SPECIFICATION ConvFairSpec
CONSTANTS
  Runs = {m1, m2}
  Starts <- NewOrAsked
  Asks = {q1}
  Home = Home
  Away = Away
  None = None
  Disturbances = 2
INVARIANTS
  ConversationIsExclusive
  AnswersCountOnce
PROPERTIES
  CancelIsNotLost
  ConversationIsReleased
CHECK_DEADLOCK FALSE
