SPECIFICATION Spec
CONSTANTS
  Connection = {c1, c2}
  Asked = {"main", "signup", "message", "subscribe"}
  PoolSize = 1
  NoRoute = NoRoute
  NoAnswer = NoAnswer
INVARIANTS
  TypeOK
  EffectsEarned
PROPERTIES
  StatementsFinish
  ImplementsRequestService
  EventuallyServed
  EventuallyExits
CHECK_DEADLOCK FALSE
