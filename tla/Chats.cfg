SPECIFICATION Spec
CONSTANTS
  me = me
  bob = bob
  carol = carol
  UserId <- MCUserId
  MessageId = {1, 2, 3}
  From <- MCFrom
  To <- MCTo
  Timestamp <- MCTimestamp
  Call = {q1}
  Asker <- MCAsker
  Session = {k1}
  NoSession = NoSession
  Limit = 1
  NoStart = NoStart
  UnknownId = UnknownId
  Me = me
  Found <- MCFound
  MaxFetches = 2
  NoRequest = NoRequest
  Search = Search
INVARIANTS
  TypeOK
  ChatsAsOfStart
  LeftoversOnlyFromFailures
  MockAgrees
  TwiceOnlyWhenOverlapping
CHECK_DEADLOCK FALSE
