SPECIFICATION PageSpec
CONSTANTS
  alice = alice
  bob = bob
  NoChannel = NoChannel
  NoStart = NoStart
  UnknownId = UnknownId
  UserId <- MCUserId
  From <- MCFrom
  To <- MCTo
  Timestamp <- MCTimestamp
  MessageId = {1, 2}
  SubscriptionId = {s1, s2}
  Connection = {s1, s2}
  Subscriber <- MCSubscriber
  Capacity = 1
  Page = alice
  Waiting = Waiting
  GivenUp = GivenUp
INVARIANTS
  PageTypeOK
  NoGap
  OnlyRowsRepeat
PROPERTIES
  EventuallySeen
  EventuallyReclaimed
