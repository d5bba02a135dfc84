SPECIFICATION PageSafetySpec
CONSTANTS
  alice = alice
  bob = bob
  NoChannel = NoChannel
  NoStart = NoStart
  UnknownId = UnknownId
  UserId <- MCUserId
  From <- MCFrom
  To <- MCTo
  Timestamp <- MCTimestamp
  MessageId = {2, 3}
  SubscriptionId = {s1, s3}
  Connection = {s1}
  Subscriber <- MCSubscriber
  Capacity = 1
  Page = alice
  Waiting = Waiting
  GivenUp = GivenUp
INVARIANTS
  NothingMissed
  OnlyOwnMessages
