SPECIFICATION SafetySpec
CONSTANTS
  alice = alice
  bob = bob
  s1 = s1
  s2 = s2
  s3 = s3
  NoChannel = NoChannel
  NoStart = NoStart
  UnknownId = UnknownId
  UserId <- MCUserId
  From <- MCFrom
  To <- MCTo
  Timestamp <- MCTimestamp
  MessageId = {1, 2}
  SubscriptionId = {s1, s3}
  Subscriber <- MCSubscriber
  Capacity = 1
INVARIANT
  RecipientHears
