SPECIFICATION SafetySpec
CONSTANTS
  alice = alice
  bob = bob
  s1 = s1
  s2 = s2
  s3 = s3
  NoChannel = NoChannel
  NoStart = NoStart
  UnknownId = UnknownId
  UserId <- MCUserId
  From <- MCFrom
  To <- MCTo
  Timestamp <- MCTimestamp
  MessageId = {2, 3}
  SubscriptionId = {s1, s2}
  Subscriber <- MCSubscriber
  Capacity = 1
INVARIANTS
  TypeOK
  NoOrphanedReceiver
  NoDuplicates
  NothingMissed
PROPERTY
  CutOffOnlyWhenLagging
