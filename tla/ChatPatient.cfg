SPECIFICATION Spec
CONSTANTS
  me = me
  anna = anna
  boris = boris
  UserId <- MCUserId
  MessageId = {1, 2, 3, 5}
  From <- MCFrom
  To <- MCTo
  Timestamp <- MCTimestamp
  Me = me
  PageSize = 1
  MaxPending = 1
  NoChat = NoChat
  NoStart = NoStart
INVARIANTS
  TypeOK
  ShownInChat
  NoHoles
  NoMoreMeansAll
