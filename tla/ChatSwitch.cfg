SPECIFICATION Spec
CONSTANTS
  me = me
  anna = anna
  boris = boris
  UserId <- MCUserId
  MessageId = {1, 5}
  From <- MCFrom
  To <- MCTo
  Timestamp <- MCTimestamp
  Me = me
  PageSize = 1
  MaxPending = 2
  NoChat = NoChat
  NoStart = NoStart
INVARIANT
  ShownInChat
