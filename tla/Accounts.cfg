SPECIFICATION Spec
CONSTANTS
  Request = {r1, r2, r3}
  Anna = Anna
  anna = anna
  boris = boris
  secret = secret
  ODOS = ODOS
  odos = odos
  odosFinal = odosFinal
  other = other
  Name = {Anna, anna, boris}
  Password = {secret, other}
  Lower <- MCLower
  DbLower <- MCLower
  None = None
INVARIANTS
  TypeOK
  UsernamesDiffer
  SessionsEarned
  AuthorsAuthentic
  SignedUpCanLogIn
PROPERTY
  EventuallyAnswered
