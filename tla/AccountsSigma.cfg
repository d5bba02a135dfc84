SPECIFICATION Spec
CONSTANTS
  Request = {r1, r2}
  Anna = Anna
  anna = anna
  boris = boris
  secret = secret
  ODOS = ODOS
  odos = odos
  odosFinal = odosFinal
  other = other
  Name = {ODOS, odos, odosFinal}
  Password = {secret, other}
  Lower <- SigmaLower
  DbLower <- SigmaDbLower
  None = None
INVARIANT
  SignedUpCanLogIn
