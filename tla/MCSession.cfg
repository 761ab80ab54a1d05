SPECIFICATION SessionSpec
CONSTANTS
  User = {u1, u2}
  Phone = {d1, d2}
  Call = {c1, c2}
  NoUser = NoUser
  NoToken = NoToken
  NoCall = NoCall
  MaxTaps = 3
  MaxFaults = 1
SYMMETRY Alike
INVARIANTS
  SessionTypeOK
  TokenBacked
  Reachable
  
  SignedOutIsClean
PROPERTY
  SignedInByCode
