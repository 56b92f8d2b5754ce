SPECIFICATION Spec
CONSTANTS
  u1 = u1
  u2 = u2
  s1 = s1
  s2 = s2
  s3 = s3
  Users = {u1}
  Challenges = {c1, c2}
  Requests = {r1, r2}
  Nonces = {n1}
  Secrets = {s1}
  Methods = {"password"}
  PasskeyUsers = {}
  InitialTotp <- TotpForAll
  AttemptLimit = 2
  MaxWindow = 3
  MaxCrashes = 1
  NoUser = NoUser
  NoSecret = NoSecret
  NoChallenge = NoChallenge
  NoNonce = NoNonce
  NoMethod = NoMethod
SYMMETRY Symmetry
INVARIANTS TotpCodeUsedOnce
