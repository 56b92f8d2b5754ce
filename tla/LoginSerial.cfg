SPECIFICATION FairSpec
CONSTANTS
  u1 = u1
  u2 = u2
  s1 = s1
  s2 = s2
  s3 = s3
  Users = {u1}
  Challenges = {c1, c2}
  Requests = {r1}
  Nonces = {n1}
  Secrets = {s1, s2}
  Methods = {"password"}
  PasskeyUsers = {}
  InitialTotp <- TotpForNone
  AttemptLimit = 1
  MaxWindow = 3
  MaxCrashes = 1
  NoUser = NoUser
  NoSecret = NoSecret
  NoChallenge = NoChallenge
  NoNonce = NoNonce
  NoMethod = NoMethod
INVARIANTS TotpCodeUsedOnce
PROPERTIES TotpSecretsStay LastWindowGrows LockoutCompletes
