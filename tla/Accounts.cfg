SPECIFICATION Spec
CONSTANTS
    Users = {u1}
    Invitations = {i1, i2, i3}
    Links = {l1, l2}
    Challenges = {c1, c2}
    Requests = {r1, r2}
    None = None
    Ttl = 1
    MaxTime = 1
    MaxFailures = 1
SYMMETRY Symmetry
INVARIANTS
    TypeOK
    SingleLiveInvitation
    SupersededIsDead
    ActiveHasPassword
    OneTimeProofs
PROPERTY PasswordIsFinal
