----------------------------- MODULE MCLoginFlow -----------------------------
EXTENDS LoginFlow, TLC
CONSTANTS u1, u2, s1, s2, s3
TotpFor1 == u1 :> s1 @@ u2 :> NoSecret
TotpForAll == [u \in Users |-> s1]
TotpForNone == [u \in Users |-> NoSecret]
Symmetry == Permutations(Requests) \cup Permutations(Challenges)
=============================================================================
