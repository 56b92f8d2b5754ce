--------------------------- MODULE MCAuthorization ---------------------------
(* A client whose user must consent, registered for one of the two scopes. *)
EXTENDS Authorization, TLC

CONSTANTS agent, read, publish

AllowedDef == agent :> {read}
Symmetry == Permutations(Requests) \cup Permutations(Consents)
                \cup Permutations(Codes) \cup Permutations(Users)
=============================================================================
