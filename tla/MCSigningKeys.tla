---------------------------- MODULE MCSigningKeys ----------------------------
(* No symmetry: the runs check temporal properties. *)
EXTENDS SigningKeys

CONSTANTS Own, Elsewhere, Stranger, Custom

\* Every token is Own's, at the platform path.  Elsewhere is the same client at
\* the custom domain, Stranger another client.
MCClaims == [t \in Tokens |-> Own]
MCIssuerOf == [w \in Callers |-> IF w = Elsewhere THEN Custom ELSE Platform]
=============================================================================
