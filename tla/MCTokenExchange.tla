--------------------------- MODULE MCTokenExchange ---------------------------
EXTENDS TokenExchange, TLC

CONSTANTS Own, Other

\* Every code was issued to Own; Other is another client, or the same client at
\* the other issuer of its tenant.
MCCodeCaller == [c \in Codes |-> Own]

Symmetry == Permutations(Requests) \cup Permutations(Tokens) \cup Permutations(Codes)
=============================================================================
