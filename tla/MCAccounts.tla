----------------------------- MODULE MCAccounts -----------------------------
(* Requests, invitations, links and challenges are interchangeable. *)
EXTENDS Accounts, TLC

Symmetry == Permutations(Requests) \cup Permutations(Invitations)
                \cup Permutations(Links) \cup Permutations(Challenges)
=============================================================================
