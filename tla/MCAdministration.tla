-------------------------- MODULE MCAdministration --------------------------
(* Requests, clients and tenants are interchangeable. *)
EXTENDS Administration, TLC

Symmetry == Permutations(Requests) \cup Permutations(Clients)
                \cup Permutations(Tenants)
=============================================================================
