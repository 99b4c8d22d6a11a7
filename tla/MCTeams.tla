------------------------------- MODULE MCTeams -------------------------------
(* Teams, small: groups, names and handlers are interchangeable.           *)
EXTENDS Teams, TLC

Symmetry == Permutations(Users) \cup Permutations(Groups) \cup Permutations(Handlers)
=============================================================================
