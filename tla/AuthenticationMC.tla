-------------------------- MODULE AuthenticationMC ---------------------------
(* Users, passwords and requests are interchangeable. *)
EXTENDS Authentication, TLC

MCSymmetry == Permutations(Users) \cup Permutations(Passwords) \cup Permutations(Slots)
=============================================================================
