---------------------------- MODULE MCSmSessions ----------------------------
(* Instances of SmSessions for TLC. *)
EXTENDS SmSessions, TLC

CONSTANTS s1, s2, s3, s4, p1, p2, n1, n2, h1, h2

Symmetry == Permutations(Sessions) \cup Permutations(Procs) \cup Permutations(Ports)
              \cup Permutations(Names)

=============================================================================
