----------------------------- MODULE MCDomains -----------------------------
EXTENDS Domains, TLC

CONSTANTS c1, c2, m1

(* Two names that are both registered at the start may be exchanged.       *)
Symmetry == Permutations({c1, c2})
=============================================================================
