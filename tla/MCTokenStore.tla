---------------------------- MODULE MCTokenStore ----------------------------
(* Three commands of one profile, two logins with up to three grants each.  *)
EXTENDS TokenStore, TLC

CONSTANTS c1, c2, c3

MCCmds == {c1, c2, c3}

Symmetry == Permutations(MCCmds)
=============================================================================
