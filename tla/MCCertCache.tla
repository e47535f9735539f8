---------------------------- MODULE MCCertCache ----------------------------
(***************************************************************************)
(* Three commands on one device: two minters or a minter and a prune can   *)
(* overlap while a third starts later.  Certificates live one tick (less   *)
(* than the safety margin) or three; the clock reaches the end of the      *)
(* first and takes the second from a hit to a miss.  The key is deleted at *)
(* most once.  Commands are interchangeable.                               *)
(***************************************************************************)
EXTENDS CertCache, TLC

CONSTANTS c1, c2, c3, d1

MCCmds == {c1, c2, c3}

MCDevices == {d1}

MCLifetimes == {1, 3}

Symmetry == Permutations(MCCmds)
=============================================================================
