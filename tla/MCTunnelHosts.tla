--------------------------- MODULE MCTunnelHosts ---------------------------
(***************************************************************************)
(* Three commands over the two host names of one device: a tunnel, a       *)
(* second tunnel or a reaper, and an editor, killed and recycled in any    *)
(* order.  Commands are interchangeable.                                   *)
(***************************************************************************)
EXTENDS TunnelHosts, TLC

CONSTANTS c1, c2, c3, d1

MCCmds == {c1, c2, c3}

MCDevices == {d1}

Symmetry == Permutations(MCCmds)
=============================================================================
