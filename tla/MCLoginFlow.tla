----------------------------- MODULE MCLoginFlow -----------------------------
(***************************************************************************)
(* Two logins and two ports, of which either may be pinned, so that the    *)
(* second login runs beside the first or takes over its port; every tab is *)
(* reloaded at most once.                                                  *)
(***************************************************************************)
EXTENDS LoginFlow

CONSTANTS p1, p2

MCPorts == <<p1, p2>>
=============================================================================
