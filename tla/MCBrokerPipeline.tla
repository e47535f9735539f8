--------------------------- MODULE MCBrokerPipeline ---------------------------
(***************************************************************************)
(* A small broker: durations are 8-bit words (-128..127) in units of 1/12  *)
(* minute, so that a lifetime of 22 minutes wraps around to less than the  *)
(* ceilings, as one of some 3 * 10^8 does in 64 bits and nanoseconds; the  *)
(* "machine" ceiling is no whole number of minutes.                        *)
(***************************************************************************)
EXTENDS BrokerPipeline, TLC

MCClasses == {"user", "machine"}
MCCertMinutes == {-1, 0, 1, 22}
MCTunnelMinutes == {-1, 0, 3, 4}
MCCertCeiling == [c \in MCClasses |-> IF c = "user" THEN 24 ELSE 18]
Symmetric == Permutations(Requests)
=============================================================================
