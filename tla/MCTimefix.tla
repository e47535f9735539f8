------------------------------ MODULE MCTimefix ------------------------------
(* A session of the CLI or by hand, while another one obtains payloads for    *)
(* either device; four instants of which the middle two are inside the       *)
(* bounds.                                                                   *)
EXTENDS Timefix

CONSTANTS s1, o1, d1, d2

MCSessions == {s1}

MCOthers == {o1}

MCDevices == {d1, d2}
=============================================================================
