--------------------------- MODULE MCBrokerStartup ---------------------------
(***************************************************************************)
(* Four deployments: cmd/broker with an explicit file that has every       *)
(* section, cmd/broker with a candidate file and a flag, a Lambda          *)
(* configured by its environment alone, and one whose environment would do *)
(* without the explicit file it also has; each with up to two fields of    *)
(* the file or the environment edited to any other kind of value.          *)
(***************************************************************************)
EXTENDS BrokerStartup

Minimal ==
  [f \in Fields |-> CASE f \in Required \cup {"idp.audience", Table} -> "ok"
                      [] f = Issuer -> "https"
                      [] OTHER -> ""]

Complete ==
  [f \in Fields |-> CASE f \in {Table, Region} -> ""
                      [] f \in Texts \ {Table, Region} -> "ok"
                      [] f \in {Issuer, Url} -> "https"
                      [] f = Auth -> "bearer"
                      [] f \in {Target, Tunneling, Block} -> "true"
                      [] OTHER -> "ok"]

MCDeployments ==
  {[binary |-> "broker", explicit |-> TRUE, disk |-> {"explicit"},
    file |-> Complete, env |-> Nothing, addr |-> ""],
   [binary |-> "broker", explicit |-> FALSE,
    disk |-> {"/etc/postern/broker.yaml", "./broker.yaml"},
    file |-> Minimal, env |-> Nothing, addr |-> "ok"],
   [binary |-> "broker-lambda", explicit |-> FALSE, disk |-> {},
    file |-> Nothing, env |-> Minimal, addr |-> ""],
   [binary |-> "broker-lambda", explicit |-> TRUE, disk |-> {"explicit"},
    file |-> Minimal, env |-> Minimal, addr |-> ""]}
=============================================================================
