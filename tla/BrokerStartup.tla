---------------------------- MODULE BrokerStartup ----------------------------
(***************************************************************************)
(* A broker process from its start to its end: LoadResolvedConfig (select  *)
(* a file, load it, defaults, environment, Validate), BuildDeps, and for   *)
(* cmd/broker the HTTP server, the signal and the graceful shutdown        *)
(* (pkg/brokerhandlers/config.go, internal/brokerwire, cmd/broker,         *)
(* cmd/broker-lambda).                                                     *)
(*                                                                         *)
(* A configuration maps each field to the kind of value it has: "" is      *)
(* unset, empty or zero, "ok" any value its checks accept, the other kinds *)
(* are what some check or conversion tells apart.  origin, which the code  *)
(* does not have, says which layer the value came from; sources is the     *)
(* code's own map.                                                         *)
(***************************************************************************)
EXTENDS Naturals

CONSTANTS Deployments,  \* what brokers are deployed with, see IsInput
          MaxEdits      \* bound on the fields an operator changes in one

VARIABLES input,    \* the command line, the environment and the config files
          edits,    \* the number of fields changed
          disk,     \* the config files that still exist
          pc,       \* where main is
          path,     \* the selected config file
          cfg,      \* Config
          origin,   \* history: the layer each value of cfg came from
          sources,  \* ResolvedConfig.Sources
          deps,     \* what BuildDeps made of cfg
          lst,      \* the goroutine in ListenAndServe, and its channel
          sig       \* has a signal cancelled ctx

resolved == <<cfg, origin, sources>>
vars == <<input, edits, disk, pc, path, resolved, deps, lst, sig>>

Addr == "listen.addr"
Issuer == "idp.issuer"
Table == "registry.dynamodb_table"
Url == "registry.http_url"
Auth == "registry.http_auth_mode"
Token == "registry.http_bearer_token"
Region == "registry.http_aws_region"
Lifetime == "tunneling.default_max_lifetime_minutes"
Format == "tunneling.thing_name_format"
Target == "tunneling.target_from_registry"
Roles == "tunneling.allowed_role_arns"
Tunneling == "tunneling"
Block == "idp.principal_classes"
Default == "idp.principal_classes.default"
Rules == "idp.principal_classes.rules"

(* Fields that only have to be there, numbers and durations, and the       *)
(* fields of the two optional sections.                                    *)
Required == {Addr, "signer.kms_key_arn", "ratelimit.dynamodb_table",
             "audit.cloudwatch_log_group", "policy.avp_policy_store_id"}
Texts == Required \cup {"idp.audience", "idp.required_scope", Table, Token,
                        Region, "tunneling.iot_region"}
Positive == {"ratelimit.limit", "ratelimit.window", "cert_ttl.operator"}
Numbers == Positive \cup {"registry.http_timeout"}
TunnelFields == {"tunneling.iot_region", Lifetime, Format, Target, Roles}
ClassFields == {Default, Rules}
Fields == Texts \cup Numbers \cup TunnelFields \cup ClassFields
            \cup {Issuer, Url, Auth, "cert_ttl.by_class", "trusted_proxies",
                  Tunneling, Block}

(* A URL that IsHTTPSOrLoopback accepts may have no host or another scheme *)
(* than HTTP's ("loose"), and an absolute http URL ("http") or any other   *)
(* text ("relative") need not be one it accepts.                           *)
IsHTTPSOrLoopback == {"https", "loose"}
AbsoluteURL == {"https", "http"}

(* The kinds of value a file can give a field.                             *)
FileValues(f) ==
  CASE f \in Texts -> {"", "ok"}
    [] f \in Numbers \cup {"cert_ttl.by_class"} -> {"", "ok", "negative"}
    [] f \in {Issuer, Url} -> {"", "https", "http", "loose", "relative"}
    [] f = Auth -> {"", "none", "bearer", "aws_sigv4", "other"}
    [] f \in {Format, Roles, Rules, "trusted_proxies"} -> {"", "ok", "bad"}
    [] f = Lifetime -> {"", "ok", "negative", "large"}
    [] f = Default -> {"", "ok", "long"}
    [] f \in {Target, Tunneling, Block} -> {"", "true"}

(* And its environment variable: some do not parse, an explicit zero or    *)
(* false is not the same as no variable, an int may not fit an int32, and  *)
(* the rules come with the whole block, with or without a default.         *)
EnvValues(f) ==
  CASE f \in Numbers -> {"", "ok", "negative", "zero", "unparsable"}
    [] f = Lifetime -> {"", "ok", "negative", "large", "zero", "wide", "unparsable"}
    [] f = Target -> {"", "true", "false", "unparsable"}
    [] f = Block -> {"", "rules", "rules and default", "bad rules", "unparsable"}
    [] f \in {Rules, Tunneling, "cert_ttl.by_class"} -> {""}
    [] OTHER -> FileValues(f)

Kinds == UNION {FileValues(f) \cup EnvValues(f) : f \in Fields}

(* A file that sets a field of a section has the section.                  *)
WellFormed(file) ==
  /\ (\E f \in TunnelFields : file[f] # "") => file[Tunneling] = "true"
  /\ (\E f \in ClassFields : file[f] # "") => file[Block] = "true"

Paths == {"explicit", "/etc/postern/broker.yaml", "./broker.yaml"}

(* The binary, whether --config or $POSTERN_BROKER_CONFIG names a file, the *)
(* files that exist and what is in them, the environment and --addr.        *)
IsInput(in) ==
  /\ in \in [binary : {"broker", "broker-lambda"}, explicit : BOOLEAN, disk : SUBSET Paths,
             file : [Fields -> Kinds], env : [Fields -> Kinds], addr : {"", "ok"}]
  /\ \A f \in Fields : in.file[f] \in FileValues(f) /\ in.env[f] \in EnvValues(f)
  /\ WellFormed(in.file)
  /\ in.addr # "" => in.binary = "broker"

ASSUME BrokerStartupAssumption ==
  /\ \A in \in Deployments : IsInput(in)
  /\ MaxEdits \in Nat

Nothing == [f \in Fields |-> ""]
NoDeps == [built |-> FALSE]

Init ==
  /\ input \in Deployments
  /\ edits = 0
  /\ disk = input.disk
  /\ pc = "idle"
  /\ path = ""
  /\ cfg = Nothing /\ origin = Nothing /\ sources = Nothing
  /\ deps = NoDeps
  /\ lst = "none"
  /\ sig = FALSE

Goto(l) == pc' = l

Fail ==
  /\ Goto("failed")
  /\ UNCHANGED <<input, edits, disk, path, resolved, deps, lst, sig>>

-----------------------------------------------------------------------------
(* Before the start, the operator puts some value into a field of the file *)
(* or into a variable.                                                     *)
Edit ==
  /\ pc = "idle" /\ edits < MaxEdits
  /\ \E f \in Fields :
       \/ \E v \in FileValues(f) : input' = [input EXCEPT !.file[f] = v]
       \/ \E v \in EnvValues(f) : input' = [input EXCEPT !.env[f] = v]
  /\ WellFormed(input'.file)
  /\ edits' = edits + 1
  /\ UNCHANGED <<disk, pc, path, resolved, deps, lst, sig>>

Start ==
  /\ pc = "idle"
  /\ edits' = 0
  /\ Goto("select")
  /\ UNCHANGED <<input, disk, path, resolved, deps, lst, sig>>

(* selectedConfigPath: the explicit path unseen, else the first candidate  *)
(* that exists.                                                            *)
Select ==
  /\ pc = "select"
  /\ path' = IF input.explicit THEN "explicit"
             ELSE IF "/etc/postern/broker.yaml" \in disk THEN "/etc/postern/broker.yaml"
             ELSE IF "./broker.yaml" \in disk THEN "./broker.yaml"
             ELSE ""
  /\ Goto("load")
  /\ UNCHANGED <<input, edits, disk, resolved, deps, lst, sig>>

(* The file is removed or renamed between Stat and Open.                   *)
Vanish ==
  /\ pc = "load"
  /\ path \in disk
  /\ disk' = disk \ {path}
  /\ UNCHANGED <<input, edits, pc, path, resolved, deps, lst, sig>>

(* markFileSources leaves these out.                                       *)
Unmarked == ClassFields \cup {Block, Tunneling, "registry.http_timeout", "cert_ttl.by_class"}

Mark(file) == [f \in Fields |-> IF file[f] # "" /\ f \notin Unmarked THEN path ELSE ""]

(* LoadConfigFile and markFileSources; a candidate that is gone by now is  *)
(* no file, an explicit one is an error.                                   *)
Load ==
  /\ pc = "load"
  /\ path # "" /\ path \notin disk => ~input.explicit
  /\ LET file == IF path \in disk THEN input.file ELSE Nothing
     IN  /\ cfg' = file
         /\ origin' = [f \in Fields |-> IF file[f] # "" THEN path ELSE ""]
         /\ sources' = Mark(file)
  /\ Goto("defaults")
  /\ UNCHANGED <<input, edits, disk, path, deps, lst, sig>>

(* No file at the explicit path, one that cannot be read or does not       *)
(* decode, or a candidate that cannot be looked at.                        *)
LoadFails ==
  /\ \/ pc = "load" /\ path # "" /\ (path \in disk \/ input.explicit)
     \/ pc = "select" /\ ~input.explicit
  /\ Fail

(* WithDefaults, before the environment is looked at.                      *)
Defaulted ==
  {f \in Positive \cup {Addr} : cfg[f] = ""}
    \cup {f \in {Format} : cfg[Tunneling] # "" /\ cfg[f] = ""}
    \cup {f \in {Default} : cfg[Block] # "" /\ cfg[f] = ""}

WithDefaults ==
  LET unset == Defaulted
      fill(m, v) == [f \in Fields |-> IF f \in unset THEN v ELSE m[f]]
  IN  /\ pc = "defaults"
      /\ cfg' = fill(cfg, "ok")
      /\ origin' = fill(origin, "default")
      /\ sources' = fill(sources, "default")
      /\ Goto("env")
      /\ UNCHANGED <<input, edits, disk, path, deps, lst, sig>>

-----------------------------------------------------------------------------
env == input.env
IsSet(f) == env[f] # ""

TargetDisabled == env[Target] = "false"

(* Fields a variable of their own writes: the allowlist's is skipped when  *)
(* the target flag is turned off.                                          *)
Written == {f \in Fields \ {Block} : IsSet(f) /\ ~(f = Roles /\ TargetDisabled)}

(* Fields that are emptied because of another variable: the other registry *)
(* backend, and the file's allowlist without its flag.                     *)
Cleared ==
  {f \in {Url} : IsSet(Table) /\ ~IsSet(Url)}
    \cup {f \in {Table} : IsSet(Url) /\ ~IsSet(Table)}
    \cup {f \in {Roles} : TargetDisabled}

(* Fields the principal_classes block of the environment replaces.         *)
Replaced == IF IsSet(Block) THEN ClassFields \ Written ELSE {}
BlockValue(f) ==
  CASE f = Rules -> IF env[Block] = "bad rules" THEN "bad" ELSE "ok"
    [] f = Default -> IF env[Block] = "rules and default" THEN "ok" ELSE ""

(* Sections are allocated by the first variable that needs them; the block *)
(* of the environment is one of its own.                                   *)
Allocated ==
  {s \in {Tunneling} : Written \cap TunnelFields # {} /\ cfg[s] = ""}
    \cup {s \in {Block} : IsSet(Block) \/ (IsSet(Default) /\ cfg[s] = "")}

(* What the setters make of a variable: a zero or false is stored, and     *)
(* int32(parsed) keeps the low bits of a lifetime that is too wide.        *)
Stored(f) ==
  CASE env[f] \in {"zero", "false"} -> {""}
    [] env[f] = "wide" -> {"", "ok", "negative", "large"}
    [] OTHER -> {env[f]}

(* Mutant: a cleared backend or allowlist keeps its entry.                 *)
EnvSourcesKept(written, cleared) ==
  [f \in Fields |-> IF f \in written THEN "env" ELSE sources[f]]

EnvSources(written, cleared) ==
  [f \in Fields |-> IF f \in written THEN "env" ELSE IF f \in cleared THEN "" ELSE sources[f]]

(* applyEnvOverrides.                                                      *)
ApplyEnv ==
  LET written == Written
      cleared == Cleared
      replaced == Replaced
      allocated == Allocated
  IN  /\ pc = "env"
      /\ \A f \in Fields : env[f] # "unparsable"
      /\ \E minutes \in Stored(Lifetime) :
           cfg' = [f \in Fields |->
                     CASE f \in written -> IF f = Lifetime THEN minutes
                                           ELSE CHOOSE v \in Stored(f) : TRUE
                       [] f \in replaced -> BlockValue(f)
                       [] f \in cleared -> ""
                       [] f \in allocated -> "true"
                       [] OTHER -> cfg[f]]
      /\ origin' = [f \in Fields |->
                      CASE f \in written \cup allocated -> "env"
                        [] f \in replaced -> IF BlockValue(f) = "" THEN "" ELSE "env"
                        [] f \in cleared -> ""
                        [] OTHER -> origin[f]]
      /\ sources' = EnvSources(written \cup {f \in {Block} : IsSet(f)}, cleared)
      /\ Goto("validate")
      /\ UNCHANGED <<input, edits, disk, path, deps, lst, sig>>

ApplyEnvFails ==
  /\ pc = "env"
  /\ \E f \in Fields : env[f] = "unparsable"
  /\ Fail

-----------------------------------------------------------------------------
(* The registry part of Validate: one backend, and its authentication.     *)
RegistryValid ==
  /\ (cfg[Table] = "") # (cfg[Url] = "")
  /\ CASE cfg[Auth] \in {"", "none"} -> cfg[Token] = "" /\ cfg[Region] = ""
       [] cfg[Auth] = "bearer" ->
            cfg[Url] \in IsHTTPSOrLoopback /\ cfg[Token] # "" /\ cfg[Region] = ""
       [] cfg[Auth] = "aws_sigv4" -> cfg[Url] # "" /\ cfg[Token] = ""
       [] OTHER -> FALSE

(* validateTunnelingTarget and the name format.                            *)
TunnelingValid ==
  cfg[Tunneling] # "" =>
    /\ cfg[Format] # "bad"
    /\ cfg[Roles] = (IF cfg[Target] = "true" THEN "ok" ELSE "")

(* Mutant: the allowlist is not looked at.                                 *)
ValidAnyRoles ==
  /\ \A f \in Required : cfg[f] # ""
  /\ \A f \in Positive : cfg[f] = "ok"
  /\ cfg[Issuer] \in IsHTTPSOrLoopback
  /\ cfg["idp.audience"] # "" \/ cfg["idp.required_scope"] # ""
  /\ cfg[Rules] # "bad" /\ cfg[Default] # "long"
  /\ cfg["cert_ttl.by_class"] # "negative" /\ cfg["trusted_proxies"] # "bad"
  /\ RegistryValid

Valid ==
  /\ \A f \in Required : cfg[f] # ""
  /\ \A f \in Positive : cfg[f] = "ok"
  /\ cfg[Issuer] \in IsHTTPSOrLoopback
  /\ cfg["idp.audience"] # "" \/ cfg["idp.required_scope"] # ""
  /\ cfg[Rules] # "bad" /\ cfg[Default] # "long"
  /\ cfg["cert_ttl.by_class"] # "negative" /\ cfg["trusted_proxies"] # "bad"
  /\ RegistryValid
  /\ TunnelingValid

(* Validate, and in cmd/broker the --addr flag on top.                     *)
Validate ==
  LET flagged == {f \in {Addr} : input.addr # ""}
      set(m, v) == [f \in Fields |-> IF f \in flagged THEN v ELSE m[f]]
  IN  /\ pc = "validate"
      /\ Valid
      /\ cfg' = set(cfg, input.addr)
      /\ origin' = set(origin, "flag")
      /\ sources' = set(sources, "flag")
      /\ Goto("wire")
      /\ UNCHANGED <<input, edits, disk, path, deps, lst, sig>>

ValidateFails ==
  /\ pc = "validate"
  /\ ~Valid
  /\ Fail

-----------------------------------------------------------------------------
(* What the constructors called by BuildDeps themselves insist on; the     *)
(* region of SigV4 may also come from the AWS configuration.               *)
RegistryBuilds(awsRegion) ==
  IF cfg[Url] = "" THEN cfg[Table] # ""
  ELSE /\ cfg[Url] \in AbsoluteURL
       /\ cfg[Auth] \in {"", "none", "bearer", "aws_sigv4"}
       /\ cfg[Auth] = "aws_sigv4" => cfg[Region] # "" \/ awsRegion

TunnelKind ==
  CASE cfg[Tunneling] # "" /\ cfg[Target] = "true" -> "targeted"
    [] cfg[Tunneling] # "" /\ cfg[Target] # "true" /\ cfg["tunneling.iot_region"] # "" -> "fixed"
    [] OTHER -> "none"

Builds(awsRegion) ==
  /\ cfg["idp.audience"] # "" \/ cfg["idp.required_scope"] # ""
  /\ \A f \in Required \ {Addr} : cfg[f] # ""
  /\ cfg["ratelimit.limit"] = "ok" /\ cfg["ratelimit.window"] = "ok"
  /\ RegistryBuilds(awsRegion)
  /\ TunnelKind # "none" => cfg[Format] # "bad"
  /\ TunnelKind = "targeted" => cfg[Roles] = "ok"
  /\ cfg["trusted_proxies"] # "bad"

(* The values the endpoints work with: the constructors put defaults where *)
(* the configuration has none, and bound the tunnel lifetime.              *)
Built ==
  [built |-> TRUE,
   registry |-> IF cfg[Url] = "" THEN "dynamodb" ELSE "http",
   operatorTTL |-> IF cfg["cert_ttl.operator"] = "ok" THEN "cert_ttl.operator" ELSE "default",
   byClass |-> cfg["cert_ttl.by_class"] = "ok",
   class |-> IF cfg[Default] = "" THEN "default" ELSE cfg[Default],
   timeout |-> IF cfg["registry.http_timeout"] = "ok" THEN "registry.http_timeout" ELSE "default",
   tunnel |-> TunnelKind,
   format |-> IF cfg[Format] = "" THEN "default" ELSE cfg[Format],
   lifetime |-> CASE cfg[Lifetime] \in {"", "negative"} -> "default"
                  [] cfg[Lifetime] = "large" -> "maximum"
                  [] OTHER -> cfg[Lifetime],
   roles |-> cfg[Roles]]

(* BuildDeps; a Lambda then serves for good.                               *)
BuildDeps ==
  /\ pc = "wire"
  /\ \E awsRegion \in BOOLEAN : Builds(awsRegion)
  /\ deps' = Built
  /\ IF input.binary = "broker" THEN Goto("serving") /\ lst' = "starting"
                                ELSE Goto("lambda") /\ UNCHANGED lst
  /\ UNCHANGED <<input, edits, disk, path, resolved, sig>>

(* OIDC discovery, the KMS key or the AWS configuration cannot be fetched  *)
(* (their context may be cancelled), or a constructor refuses cfg.         *)
BuildDepsFails == pc = "wire" /\ Fail

-----------------------------------------------------------------------------
(* The server: ListenAndServe in its goroutine, main in the select and     *)
(* then in Shutdown.                                                       *)
server == <<input, edits, disk, path, resolved, deps>>

ListenUp ==
  /\ lst = "starting" /\ pc = "serving"
  /\ lst' = "up"
  /\ UNCHANGED <<server, pc, sig>>

(* The address cannot be bound, or Accept fails.                           *)
ListenFails ==
  /\ lst \in {"starting", "up"}
  /\ lst' = "error"
  /\ UNCHANGED <<server, pc, sig>>

(* Mutant: ErrServerClosed is not sent to the channel.                     *)
ListenClosedSilent ==
  /\ lst \in {"starting", "up"} /\ pc \in {"shutdown", "drain"}
  /\ lst' = "gone"
  /\ UNCHANGED <<server, pc, sig>>

(* ErrServerClosed, as soon as Shutdown is called.                         *)
ListenClosed ==
  /\ lst \in {"starting", "up"} /\ pc \in {"shutdown", "drain"}
  /\ lst' = "closed"
  /\ UNCHANGED <<server, pc, sig>>

(* <-listenErr, in the select or after Shutdown.                           *)
Returned ==
  /\ pc \in {"serving", "drain"} /\ lst \in {"error", "closed"}
  /\ Goto("returned")
  /\ UNCHANGED <<server, lst, sig>>

Shutdown ==
  /\ pc = "serving" /\ sig
  /\ Goto("shutdown")
  /\ UNCHANGED <<server, lst, sig>>

(* Shutdown ends when the last request does, or with the grace period.     *)
ShutdownEnds ==
  /\ pc = "shutdown"
  /\ Goto("drain") \/ Goto("returned")
  /\ UNCHANGED <<server, lst, sig>>

(* SIGINT or SIGTERM; NotifyContext is cmd/broker's.  ctx is first looked  *)
(* at by BuildDeps, so that a signal before is as good as one there.       *)
Signal ==
  /\ input.binary = "broker" /\ ~sig /\ pc \in {"wire", "serving"}
  /\ sig' = TRUE
  /\ UNCHANGED <<server, pc, lst>>

Main ==
  \/ Select \/ Load \/ LoadFails \/ WithDefaults \/ ApplyEnv \/ ApplyEnvFails
  \/ Validate \/ ValidateFails \/ BuildDeps \/ BuildDepsFails
  \/ Returned \/ Shutdown \/ ShutdownEnds

Next == Edit \/ Start \/ Main \/ ListenUp \/ ListenFails \/ ListenClosed \/ Vanish \/ Signal

(* main and the goroutine keep running, and calls return.                  *)
Spec == Init /\ [][Next]_vars /\ WF_vars(Main) /\ WF_vars(ListenClosed)

-----------------------------------------------------------------------------
(* Validate accepts nothing that BuildDeps refuses, apart from a registry  *)
(* URL that is not an absolute http or https one and a SigV4 region nobody *)
(* names: whatever the layers combine to, a broker that passed Validate    *)
(* fails to start only through a call it makes.  And no constructor's      *)
(* fallback replaces an operator lifetime or a tunnel's allowlist, so that *)
(* the endpoints start from what BrokerPipeline assumes of its constants.  *)
AcceptedIsWirable ==
  /\ pc = "wire" /\ cfg[Url] \in {""} \cup AbsoluteURL => Builds(TRUE)
  /\ deps.built => /\ deps.operatorTTL # "default"
                   /\ deps.tunnel = "targeted" => deps.roles = "ok"
                   /\ deps.tunnel # "targeted" => deps.roles = ""
                   /\ deps.tunnel # "none" => deps.format \in {"ok", "default"}

(* The fields of a file the operator named, unless the environment clears  *)
(* or replaces them.                                                       *)
Named ==
  {f \in Fields : input.explicit /\ input.file[f] # "" /\ f \notin Cleared \cup Replaced}

(* --print-config tells the truth: a field's entry in Sources is the layer *)
(* its value came from, after files that vanish, backends switched and     *)
(* allowlists dropped by the environment; a variable that is set decides   *)
(* its field; and what a file named by the operator sets is in force       *)
(* unless a later layer sets it, so that a named file that is missing      *)
(* never passes for an empty one.  Fields markFileSources leaves out may   *)
(* have no entry.  Excepted is the default class, whose entry a block from *)
(* the environment leaves as it was.                                       *)
SourcesTrue ==
  pc \in {"wire", "serving", "lambda", "shutdown", "drain"} =>
    /\ \A f \in Fields \ Unmarked : sources[f] = origin[f]
    /\ \A f \in Unmarked \ {Default} : sources[f] \in {"", origin[f]}
    /\ \A f \in Fields : IsSet(f) =>
         \/ origin[f] = (IF f = Addr /\ input.addr # "" THEN "flag" ELSE "env")
         \/ f = Roles /\ TargetDisabled
    /\ \A f \in Named : origin[f] \in {"explicit", "env", "flag"}

(* A signal ends cmd/broker, at whatever point of the start, the serving   *)
(* or a failing listener it arrives.                                       *)
StopsOnSignal == sig ~> pc \in {"returned", "failed"}
=============================================================================
