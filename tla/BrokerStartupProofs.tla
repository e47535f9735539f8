------------------------ MODULE BrokerStartupProofs ------------------------
(***************************************************************************)
(* What a broker that has passed Validate can rely on, for any deployment  *)
(* and any combination of file, defaults, environment and flag.            *)
(***************************************************************************)
EXTENDS BrokerStartup, TLAPS

\* How long a solver may take on one step.
USE SMTT(60)

Started == {"wire", "serving", "lambda", "shutdown", "drain"}

(* The configuration while the layers are applied: the name format has one *)
(* of its kinds, and there is no allowlist without its section.            *)
CfgInv ==
  /\ cfg[Format] \in {"", "ok", "bad"}
  /\ cfg[Tunneling] = "" => cfg[Roles] = ""

(* Sources before the environment is looked at: what markFileSources and   *)
(* the defaults noted, and nothing for the fields they leave out; what a   *)
(* named file sets is there.                                               *)
MarkedInv ==
  pc \in {"defaults", "env"} =>
    /\ \A f \in Fields \ Unmarked : sources[f] = origin[f]
    /\ \A f \in Unmarked \ {Default} : sources[f] = ""
    /\ input.explicit => \A f \in Fields : input.file[f] # "" => cfg[f] # "" /\ origin[f] = "explicit"

(* And after it.                                                           *)
LayeredInv ==
  pc = "validate" =>
    /\ \A f \in Fields \ Unmarked : sources[f] = origin[f]
    /\ \A f \in Unmarked \ {Default} : sources[f] \in {"", origin[f]}
    /\ \A f \in Fields : IsSet(f) => origin[f] = "env" \/ (f = Roles /\ TargetDisabled)
    /\ \A f \in Named : origin[f] \in {"explicit", "env"}

(* A file the operator named is the one that is loaded.                    *)
PathInv == path \in {""} \cup Paths /\ (pc = "load" /\ input.explicit => path = "explicit")

(* What was accepted is still there when it is wired.                      *)
AcceptedInv == pc = "wire" => Valid

(* No constructor's fallback is in what the endpoints were given.          *)
DepsInv ==
  deps.built => /\ deps.operatorTTL # "default"
                /\ deps.tunnel = "targeted" => deps.roles = "ok"
                /\ deps.tunnel # "targeted" => deps.roles = ""
                /\ deps.tunnel # "none" => deps.format \in {"ok", "default"}

StartupInv ==
  /\ IsInput(input) /\ PathInv
  /\ CfgInv /\ MarkedInv /\ LayeredInv /\ AcceptedInv
  /\ DepsInv /\ SourcesTrue
-----------------------------------------------------------------------------
(* The fields.                                                             *)

(* The settings that the rules name are fields.                            *)
LEMMA FieldFacts ==
    /\ {Addr, Issuer, Table, Url, Auth, Token, Region, Lifetime, Format, Target, Roles, Tunneling, Block,
        Default, Rules, "idp.audience", "idp.required_scope", "cert_ttl.by_class", "trusted_proxies",
        "cert_ttl.operator", "ratelimit.limit", "ratelimit.window", "tunneling.iot_region",
        "registry.http_timeout"} \subseteq Fields
    /\ Required \subseteq Fields /\ Positive \subseteq Fields /\ Unmarked \subseteq Fields
    /\ TunnelFields \subseteq Fields /\ ClassFields \subseteq Fields
BY DEF Fields, Texts, Numbers, Required, Positive, Unmarked, TunnelFields, ClassFields, Addr, Issuer,
       Table, Url, Auth, Token, Region, Lifetime, Format, Target, Roles, Tunneling, Block, Default, Rules

(* The fields that a layer writes together, and those it leaves alone, are *)
(* different ones.                                                         *)
LEMMA FieldsDiffer ==
    /\ Addr \notin Unmarked /\ Roles \notin Unmarked /\ Url \notin Unmarked /\ Table \notin Unmarked
    /\ Format \notin Unmarked /\ Positive \cap Unmarked = {}
    /\ Unmarked \ {Default} = {Rules, Block, Tunneling, "registry.http_timeout", "cert_ttl.by_class"}
    /\ Addr \notin {Format, Tunneling, Roles, Target, Url, Table, Auth, Token, Region, Issuer, Rules, Default}
    /\ Addr \notin {"idp.audience", "idp.required_scope", "cert_ttl.by_class", "trusted_proxies",
                    "tunneling.iot_region"}
    /\ Addr \notin Positive /\ Roles \notin Positive \cup {Addr, Format, Default, Tunneling, Block, Url, Table}
    /\ Format \notin {Roles, Tunneling, Block, Url, Table, Lifetime} \cup ClassFields
    /\ Roles \notin ClassFields \cup {Lifetime} /\ Tunneling \notin Positive \cup {Addr, Format, Default}
    /\ Tunneling \notin ClassFields \cup {Url, Table, Roles, Block} /\ Block # Tunneling
BY DEF Unmarked, ClassFields, Positive, Addr, Issuer, Table, Url, Auth, Token, Region, Lifetime, Format,
       Target, Roles, Tunneling, Block, Default, Rules

(* What a named file decides depends on the deployment alone.              *)
LEMMA NamedStays ==
    ASSUME UNCHANGED input
    PROVE  Named' = Named
BY Zenon DEF Named, Cleared, Replaced, Written, IsSet, TargetDisabled, env

(* Steps that leave the configuration alone.                               *)
LEMMA QuietKeeps ==
    ASSUME StartupInv, UNCHANGED <<input, cfg, origin, sources, deps>>, PathInv',
           pc' = pc \/ (pc' \notin {"defaults", "env", "validate", "wire"} /\ (pc' \in Started => pc \in Started))
    PROVE  StartupInv'
<1>1. IsInput(input)' /\ CfgInv'
  BY Zenon DEF StartupInv, CfgInv
<1>2. MarkedInv' /\ LayeredInv'
  BY NamedStays, Zenon DEF StartupInv, MarkedInv, LayeredInv, IsSet, TargetDisabled, env
<1>3. Valid' <=> Valid
  BY Zenon DEF Valid, RegistryValid, TunnelingValid
<1>4. AcceptedInv' /\ DepsInv'
  BY <1>3, Zenon DEF StartupInv, AcceptedInv, DepsInv
<1>5. SourcesTrue'
  BY NamedStays, Zenon DEF StartupInv, SourcesTrue, IsSet, TargetDisabled, env, Started
<1> QED
  BY <1>1, <1>2, <1>4, <1>5, Zenon DEF StartupInv

(* A start that fails changes no configuration.                            *)
LEMMA FailKeeps ==
    ASSUME StartupInv, Fail
    PROVE  StartupInv'
<1>1. UNCHANGED <<input, cfg, origin, sources, deps>> /\ path' = path /\ pc' = "failed"
  BY Zenon DEF Fail, Goto, resolved
<1>2. pc' \notin {"defaults", "env", "validate", "wire"} /\ pc' \notin Started
  BY <1>1 DEF Started
<1>3. PathInv'
  <2>1. pc' # "load"
    BY <1>1
  <2> QED
    BY <1>1, <2>1, Zenon DEF StartupInv, PathInv
<1> QED
  BY <1>1, <1>2, <1>3, QuietKeeps, Zenon

(* Neither does what comes before the file is read, nor the server once it *)
(* is wired.                                                               *)
LEMMA ServerKeeps ==
    ASSUME StartupInv, \/ ListenUp \/ ListenFails \/ ListenClosed \/ Returned \/ Shutdown \/ ShutdownEnds
                       \/ Signal \/ Vanish \/ Start \/ Select
    PROVE  StartupInv'
<1>1. UNCHANGED <<input, cfg, origin, sources, deps>>
  BY Zenon DEF ListenUp, ListenFails, ListenClosed, Returned, Shutdown, ShutdownEnds, Signal, Vanish, Start,
               Select, server, resolved
<1>2. PathInv'
  <2>1. CASE Select
    BY <2>1, Zenon DEF Select, Paths, PathInv
  <2>2. CASE ~Select
    <3>1. path' = path /\ (pc' = pc \/ pc' \in {"returned", "shutdown", "drain", "select"})
      BY <2>2, Zenon DEF ListenUp, ListenFails, ListenClosed, Returned, Shutdown, ShutdownEnds, Signal, Vanish,
                         Start, server, Goto
    <3>2. pc' = "load" => pc = "load"
      BY <3>1, Zenon
    <3> QED
      BY <1>1, <3>1, <3>2, Zenon DEF StartupInv, PathInv
  <2> QED
    BY <2>1, <2>2, Zenon
<1>3. CASE ListenUp \/ ListenFails \/ ListenClosed \/ Signal \/ Vanish
  <2>1. pc' = pc
    BY <1>3, Zenon DEF ListenUp, ListenFails, ListenClosed, Signal, Vanish
  <2> QED
    BY <1>1, <1>2, <2>1, QuietKeeps, Zenon
<1>4. CASE Returned \/ Shutdown \/ ShutdownEnds \/ Start \/ Select
  <2>1. \/ pc' \in {"returned", "select", "load"}
        \/ pc' \in {"shutdown", "drain"} /\ pc \in {"serving", "shutdown"}
    BY <1>4, Zenon DEF Returned, Shutdown, ShutdownEnds, Start, Select, Goto
  <2>2. pc' \notin {"defaults", "env", "validate", "wire"} /\ (pc' \in Started => pc \in Started)
    BY <2>1 DEF Started
  <2> QED
    BY <1>1, <1>2, <2>2, QuietKeeps, Zenon
<1> QED
  BY <1>3, <1>4, Zenon

(* The operator's edits leave a well-formed deployment.                    *)
Inputs ==
  [binary : {"broker", "broker-lambda"}, explicit : BOOLEAN, disk : SUBSET Paths,
   file : [Fields -> Kinds], env : [Fields -> Kinds], addr : {"", "ok"}]

(* What the operator may write into the file leaves an input that a        *)
(* process can be given.                                                   *)
LEMMA FileEdited ==
    ASSUME NEW in, IsInput(in), NEW f \in Fields, NEW v \in FileValues(f), NEW out,
           out = [in EXCEPT !.file[f] = v], WellFormed(out.file)
    PROVE  IsInput(out)
<1>1. in \in Inputs /\ v \in Kinds
  <2>1. in \in Inputs
    BY Zenon DEF IsInput, Inputs
  <2>2. v \in Kinds
    BY ZenonT(90) DEF Kinds
  <2> QED
    BY <2>1, <2>2, Zenon
<1>2. /\ out \in Inputs /\ out.file = [in.file EXCEPT ![f] = v] /\ out.env = in.env /\ out.addr = in.addr
      /\ out.binary = in.binary
  BY <1>1, Zenon DEF Inputs
<1>3. in.file \in [Fields -> Kinds]
  BY <1>1, Zenon DEF Inputs
<1>4. \A g \in Fields : out.file[g] = in.file[g] \/ (g = f /\ out.file[g] = v)
  <2> DEFINE m == in.file
  <2> DEFINE n == out.file
  <2>1. m \in [Fields -> Kinds] /\ n = [m EXCEPT ![f] = v]
    BY <1>2, <1>3, Zenon
  <2> HIDE DEF m, n
  <2>2. \A g \in Fields : n[g] = m[g] \/ (g = f /\ n[g] = v)
    BY <2>1
  <2> QED
    BY <2>2, Zenon DEF m, n
<1>5. \A g \in Fields : out.file[g] \in FileValues(g) /\ out.env[g] \in EnvValues(g)
  BY <1>2, <1>4, Zenon DEF IsInput
<1> QED
  BY <1>2, <1>5, Zenon DEF IsInput, Inputs

(* And so does what the operator may put into the environment.             *)
LEMMA EnvEdited ==
    ASSUME NEW in, IsInput(in), NEW f \in Fields, NEW v \in EnvValues(f), NEW out,
           out = [in EXCEPT !.env[f] = v]
    PROVE  IsInput(out)
<1>1. in \in Inputs /\ v \in Kinds
  <2>1. in \in Inputs
    BY Zenon DEF IsInput, Inputs
  <2>2. v \in Kinds
    BY Zenon DEF Kinds
  <2> QED
    BY <2>1, <2>2, Zenon
<1>2. /\ out \in Inputs /\ out.env = [in.env EXCEPT ![f] = v] /\ out.file = in.file /\ out.addr = in.addr
      /\ out.binary = in.binary
  BY <1>1, Zenon DEF Inputs
<1>3. in.env \in [Fields -> Kinds]
  BY <1>1, Zenon DEF Inputs
<1>4. \A g \in Fields : out.env[g] = in.env[g] \/ (g = f /\ out.env[g] = v)
  <2> DEFINE m == in.env
  <2> DEFINE n == out.env
  <2>1. m \in [Fields -> Kinds] /\ n = [m EXCEPT ![f] = v]
    BY <1>2, <1>3, Zenon
  <2> HIDE DEF m, n
  <2>2. \A g \in Fields : n[g] = m[g] \/ (g = f /\ n[g] = v)
    BY <2>1
  <2> QED
    BY <2>2, Zenon DEF m, n
<1>5. \A g \in Fields : out.file[g] \in FileValues(g) /\ out.env[g] \in EnvValues(g)
  BY <1>2, <1>4, Zenon DEF IsInput
<1> QED
  BY <1>2, <1>5, Zenon DEF IsInput, Inputs

(* The operator edits before the process has started, when nothing has     *)
(* been loaded.                                                            *)
LEMMA EditKeeps ==
    ASSUME StartupInv, Edit
    PROVE  StartupInv'
<1>1. pc = "idle" /\ pc' = pc /\ UNCHANGED <<cfg, origin, sources, deps, path>> /\ IsInput(input)
  BY Zenon DEF Edit, resolved, StartupInv
<1>2. PICK f \in Fields :
        \/ \E v \in FileValues(f) : input' = [input EXCEPT !.file[f] = v]
        \/ \E v \in EnvValues(f) : input' = [input EXCEPT !.env[f] = v]
  BY Zenon DEF Edit
<1>3. IsInput(input')
  <2>1. CASE \E v \in FileValues(f) : input' = [input EXCEPT !.file[f] = v]
    <3>1. PICK v \in FileValues(f) : input' = [input EXCEPT !.file[f] = v]
      BY <2>1, Zenon
    <3> QED
      BY <1>1, <3>1, FileEdited, Zenon DEF Edit
  <2>2. CASE \E v \in EnvValues(f) : input' = [input EXCEPT !.env[f] = v]
    <3>1. PICK v \in EnvValues(f) : input' = [input EXCEPT !.env[f] = v]
      BY <2>2, Zenon
    <3> QED
      BY <1>1, <3>1, EnvEdited, Zenon
  <2> QED
    BY <1>2, <2>1, <2>2, Zenon
<1>4. pc' \notin {"defaults", "env", "validate", "wire"} /\ pc' \notin Started
  BY <1>1 DEF Started
<1>5. MarkedInv' /\ LayeredInv' /\ AcceptedInv' /\ SourcesTrue' /\ DepsInv' /\ CfgInv'
  BY <1>1, <1>4, Zenon DEF StartupInv, MarkedInv, LayeredInv, AcceptedInv, SourcesTrue, DepsInv,
                           CfgInv, Started
<1>6. PathInv'
  <2>1. pc' # "load"
    BY <1>1
  <2> QED
    BY <1>1, <2>1, Zenon DEF StartupInv, PathInv
<1> QED
  BY <1>3, <1>5, <1>6, Zenon DEF StartupInv
-----------------------------------------------------------------------------
(* The layers.                                                             *)

(* The kinds of the name format, and the fields no variable sets.          *)
LEMMA KindsAre ==
    /\ FileValues(Format) = {"", "ok", "bad"} /\ EnvValues(Format) = {"", "ok", "bad"}
    /\ EnvValues(Tunneling) = {""} /\ EnvValues(Rules) = {""} /\ EnvValues("cert_ttl.by_class") = {""}
<1>1. /\ Format \notin Texts /\ Format \notin Numbers \cup {"cert_ttl.by_class"} /\ Format \notin {Issuer, Url}
      /\ Format # Auth /\ Format \in {Format, Roles, Rules, "trusted_proxies"} /\ Format # Lifetime
      /\ Format # Default /\ Format \notin {Target, Tunneling, Block}
  BY DEF Texts, Required, Numbers, Positive, Format, Tunneling, Issuer, Url, Auth, Lifetime, Target, Block,
         Addr, Table, Token, Region, Default
<1>2. FileValues(Format) = {"", "ok", "bad"}
  BY <1>1, Zenon DEF FileValues
<1>3. EnvValues(Format) = FileValues(Format)
  <2>1. Format \notin Numbers /\ Format # Target /\ Format # Block /\ Format \notin {Rules, Tunneling, "cert_ttl.by_class"}
    BY <1>1 DEF Format, Rules, Tunneling, Target, Block
  <2> QED
    BY <1>1, <2>1, Zenon DEF EnvValues
<1>4. ASSUME NEW f \in {Rules, Tunneling, "cert_ttl.by_class"}
      PROVE  EnvValues(f) = {""}
  <2>1. f \notin Numbers /\ f # Lifetime /\ f # Target /\ f # Block
    BY <1>4 DEF Numbers, Positive, Lifetime, Target, Block, Rules, Tunneling
  <2> QED
    BY <1>4, <2>1, Zenon DEF EnvValues
<1> QED
  BY <1>2, <1>3, <1>4, Zenon

(* Between two layers only what holds of the layers has to be shown.       *)
LEMMA PhaseKeeps ==
    ASSUME StartupInv, UNCHANGED <<input, deps, path>>, pc' \in {"defaults", "env", "validate"},
           CfgInv', MarkedInv', LayeredInv'
    PROVE  StartupInv'
<1>1. pc' # "wire" /\ pc' \notin {"wire", "serving", "lambda", "shutdown", "drain"}
  OBVIOUS
<1>2. AcceptedInv' /\ DepsInv' /\ SourcesTrue'
  BY <1>1, Zenon DEF StartupInv, AcceptedInv, DepsInv, SourcesTrue
<1>3. PathInv'
  <2>1. pc' # "load"
    OBVIOUS
  <2> QED
    BY <2>1, Zenon DEF StartupInv, PathInv
<1> QED
  BY <1>2, <1>3, Zenon DEF StartupInv

(* LoadResolvedConfig marks what the file gave, and nothing when there is  *)
(* no file.                                                                *)
LEMMA LoadKeeps ==
    ASSUME StartupInv, Load
    PROVE  StartupInv'
<1> DEFINE file == IF path \in disk THEN input.file ELSE Nothing
<1>1. /\ pc' = "defaults" /\ UNCHANGED <<input, deps, path>> /\ cfg' = file
      /\ origin' = [f \in Fields |-> IF file[f] # "" THEN path ELSE ""]
      /\ sources' = [f \in Fields |-> IF file[f] # "" /\ f \notin Unmarked THEN path ELSE ""]
  BY Zenon DEF Load, Goto, Mark
<1>2. file[Format] \in {"", "ok", "bad"} /\ (file[Tunneling] = "" => file[Roles] = "")
  <2>1. CASE path \in disk
    <3>1. file = input.file /\ IsInput(input)
      BY <2>1, Zenon DEF StartupInv
    <3>2. file[Format] \in FileValues(Format) /\ WellFormed(file)
      BY <3>1, FieldFacts, Zenon DEF IsInput
    <3>3. Roles \in TunnelFields /\ "true" # ""
      BY DEF TunnelFields
    <3> HIDE DEF file
    <3> QED
      BY <3>2, <3>3, KindsAre, Zenon DEF WellFormed
  <2>2. CASE path \notin disk
    <3>1. file = Nothing
      BY <2>2, Zenon
    <3>2. Nothing[Format] = "" /\ Nothing[Roles] = ""
      BY FieldFacts, Zenon DEF Nothing
    <3> HIDE DEF file
    <3> QED
      BY <3>1, <3>2, Zenon
  <2> QED
    BY <2>1, <2>2, Zenon
<1>3. input.explicit => path = "explicit" /\ file = input.file
  <2>1. input.explicit => path = "explicit" /\ path # ""
    BY Zenon DEF StartupInv, PathInv, Load
  <2> QED
    BY <2>1, Zenon DEF Load
<1> HIDE DEF file
<1>4. CfgInv'
  BY <1>1, <1>2, Zenon DEF CfgInv
<1>5. MarkedInv'
  <2>1. input'.explicit => \A f \in Fields : input'.file[f] # "" => cfg'[f] # "" /\ origin'[f] = "explicit"
    BY <1>1, <1>3, Zenon
  <2> QED
    BY <1>1, <2>1, FieldFacts, Zenon DEF MarkedInv
<1>6. LayeredInv'
  <2>1. pc' = "defaults"
    BY <1>1, Zenon
  <2>2. pc' # "validate"
    BY <2>1
  <2> QED
    BY <2>2, Zenon DEF LayeredInv
<1> QED
  BY <1>1, <1>4, <1>5, <1>6, PhaseKeeps, Zenon

(* WithDefaults fills empty fields and marks those it fills.               *)
LEMMA DefaultsKeeps ==
    ASSUME StartupInv, WithDefaults
    PROVE  StartupInv'
<1> DEFINE unset == Defaulted
<1>1. /\ pc = "defaults" /\ pc' = "env" /\ UNCHANGED <<input, deps, path>>
      /\ cfg' = [f \in Fields |-> IF f \in unset THEN "ok" ELSE cfg[f]]
      /\ origin' = [f \in Fields |-> IF f \in unset THEN "default" ELSE origin[f]]
      /\ sources' = [f \in Fields |-> IF f \in unset THEN "default" ELSE sources[f]]
  BY Zenon DEF WithDefaults, Goto
<1>2. unset \subseteq Positive \cup {Addr, Format, Default} /\ \A f \in unset : cfg[f] = ""
  BY Zenon DEF Defaulted
<1> HIDE DEF unset
<1>3. /\ CfgInv /\ \A f \in Fields \ Unmarked : sources[f] = origin[f]
      /\ \A f \in Unmarked \ {Default} : sources[f] = ""
      /\ input.explicit => \A f \in Fields : input.file[f] # "" => cfg[f] # "" /\ origin[f] = "explicit"
  BY <1>1, Zenon DEF StartupInv, MarkedInv
<1>4. Tunneling \notin unset /\ Roles \notin unset /\ \A f \in Unmarked \ {Default} : f \notin unset
  BY <1>2, FieldsDiffer, Zenon
<1>5. CfgInv'
  BY <1>1, <1>3, <1>4, FieldFacts, Zenon DEF CfgInv
<1>6. MarkedInv'
  <2>1. input'.explicit => \A f \in Fields : input'.file[f] # "" => cfg'[f] # "" /\ origin'[f] = "explicit"
    BY <1>1, <1>2, <1>3, Zenon
  <2> QED
    BY <1>1, <1>3, <1>4, <2>1, FieldFacts, Zenon DEF MarkedInv
<1>7. LayeredInv'
  <2>1. pc' # "validate"
    BY <1>1
  <2> QED
    BY <2>1, Zenon DEF LayeredInv
<1> QED
  BY <1>1, <1>5, <1>6, <1>7, PhaseKeeps, Zenon

(* The fields that a variable writes, clears, replaces or allocates are    *)
(* different ones.                                                         *)
LEMMA EnvSets ==
    ASSUME IsInput(input)
    PROVE  /\ Written \subseteq Fields /\ Written \cap (Cleared \cup Replaced \cup Allocated) = {}
           /\ Cleared \subseteq {Url, Table, Roles} /\ Replaced \subseteq ClassFields
           /\ Allocated \subseteq {Tunneling, Block}
           /\ Rules \notin Written /\ "cert_ttl.by_class" \notin Written
<1>1. \A f \in Fields : env[f] \in EnvValues(f)
  BY Zenon DEF IsInput, env
<1>2. Tunneling \notin Written /\ Rules \notin Written /\ "cert_ttl.by_class" \notin Written
  BY <1>1, FieldFacts, KindsAre, Zenon DEF Written, IsSet
<1>3. Cleared \subseteq {Url, Table, Roles} /\ Replaced \subseteq ClassFields /\ Allocated \subseteq {Tunneling, Block}
  BY Zenon DEF Cleared, Replaced, Allocated
<1>4. Written \subseteq Fields /\ Block \notin Written
  BY Zenon DEF Written
<1>5. \A f \in Cleared : f \notin Written
  BY Zenon DEF Cleared, Written
<1>6. \A f \in Replaced : f \notin Written
  BY Zenon DEF Replaced
<1> QED
  BY <1>2, <1>3, <1>4, <1>5, <1>6, Zenon

(* What applyEnvOverrides makes of a field, by what its variable does.     *)
LEMMA EnvIs ==
    ASSUME StartupInv, ApplyEnv
    PROVE  /\ \A f \in Fields : f \in Written => origin'[f] = "env" /\ sources'[f] = "env"
           /\ \A f \in Fields : f \in Allocated => origin'[f] = "env" /\ cfg'[f] = "true"
           /\ \A f \in Fields : f \in Replaced => origin'[f] \in {"", "env"}
           /\ \A f \in Fields : f \in Cleared => origin'[f] = "" /\ sources'[f] = "" /\ cfg'[f] = ""
           /\ \A f \in Fields : f \notin Written \cup Allocated \cup Replaced \cup Cleared =>
                origin'[f] = origin[f] /\ cfg'[f] = cfg[f]
           /\ \A f \in Fields : f \notin Written \cup Cleared =>
                sources'[f] = IF f = Block /\ IsSet(Block) THEN "env" ELSE sources[f]
           /\ Rules \in Replaced => origin'[Rules] = "env"
           /\ cfg'[Format] \in {cfg[Format], env[Format]}
<1> DEFINE W == Written
<1> DEFINE C == Cleared
<1> DEFINE R == Replaced
<1> DEFINE A == Allocated
<1>1. /\ W \subseteq Fields /\ W \cap (C \cup R \cup A) = {} /\ C \subseteq {Url, Table, Roles}
      /\ R \subseteq ClassFields /\ A \subseteq {Tunneling, Block}
  BY EnvSets, Zenon DEF StartupInv
<1>2. \E minutes \in Stored(Lifetime) :
        cfg' = [f \in Fields |->
                  CASE f \in W -> IF f = Lifetime THEN minutes ELSE CHOOSE v \in Stored(f) : TRUE
                    [] f \in R -> BlockValue(f)
                    [] f \in C -> ""
                    [] f \in A -> "true"
                    [] OTHER -> cfg[f]]
  BY Zenon DEF ApplyEnv
<1>3. /\ origin' = [f \in Fields |->
                      CASE f \in W \cup A -> "env"
                        [] f \in R -> IF BlockValue(f) = "" THEN "" ELSE "env"
                        [] f \in C -> ""
                        [] OTHER -> origin[f]]
      /\ sources' = EnvSources(W \cup {f \in {Block} : IsSet(f)}, C)
  BY Zenon DEF ApplyEnv
<1>4. /\ \A f \in W : f \notin R /\ f \notin C /\ f \notin A
      /\ \A f \in R : f \notin C /\ f \notin A
      /\ \A f \in C : f \notin A
      /\ Block \notin C /\ Format \notin R \cup C \cup A /\ Format # Lifetime
  <2>1. ClassFields \cap {Url, Table, Roles, Tunneling, Block} = {} /\ {Url, Table, Roles} \cap {Tunneling, Block} = {}
    BY DEF ClassFields, Url, Table, Roles, Tunneling, Block, Default, Rules
  <2>2. Format \notin ClassFields \cup {Url, Table, Roles, Tunneling, Block} /\ Format # Lifetime
    BY DEF ClassFields, Url, Table, Roles, Tunneling, Block, Default, Rules, Format, Lifetime
  <2> HIDE DEF W, C, R, A
  <2> QED
    BY <1>1, <2>1, <2>2, Zenon
<1> HIDE DEF W, C, R, A
<1>5. /\ \A f \in Fields : f \in W \cup A => origin'[f] = "env"
      /\ \A f \in Fields : f \in R => origin'[f] = IF BlockValue(f) = "" THEN "" ELSE "env"
      /\ \A f \in Fields : f \in C => origin'[f] = ""
      /\ \A f \in Fields : f \notin W \cup A \cup R \cup C => origin'[f] = origin[f]
  BY <1>3, <1>4, Zenon
<1>6. /\ \A f \in Fields : f \in C => cfg'[f] = ""
      /\ \A f \in Fields : f \in A => cfg'[f] = "true"
      /\ \A f \in Fields : f \notin W \cup A \cup R \cup C => cfg'[f] = cfg[f]
  BY <1>2, <1>4, Zenon
<1>7. /\ \A f \in Fields : f \in W => sources'[f] = "env"
      /\ \A f \in Fields : f \in C => sources'[f] = ""
      /\ \A f \in Fields : f \notin W \cup C => sources'[f] = IF f = Block /\ IsSet(Block) THEN "env" ELSE sources[f]
  BY <1>3, <1>4, Zenon DEF EnvSources
<1>8. BlockValue(Rules) # ""
  <2>1. BlockValue(Rules) = IF env[Block] = "bad rules" THEN "bad" ELSE "ok"
    <3>1. Rules # Default
      BY Zenon DEF Rules, Default
    <3> QED
      BY <3>1, Zenon DEF BlockValue
  <2> QED
    BY <2>1, Zenon
<1>9. cfg'[Format] \in {cfg[Format], env[Format]}
  <2>1. CASE Format \in W
    <3>1. cfg'[Format] = CHOOSE v \in Stored(Format) : TRUE
      BY <1>2, <1>4, <2>1, FieldFacts, Zenon
    <3>2. env[Format] \in {"", "ok", "bad"}
      BY FieldFacts, KindsAre, Zenon DEF StartupInv, IsInput, env
    <3>3. env[Format] \notin {"zero", "false"} /\ env[Format] # "wide"
      BY <3>2, Zenon
    <3>4. Stored(Format) = {env[Format]}
      BY <3>3, Zenon DEF Stored
    <3> QED
      BY <3>1, <3>4, Zenon
  <2>2. CASE Format \notin W
    BY <1>4, <1>6, <2>2, FieldFacts, Zenon
  <2> QED
    BY <2>1, <2>2, Zenon
<1>10. \A f \in Fields : f \in R => origin'[f] \in {"", "env"}
  BY <1>5, Zenon
<1>11. Rules \in R => origin'[Rules] = "env"
  BY <1>5, <1>8, FieldFacts, Zenon
<1> QED
  BY <1>5, <1>6, <1>7, <1>9, <1>10, <1>11, Zenon DEF W, C, R, A

(* applyEnvOverrides marks what it writes, and unmarks what it clears.     *)
LEMMA ApplyEnvKeeps ==
    ASSUME StartupInv, ApplyEnv
    PROVE  StartupInv'
<1>1. /\ pc = "env" /\ pc' = "validate" /\ UNCHANGED <<input, deps, path>>
      /\ IsInput(input) /\ CfgInv
  BY Zenon DEF ApplyEnv, Goto, StartupInv
<1>2. /\ \A f \in Fields \ Unmarked : sources[f] = origin[f]
      /\ \A f \in Unmarked \ {Default} : sources[f] = ""
      /\ input.explicit => \A f \in Fields : input.file[f] # "" => cfg[f] # "" /\ origin[f] = "explicit"
  BY <1>1, Zenon DEF StartupInv, MarkedInv
<1>3. /\ Cleared \subseteq {Url, Table, Roles} /\ Replaced \subseteq ClassFields
      /\ Allocated \subseteq {Tunneling, Block} /\ Rules \notin Written /\ "cert_ttl.by_class" \notin Written
      /\ \A f \in Written : f \notin Cleared /\ f \notin Replaced /\ f \notin Allocated
  BY <1>1, EnvSets, Zenon
<1>4. CfgInv'
  <2>1. cfg'[Format] \in {"", "ok", "bad"}
    <3>1. env[Format] \in {"", "ok", "bad"}
      BY <1>1, FieldFacts, KindsAre, Zenon DEF IsInput, env
    <3> QED
      BY <1>1, <3>1, EnvIs, Zenon DEF CfgInv
  <2>2. ASSUME cfg'[Tunneling] = ""
        PROVE  cfg'[Roles] = ""
    <3>1. Tunneling \in Fields /\ Roles \in Fields /\ Roles \in TunnelFields /\ "true" # ""
      BY FieldFacts, Zenon DEF TunnelFields
    <3>2. Tunneling \notin Allocated
      BY <2>2, <3>1, EnvIs, Zenon
    <3>3. Tunneling \notin Written \cup Replaced \cup Cleared
      <4>1. Tunneling \notin Replaced \cup Cleared
        BY <1>3, FieldsDiffer, Zenon
      <4>2. env[Tunneling] = ""
        BY <1>1, <3>1, KindsAre, Zenon DEF IsInput, env
      <4>3. Tunneling \notin Written
        BY <4>2, Zenon DEF Written, IsSet
      <4> QED
        BY <4>1, <4>3, Zenon
    <3>4. cfg[Tunneling] = ""
      BY <2>2, <3>1, <3>2, <3>3, EnvIs, Zenon
    <3>5. Roles \notin Written
      BY <3>1, <3>2, <3>4, Zenon DEF Allocated
    <3>6. Roles \notin Replaced /\ Roles \notin Allocated
      BY <1>3, FieldsDiffer, Zenon
    <3>7. cfg[Roles] = ""
      BY <1>1, <3>4, Zenon DEF CfgInv
    <3>8. Roles \in Cleared \/ Roles \notin Written \cup Allocated \cup Replaced \cup Cleared
      BY <3>5, <3>6, Zenon
    <3> QED
      BY <3>1, <3>7, <3>8, EnvIs, Zenon
  <2> QED
    BY <2>1, <2>2, Zenon DEF CfgInv
<1>5. ASSUME NEW f \in Fields \ Unmarked
      PROVE  sources'[f] = origin'[f]
  <2>1. f \notin Replaced /\ f \notin Allocated /\ f # Block
    BY <1>3, Zenon DEF Unmarked
  <2>2. CASE f \in Written
    BY <2>2, EnvIs, ZenonT(90)
  <2>3. CASE f \in Cleared
    BY <2>3, EnvIs, ZenonT(90)
  <2>4. CASE f \notin Written /\ f \notin Cleared
    <3>1. f \notin Written \cup Allocated \cup Replaced \cup Cleared /\ f \notin Written \cup Cleared
      BY <2>1, <2>4, Zenon
    <3>2. origin'[f] = origin[f]
      BY <3>1, EnvIs, Zenon
    <3>3. sources'[f] = sources[f]
      BY <2>1, <3>1, EnvIs, Zenon
    <3> QED
      BY <1>2, <3>2, <3>3, Zenon
  <2> QED
    BY <2>2, <2>3, <2>4, Zenon
<1>6. ASSUME NEW f \in Unmarked \ {Default}
      PROVE  sources'[f] \in {"", origin'[f]}
  <2>1. f \in Fields /\ f \notin Cleared
    <3>1. Url \notin Unmarked /\ Table \notin Unmarked /\ Roles \notin Unmarked
      BY FieldsDiffer, Zenon
    <3> QED
      BY <1>3, <3>1, FieldFacts, Zenon
  <2>2. CASE f \in Written
    BY <2>1, <2>2, EnvIs, ZenonT(90)
  <2>3. CASE f \notin Written /\ ~(f = Block /\ IsSet(Block))
    <3>1. sources'[f] = sources[f]
      BY <2>1, <2>3, EnvIs, Zenon
    <3> QED
      BY <1>2, <3>1, Zenon
  <2>4. CASE f = Block /\ IsSet(Block)
    <3>1. Block \in Allocated
      BY <2>4, Zenon DEF Allocated
    <3> QED
      BY <1>3, <2>1, <2>4, <3>1, EnvIs, ZenonT(90)
  <2> QED
    BY <2>2, <2>3, <2>4, Zenon
<1>7. ASSUME NEW f \in Fields, IsSet(f)
      PROVE  origin'[f] = "env" \/ (f = Roles /\ TargetDisabled)
  <2>1. CASE f = Block
    <3>1. Block \in Allocated
      BY <1>7, <2>1, Zenon DEF Allocated
    <3> QED
      BY <2>1, <3>1, EnvIs, Zenon
  <2>2. CASE f # Block /\ ~(f = Roles /\ TargetDisabled)
    <3>1. f \in Written
      BY <1>7, <2>2, Zenon DEF Written
    <3> QED
      BY <3>1, EnvIs, Zenon
  <2> QED
    BY <2>1, <2>2, Zenon
<1>8. ASSUME NEW f \in Named
       PROVE  origin'[f] \in {"explicit", "env"}
  <2>1. f \in Fields /\ f \notin Cleared /\ f \notin Replaced /\ origin[f] = "explicit"
    BY <1>2, Zenon DEF Named
  <2>2. CASE f \in Written \/ f \in Allocated
    BY <2>1, <2>2, EnvIs, Zenon
  <2>3. CASE f \notin Written /\ f \notin Allocated
    <3>1. f \notin Written \cup Allocated \cup Replaced \cup Cleared
      BY <2>1, <2>3, Zenon
    <3> QED
      BY <2>1, <3>1, EnvIs, Zenon
  <2> QED
    BY <2>2, <2>3, Zenon
<1>9. LayeredInv'
  <2>1. \A f \in Fields : IsSet(f)' => origin'[f] = "env" \/ (f = Roles /\ TargetDisabled')
    BY <1>1, <1>7, Zenon DEF IsSet, TargetDisabled, env
  <2>2. \A f \in Named' : origin'[f] \in {"explicit", "env"}
    BY <1>1, <1>8, NamedStays, Zenon
  <2> QED
    BY <1>5, <1>6, <2>1, <2>2, Zenon DEF LayeredInv
<1>10. MarkedInv'
  <2>1. pc' \notin {"defaults", "env"}
    BY <1>1, Zenon
  <2> QED
    BY <2>1, Zenon DEF MarkedInv
<1> QED
  BY <1>1, <1>4, <1>9, <1>10, PhaseKeeps, Zenon
-----------------------------------------------------------------------------
(* Validate and BuildDeps.                                                 *)

(* Validate changes nothing but the flag's address and its source.         *)
LEMMA ValidateKeeps ==
    ASSUME StartupInv, Validate
    PROVE  StartupInv'
<1> DEFINE flagged == {f \in {Addr} : input.addr # ""}
<1>1. /\ pc = "validate" /\ pc' = "wire" /\ Valid /\ UNCHANGED <<input, deps, path>> /\ IsInput(input) /\ CfgInv
      /\ cfg' = [f \in Fields |-> IF f \in flagged THEN input.addr ELSE cfg[f]]
      /\ origin' = [f \in Fields |-> IF f \in flagged THEN "flag" ELSE origin[f]]
      /\ sources' = [f \in Fields |-> IF f \in flagged THEN "flag" ELSE sources[f]]
  BY Zenon DEF Validate, Goto, StartupInv
<1>2. /\ \A f \in Fields \ Unmarked : sources[f] = origin[f]
      /\ \A f \in Unmarked \ {Default} : sources[f] \in {"", origin[f]}
      /\ \A f \in Fields : IsSet(f) => origin[f] = "env" \/ (f = Roles /\ TargetDisabled)
      /\ \A f \in Named : origin[f] \in {"explicit", "env"}
  BY <1>1, Zenon DEF StartupInv, LayeredInv
<1>3. \A f \in Fields : /\ f \in flagged => f = Addr /\ input.addr # ""
                        /\ f = Addr /\ input.addr # "" => f \in flagged
  BY Zenon
<1> HIDE DEF flagged
<1>4. /\ \A f \in Fields : f # Addr => cfg'[f] = cfg[f] /\ origin'[f] = origin[f] /\ sources'[f] = sources[f]
      /\ cfg'[Addr] = cfg[Addr] \/ cfg'[Addr] # ""
      /\ origin'[Addr] = IF input.addr # "" THEN "flag" ELSE origin[Addr]
      /\ sources'[Addr] = IF input.addr # "" THEN "flag" ELSE sources[Addr]
  <2>1. \A f \in Fields : f # Addr => cfg'[f] = cfg[f] /\ origin'[f] = origin[f] /\ sources'[f] = sources[f]
    BY <1>1, <1>3, Zenon
  <2>2. CASE Addr \in flagged
    BY <1>1, <1>3, <2>1, <2>2, FieldFacts, Zenon
  <2>3. CASE Addr \notin flagged
    BY <1>1, <1>3, <2>1, <2>3, FieldFacts, Zenon
  <2> QED
    BY <2>2, <2>3, Zenon
<1>5. /\ cfg'[Issuer] = cfg[Issuer] /\ cfg'["idp.audience"] = cfg["idp.audience"]
      /\ cfg'["idp.required_scope"] = cfg["idp.required_scope"] /\ cfg'[Rules] = cfg[Rules]
      /\ cfg'[Default] = cfg[Default] /\ cfg'["cert_ttl.by_class"] = cfg["cert_ttl.by_class"]
      /\ cfg'["trusted_proxies"] = cfg["trusted_proxies"]
      /\ cfg'[Table] = cfg[Table] /\ cfg'[Url] = cfg[Url] /\ cfg'[Auth] = cfg[Auth] /\ cfg'[Token] = cfg[Token]
      /\ cfg'[Region] = cfg[Region] /\ cfg'[Tunneling] = cfg[Tunneling] /\ cfg'[Format] = cfg[Format]
      /\ cfg'[Roles] = cfg[Roles] /\ cfg'[Target] = cfg[Target]
  BY <1>4, FieldFacts, FieldsDiffer, Zenon
<1>6. Valid'
  <2>1. \A f \in Required : cfg'[f] # ""
    BY <1>1, <1>4, FieldFacts, ZenonT(90) DEF Valid
  <2>2. \A f \in Positive : cfg'[f] = "ok"
    BY <1>1, <1>4, FieldFacts, FieldsDiffer, Zenon DEF Valid
  <2>3. RegistryValid'
    BY <1>1, <1>5, ZenonT(90) DEF Valid, RegistryValid
  <2>4. TunnelingValid'
    BY <1>1, <1>5, ZenonT(90) DEF Valid, TunnelingValid
  <2> QED
    BY <1>1, <1>5, <2>1, <2>2, <2>3, <2>4, ZenonT(90) DEF Valid
<1>7. SourcesTrue'
  <2>1. \A f \in Fields \ Unmarked : sources'[f] = origin'[f]
    BY <1>2, <1>4, FieldsDiffer, FieldFacts, ZenonT(90)
  <2>2. \A f \in Unmarked \ {Default} : sources'[f] \in {"", origin'[f]}
    BY <1>2, <1>4, FieldsDiffer, FieldFacts, Zenon
  <2>3. ASSUME NEW f \in Fields, IsSet(f)
        PROVE  \/ origin'[f] = (IF f = Addr /\ input.addr # "" THEN "flag" ELSE "env")
               \/ f = Roles /\ TargetDisabled
    <3>1. Addr # Roles
      BY FieldsDiffer, Zenon
    <3>2. CASE f = Addr
      BY <1>2, <1>4, <2>3, <3>1, <3>2, Zenon
    <3>3. CASE f # Addr
      BY <1>2, <1>4, <2>3, <3>3, Zenon
    <3> QED
      BY <3>2, <3>3, Zenon
  <2>4. \A f \in Fields : IsSet(f)' =>
          \/ origin'[f] = (IF f = Addr /\ input'.addr # "" THEN "flag" ELSE "env")
          \/ f = Roles /\ TargetDisabled'
    BY <1>1, <2>3, Zenon DEF IsSet, TargetDisabled, env
  <2>5. \A f \in Named' : origin'[f] \in {"explicit", "env", "flag"}
    <3>1. ASSUME NEW f \in Named PROVE origin'[f] \in {"explicit", "env", "flag"}
      <4>1. f \in Fields
        BY Zenon DEF Named
      <4> QED
        BY <1>2, <1>4, <4>1, Zenon
    <3> QED
      BY <1>1, <3>1, NamedStays, Zenon
  <2> QED
    BY <2>1, <2>2, <2>4, <2>5, Zenon DEF SourcesTrue
<1>8. MarkedInv' /\ LayeredInv'
  <2>1. pc' \notin {"defaults", "env"} /\ pc' # "validate"
    BY <1>1, Zenon
  <2> QED
    BY <2>1, Zenon DEF MarkedInv, LayeredInv
<1>9. CfgInv' /\ DepsInv'
  BY <1>1, <1>5, Zenon DEF StartupInv, CfgInv, DepsInv
<1>10. PathInv'
  <2>1. pc' # "load"
    BY <1>1
  <2> QED
    BY <1>1, <2>1, Zenon DEF StartupInv, PathInv
<1> QED
  BY <1>1, <1>6, <1>7, <1>8, <1>9, <1>10, Zenon DEF StartupInv, AcceptedInv

(* What Validate accepts BuildDeps can wire.                               *)
LEMMA ValidWires ==
    ASSUME Valid, cfg[Url] \in {""} \cup AbsoluteURL
    PROVE  Builds(TRUE)
<1>1. RegistryBuilds(TRUE)
  <2>1. RegistryValid
    BY Zenon DEF Valid
  <2>2. CASE cfg[Url] = ""
    BY <2>1, <2>2, Zenon DEF RegistryValid, RegistryBuilds
  <2>3. CASE cfg[Url] # ""
    <3>1. cfg[Auth] \in {"", "none", "bearer", "aws_sigv4"}
      BY <2>1, Zenon DEF RegistryValid
    <3> QED
      BY <2>3, <3>1, Zenon DEF RegistryBuilds
  <2> QED
    BY <2>2, <2>3, Zenon
<1>2. TunnelKind # "none" => cfg[Format] # "bad"
  BY Zenon DEF Valid, TunnelingValid, TunnelKind
<1>3. TunnelKind = "targeted" => cfg[Roles] = "ok"
  BY Zenon DEF Valid, TunnelingValid, TunnelKind
<1>4. "ratelimit.limit" \in Positive /\ "ratelimit.window" \in Positive
  BY Zenon DEF Positive
<1> QED
  BY <1>1, <1>2, <1>3, <1>4, Zenon DEF Valid, Builds

(* BuildDeps gives the endpoints what Validate has accepted.               *)
LEMMA BuildDepsKeeps ==
    ASSUME StartupInv, BuildDeps
    PROVE  StartupInv'
<1>1. pc = "wire" /\ Valid /\ CfgInv /\ deps' = Built /\ UNCHANGED <<input, path, cfg, origin, sources>>
  BY Zenon DEF BuildDeps, StartupInv, AcceptedInv, resolved
<1>2. pc' \in {"serving", "lambda"}
  BY Zenon DEF BuildDeps, Goto
<1>3. MarkedInv' /\ LayeredInv' /\ AcceptedInv'
  <2>1. pc' \notin {"defaults", "env"} /\ pc' # "validate" /\ pc' # "wire"
    BY <1>2, Zenon
  <2> QED
    BY <2>1, Zenon DEF MarkedInv, LayeredInv, AcceptedInv
<1>4. CfgInv' /\ IsInput(input)' /\ PathInv'
  <2>1. pc' # "load"
    BY <1>2, Zenon
  <2> QED
    BY <1>1, <2>1, Zenon DEF StartupInv, CfgInv, PathInv
<1>5. SourcesTrue'
  BY <1>1, NamedStays, Zenon DEF StartupInv, SourcesTrue, IsSet, TargetDisabled, env
<1>6. DepsInv'
  <2>1. cfg["cert_ttl.operator"] = "ok"
    BY <1>1, Zenon DEF Valid, Positive
  <2>2. /\ TunnelKind = "targeted" => cfg[Roles] = "ok"
        /\ TunnelKind # "targeted" => cfg[Roles] = ""
        /\ TunnelKind # "none" => cfg[Format] # "bad"
    BY <1>1, Zenon DEF Valid, TunnelingValid, TunnelKind, CfgInv
  <2>3. /\ deps'.operatorTTL = "cert_ttl.operator" /\ deps'.tunnel = TunnelKind /\ deps'.roles = cfg[Roles]
        /\ deps'.format = IF cfg[Format] = "" THEN "default" ELSE cfg[Format]
    BY <1>1, <2>1, Zenon DEF Built
  <2>4. deps'.tunnel # "none" => deps'.format \in {"ok", "default"}
    BY <1>1, <2>2, <2>3, Zenon DEF CfgInv
  <2> QED
    BY <2>2, <2>3, <2>4, Zenon DEF DepsInv
<1> QED
  BY <1>3, <1>4, <1>5, <1>6, Zenon DEF StartupInv
-----------------------------------------------------------------------------
(* The invariant, and what follows.                                        *)

(* A process that has not started has loaded and wired nothing.            *)
LEMMA StartupInit == Init => StartupInv
<1> SUFFICES ASSUME Init
             PROVE  StartupInv
  OBVIOUS
<1>1. IsInput(input) /\ path \in {""} \cup Paths /\ pc = "idle"
  BY BrokerStartupAssumption, Zenon DEF Init
<1>2. CfgInv
  BY FieldFacts, Zenon DEF Init, CfgInv, Nothing
<1>3. DepsInv
  BY Zenon DEF Init, DepsInv, NoDeps
<1>4. pc \notin {"defaults", "env"} /\ pc # "validate" /\ pc \notin {"wire", "serving", "lambda", "shutdown", "drain"}
  BY <1>1, Zenon
<1>5. PathInv
  <2>1. pc # "load"
    BY <1>1, Zenon
  <2> QED
    BY <1>1, <2>1, Zenon DEF PathInv
<1> QED
  BY <1>1, <1>2, <1>3, <1>4, <1>5, Zenon DEF StartupInv, MarkedInv, LayeredInv, AcceptedInv, SourcesTrue

(* Every step keeps the invariant.                                         *)
LEMMA StartupNext == StartupInv /\ [Next]_vars => StartupInv'
<1> SUFFICES ASSUME StartupInv, [Next]_vars
             PROVE  StartupInv'
  OBVIOUS
<1>1. CASE UNCHANGED vars
  <2>1. UNCHANGED <<input, cfg, origin, sources, deps>> /\ pc' = pc /\ PathInv'
    BY <1>1, Zenon DEF vars, resolved, StartupInv, PathInv
  <2> QED
    BY <2>1, QuietKeeps, Zenon
<1>2. CASE Edit
  BY <1>2, EditKeeps, Zenon
<1>3. CASE LoadFails \/ ApplyEnvFails \/ ValidateFails \/ BuildDepsFails
  BY <1>3, FailKeeps, Zenon DEF LoadFails, ApplyEnvFails, ValidateFails, BuildDepsFails
<1>4. CASE Load \/ WithDefaults \/ ApplyEnv \/ Validate \/ BuildDeps
  BY <1>4, LoadKeeps, DefaultsKeeps, ApplyEnvKeeps, ValidateKeeps, BuildDepsKeeps, Zenon
<1>5. CASE \/ ListenUp \/ ListenFails \/ ListenClosed \/ Returned \/ Shutdown \/ ShutdownEnds
           \/ Signal \/ Vanish \/ Start \/ Select
  BY <1>5, ServerKeeps, Zenon
<1> QED
  BY <1>1, <1>2, <1>3, <1>4, <1>5, Zenon DEF Next, Main

(* Through every layer of LoadResolvedConfig the sources name where values *)
(* came from, and what Validate accepted is what BuildDeps wires.          *)
THEOREM StartupInvariance == Spec => []StartupInv
BY StartupInit, StartupNext, PTL DEF Spec

(* Validate accepts nothing that BuildDeps refuses but a registry URL that *)
(* is not an absolute http or https one and a SigV4 region nobody names,   *)
(* and no constructor's fallback replaces an operator lifetime or a        *)
(* tunnel's allowlist.                                                     *)
THEOREM AcceptedIsWirableHolds == Spec => []AcceptedIsWirable
<1>1. StartupInv => AcceptedIsWirable
  BY ValidWires, Zenon DEF StartupInv, AcceptedInv, DepsInv, AcceptedIsWirable
<1> QED
  BY StartupInvariance, <1>1, PTL

(* What --print-config says of a field's source is the layer its value     *)
(* came from, a variable that is set decides its field, and a file the     *)
(* operator named is never passed over.                                    *)
THEOREM SourcesTrueHolds == Spec => []SourcesTrue
<1>1. StartupInv => SourcesTrue
  BY Zenon DEF StartupInv
<1> QED
  BY StartupInvariance, <1>1, PTL
=============================================================================
