# Postern in TLA+

Postern gives engineers short-lived SSH access to devices. A **broker** (HTTP or
Lambda) checks an OIDC token, a rate limit, a device registry and a Cedar policy,
and then signs an SSH certificate, signs a time payload, or opens an AWS IoT secure
tunnel. The **CLI** (`postern`) keeps OAuth tokens, a certificate cache and a
managed `ssh.conf` on the engineer's machine, and runs the source side of a tunnel.
On the **device**, `timefix-apply` and `timefix-set-clock` repair a broken clock.

This directory holds TLA+ modules translated from that code, the configurations
with which TLC checks them, and TLAPS proofs of every invariant and action property
that the passing runs check.

## Inventory

| Component (source) | State | Operations | Interacts with |
|---|---|---|---|
| Source proxy (`internal/securetunnel`) | stream map, stream ids, `closeOnce`/`terminateOnce`, `writeMu`, WebSocket, listener, cause | accept, evict, pump, read loop, `Close`, `Wait`, `terminate` | tunnel destination, local ssh |
| Issue pipelines (`internal/broker`, `pkg/brokerhandlers`) | one request's context; none across requests | `IssueSSHCert`, `IssueTimePayload`, `OpenTunnel` | limiter, audit, policy, registry, KMS, AWS IoT |
| Rate limiter (`internal/ratelimit`) | DynamoDB counters | conditional increment | pipelines |
| Audit sink (`internal/audit`) | rows | `Record` | pipelines |
| Managed `ssh.conf` (`internal/sshconf`) | the file | `Upsert`, `Remove`, `UpsertEphemeral`, `RemoveEphemeral`, `ReapStaleEphemeral` | host and tunnel commands |
| Tunnel and host commands (`pkg/cliapp`) | a process each | `tunnel`, `tunnel --reap`, `ssh`/`scp --tunnel`, `add-host`, `remove-host` | `ssh.conf`, proxy, cache |
| Certificate cache (`internal/certcache`) | profile key, one certificate per device | `ProfileKey`, `GetCert`, `PutCert`, `PruneExpired` | `ssh`, `scp`, `mint`, `add-host`, `cache prune` |
| OAuth token state (`internal/oauthlogin`, `internal/tokenstore`) | keychain entries or a file | `Login`, `AccessToken`, logout | IdP, every command |
| Timefix (`pkg/cliapp`, `cmd/timefix-*`) | a session's nonce and payload, the device clock | relay, verify, set | broker, sshd |
| Policy, registry, IdP, KMS, AWS IoT adapters | clients and caches | one call each | pipelines |
| Broker start-up (`pkg/brokerhandlers`, `internal/brokerwire`, `cmd/broker*`) | configuration and its sources, the server | load, default, override, validate, wire, serve, shut down | config files, environment, every adapter |
| Login (`internal/oauthlogin`, `pkg/cliapp`) | a callback port, a result channel | bind, serve, open, wait, exchange, verify | browser, IdP, token state |
| CLI profiles, argv rewriting, broker client, logging | none shared | parsing, one request | every command |

What makes each correct, and what is hard about it:

* **Source proxy.** Four kinds of goroutine edit one stream map under one mutex and
  write frames under another. It must keep one active stream, send each control
  frame once, never deliver bytes to the wrong connection, and stop completely.
  Hard: a stream inserted while `terminate` runs; a stream evicted between lookup and
  write; a peer that stops reading while `Close` wants to send.
* **Pipelines.** Nothing may be issued without an `authorized` row; the trail must tell
  the outcome; budgets and lifetimes must hold. Hard: replies lost after the effect,
  clients that disconnect, arithmetic at the edge.
* **`ssh.conf`.** Read-modify-rename by processes without a lock, with stale stanzas of
  killed processes and recycled pids. A waiting tunnel must own its stanza, and
  stanzas the engineer added must survive.
* **Certificate cache.** Processes race on the first key and on renewals; `ssh` must be
  started with a certificate for the key on disk that lives long enough.
* **Token state.** Three keychain entries are written one by one while the IdP rotates
  the refresh token; a stored token that is no longer live costs a login.
* **Timefix.** A clock may only be set to a fresh time issued for this device and this
  session, although the payload travels through the engineer's machine, and the
  two ends wait for each other.
* **Start-up.** A file, defaults, the environment and a flag are layered, and some
  variables empty what a lower layer set. What `Validate` accepts the constructors
  must accept, and `--print-config` must tell the truth about the layers.
* **Login.** Tabs outlive the login that opened them and ports are reused; a redirect may
  come before anybody waits, twice, or to another login.

The complete list of hazards, with lines, is in `PROJECT.json`.

## Modules

| Module | Models | Checked with |
|---|---|---|
| `SourceProxy` | the running proxy | `MCSourceProxy`; proofs in `SourceProxyInvariant`, `SourceProxyProofs` |
| `BrokerPipeline` | handler, preambles, three issuers, limiter, audit | `MCBrokerPipeline`; proofs in `BrokerInvariant`, `BrokerProofs` |
| `AuditedIssue` | what an issue endpoint promises, abstractly | implemented by `BrokerPipeline` |
| `BrokerStartup` | configuration, wiring, server and shutdown of a broker process | `MCBrokerStartup`; proofs in `BrokerStartupProofs` |
| `TunnelHosts` | `ssh.conf` and the commands that edit it, with their proxies | `MCTunnelHosts`; proofs in `TunnelHostsProofs` |
| `CertCache` | the cache files and the commands that use them | `MCCertCache`; proofs in `CertCacheProofs` |
| `LoginFlow` | the authorization-code flow up to the verified ID token | `MCLoginFlow`; proofs in `LoginFlowProofs` |
| `TokenStore` | token entries, refresh, login's save, logout, the IdP | `MCTokenStore`; proofs in `TokenStoreProofs` |
| `Timefix` | CLI relay, broker's time payload, verifier, setter | `MCTimefix`; proofs in `TimefixProofs` |

Each module declares the parameters of its component as CONSTANTS with a named
assumption. The `MC` modules only give them values. Operators named after another
operator with a suffix and commented "Mutant" (for example `EvictNothing`) are
plausible bugs: substituted for the operator they follow, each breaks a property.

### SourceProxy

Goroutines are integers: 0 reads, -1 accepts, -2 is the CLI in `Close` and `Wait`, and
`c > 0` is the pump of the c-th connection. `pc` says where each stands. A step is what
a goroutine does between two points at which another can act: a `streamsMu` section,
taking `writeMu`, a socket call, entering a `sync.Once`. `closeStream` is called from
seven places, so its steps (`CloseSkip`, `CloseEnter`, `Lock`, `ResetSent`/`ResetFailed`,
`Hangup`) take the goroutine as a parameter, and `job` remembers why it closes, which
decides whether a reset is sent and where it continues. `terminate` is
`TerminateEnter`, `TerminateSnapshot`, the closes, `TerminateWs`. The WebSocket library
is external: `WsAbort` closes the socket under a cancelled call, and
`WriteAfterCancel` says whether a write begun after cancellation may complete, which
the library's `select` allows. Any error of `Accept` ends the accept loop (`AcceptFail`),
whether or not the listener was closed; a failed read counts as a clean end or not
(`ReadFail`), because an error seen under cancellation need not be `context.Canceled`. Frames from the peer name a stream whose start was
sent, at any later time. `wire` records the control frames in order, `owner` the
connection a payload was sent for.

### BrokerPipeline

One action per call that leaves the process, so that a failure, a lost reply, a
disconnect or a step of the other request can fall between any two. `Deny` stands for
every refusal and `gate` for its reason. `trail` holds a request's audit rows;
`Recorded` and `RecordFailed` cover the three ways a write can end. Calls made under
the request's context need the client to be there (`Reaches`); audit writes do not,
which is what the detached context in `Record` gives. Durations wrap (`Wrap`). `lost`
notes that an audit write failed, or the ID a row needs could not be generated, in
which case `verifyEngineer` returns without any row. The handler's check for an empty
result is not an action: a marshalled certificate or payload is never empty, and a tunnel
without id or token is already an error of the opener.

### AuditedIssue

The same state without gates, handlers, lifetimes and the limiter's counters: a
request is admitted against a budget, authorized, takes its effect, and is granted or
refused with one closing row. `BrokerPipeline` instantiates it with `Budgets` the pairs
of mode and window (`Abstract`), and `Implements` is its specification. Most steps of a
pipeline map to stuttering.

### BrokerStartup

A configuration maps each field to the kind of value it has, as far as some check or
conversion tells kinds apart. A URL is one of four kinds, by what `IsHTTPSOrLoopback`
(in `Validate`) and `AbsoluteURL` (in the registry's constructor) say of it: accepted by both ("https", and http on a loopback host), by the first only
("loose": no host, or a loopback host with another scheme), by the second only ("http"), or
by neither ("relative"). `Edit` lets the operator give up to `MaxEdits` fields any
kind before the process starts, in the file or the environment. `Select` and `Load` are
apart, since a candidate may vanish between `Stat` and `Open` (`Vanish`). `ApplyEnv`
computes the fields the variables write, clear, replace and allocate. `origin` is a
history variable that says where a value really came from; `sources` is the code's map.
`Builds` is what the constructors refuse, `Built` what they put in place of empty
values. `lst` is the goroutine in `ListenAndServe` with its one-slot channel. Returning
after `--print-config` changes nothing and is left out.

### TunnelHosts

The file maps each host name to absent, persistent, or the pid of an ephemeral
stanza. Every edit is `Read`, perhaps `Check`, and `Write` of the whole content read
earlier. The history variable `raced` notes that two file operations overlapped: the
code has no lock, and the properties say what holds without such an overlap. `Kill`,
`Recycle` and `ProxyEnds` are the environment.

### CertCache

Each command is a record with its program point. `ProfileKey` is called from three
places (`getKey`, `key`, `putKey` and the corresponding link steps); `LinkKey` is the
exclusive link whose loser adopts the winner's key. `DeleteKey` is the engineer
removing the key file. The link that fails and the load that follows are one step, since
the failed link changes nothing and a load that fails afterwards is `KeyFails`. A
certificate is its key, its end and the lifetime it was granted. A command's history field
`lost` says that the key was deleted since its last `ProfileKey`; `pruned` and `late` mark
a prune that removed a renewed file and a mint that put an outdated one. The code guards
against none of the three, and the properties except them. `UseFindsCert` counts from the
start of the command: a hit has the safety margin left, a mint the lifetime granted
(`Promised`).

### LoginFlow

A login binds the first free port of its list (`Bind`), discovers, serves, opens a tab,
waits, exchanges, verifies the ID token and shuts down; every step's failure is there.
`Exchange` has a timeout of its own; `Verify` fetches the IdP's key set under the command's
context, which only Ctrl-C (`Cancel`) ends. `result` is the one-slot
channel, `Push` the select that drops what does not fit. A tab carries the state
parameter of the login that opened it and the port of its redirect, and reaches
whichever login listens there when it comes back, up to `MaxVisits` times.

### TokenStore

`LoadOrder`, `SaveOrder` and `DeleteOrder` are the orders in which the keychain backend
touches its entries, as sequences of sets, so that the file backend is the same
module with one set of all entries. The IdP is external: it honours one refresh token
per login and may rotate it with any grant. `raced`, `torn` and `lost` mark overlapping
commands, a save stopped half-way, and a kill or failure between the IdP's answer and
the first entry written. `gone` is the history of logouts: the entries that a logout deleted
without an error and that no save could bring back since; `deleteErrors` are the deletions
that failed. An IdP that rotates the token and whose answer is lost is `Grant` followed by
`StoreFails`, which leaves the same state; `GrantFails` is a refusal.

### Timefix

A session has a near end (the CLI, or an engineer piping a payload by hand) and a far
end (verifier, then setter). `stdin` says what reached the verifier and whether it
ended. `Cleanup` is the closure every early return uses. `Verdicts` is `verify`: the
exit codes an input may lead to. Sessions share nothing but the payloads the broker
has signed, so the others are the action `Elsewhere`, which obtains payloads with their
nonces (`Others`).

## Runs

| Run | Configuration | Shows |
|---|---|---|
| `proxy_safety` | 2 connections, writes may complete after cancellation | one active stream; each control frame once; no bytes to the wrong connection; the first cause stays; nothing is left when `Wait` returns |
| `proxy_live` | 1 connection, fair scheduling, the ssh child exits | `Wait` returns if the destination reads, and always once the context is cancelled |
| `proxy_leak` (violation) | 1 connection, fair scheduling, a local client that stays | see Findings |
| `broker_pipeline` | 2 requests, limit 1, 2 windows, 2 classes, 8-bit durations | fail-closed audit, budgets, lifetimes, a trail that never contradicts, no feedback before the policy, refinement of `AuditedIssue` |
| `broker_clamp` (violation) | 1 request, the same durations | see Findings |
| `broker_startup` | 4 deployments, 2 edits | `Validate` accepts only what can be wired, sources are true, a missing named file is no empty one, a signal ends the process |
| `tunnel_hosts` | 3 commands, 1 device (2 host names) | a waiting tunnel owns its stanza, returning commands leave neither stanza nor proxy, persistent stanzas survive, reaps clear |
| `tunnel_hosts_port` (violation) | the same | see Findings |
| `cert_cache` | 3 commands, 1 device, 1 key deletion, 3 instants | no certificate for a key that was never on disk, one key, and a certificate of it with the promised time left when `ssh` execs |
| `login_flow` | 2 logins, 2 ports, 2 visits per tab | a login exchanges its own code; an answered login returns if the key set is served; a cancelled login returns |
| `token_store` | 3 commands, 2 logins, 3 grants, keychain | the stored refresh token is live and goes to its own IdP; a logout leaves nothing but what it failed to delete |
| `timefix` | 1 session, 1 elsewhere, 2 devices, 4 instants | only a fresh time for this device is set; success means it was set; both ends return |

Why the bounds are enough for what is asked:

* *Proxy.* Every conflict is between two streams (an old and a new one) and the
  goroutines that may close them; the third connection meets what the second met. That
  argument is not needed for safety, which is proved for any number. Liveness is checked
  with one connection, whose pump, accept and teardown contain every wait but one: that of
  an accept that evicts an older stream and waits for its `closeOnce`. A goroutine inside
  that Once waits only for `writeMu` and its own write, as the one connection's does.
* *Pipelines.* Requests meet only in the counters, where two race for a limit of one. A
  minute is 12 units and a `Duration` 8 bits wide, so that 22 minutes wrap to a small
  positive value and one ceiling is no whole number of minutes. Proved for every value.
* *Start-up.* A rule of `Validate` or of the overrides relates at most two fields beyond
  what a working deployment has, so that two edits reach both sides of each. The fourth
  deployment has a file named by the operator beside an environment that would do without
  it: there a missing file that passed for an empty one would go unnoticed.
* *`ssh.conf`.* A stanza's owner, a second command that reaps or replaces it, and a
  third that edits or recycles its pid. With one device there are its own and its
  tunnel's host name; stanzas of other devices are untouched by construction of `Write`.
* *Cache.* Two racing for the key or a file and a third that starts afterwards. Lifetimes
  lie below and above the margin, and the clock passes the end of the shorter one and
  turns the longer from a hit into a miss. Proved for any number.
* *Login.* The second login either runs beside the first or takes its port over; one visit
  and one reload of a tab are enough to fill the channel and find it full.
* *Tokens.* Each of three commands runs once: a login and two refreshes rotate a rotated
  token again; two logins, at one IdP or at both, and a refresh or a logout meet the rest.
* *Timefix.* One instant below the bounds, two inside, one above; a payload of the
  session itself, of another session, and for another device.

Runs say `CHECK_DEADLOCK FALSE` where the commands of the model end and nothing is left to
do. `proxy_safety`, the liveness runs of the proxy and `broker_pipeline` check deadlock,
with a stuttering step for the completed state.

### Fairness

* `SourceProxy`: strong fairness of every goroutine's own steps, since Go's scheduler runs
  what can run and `sync.Mutex` hands itself to a starving waiter; the library's context
  watcher runs. The destination is fair only where a property says so (`PeerReads`), and
  local clients leave only in `ChildExitSpec`, where `postern ssh` and `postern scp` have
  waited for their child.
* `Timefix`: both programs run, and `ssh` reports a connection that ended. No failure,
  kill or dropped connection is owed.
* `BrokerStartup`: `main` runs, its calls return, and `ListenAndServe` returns once
  `Shutdown` was called; no signal and no failure is owed.
* `LoginFlow`: commands that were started and callback handlers run; calls to the IdP have
  timeouts, except the fetch of the key set, whose step is fair only once the login was
  cancelled. `AnsweredReturns` assumes that the IdP answers that fetch (`KeySetAnswers`);
  `CancelledReturns` assumes nothing of it. No tab has to come back, and `login` without an
  answer waits for ever.

The other modules have safety properties only: their commands promise nothing while the
processes they share files with may be stopped.

### Exceptions stated in the properties

The code does without locks between processes, and the properties say so rather than hide
it: `raced` (two commands overlapped on a file or on the token entries), `torn` and `lost`
(a save stopped between two entries, or after the IdP rotated), a command's `lost`, `pruned`
and `late` in the cache. What the code does in those windows is what a reader expects of
files without locks, and nothing is claimed about it; the hazards that lie entirely inside
one are listed in `PROJECT.json` without a property. `AcceptedIsWirable` excepts a registry
URL that is not an absolute http or https one and a SigV4 region that neither the
configuration nor AWS names, which only the constructors see. `SourcesTrue` excepts
`idp.principal_classes.default`: when a block from the environment replaces the file's, the
entry `default` of the replaced block stays.

## Findings

* `proxy_leak`: `handleAccept` inserts without looking at `rootCtx`. A connection accepted
  before `terminate` closes the listener and inserted after its snapshot, whose
  `STREAM_START` still completes, keeps `Wait` until the local client leaves; comments in
  `proxy.go` and `loops.go` say that pumps wake on cancellation.
* `broker_clamp`: `MaxLifetimeMinutes * time.Minute` wraps for some int32 values, and the
  result is issued instead of the ceiling that the comment and `constraints.md` promise. The
  certificate is shorter, never longer, than allowed (`LifetimeAllowed`).
* `tunnel_hosts_port`: `runTunnelOpen` waits for its context only, so that a proxy that ends
  by itself leaves a stanza that names a released port until Ctrl-C.

## Proofs

All theorems hold for every value of the constants that satisfies the named assumption of
the module they are about; no other assumption is made. Every inductive invariant below
was checked with TLC on the instance of the component's run before it was proved. Each
proof has the same shape: a lemma for the initial states, one lemma per action (or per
kind of action that touches the same state), one that puts the actions together, the
invariance theorem, and the properties as its consequences.

**Source proxy** (`SourceProxyProofs`; `MaxConns` any natural number). The safety properties
are not inductive: that the map holds one stream says nothing about the goroutine that is
about to insert. `IInv` (in `SourceProxyInvariant`) adds which program points and jobs each
goroutine can have (`LabelsInv`, `JobInv`), that ids follow the order of accept (`IdsInv`),
that the map holds exactly the streams whose `closeOnce` has not begun (`MapInv`), that a Once
in progress has exactly one goroutine in it (`OnceInv`, `TerminateInv`), that eviction has left
nothing when the insert comes (`EvictInv`), which frames are on the wire (`WireInv`), and that
every stream not yet closed has a goroutine that will close it (`OwnedInv`). The lemmas go
from steps local to one goroutine to evicting, receiving and `terminate`, the two ends of
`closeOnce`, accepting, inserting and the control frames on the wire. Theorems: `Invariance`,
`TypeCorrect`, `SingleActive`, `ControlOnce`, `CrossTalkFree`, `CleanExit` and the action
property `FirstCause`.

**Issue pipelines** (`BrokerProofs`; any requests, limits, windows, classes, ceilings, minute
lengths and duration widths). `IInv` (in `BrokerInvariant`) ties what a request was charged,
has in its trail and has caused to its program point (`Staged`), says what an answered request
leaves behind (`Closed`), that lifetimes and what the policy was told are functions of the
request (`Timed`), and that no counter counts fewer requests than are charged to it
(`Counted`). The proof rests on the arithmetic (`WrapBounds`: wrapping never yields more than
the product; `DivBounds`: whole minutes rounded down) and on a cardinality lemma behind the
budget; it shows one part of the invariant at a time for every step of a request and that the
other requests are not touched. The six invariants of the run follow, and `Refinement` shows
that every step of `BrokerPipeline` is a step of `AuditedIssue` or leaves its variables
unchanged.

**Broker start-up** (`BrokerStartupProofs`; any set of deployments and any number of edits, so
any combination of file, environment and flag). `SourcesTrue` speaks of a finished
configuration; `MarkedInv` and `LayeredInv` say what `sources` and `origin` hold between two
layers, and `PathInv` that a named file is the one loaded. For `AcceptedIsWirable`, `CfgInv` says which kinds the name format can have and that
there is no allowlist without a tunneling section, `AcceptedInv` that what `Validate` accepted
is unchanged when it is wired, and `DepsInv` what the endpoints were given; lemma `ValidWires`
compares the rules of `Validate` with those of the constructors.

**`ssh.conf`** (`TunnelHostsProofs`; any number of commands and devices). `HostsInv` says for
each program point which operation a command is in, on which host name and with or without a
proxy (`ShapeInv`); what an edit has found before it writes (`FoundInv`); that a stanza names a
command that wrote it, for its host name, in the file and in every copy read from it
(`FileInv`); and, while no two file operations have overlapped, that a command inside one
has read the file as it is and that no other is inside one, what a reap still has to remove
(`SweepInv`), and who has a stanza in the file and who no longer (`HeldInv`, `LeftInv`).
Recycled pids need care: a reap compares with processes, not with commands, and `SweepInv`
keeps the candidates whose process was dead when the file was read apart from those that came
back to life. Theorems: `HostsInvariance`, `HostsTypeCorrect`, `HeldStanzaHolds`,
`CleanExitHolds`, `PersistentKeptHolds` and the action property `ReapClearsHolds`.

**Certificate cache** (`CertCacheProofs`; any commands, devices, lifetimes and margin).
`OneKey` needs that a command holds no key before `mintAndCache` loads one, that the
certificate it has in hand afterwards is for that key (`Holds`), and that the key on disk is
the last one linked (`Latest`). `UseFindsCert` needs to follow a certificate from the hit
or the mint to the exec while others mint, renew and prune: `Tracked` says for each program
point what the command may rely on, `Undisturbed` that none of the excepted situations has
come up, and `TInv` that the first holds under the second.

**Login** (`LoginFlowProofs`; any logins, list of ports, tabs and reloads). `FlowInv` follows a
code from the handler that accepted its state parameter through the channel to the exchange:
a channel holds nothing, an error, or a code of its own login, and the code stays until the
tokens are verified. `CodeIsMineHolds` follows.

**Token state** (`TokenStoreProofs`; either backend, any number of commands, logins and
grants). The stored refresh token is live only between commands; `TokenInv` says what holds
between any two accesses to an entry. `HeldInv` and `NewInv` say where the tokens in a
command's hands come from, and that those of a new login are nobody else's before the first
write. `ViewInv` says that without an overlap a command's view of the entries it has read or
written is true, `WholeInv` that without a torn save it holds the tokens of one login, and
`StoreInv` that the store is of one login except between two writes, and its refresh token
the live one except between a grant and the first write: this is where the order of `Save`
matters. For `LogoutClears`, `ViewInv` says which entries a logout has emptied so far, and that
a refresh about to save still has the entries `Load` insists on. Theorems: `TokenInvariance`, `TokenTypeCorrect`, `StoredRefreshLiveHolds`,
`RefreshGoesHomeHolds`, `LogoutClearsHolds`.

**Timefix** (`TimefixProofs`; any sessions, devices, instants and bounds). `AppliedTimeFresh`
needs that a session's nonce is in no payload before the verifier has drawn it, and that every
payload with it was signed later (`NonceInv`), that no payload is ahead of the broker's clock
(`IssuedInv`), and that what was verified is what the setter gets (`HandoverInv`: nothing more
is delivered once stdin has ended). `SuccessMeansSet` needs that exit code 0 comes only from a
setter that set the clock (`OutcomeInv`). Theorems: `TimefixInvariance`, `TimefixTypeCorrect`,
`AppliedTimeFreshHolds`, `SuccessMeansSetHolds`.

Only model-checked, with the instances above: the liveness properties
(`CloseReturnsIfPeerReads`, `CancelledCloseReturns`, `StopsOnSignal`, `AnsweredReturns`,
`CancelledReturns`, `BothEndsReturn`), since the proof system does not reason about fairness. What the violation
runs check does not hold and has no theorem.

## Not modelled

* The tunnel handshake of `StartSourceProxy` and the byte-level framing: their result is the
  initial state and the decoded message.
* Cryptography: a signature is a trust relation, a nonce the session that drew it, a key its
  number.
* Encodings of the AWS, OIDC, registry and broker-client calls: each call is a step that
  succeeds or fails. Error texts and status codes are left out, and with them which program an
  exit code 2 or 3 of `timefix` came from.
* The text of `ssh.conf`: a map from host name to stanza stands for the blocks that the
  writer finds and splices.
* String matching and lexing: the role allowlist's globs, principal-class predicates, and the
  rewriting of `ssh` and `scp` arguments, which share no state; what could go wrong in them lies
  in characters that the models do not have.
* The conversion of a requested lifetime from whole minutes to int32 in `certflow.go`: a
  `time.Duration` has fewer than 2^28 minutes, so that it never truncates.
* The per-role cache of AWS IoT clients, which has no bound to state.
* CLI profiles and `configure`, `setup-ssh`, the client-credentials grant, logging, version:
  sequential, without state another component reads while it changes.
* Generated protobuf code.
