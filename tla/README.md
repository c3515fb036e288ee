# Verification of the Erebrus node

Erebrus is a VPN node written in Go. A gateway provisions clients on it over
HTTP and commands it over a WebSocket; the node keeps its state in SQLite and
configures a WireGuard device, stealth carriers (sing-box), a Kubo (IPFS)
sidecar for "Drop", and DNS firewall sidecars. These modules specify the parts
whose correctness depends on the order of steps, TLC checks them on small
instances, and TLAPS proves the most important results for every instance.

## Parts of the system

| Part | State | What changes it | What makes it hard |
|---|---|---|---|
| Peer table (`internal/store`) | `peers` rows | upsert, delete | keys move between ids, the pool runs dry |
| Provisioning (`api/peers.go`, `node/service.go`, `wg`) | config file, device, draining status | PUT, DELETE, resync, drain, boot | unserialised handlers; failures between table, file and device |
| Usage reports (`node/gateway.go`, `gatewayclient/client.go`) | `lastUsage`, device counters | traffic, reports, restarts | counters restart, reports get lost |
| Gateway link (`nodeapp/run.go`, `gatewayclient`) | four settings, token and key in memory | boot, register, refresh, redial | saves in four statements, lost answers, expiry |
| Secrets and carriers (`stealth`, `carriers`, `wg`) | settings, credential rows, listeners | boot, `rotate_reality`, the rotate command | two processes over one database, crashes |
| Kubo identity (`drop/identity.go`, `kubo-init.sh`) | five files of a shared volume | node start, sidecar script, a new mnemonic | two programs, no lock, separate restarts |
| Drop (`drop/service.go`, `drop/client.go`) | health snapshot, pins | polling, upload, unpin | stale capacity, failing verification |
| Firewall (`firewall`, `sentinel`, firewall commands of `node`) | licence flags, policy fragments, AdGuard's settings | sync, restart, credentials, set-up, restarts | three copies of a flag, fragments written one by one, requests that outlive their client |
| Configuration and readiness (`config`, `readiness`, `transport`, `nodeapp`, `serviceagent`) | configuration, DNS service, health snapshot | boot in a fixed order, the agent's probes | many settings that meet in one decision, a snapshot older than what it shows |
| API middleware (`api/middleware.go`, `gatewayauth`) | none | none | checks against credentials that registration replaces while the node runs |
| Services, ACL, DNS answers (`services`, `dns`) | two tables | the operator's command | see "Not modelled" |

All but the last row are modelled. `PROJECT.json` lists every component with its
status, and every hazard with its line and the properties that cover it.

## Modules

Every database statement, file operation and device call that another thread or
process can come between is an action of its own.

- **PeerStore** is the abstract specification of the table: `UpsertPeer`
  (`CreatePeer` or `UpdatePeer`) and `DeletePeer`, each one atomic step, because
  the pool has one connection. An address is its offset in the subnet.
- **Provisioning** extends it with handlers (`pc`, `req`, `snap`), the config
  file, the device and the node's phase. `Apply` is five steps: list, truncate,
  write, list, sync. `Fail` ends a handler at any of them, `Crash` ends the node.
  History: `touched` is what others added or removed while a resync works, `last`
  the latest request if it succeeded alone.
- **UsageReport** follows `BuildUsageReport` read by read, and the write pump.
  `moved` and `got` are history: what a client moved, what the gateway was told.
  **Meter** is its abstract specification: two totals per client and two steps,
  traffic and a report that says something new or nothing.
- **ControlChannel** is the abstract specification of the link to the gateway:
  four Booleans (up, known, registered, connected) and six steps, with what it
  promises (`Sound`, `Remembers`). GatewayLink implements it; Node takes its steps
  for the link.
- **GatewayLink** has the four settings (`db`), the node's copy (`mem`) and a
  client that dials, refreshes and sleeps. The gateway is external. `cut` records
  a broken save, a lost answer or an unread key until the next complete save.
  `Channel` is its instance of ControlChannel: `known` is the gateway's record of
  the node, `registered` a stored token of the node's own, `connected` a session.
- **GatewayCalls** extends it with the middleware's decision on the gateway's
  calls, operators over `mem` and `cred`.
- **NodeSecrets** numbers the generations of each secret; halves belong together
  when their numbers are equal. Node and command share `db`, each with its `mem`.
  History: `foreign` is what the command wrote since the node last read or wrote
  it, `sole` says that the latest rotation of the short id began alone, `mixed`
  that rotations have overlapped since one did. Closing the listeners, and starting
  them, are one step each.
- **KuboIdentity** has the five files and two programs, an action per file
  operation; the substituted config is a file of its own until `mv`. **Drop** extends it with the poller and the upload handlers; every
  step of the handoff is a step of Drop.
- **Sentinel** has the sidecar's licence, fragments and handlers: a fragment is
  truncated and written in two steps, then Unbound is reloaded; the container, and
  Unbound alone, may stop at any of them. **Shield** has AdGuard Home (external)
  and the node's set-up of it. **Firewall** composes both with the node's client:
  readers that execute commands, the licence and configuration fields they read
  and write without a lock, and calls that are lost or answered late. History:
  `held` is the policy whose apply succeeded undisturbed, `crossed` says that a sync
  has begun beside another command, `fresh` that a person chose upstreams after the set-up's
  read.
- **Config** (`Load`, `ApplyProfileDefaults`, `Validate`, modes, sizes),
  **Transport** (probe, score, selection) and **Readiness** (`Evaluate`,
  `Preboot`) are operators. **Node** boots a node over them in the order of `Run`,
  with parts that fail or die, the agent's probe in two steps (ask, record), and
  the report.
- **MC…** modules hold constants and symmetries for TLC; the other
  configurations instantiate their module directly. The **…Proofs** modules hold
  the theorems (PeerStore's are in **ProvisioningProofs**, KuboIdentity's in
  **DropProofs**; **NodeSecretsLemmas** holds the invariant that two of
  NodeSecrets' theorems share). Definitions marked "Mutant" are deliberately wrong variants that
  show each property can fail.

## Runs

Runs that pass:

| Run | Instance | What it shows |
|---|---|---|
| `store` | 3 ids, 4 keys, 2 usable addresses | addresses and keys stay exclusive, a client keeps its address; the pool runs dry and refills |
| `provisioning` | 1 HTTP handler, 1 session, 2 ids, 2 keys, 2 addresses, faults; no status commands | device sane; a handler that ran alone leaves everything in sync; a resync leaves the listed ids and what others changed beside it |
| `drain` | 1 HTTP handler, 1 session, 2 ids, a good and an unparsable key, 2 addresses, no faults | the unparsable key stays off the device and is never part of a success; drains take effect, handlers finish |
| `usage` | 1 client with 2 keys, 4 bytes | nothing is over-reported; the gateway's totals only grow (Meter is implemented); reports add up where nothing was lost; everything is reported in the end |
| `link` | 4 starts, with and without keys from the environment, faults, every bearer and header of a call | stored credentials are the gateway's, a node that says it is registered has a client, the gateway's calls get in, the client reconnects, the link implements ControlChannel |
| `secrets` | 2 sessions, 2 generations (4 of the short id), 1 cut | pairs stay pairs; no load loses or overwrites a stored secret; advertised, stored and served secrets agree; rotations are on record |
| `drop` | 2 mnemonics, 2 changes, 1 cut, 1 handler, 2 objects, room for 1 | no false conflict, own identity served, uploads stay pinned and resume, Kubo comes up |
| `firewall` | 3 policies (1 unlicensed), 2 fragments, 2 readers, 2 requests in Sentinel, 2 passwords | an applied policy stays enforced until the next apply, unlicensed payloads stay out, chosen upstreams are kept |
| `node` | some 2,600 environments in five families | a ready node stays ready until it stops or its sidecar fails; `status` before the start agrees with the report after it; clients find the DNS service where their resolver points; private stays private; sizes are exact; the ladder breaks ties; health catches up |

Runs that show where the code and its documentation disagree (the quotations
are in the findings of `PROJECT.json`):

| Run | What happens |
|---|---|
| `device_stale` | two overlapping `Apply` calls leave a deleted peer on the device |
| `secrets_grace` | rotated secrets are refused after the restart, within their grace period |
| `identity_restore` | restoring the right mnemonic does not clear a conflict |

### Bounds, and what they hide

The bounds give each interesting event room to happen: a dry pool, a key that
moves, a restart in the middle of a handoff, a full repository. Safety was also
explored once, without finding an error, with two HTTP handlers, no session and
one address (Provisioning), two upload handlers and one change of mnemonic (Drop), two cuts
(NodeSecrets), and two clients of two bytes each (UsageReport).

Provisioning has two runs because one with everything is out of reach: symmetry
and the bound on status commands are sound for safety only, so `drain` goes
without them and without faults. No run combines crashes with an unparsable key;
the theorems about Provisioning do. In `secrets` the short id has four generations,
one for each reader, the boot and the command; uuid and password have two, so that
they are rotated once: a second rotation of them is in the proofs only.

`MCNode` does not multiply all settings with each other. Each family varies the
settings that meet in one decision (access and network mode; profile, provider,
resolver and address; sizes and ports of the store; transports; what the report
looks at) over each kind of value: valid, empty and mistyped. `MaxInt = 127` makes a
size of two units of 100 overflow; the code's test for it does not depend
on the width. `MCFirewall` starts Sentinel unlicensed, so that a licence has to
arrive before a policy; the theorems hold for both starts. Its second request is
one whose client gave up, its second reader one that outlived its session.

Some results hold **only** under the stated condition. TLC refutes them beyond it,
and the theorems have it as a hypothesis:

- `PairsMatch`, `StoredKept` and `OnRecord` need `FirstAlone`: the node's first start and the
  first rotate command do not overlap while settings are missing. Otherwise they
  mix pairs, and one overwrites a secret that the other has put on record.
- `NeverOverReported`, `ImplementsMeter` and `ReportsAddUp` need clients with keys of
  their own (`DisjointKeys`), the first two also starts that recreate the device
  (`InitFails = FALSE`; `OwnKeys` is both). A key that passes to another client, or
  an `Init` that fails and leaves the old device, makes them false.
- The four invariants of `link` exempt the time from a broken save, a lost answer
  or an unread key to the next complete save (`cut`). `RegisteredMeansClient` also
  exempts settings of an earlier mnemonic, `GatewayHeard` a node that did not read
  the gateway's public key.
- `AdvertisedIsServed` and `StoredIsServed` exempt the short id, and nothing else,
  after rotations that overlapped (`mixed`), until one that ran alone or the next
  start: a command reader can outlive its session, and `RotateReality` holds no lock.
  `StoredIsServed` also exempts the settings that the command wrote (`foreign`).
- `ResyncExact` exempts the ids that other handlers changed since the resync read
  the table (`touched`); `SoloRequestSyncs` a request beside which another ran.
- The two copies of the draining status (`SetStatus`) may differ for good after
  commands of two sessions crossed; no property is stated of them.
- `NoFalseConflict` is about the time before the mnemonic changes: after a change a
  conflict is what the handoff is for. Before it, a node that was cut short may
  take the sidecar's random identity for a foreign one until its next start.
- `ServesOwnIdentity` exempts a script killed between `mv` and `rm` (`halfway`).
- `ReportsAddUp` exempts clients that lost a report or a counter (`lossy`).
- `LicensedPoliciesOnly` exempts the time after a sync began beside another command
  (`crossed`):
  the client has one licence field for all of them.
- `ChosenUpstreamsKept` exempts a choice made between the set-up's read and its
  write (`fresh`).

## Fairness

- Provisioning: each handler's steps and the boot. Handlers are goroutines and
  none waits for another. No request is ever forced to arrive.
- UsageReport: the pump, which runs on a ticker, and strong fairness of reading
  the table and the device: either read may fail, but not every time for ever. Not
  the network.
- GatewayLink: the client's loop, whose requests time out and whose sleeps end;
  not the gateway, and not registration, which is tried once per start.
- KuboIdentity and Drop: the node's preparation, the sidecar (compose restarts
  it), and the poller, with strong fairness of its two calls: while Kubo runs they
  may fail, but not every time for ever. Nothing makes crashes stop: the properties that need it
  assume it, or the bound on cuts supplies it.
- Node: the agent, which runs on a ticker and whose probes time out. Not the boot,
  and not the sidecar: `HealthCatchesUp` is about one that settles.
- Firewall has no liveness property: a sync that fails is not retried by the node.

## Proofs

Each follows the same argument: an inductive invariant, its initial case, one
step per action, and a temporal conclusion.

| Theorem | Claim, for all constants | Invariant and why it is needed |
|---|---|---|
| `StoreSafe` | no shared address or key | type and exclusivity together; a least free address exists by well-foundedness |
| `KeysStayExclusive` | no key under two ids | `StoreSafe`'s invariant |
| `AddressKept` | a client that stays keeps id and address | follows from `StoreSafe`'s invariant |
| `AddressesNeverLeak` | peers and free addresses add up to the usable pool | `StoreSafe`'s invariant: addresses and registered ids are in bijection |
| `UpsertIsRetriable` | an upsert sent twice leaves the table as sent once | `StoreSafe`'s invariant; what an upsert makes of a table as a function of it |
| `DeviceStaysSane` | one key per address on the device, all parsable | `DeviceInv` adds `ReadsExclusive`: every list a handler still holds was exclusive when read |
| `SoloHandlersSync` | a solo success leaves table, file and device equal | `SoloInv` adds what a solo handler has achieved at each label |
| `ResyncsAreExact` | a resync leaves exactly the listed ids it did not report missing, but for those that others changed meanwhile | `ResyncInv` with `KeepInv`: at every step the ids nobody else touched are the listed ones found so far and the ones still to be removed, which are not listed |
| `ListedPeersSurvive` | a resync never touches a row that its list names, whatever is written beside it | `KeepInv`: the ids still to be removed are not listed, though the table they were read from is old |
| `HandlersMakeHeadway`, `DrainingOnlyDrains` | a handler has at most 7 steps and 6 per id to take, each of its own leaves fewer, no other handler adds any; a draining node begins no PUT | `TypeInv`; the steps left (`StepsLeft`) from the label and the ids still to be removed, for a finite set of ids |
| `UsageNeverOverReported` | `got` never exceeds `moved`, given `OwnKeys` | `UsageInv`: told + in the frame + being built + pending is at most what was moved |
| `ReportsStayExact` | told and still to be told add up to what was moved, given `DisjointKeys` | `AddInv`: the sum at every step of a report, and that the counter has only grown since it was read (`ExactAt`); no counter or copy of one exceeds what was moved (`BoundedAt`) |
| `UsageImplementsMeter` | the gateway's totals only grow, never beyond what was moved: usage reporting implements Meter, given `OwnKeys` | `UsageInv`, and that no frame is negative |
| `KuboServesOwnIdentity` | an open Drop runs over the node's own identity, unless `halfway` | `HandoffInv`: what files, sidecar and node know at each label |
| `ServiceUsesOwnKubo` | the same in the composition with the Drop service | every step of Drop is a step of KuboIdentity or leaves it alone |
| `ConflictsAreReal` | no marker, no mixed pair and no random identity without its key while the mnemonic stays the same; the node reports a conflict only after a cut | `StillInv`: every file and what a program read of it is of the one identity or missing, and the private key stays on the volume from the ready file to the installed identity |
| `SidecarNearsDaemon` | while the mnemonic stays the same each step of the sidecar brings it nearer to its daemon, at most eight away, and only its own crash takes it back | `StillInv`, and `InstallInv`: an identity is installed only in place of another |
| `DropKeepsTypes` | pinned contents are stored, reported sizes are within what is there | `ServiceInv` with `PinInv`; cardinalities of finite sets of contents |
| `ConfirmedStaysPinned` | an upload answered with success stays pinned until unpinned | `PinInv`: what Kubo took is pinned between its answer and the confirmation too |
| `LinkImplementsChannel` | the link implements ControlChannel | `LinkInv`: the gateway knows the node wherever a token of its own is held (`KnownInv`), how far a save has come (`SaveInv`), and what agrees where nothing broke (`MatchInv`) |
| `CredentialsStayUsable`, `CredentialsStayTogether`, `ReportedRegistrationIsUsed`, `GatewayGetsThrough` | the client's key is the gateway's; stored id, token and key belong together; registered means a client; calls by the given id get in | `LinkInv` |
| `RegistrationIsKept` | a recorded registration stays, the gateway knows it, sessions are of a known node | ControlChannel's own invariant `Sound` and step property `Remembers`, inherited through `LinkImplementsChannel` |
| `ClientNearsSession` | with a reachable gateway each step of the client brings it nearer to a session, at most nine away | `LinkInv` with `TokenInv`: a client has a token, and a known id has its key |
| `PairsStayTogether` | key halves in `node_settings` are missing or belong together, given `FirstAlone` | `SecretsInv`: what each process knows of the settings it passed (`SetInv`), which loads exclude each other (`AloneInv`), the order in which the command loads (`OrderInv`) |
| `ServesWhatItAdvertises`, `ServesWhatIsStored` | the carriers accept what clients are handed, and what is stored unless the command wrote it, for any number of sessions | `ListenInv`: listeners come up only from the secrets in memory, and are down from a new short id to the restart unless rotations overlap; `StoredInv`: the settings that a load has passed and the command did not write agree in memory and table; `OverlapInv`: which rotation is alone |
| `RotationsAreRecorded` | stored uuid and password have an active row between rotations, given `FirstAlone` | `RecInv` with `SecretsInv`: what is recorded at each statement of `Rotate`, and that a process writes only a uuid or password that is missing |
| `StoredSecretsKept` | no setting is emptied, keys and a whole certificate are never replaced, uuid, password and short id only by rotations, given `FirstAlone` | `SecretsInv`, `RecInv` and `ShortKnown`: a process creates a short id only while none is stored, and a session replaces it only once one is |
| `PolicyStaysEnforced` | an applied policy is in every fragment and loaded until the next apply | `AloneInv` and `HeldInv`: what the one undisturbed apply has written, and that no handler writes beside it |
| `UnlicensedKeptOut` | no unlicensed payload in a fragment unless a sync began beside another command | `LicenceInv`: which payload a reader can carry past each check |
| `UpstreamsStayChosen` | set-up never replaces chosen upstreams it could have seen | `ShieldInv`: what the set-up read is still so |
| `NodeTypesKept` | Node's variables keep their types | the type invariant with what `Load`, `Validate` and `ApplyProfileDefaults` return |
| `ReadyIsKept`, `PrebootIsSound` | a ready node stays ready until it stops or its sidecar fails; the check before the start foresees the verdict | `NodeInv`: a start runs with the accepted configuration but for key and licence (`ConfigInv`), and with what it chose from it (`ChoiceInv`); then `Evaluate` check by check |
| `TunnelDNSStaysServed`, `PrivateIsKept`, `StorageIsExact` | clients' resolver is served; private stays private; sizes do not wrap | `NodeInv`, with lemmas on what `Load`, `Validate`, the modes, the profiles and the sizes compute, for any width |
| `LadderIsPreferred` | the first transport offered is preferred | a least index of the highest score exists, by well-foundedness |

Provisioning, NodeSecrets, GatewayLink, Drop and Firewall are proved for any
number of handlers, sessions, starts and readers, with every fault, Node for any
set of environments. The inductive invariants were checked by TLC before they were proved. The proofs rest
on the named assumptions of the modules, which TLC evaluates: Drop's contents are a
finite set, and `EnvAssumption` says that a flag is a Boolean and a port or size a
number. `OwnKeys`, `DisjointKeys` and `FirstAlone` are hypotheses of their theorems.

The types of Drop and Node are proved (`DropKeepsTypes`, `NodeTypesKept`) and not
checked by a run. `HandlersMakeHeadway` and `DrainingOnlyDrains` assume a finite set
of ids, which a table in a database has.

Every invariant, action property and refinement that a run checks is proved. Only
model-checked are the seven liveness properties (`DrainTakesEffect`, `Answered`,
`EventuallyReported`, `Reconnects`, `KuboComesUp`, `UploadsResume`,
`HealthCatchesUp`): they rest on fairness and ENABLED, which are outside the
prover's reach. For four of them the half that is safety is proved, for every
instance: a measure that each step of the actor lowers and that nobody else raises.

| Liveness property | Its safety half |
|---|---|
| `Answered` | `HandlersMakeHeadway` |
| `DrainTakesEffect` | `DrainingOnlyDrains` |
| `Reconnects` | `ClientNearsSession` |
| `KuboComesUp` | `SidecarNearsDaemon` |

What is left to TLC there is that the actor, being fair, does take its steps. The
other three have no such measure: new traffic, a new upload or a change of the
sidecar's health may come at any step and start the wait over.

## Not modelled

- **Services and ACL**: publishing, listing and removing a service are single
  statements on one table that nothing else writes. The access list has no caller:
  nothing outside its package's tests grants access or asks for it. There is no protocol to state anything about.
- **DNS answers**: which record a query gets is a lookup; the address, the port
  and the upstream of the service are in Node.
- **Cryptography, wallet signatures, libp2p, packet forwarding**: libraries do the
  work. A key, signature or token is a value that matches or does not.
- **Registrar**: the code ships the no-op implementation only.
- **Text rendering, HTTP parsing, client templates, metrics, the speed test, the
  installer**: they keep no state that interacts with another step.
- Left out of the modelled parts: backoff durations, heartbeat contents, byte
  limits of streams, the wording of checks and errors. NODE_ID and NODE_TOKEN are
  not set in the environment. Node takes the settings of an earlier identity for a
  registration, as readiness does; the DNS service has no check there (`run.go:134`). Data races inside the websocket library count as a
  broken session.
