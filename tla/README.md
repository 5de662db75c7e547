# gway-wire in TLA+

gway-wire turns a host into a WireGuard gateway and lets devices enroll with it
over HTTPS. A device sends its name, its public key and a one-time token; the
gateway gives it an address of the VPN, adds it as a peer, publishes its private
hostname in `/etc/hosts` and, when DNS automation is on, its public name. An
administrator creates tokens and revokes devices with commands that run next to
the enrollment server.

This directory holds TLA+ modules translated from that code, the TLC
configurations that check them, and proofs checked by TLAPS. Paths below are
relative to the root of the repository; the packages `src/gway_wireguard` and
`src/gway_wire` carry the same registry, peer, hosts and DNS code.

## 1. The system

| Component | Code | State it keeps | Operations |
| --- | --- | --- | --- |
| Registry | `src/gway_wireguard/registry.py` | SQLite tables `devices` and `enrollment_tokens`, SQLite's write lock | `create_token`, `prepare_enrollment`, `consume_token`, `revoke`, `list_devices`, `get_device` |
| Peer manager | `src/gway_wireguard/peer_manager.py` | the WireGuard configuration file, the peers of the live interface | `ensure_peer`, `remove_peer`, `reserved_networks` |
| Hosts manager | `src/gway_wireguard/hosts_manager.py` | the managed block of `/etc/hosts` | `sync` |
| DNS manager, provider | `src/gway_wireguard/dns/service.py`, `dns/godaddy.py` | the zone at the provider | `ensure_record`, `delete_record`, `restore`, `sync_devices` |
| Enrollment service | `server/enroll_api.py` | the local variables of each request thread | `EnrollmentService.enroll` and its cleanup |
| HTTP handler | `server/enroll_api.py` | none | `do_POST`, `do_GET` |
| Administrator's commands | `src/gway_wire/admin_ops.py`, `server/admin.py` | the local variables of each process | create a token, `sync_hosts`, `revoke_device`, the DNS commands |
| Enrollment client | `client/enroll.py`, `install.sh` | the device's identity, key and persisted configuration | enroll, retry, install |
| Server installer and GWAY/Surface commands | `server/install.sh`, `src/gway_wire/gway/`, `src/gway_wire/surface/` | environment file, keys, services | install, deploy, readiness, sync, status |

**Interactions.** `ThreadingHTTPServer` runs one thread per request. `enroll`
reads the reserved networks from the configuration file, opens `BEGIN IMMEDIATE`,
prepares the row, and inside that transaction sets the peer, rewrites the hosts
file, changes the DNS record and consumes the token; then it commits. If anything
raises, the transaction rolls back, the lock is released, and *after that* the
DNS record is restored, the peer is removed (if this request created the row) and
the hosts file is rewritten from the committed rows. `revoke_device` is a process
of its own: it reads the row, removes the peer, disables the row in a transaction,
rewrites the hosts file and deletes the DNS record; if the first two fail it puts
the peer back. The only lock in the system is SQLite's; the file, the interface,
the hosts file and the zone are each replaced atomically and otherwise shared.

**What is hard.** The changes outside the database do not roll back with it. The
order of steps across two requests, or a request and a command, is unconstrained
outside the lock. A text or a list that was read is written back later. A provider
may fail after applying. A process may die between any two steps; a reboot brings
the interface up from the file. `PROJECT.json` lists these hazards by line.

**What makes each part correct**

- Registry: no two devices share a key or an address; each row was paid for with
  a token; a row keeps its identity, a revoked device stays revoked, a consumed
  token stays consumed; the two tables change together or not at all.
- Peers: a managed block per enabled device and none for others; hand-written
  blocks untouched; no key or address in two blocks; file and interface agree.
- Hosts and DNS: names of exactly the enabled devices, once operations have ended.
- Enrollment: committed implies applied everywhere; failed implies undone, and
  undone only for itself; every request ends and gives the lock back.
- Revocation: a completed revocation leaves no peer, no name, no record.
- Client: a retry neither loses the key nor enrolls twice.
- Deployment: a failed deployment restores the environment it found.

## 2. Modules

```
Registry ---------------------------------- RegistryProofs
   |             \                \
   | DB (tables)  \ Promised       \ DB (tables)
   v               v (refinement)   v
Peers --> Gateway --> EnrollService  ClientInstall --> ClientInstallProofs
                  \-> AdminCommands --> Enrollment --> EnrollmentProofs
                                                       --> RefinementProofs --> SerialProofs

DnsManager --> DnsManagerProofs          the zone, as all writers share it
PeerFile   --> PeerFileProofs            the text and the pool that Peers abstracts
Deploy     --> DeployProofs              how the gateway's software gets there
```

Each component has an instance `MC...` for TLC (`MCEnrollment` serves seven
runs); the modules named `...Proofs` are TLAPS's.

**`Registry`** is the abstract specification: the two tables at the granularity
of committed transactions. `Register` is an enrollment that inserts a row,
`Reenroll` one that finds the row, `Revoke` sets `enabled` to false, `CreateToken`
and `ExpireToken` are the life of a token. Its helpers (`TokenAdmits`,
`KeyOwners`, `FreeAddresses`) are the checks of `prepare_enrollment` in their
order's outcome; the detailed modules use them through `DB == INSTANCE Registry`,
so the check in the service and the promise are one text. `Register` may choose
any free address; the service takes the lowest that the file does not reserve.

**`Peers`** has the pure operations of the peer manager. A configuration text is
the set of its `[Peer]` blocks, `[owner, key, address]`, where `owner` is the
device named by the markers or `NoOwner`. The interface maps a key to its allowed
address; `WgSetPeer` models the kernel's rule that an address belongs to one peer.

**`Gateway`** has the shared state, the local variables of a process (`frame`),
where it is (`stage`, named like the `stage` strings of `enroll`), and the steps that
service and commands share: `ensure_peer` in three steps (`EnsureRead`, `EnsureRuntime`,
`EnsureWrite`), `remove_peer` in three, and the listing before a hosts sync. Each
step is one access to one shared resource, so every interleaving the code allows
between two accesses is explored.

**`EnrollService`** is `enroll`, one action per step: `Receive`,
`ReadReservations`, then under the lock `PrepareExisting`/`PrepareNew`/`Reject`/
`BusyTimeout`, the peer, `SyncHosts`, `ReadDns`/`DnsRefused`/`ReplaceDns`,
`Commit`; and the cleanup `RestoreDns`, the removal of the peer, `RestoreHosts`.
`Fail` is the way out of the `with` block; `CleanupStage` is the code after
`except`. Rows written by an open transaction are kept in the frame
(`TransactionRows`) and reach `devices` only in `Commit`. Fault actions spend a
budget: `StepFails` (any step raises without effect), `ReplaceDnsFails` (the
provider fails, applied or not), and failures of each repair. `ServerDies` ends
all threads; SQLite drops the open transaction.

**`AdminCommands`** has token creation and expiry, `sync_hosts` and
`revoke_device` with its exception handler (`RevokeFails`, `RevokeBusy`,
`RewritePeer`, `PutBackRefused`) and its best-effort tail (hosts, DNS).

**`Enrollment`** composes them, adds `Reboot`, the specification with and without
fairness, the refinement mapping to `Registry`, and the properties.

**`DnsManager`** has every process that changes the public zone through
`dns/service.py`: `sync_dns`, `ensure_device_dns`, `delete_device_dns`, the tail
of `revoke_device` and an enrollment's DNS step. Each is a list of jobs (a name and
what is wanted of it) which the process walks: `Get` reads a record, `Put` changes
it if it differs, `Redo` is `_restore_provider_state` in the `except` of one job, and
`Unwind` undoes the earlier jobs in reverse, as `sync_devices` does. `saved` is the
list of mutations. The registry is reduced to `status` and to the lock that an
enrollment holds while it writes. The fields `before`, `company` and `clean` of a
process are history: the zone when it began, whom it has met, whether its own
restorations succeeded; no guard reads them.

**`ClientInstall`** is `install.sh` with `client/enroll.py` on several hosts, over
the committed tables of `Registry` (`DB == INSTANCE Registry`, whose `Register`,
`Reenroll` and `Revoke` are the gateway). The stages are the script's functions:
identity, key, load, enroll, waiting, persist (one file per step), config, service.
A request is in `inflight` until the gateway has answered it; the client may have
given up by then (`awaited`). `ServeRefusal`, `ServeFailure`, `AnswerLost` and
`TimesOut` are what `do_POST` and the network may do to an answer. `Dies` may leave
the file being written empty. `private`, `identity` and `state` are the files under
`/etc/gway-wireguard`, `wgconf` the one under `/etc/wireguard`, `interface` what
runs. `Enroll` and `Recover` are the invocations of `gway wire client` and by hand.

**`Deploy`** is the server's installer and the two commands that run it, step by
step: `Patch` of the environment file, keys, WireGuard configuration, environment,
validation, registry, DNS, services, then `Expose` and `Check`; `Rollback` when
something raises. An environment file is its sequence of lines, because the code
distinguishes the first, the last and every line of a key (`PatchedText`,
`CompletedText`, `Value`). `service` and `link` are the settings and the key that
run, which need not be those on disk. `Tears` is a death in the middle of a write,
`Reboot` starts the enabled services from the files, `Edit` is the operator's
editor.

**`PeerFile`** looks below `Peers`: the configuration as a sequence of lines with
the markers of managed blocks, the parser that strips a block (`Paired`, `Strip`), the
reader of all blocks (`managed_peers`), `reserved_networks`, and `allocate_address`
on networks of several sizes. The administrator writes peers between the blocks and
cuts lines. Its invariant `ManagedMatchRows` is what entitles `Peers` to take the
text for a set of blocks.

The instances give constants their values. Definitions marked *Mutant*
are plausible wrong versions of a definition, unused by the specification; each
shows that a property would notice that mistake.

### Reading the state

| Model | Code |
| --- | --- |
| `devices[d]` | the row of `d`, or `NoRow` |
| `tokens[t]` | the row of a token: issued and valid, past `expires_at`, consumed; `scope` is `device_id` or `AnyDevice` |
| `lock` | who is between `BEGIN IMMEDIATE` and commit or rollback |
| `config`, `interface` | `gateway.conf`, and the output of `wg show` |
| `hosts` | the lines of the managed block |
| `dns[d]` | the A records of the device's name: none, the gateway's, something else |
| `frame[p].request/record/created/reserved` | the variables of those names in `enroll` (`externally_reserved`) |
| `frame[p].text`, `.listed`, `.previous` | `current` in the peer manager, the rows passed to `sync`, `dns_mutation.previous` |
| `DnsManager!zone[n]` | what `get_record` returns for the name |
| `DnsManager!work[p].jobs`, `.saved` | the loop over names and rows, and `mutations`, in `sync_devices` |
| `ClientInstall!state[c]`, `wgconf[c]` | the files of `persist_config`, and the target of `apply_wireguard_config` |
| `ClientInstall!run[c]` | the shell variables of `install.sh` |
| `Deploy!file`, `keys`, `wgconf` | `server.env`, `server.key` and `server.pub`, the interface's configuration |
| `Deploy!deploy` | the arguments of the command, what it will write back, and its result `ready` |
| `PeerFile!text`, `network` | the lines of the configuration, the addresses of the VPN network counted from its first |

### Abstractions

In all modules names, keys and tokens are model values; wording, formats and their
validation, logging and replies to the user are left out. By module:

- `Registry`, `Gateway` and what is built on them: addresses are small numbers
  because the allocation takes the lowest, and networks have one host (`PeerFile`
  has the others). A transaction that takes the lock and commits without an outside
  call in between (`create_token`, `registry.revoke`) is one action and waits for a
  free lock. Waiting longer than 30 s is `BusyTimeout`, possible whenever another
  process holds the lock. `conn.commit()` that fails is `StepFails` at `token_consume`.
- `DnsManager`: a name has the gateway's record, none, or something else; the order
  in which a reconciliation takes the devices is any, where the code sorts them.
- `ClientInstall`: values that only the gateway can give are one value, `Gateway`,
  those built into the script another, `Default`. The public key is derived anew
  from the private one on every run, so it is not a file that matters; the keepalive
  interval, which the gateway never gives, is left out. A private key is made in one
  step.
- `Deploy`: keys are numbered as they are made. The exposure by the `gway-web`
  library is one step that succeeds or changes nothing. `sync_dns` is one step here.
- `PeerFile`: `ensure_peer` and the row's commit are one action, since the question
  is about texts; the file is never written by two at once here.

## 3. What is checked

| Run | Question | Result |
| --- | --- | --- |
| `registry` | Does the abstract registry keep `IdentitiesDistinct`, `DevicesPaidFor`, `HistoryIsFinal` when keys conflict and addresses run out? | holds |
| `enroll_serial` | One operation at a time with DNS automation, two faults, a failed repair, a crash or reboot. Is a committed enrollment fully applied (`ConsumedOnlyWhenApplied`)? Does a completed revocation stay (`RevokedHaveNoPeer`)? Can left-over blocks lead to a shared address (`AddressesNotShared`, `AllocatesAroundConfig`)? Does a rollback touch others (`RollbackStaysLocal`)? Do file, interface, hosts and zone agree with the registry when all has ended and every repair succeeded (`SettledPeers`, `SettledHosts`, `SettledDns`)? | holds |
| `enroll_overlap` | Three requests at once, no faults: does every committed device keep its peer at every moment (`EnabledHavePeers`)? | holds |
| `enroll_storm` | Enrollments of three devices, two with one key, and revocations, overlapping in pairs, two of whose steps fail. Do the tables implement `Registry` (`ImplementsRegistry`)? Is the file well-formed whatever stale text is written back (`ConfigWellFormed`)? | holds |
| `enroll_live` | With fair scheduling, does everything that started end (`OperationsEnd`) and the lock come back (`LockReturned`)? | holds |
| `dns_manager` | Two processes reconcile, ensure, delete, revoke and enroll over a zone in which strangers have written. Does a reconciliation end with exactly the names of the rows (`SyncReconciles`), every other operation with what it promised (`DoneMeansDone`)? Does one that failed leave no trace (`FailureLeavesZone`)? Is the gateway's own name safe from a device of that name (`OperationalNamesKept`)? | holds |
| `client_install` | Two hosts install and retry while requests time out and still commit, answers are lost, scripts die in the middle of a file. Is every registered key still held by a client (`RegisteredKeysHeld`)? Are the addresses and the identity on disk the registered ones (`AddressesRegistered`, `IdentityRegistered`)? Does what is on disk run (`DoneMeansRunning`), and lead to the gateway (`LeadsToGateway`)? Does a configured client never enroll again (`ConfiguredNeverAsks`)? Do retries end with a tunnel (`RetriesConverge`)? | holds |
| `deploy` | Deployments on fresh, manual and former gateways, failing, dying, repeated. Does success mean that file, service, site, zone and key agree (`SuccessMeansAgreement`)? Is the file restored (`FailureRestoresFile`), are the operator's settings kept (`OtherSettingsKept`), is the published key the one that runs (`PublishedKeyRuns`)? Does a repeated deployment succeed (`RedeployConverges`)? | holds |
| `peer_file` | Do blocks and rows agree wherever peers are written by hand (`ManagedMatchRows`)? Do lines outside complete blocks stay, though a marker was cut (`HandWrittenKept`)? Is an allocated address a free host in networks of 1, 2, 4 and 8 addresses (`AllocatesAroundFile`)? | holds |
| `revoke_race` | `RevokedHaveNoPeer`, when a repeated enrollment overlaps the revocation. | violated |
| `cleanup_race` | `RollbackStaysLocal`, with two overlapping enrollments of one device. | violated |
| `manual_peer_lost` | Is a hand-written peer left untouched (`ManualPeersUntouched`)? | violated |

Taken together: the database part is right under every interleaving, and the
parts outside it are right as long as operations do not overlap. The DNS manager
does better: its operations may overlap as long as all write what the registry
says. The client and the deployment survive deaths and repetition, apart from the
places below. The three violated runs are disagreements between the documentation
and the code:

- **`revoke_race`**: `revoke_device` removes the peer before it disables the row,
  with no lock in between. A repeated enrollment that saw the row enabled puts
  the peer back and commits; then the row is disabled. The peer of the revoked
  device stays, and revoking again skips the peer, since the row is disabled.
- **`cleanup_race`**: two requests for one new device. The first fails after it
  set the peer and releases the lock; the second enrolls the device and commits;
  then the cleanup of the first, which goes by name and key, removes the peer.
- **`manual_peer_lost`**: `ensure_peer` refuses a key of a hand-written peer, but
  `created` is already true, so the cleanup runs `wg set ... peer <key> remove` on
  the interface. One request suffices. The file keeps the block, so the peer comes
  back with the next `wg-quick up`.

### Where the properties stop

Each of these is a place where the code does less than one might hope. The models
contain the behaviour; the property named excludes it in its premise, or the run in
its configuration, and no run of its own shows it.

| Place | Behaviour | Excluded by |
| --- | --- | --- |
| `server/enroll_api.py:280` | A request that fails lists the devices; another commits; the first writes its list, and the new device loses its name in the hosts file. | `SettledHosts` is checked without overlap |
| `server/enroll_api.py:200` | The file is read before the lock is taken: a block of a request that then fails is not avoided, and its address is given away before the cleanup removes it. | `AllocatesAroundConfig` is checked without overlap |
| `src/gway_wire/admin_ops.py:130` | A reconciliation lists the rows, then works for long; a device revoked meanwhile gets its record back. | `company` is "disturbed" |
| `install.sh:312` | The service is restarted only if the configuration changed. A death between the two makes every later run find it unchanged. | `MaxUnapplied` in `DoneMeansRunning`, `RetriesConverge` |
| `install.sh:210` | A death while `device-id` is written leaves it empty; the next run takes the host's name for an identity, and the gateway refuses the old key under it. | `NobodyDied` in `IdentityRegistered` |
| `install.sh:271` | A death between the files of `persist_config` lets the next run complete them with built-in values. | `NobodyDied` in `LeadsToGateway` |
| `src/gway_wire/surface/server/__init__.py:360` | A failed deployment restores the file only; the service keeps the settings of the failed one until it is restarted. | `SuccessMeansAgreement` speaks of success |
| `src/gway_wire/surface/server/__init__.py:54` | Of a repeated key the first line is replaced and the last one read, so the deployment cannot succeed. | `Deployable` |
| `src/gway_wire/surface/server/__init__.py:60`, `server/install.sh:111` | An environment file or WireGuard configuration cut by a death is taken as it is: the file is completed with defaults, the configuration never repaired. | `Deployable`; `link` in `PublishedKeyRuns` |
| `server/install.sh:186` | An older environment file of another base domain gets the names of the built-in domain appended. | `Deployable` |
| `src/gway_wire/gway/server/__init__.py:156` | The readiness of a public name asks for `register.<domain>`; any other name can be deployed and is never ready, where `docs/server-live-readiness.md:90` rules such a derivation out. | `RedeployConverges` is about `RegisterName` |
| `src/gway_wireguard/peer_manager.py:128` | `AllowedIPs` or `PublicKey` in another case or followed by a comment counts for WireGuard and is not seen. | `bare` in `AllocatesAroundFile` |

### Bounds, and why they are enough

- Two or three devices, two keys and a hand-written peer's key, two tokens, four
  addresses of which one is the gateway's and one hand-written: a device can ask
  again or with another's key, and the pool can run out. `TwoDevices`,
  `ThreeDevices` and `OneOperational` list the requests; each token may be issued
  for any device.
- `MaxOverlap` bounds operations in progress: 1 asks about sequences with faults,
  2 or 3 about interleavings. The races found all need two. Three requests
  (`enroll_overlap`) cover a holder, one that waits and one that cleans up.
- `MaxFaults`, `MaxRepairFaults`, `MaxCrashes` bound how often something fails.
  Two faults allow a failed operation followed by another failed one; a repair
  fault allows a rollback that does not succeed. They bound the environment, not
  the program: after them everything runs on without faults.
- `dns_manager`: two processes, since every race is between two; a device with a
  name of its own and one named like the gateway; names that start missing, and
  wrong; one fault, one failed restoration, one death. The processes are
  interchangeable, hence symmetry.
- `client_install`: two hosts, one of which is the gateway (`ServerHost`, where
  tokens issued locally are refused) and one of which also runs without a token
  (`Tokenless`); a device name given on the command line (`Named`) that is the other
  host's, so that identities collide; three keys, one more than the hosts, so that a
  key made twice would show; two tokens, so that a lost answer can be followed by a
  retry; two addresses beside the gateway's. One fault, one crash, one death before
  the restart, one revocation.
- `deploy`: the built-in domain and another; the names `vpn` and `register` of each
  and one name that is neither; options with and without a provider; one fault, one
  death or reboot, one edit (a bad port, or a second line of a key); fresh, manual
  and former gateways to start from. The edit comes between deployments, a failure
  and a death within them, and any number of deployments follow.
- `peer_file`: networks of 1 to 8 addresses cover /32, /31, /30 and the ordinary
  case, with the gateway anywhere; two devices and one peer by hand, which may claim
  one address, or half the network and one beyond it; one cut line.
- `Scope` bounds what tokens are issued for; here always any device, the most
  permissive. Module `Registry` is checked with scoped tokens too.
- Request threads are interchangeable, so runs without liveness use symmetry.
- Deadlock is not checked where the system may rest: in `Registry`, `Enrollment`
  and `PeerFile` once every token is used and every device revoked. It is checked
  in `dns_manager`, `client_install` and `deploy`.

The three `Settled` properties claim nothing after a crash or a failed repair:
the code has no journal, so a death between the peer and the commit leaves a
block without a row (see `crash_recovery` among the hazards), which
`AddressesNotShared` shows to be harmless for allocation. `sync_hosts` and
`sync_dns` are the documented repair of the names.

### Fairness

`FairSpec` assumes weak fairness of each thread's and each command's own steps.
Nothing in them waits without a limit: SQLite's busy timeout is 30 s
(`registry.py:99`), the provider's requests time out after 10 s
(`dns/godaddy.py:27`), and `wg` is a local command. Clients, the administrator,
faults and crashes are under no obligation. Weak fairness suffices because a
waiting thread is always enabled: it may get the lock or time out.

In `client_install` weak fairness covers the script's own steps and the gateway
serving a request; the client waits 15 s at most (`client/enroll.py:150`). That the
operator tries again is no property of the code but the premise of the question, so
it is stated as strong fairness of `Retry`: other invocations may come in between,
but whenever a retry is possible again and again it is made. In `deploy`, likewise,
`WF_vars(Proceeds)` is the command that runs to its end, and strong fairness of
`StoreCredentials` and `DeployRegisterName` is the operator who wants the gateway
published and repeats the deployment. `RedeployConverges` and `RetriesConverge` name
in their premises what no persistence can mend. The properties of `DnsManager` and
`PeerFile` are safety properties and need no fairness.

## 4. What is proved

`RegistryProofs` proves, for every set of devices, keys, tokens and addresses:

| Theorem | States | Argument |
| --- | --- | --- |
| `TypeCorrect` | `Spec => []TypeOK` | inductive as it stands |
| `IdentitiesAlwaysDistinct` | `Spec => []IdentitiesDistinct` | inductive with `TypeOK`: a new row takes a key without owner and an address not taken |
| `AllDevicesPaidFor` | `Spec => []DevicesPaidFor` | counting: `Register` adds one device to a finite set and one token to another; no other step adds a device or takes a consumed token back. The strengthened invariant adds that both sets are finite |
| `HistoryAlwaysFinal` | `Spec => HistoryIsFinal` | step by step from `TypeOK` |

Assumptions: `NoRow` is not a row and `AnyDevice` is no device
(`NoRowIsDistinct`, `AnyDeviceIsNoDevice`, evaluated by TLC in every run), and for
`AllDevicesPaidFor` that the set of tokens is finite.

`EnrollmentProofs` and `RefinementProofs` prove, for every set of devices, keys,
tokens, requests and processes, and any number of overlapping operations, faults,
failed repairs, crashes and reboots:

| Theorem | States | Argument |
| --- | --- | --- |
| `EnrollmentProofs!TypeCorrect` | `Spec => []TypeOK` | `LocalsFit` and `SharedTypeOK` |
| `ConfigAlwaysWellFormed` | `Spec => []ConfigWellFormed`, if the hand-written blocks have different keys | with `TextsSound`: a text that was read and not yet written is well-formed, and in `ensure_peer` has the key in no other block |
| `RegistryImplemented` | `Spec => ImplementsRegistry` | with `TransactionHeld` and `TransactionSound` |
| `GatewayIdentitiesDistinct`, `GatewayDevicesPaidFor`, `GatewayHistoryFinal` | what `Registry` promises, of the gateway's own tables | carried over by the refinement: `RegistryProofs` instantiated with the mapping of `RegistryImplemented`; a token is consumed in the one exactly when it is in the other (`ConsumedAlike`) |
| `EnabledAlwaysHavePeers` | `Spec => []EnabledHavePeers` under `Undisturbed`, for any number of enrollments at once | with `Coexisting`, below |

None of the first three is inductive as it stands.

- `TypeOK` allows any value in the local variables, but the record of a process
  goes into the tables, the file and the hosts, and `previous` into the zone.
  `LocalsFit` says at which stage (`Fits`) a process has a request, a record and a
  previous DNS record, and every step keeps it: the lemmas `Moves`, `Stays`,
  `Finishes`, `FailKeeps` and `PreparedKeeps` are the ways in which actions go on.
- The configuration file is written from a text that may be stale. What saves it
  is not that the text is current but that it was well-formed when it was read
  (`TextsSound`), that the check for the key was made on the same text, and that
  adding or removing one device's block keeps a text well-formed (`WithBlock`,
  `WithoutBlock`). So nothing in the argument uses the lock, and the theorem covers
  the writers that hold it and those that do not.
- For the refinement, the checks of `prepare_enrollment` must still hold when the
  row is committed, many steps later. `TransactionHeld`: the lock is held exactly by
  the one thread between `BEGIN IMMEDIATE` and the end of its transaction.
  `TransactionSound`: until then the token is neither consumed nor bound to another
  device, a new row's key and address are free, a row that was found is enabled and
  unchanged. Every step is then `Quiet` (nothing of this changes), a `Release`, one
  of the two `Prepare` actions, or `Commit`, which is a `Register` or `Reenroll`.
  A token that expires while the transaction that admitted it is open counts as
  valid until that ends (`AdmittedTokens`): the code checks the time once.
- `EnabledHavePeers` is about enrollments only: `Undisturbed` says that there are no
  commands, faults or deaths, that no payload has the key of a hand-written peer,
  and with DNS no operational name. `enroll_overlap` satisfies it. Each part rules
  out a revocation (`revoke_race`) or a way for an enrollment to fail after it has
  prepared its row, whose cleanup may then take another's peer (`cleanup_race`).
  What could still go wrong is that the file is written from a stale text.
  `Coexisting` says why it is not: only the holder of the lock writes the file
  (`HolderApplies`), every block belongs to a row that is committed or about to be
  (`BlocksOwned`), so `ensure_peer` never refuses and nothing is ever cleaned up
  (`Calm`); and rows have different addresses (`RowsApart`), so `wg set` takes
  nobody's.

The assumptions are `GatewayConstants`, `NoRowIsNone` and `AnyDeviceIsNone` (the
gateway's markers are no rows and no devices) and those of `Peers` and `Registry`, all
evaluated by TLC in every run; for `GatewayDevicesPaidFor` also that the set of tokens
is finite. The theorems reach cases outside the bounds of the runs: `enroll_storm` has
no crash and pairs only; the proofs have both unlimited.

### Operations that do not overlap

`SerialProofs` proves what `enroll_serial` checks, with the same premise,
`MaxOverlap = 1`, and for every number of devices, keys, addresses, tokens,
processes, faults, deaths and reboots. The premise is needed: `revoke_race` and
`cleanup_race` are counterexamples to two of these properties with an overlap of 2,
and section 3 names the places where the others stop.

| Theorem | States |
| --- | --- |
| `RevokedNeverHavePeer` | `Spec => []RevokedHaveNoPeer` |
| `AlwaysAllocatesAroundConfig` | `Spec => AllocatesAroundConfig` |
| `AlwaysConsumedWhenApplied` | `Spec => ConsumedOnlyWhenApplied` |
| `RollbackAlwaysLocal` | `Spec => RollbackStaysLocal` |
| `AddressesNeverShared` | `Spec => []AddressesNotShared`, if the hand-written peers have different addresses (`ManualAddressesDistinct`) |
| `PeersSettle`, `HostsSettle`, `DnsSettles` | `Spec => []SettledPeers`, `[]SettledHosts`, `[]SettledDns` |

They share one inductive invariant, `SerialInv`. On top of the `Inv` of the
refinement it has:

- `Sequential`: at most one process is not idle, and an idle one has an empty frame;
- `RecordsCurrent`: what the running process has read of the registry is still so.
  This is where the premise does its work, for commands hold no lock;
- `TextsCurrent`: the same of the text of the file, from the reading to the writing;
- `AllBlocksFit`: the block of a registered device says what its row says, a revoked
  device has none, and no other block has the key or address of a row. A block
  without a row may be left behind by a death; it does no harm because
  `reserved_networks` reports its address and `ensure_peer` refuses its key;
- `RevokedOffline`: the key of a disabled row does not have its address on the
  interface;
- `PeersCurrent`, `NamesCurrent`: from which stage on the peer, the hosts line and the
  record of the request are in place. `AlwaysConsumedWhenApplied` reads them off at
  the last stage before the commit.

The three `Settled` properties speak of rest after any history in which no repair
failed and nothing died (`Unharmed`). Their invariants `PeersWhole`, `HostsWhole` and
`DnsWhole` say for every stage of an operation what is wrong at most: one device's
block, the hosts lines of one row, one name's record, and that the operation is at a
stage from which it will be put right. `Budgeted` relates the spent budget to
`Unharmed`.

### The zone, the client, the deployment, the file

The other modules are proved about for every set of devices, names, processes,
clients, keys, domains and networks, and every bound on faults and deaths:

| Theorem | States | Argument |
| --- | --- | --- |
| `DnsManagerProofs!TypeCorrect` | `Spec => []TypeOK` | with `LocalsFit`: how many mutations a process has saved at each stage, and that its jobs are names of the zone |
| `OnlySyncTouchesOperational` | `Spec => OperationalNamesKept` | with `LocalsFit`, which says that only `sync_dns` has jobs with operational names |
| `FailureChangesNothing` | `Spec => []FailureLeavesZone` | with `AloneInv`, below |
| `ClientInstallProofs!TypeCorrect` | `Spec => []TypeOK` | with `Fits`: from which stage on a run has a device, a token, complete values, and its client a key |
| `KeysAreHeld` | `Spec => []RegisteredKeysHeld` | with `Asked`: a request's key is its client's private key, and no step replaces a private key |
| `AddressesAreRegistered` | `Spec => []AddressesRegistered` | with `Addressed`: the same of the address in the script's variables; a row keeps its address (`RowsKept`) |
| `PublishedKeyIsRun` | `Spec => []PublishedKeyRuns` | with `OneKey`: the configuration on disk has the private key as well, which a reboot needs |
| `DnsManagerProofs!DoneAlwaysMeansDone` | `Spec => []DoneMeansDone` | with `WordKept`, below |
| `SyncAlwaysReconciles` | `Spec => []SyncReconciles` | with `WordKept`, and that the registry has finitely many devices |
| `IdentityAlwaysRegistered` | `Spec => []IdentityRegistered` | with `Identified`: while nobody has died, the name in a request or a registered row is in its client's `device-id` |
| `DoneAlwaysMeansRunning` | `Spec => []DoneMeansRunning` | with `Following` (the files follow the script's values one by one, the configuration follows the files) and `Running`: a running interface has the configuration on disk unless the script is about to restart it |
| `AlwaysLeadsToGateway` | `Spec => []LeadsToGateway` | with `Provided`: unless the script is persisting, the files have everything that the gateway gives, or are incomplete and nothing was configured from them |
| `ConfiguredNeverEnrolls` | `Spec => []ConfiguredNeverAsks` | with `Provided`: a configuration implies a complete set of files, which the script loads instead of asking |
| `AlwaysAllocatesAroundFile` | `Spec => AllocatesAroundFile` | what is in `Free` is claimed by no row, no line and neither end of the network (`FreeIsUnclaimed`); a non-empty set of addresses has a first (`LowestIsOne`, from the library's facts on well-founded orders) |
| `BlocksAlwaysMatchRows` | `Spec => []ManagedMatchRows` | with `Layout`, below |
| `HandWrittenAlwaysKept` | `Spec => HandWrittenKept` | with `Layout`: stripping a framed text, and appending a block to one without markers of the device, leave `ByHand` as it was (`StripLeavesByHand`, `AppendLeavesByHand`) |
| `DeployProofs!TypeCorrect` | `Spec => []TypeOK` | with `Placed`: what is known of the file, the kind and the values to write back at each stage |
| `FailureAlwaysRestoresFile` | `Spec => []FailureRestoresFile` | with `Restorable`: the arguments say what to write back, and `Rollback` is passed on every way to a failure |
| `OtherSettingsAlwaysKept` | `Spec => []OtherSettingsKept` | with `Restorable`, which says that the file `Keeps` the settings of the one to restore: `PatchedText` changes only lines of the name and the provider, `CompletedText` only adds lines of keys that are missing |
| `SuccessAlwaysMeansAgreement` | `Spec => []SuccessMeansAgreement` | with `OneKey` and `Agreeing`: what the steps before the check have done, which the check itself does not look at: both key files hold one key, the names of the file are published, the service was started from the file as it is |

A process that `FailureChangesNothing` is about may have
walked a list of any length and restored it backwards, so the invariant must know
the zone at every point in between. `AloneInv` says of a process that has met nobody
and whose restorations succeeded: the zone is what it was when the process began,
except at names of jobs it has done and not yet undone, where the saved record is
what the name had before that job. Undoing the last job takes one exception away;
when none is left the zone is the old one. Names may occur twice in a list in
principle; the argument then needs the order of the restorations, and that is the
order the code uses.

`DoneAlwaysMeansDone` and `SyncAlwaysReconciles` are about processes that overlap, any
number of them. `WordKept` adds two parts to `Inv`. `Steady` says what a list of jobs
may be at each stage, and that an enrollment holds the lock while it has one, so the
registry does not change under it. `Promises` is about a process whose company has
been undisturbed: it keeps what it did (each job done is still so in the zone), its
list covers every registered device if it reconciles, everyone else at work is
faithful to the registry as well, and nobody is undoing. A write then takes nothing
back, because two who are right about a name want the same (`RightAgree`). A device that
is enrolled while a reconciliation runs has its record from its own enrollment.

The four theorems about a client's files hold under premises that are part of the
properties (`NobodyDied`, or nobody died between replacement and restart). A premise
about the past is only useful if the invariant carries it: `BudgetsSpent` relates
the counters to those premises, so that each part needs to hold only as long as its
premise does. `KeysDistinct` keeps the clients apart: two of them never have one
private key, so what a request says of a key says it of one client.

`KeysAreHeld` and `AddressesAreRegistered` are about requests that outlive the
script that sent them: a request of a client that gave up, or died, may still be
served. What makes that harmless is that the key it carries was written to disk
before it was sent and is never replaced.

The two theorems about the text of the file hold for texts of any length, any
number of hand-written peers, and of cut lines. Their invariant `Layout` has two
parts about the text. `Framed` survives every cut: a device has at most one begin
and one end marker, the end after the begin, and no marker in between. `Owned` holds
until the first cut: every marker belongs to an enabled row, and every enabled row
has its five lines in one piece. The parsers of the code walk the lines with a flag;
the model says the same of positions (`Inside`, `LinesAt`), so that no induction
over the text is needed. What is left by stripping a block is described by
`PickedBy`, an enumeration of positions in their order: `LinesArePicked` shows that
`LinesAt` is one, by counting, and `PickedAlike` that picking twice is picking once.
`HandWrittenKept` is delicate where a marker was cut: what the block had then counts
as hand-written, and both operations refuse a lone marker of their device rather
than take along what follows it.

Assumptions: for `DnsManager` that the settings are valid (`SettingsValid`, what
`DNSSettings.validate` checks), devices have different hostnames
(`HostnamesDistinct`), there are finitely many (`DevicesFinite`), and `Bounds`; for
`ClientInstall` `ClientConstants` and `NoRowIsDistinct`; for `Deploy` that the
markers of missing files are no keys and no texts (`MarkersAreNoKeys`,
`MarkersAreNoFiles`), that every domain has its own two names (`NamesInDomains`) and
`PortsAndBounds`; for `PeerFile` `PeerFileConstants` and that `NoOne` is no row
(`NoOneIsNoRow`). TLC evaluates all of them in
the runs.

### Only model-checked

Liveness (`OperationsEnd`, `LockReturned`, `RetriesConverge`, `RedeployConverges`),
which needs `ENABLED` and is out of the prover's reach.

The invariants above were checked by TLC, as invariants of the runs they belong to,
before they were proved.

No module declares a RECURSIVE operator.

## 5. Not modelled, and what could follow

Not modelled:

- the scripts for particular hosts (`scripts/ci/`, `recipes/`), which are run once;
- the discovery of several roles on one host (`gway/topology.py`): `Deploy` and
  `ClientInstall` have the reconciliation of one role each. A host with several
  has one more behaviour, which can be read off the source: `sync` raises for a
  server whose DNS is disabled (`topology.py:168`), so the roles after it are not
  reconciled, where `docs/pre-phase-5-hardening.md:35` has it operate across all of
  them;
- `public.py` and `logs.py` under `gway/server/`, and the commands that only read:
  `status`, `check`, `list_devices`, `dns_status`;
- the redaction of secrets in diagnostics, and the parsing of configuration beyond
  the lines of an environment file: they keep no state;
- packages and the copying of the program's own files by the installers;
- an operator who edits a file while a command rewrites it: nothing in the code
  guards against it, so no property could hold.

What could follow: a module for several roles on one host.
