------------------------------ MODULE Gateway -------------------------------
(***************************************************************************)
(* The gateway host: the SQLite registry with its write lock, the          *)
(* WireGuard configuration and interface, the managed block of /etc/hosts, *)
(* the public DNS records, and the processes that work on them.  This      *)
(* module holds the state and the steps that the enrollment service        *)
(* (module EnrollService) and the administrator's commands (module         *)
(* AdminCommands) share.  Only the registry has a lock: each step on       *)
(* another resource is atomic, and other processes run between two steps.  *)
(***************************************************************************)
EXTENDS Peers, FiniteSets

CONSTANTS
    Token, GatewayAddress, NoRow, AnyDevice,
    Request,       \* threads of the enrollment server
    Admin,         \* administrator processes
    NoProcess,     \* holder of a write lock that is free
    Payload,       \* the enrollment requests that clients may send
    Scope,         \* bound: what the tokens may be issued for
    ManualBlocks,  \* [Peer] blocks written by hand before the service came
    DnsEnabled,    \* whether the gateway automates public DNS
    Operational,   \* devices whose hostname is vpn.<base> or register.<base>
    MaxOverlap,    \* bound: operations in progress at the same time
    MaxFaults,     \* bound: steps that fail
    MaxRepairFaults, \* bound: best-effort repairs that fail
    MaxCrashes     \* bound: process deaths and reboots

ASSUME GatewayConstants ==
    /\ Address \subseteq Nat
    /\ Request \cap Admin = {}
    /\ NoProcess \notin Request \cup Admin
    /\ Payload \subseteq [device : Device, key : Key, token : Token]
    /\ Scope \subseteq Device \cup {AnyDevice}
    /\ ManualBlocks \subseteq Unmanaged(Block)
    /\ DnsEnabled \in BOOLEAN
    /\ {MaxOverlap, MaxFaults, MaxRepairFaults, MaxCrashes} \subseteq Nat
ASSUME NoRowIsNone ==
    NoRow \notin [key : Key, address : Address, enabled : BOOLEAN]
ASSUME AnyDeviceIsNone == AnyDevice \notin Device

VARIABLES
    devices, tokens,  \* the committed tables, as in module Registry
    lock,             \* the process whose write transaction is open
    config,           \* the blocks of the WireGuard configuration file
    interface,        \* the running WireGuard interface
    hosts,            \* the entries of the managed block of /etc/hosts
    dns,              \* the A record of each device's public hostname
    stage,            \* where each process is
    frame,            \* the local variables of each process
    budget            \* the faults, repair faults and crashes still to come

gatewayVars ==
    <<devices, tokens, lock, config, interface, hosts, dns, stage, frame, budget>>
database == <<devices, tokens, lock>>
peerState == <<config, interface>>
names == <<hosts, dns>>

DB == INSTANCE Registry

Process == Request \cup Admin

HostEntry == [device : Device, address : Address]
DnsRecord == {"none", "gateway", "other"}
DeviceRecord == [device : Device, key : Key, address : Address]
NoRecord == [device |-> NoOwner, key |-> NoOwner, address |-> NoAddress]
NoRequest == [device |-> NoOwner, key |-> NoOwner, token |-> NoOwner]

Frame ==
    [request  : Payload \cup {NoRequest},
     record   : DeviceRecord \cup {NoRecord},
     created  : BOOLEAN,
     reserved : SUBSET Address,          \* externally_reserved
     text     : SUBSET Block,            \* configuration text as read
     listed   : SUBSET HostEntry,        \* rows as listed, for /etc/hosts
     previous : DnsRecord \cup {"unset"}] \* dns_mutation.previous

EmptyFrame ==
    [request |-> NoRequest, record |-> NoRecord, created |-> FALSE,
     reserved |-> {}, text |-> {}, listed |-> {}, previous |-> "unset"]

PeerStages == {"peer_apply", "runtime_set", "config_write"}
RemovalStages == {"peer_remove", "runtime_remove", "config_strip"}
HostsStages == {"hosts_list", "hosts_restore"}
TransactionStages ==
    PeerStages \cup {"hosts_sync", "dns_read", "dns_replace", "dns_undo",
                     "token_consume"}
Stage ==
    TransactionStages \cup RemovalStages \cup HostsStages \cup
    {"idle", "peer_reservations", "registry_prepare", "dns_restore",
     "registry_revoke", "dns_lookup", "dns_delete", "dns_redo"}

TypeOK ==
    /\ DB!TypeOK
    /\ lock \in Process \cup {NoProcess}
    /\ config \subseteq Block
    /\ interface \in Interface
    /\ hosts \subseteq HostEntry
    /\ dns \in [Device -> DnsRecord]
    /\ stage \in [Process -> Stage]
    /\ frame \in [Process -> Frame]
    /\ budget \in [fault : Nat, repair : Nat, crash : Nat]

Init ==
    /\ DB!Init
    /\ lock = NoProcess
    /\ config = ManualBlocks
    /\ interface \in BroughtUp(config)
    /\ hosts = {}
    /\ dns \in [Device -> IF DnsEnabled THEN {"none", "other"} ELSE {"none"}]
    /\ stage = [p \in Process |-> "idle"]
    /\ frame = [p \in Process |-> EmptyFrame]
    /\ budget = [fault |-> MaxFaults, repair |-> MaxRepairFaults,
                 crash |-> MaxCrashes]

-----------------------------------------------------------------------------
(* Control.                                                                *)

At(p, s) == stage[p] = s
Goto(p, s) == stage' = [stage EXCEPT ![p] = s]
Set(p, f) == frame' = [frame EXCEPT ![p] = f]

Idle == \A p \in Process : At(p, "idle")
MayStart(p) ==
    /\ At(p, "idle")
    /\ Cardinality({q \in Process : ~At(q, "idle")}) < MaxOverlap

Finish(p) == Goto(p, "idle") /\ Set(p, EmptyFrame)

Spend(kind) ==
    /\ budget[kind] > 0
    /\ budget' = [budget EXCEPT ![kind] = @ - 1]

\* Mutant: the failed transaction is left open.
KeepLock(p) == UNCHANGED lock

ReleaseLock(p) == lock' = IF lock = p THEN NoProcess ELSE lock

HostEntriesOf(rows) ==
    {[device |-> d, address |-> rows[d].address] :
        d \in {e \in Device : rows[e] # NoRow /\ rows[e].enabled}}

-----------------------------------------------------------------------------
(* PeerManager.ensure_peer: read the file, set the live peer, write the    *)
(* file as it was read with the device's block replaced.                   *)

PeerConflict(p) ==
    KeyElsewhere(config, frame[p].record.device, frame[p].record.key)

EnsureRead(p) ==
    /\ At(p, "peer_apply")
    /\ ~PeerConflict(p)
    /\ Set(p, [frame[p] EXCEPT !.text = config])
    /\ Goto(p, "runtime_set")
    /\ UNCHANGED <<database, peerState, names, budget>>

EnsureRuntime(p) ==
    /\ At(p, "runtime_set")
    /\ interface' =
          WgSetPeer(interface, frame[p].record.key, frame[p].record.address)
    /\ Goto(p, "config_write")
    /\ UNCHANGED <<database, config, names, frame, budget>>

\* The block is written last in the file, so a file that already has it may
\* still be rewritten; a file that ends with it is left alone.
EnsureWrite(p) ==
    LET desired == WithManagedBlock(frame[p].text, frame[p].record.device,
                       frame[p].record.key, frame[p].record.address)
    IN  \/ config' = desired
        \/ desired = frame[p].text /\ UNCHANGED config

(* PeerManager.remove_peer: read the file, remove the live peer, write the *)
(* file as it was read without the device's block, if it had one.          *)

RemoveRead(p) ==
    /\ At(p, "peer_remove")
    /\ Set(p, [frame[p] EXCEPT !.text = config])
    /\ Goto(p, "runtime_remove")
    /\ UNCHANGED <<database, peerState, names, budget>>

RemoveRuntime(p) ==
    /\ At(p, "runtime_remove")
    /\ interface' = WgRemovePeer(interface, frame[p].record.key)
    /\ Goto(p, "config_strip")
    /\ UNCHANGED <<database, config, names, frame, budget>>

StripConfig(p, next) ==
    /\ At(p, "config_strip")
    /\ config' = IF HasManagedBlock(frame[p].text, frame[p].record.device)
                 THEN StripManagedBlock(frame[p].text, frame[p].record.device)
                 ELSE config
    /\ Set(p, [frame[p] EXCEPT !.text = {}])
    /\ Goto(p, next)
    /\ UNCHANGED <<database, interface, names, budget>>

-----------------------------------------------------------------------------
(* HostsManager.sync(registry.list_devices()): list the committed rows,    *)
(* then write the block that was rendered from them.                       *)

ListDevices(p) ==
    /\ At(p, "hosts_list")
    /\ Set(p, [frame[p] EXCEPT !.listed = HostEntriesOf(devices)])
    /\ Goto(p, "hosts_restore")
    /\ UNCHANGED <<database, peerState, names, budget>>
=============================================================================
