--------------------------- MODULE EnrollService ----------------------------
(***************************************************************************)
(* EnrollmentService.enroll, one thread of the HTTP server per request:    *)
(* reservations are read first; then, under the registry's write lock, the *)
(* row is prepared, the peer, the private hostname and the DNS record are  *)
(* applied, the token is consumed and the transaction commits.  A failure  *)
(* anywhere rolls the transaction back, and only then, without the lock,   *)
(* are the other changes undone.                                           *)
(***************************************************************************)
EXTENDS Gateway, FiniteSetsExt

request(p) == frame[p].request
record(p) == frame[p].record

\* The devices table as the open transaction of p sees it.
TransactionRows(p) ==
    IF frame[p].created
    THEN [devices EXCEPT ![record(p).device] =
             [key |-> record(p).key, address |-> record(p).address,
              enabled |-> TRUE]]
    ELSE devices

-----------------------------------------------------------------------------
(* Leaving the transaction.                                                *)

\* Mutants: a peer is removed whether or not this request created its row;
\* it is never removed; the DNS mutation is forgotten.
CleanupAlways(p) ==
    IF frame[p].previous # "unset" THEN "dns_restore"
    ELSE IF record(p) # NoRecord THEN "peer_remove"
    ELSE "hosts_list"

CleanupHostsOnly(p) ==
    IF frame[p].previous # "unset" THEN "dns_restore" ELSE "hosts_list"

CleanupWithoutDns(p) == IF frame[p].created THEN "peer_remove" ELSE "hosts_list"

CleanupStage(p) ==
    IF frame[p].previous # "unset" THEN "dns_restore"
    ELSE IF frame[p].created THEN "peer_remove"
    ELSE "hosts_list"

\* The exception leaves the with-block, which rolls back and unlocks.
Fail(p) ==
    /\ ReleaseLock(p)
    /\ Goto(p, CleanupStage(p))
    /\ Set(p, [frame[p] EXCEPT !.reserved = {}, !.text = {}, !.listed = {}])
    /\ UNCHANGED <<devices, tokens>>

-----------------------------------------------------------------------------
Receive(p) ==
    /\ p \in Request
    /\ MayStart(p)
    /\ \E q \in Payload : Set(p, [EmptyFrame EXCEPT !.request = q])
    /\ Goto(p, "peer_reservations")
    /\ UNCHANGED <<database, peerState, names, budget>>

ReadReservations(p) ==
    /\ At(p, "peer_reservations")
    /\ Set(p, [frame[p] EXCEPT !.reserved = ReservedNetworks(config)])
    /\ Goto(p, "registry_prepare")
    /\ UNCHANGED <<database, peerState, names, budget>>

(* registry.prepare_enrollment, under BEGIN IMMEDIATE.                     *)

TokenAccepted(p) == DB!TokenAdmits(request(p).token, request(p).device)

AcceptsExisting(p) ==
    /\ TokenAccepted(p)
    /\ DB!Registered(request(p).device)
    /\ devices[request(p).device].enabled
    /\ devices[request(p).device].key = request(p).key

\* Mutant: the addresses that were read from the file are not passed on.
FreeInRegistry(p) == DB!FreeAddresses

FreeAddresses(p) == DB!FreeAddresses \ frame[p].reserved

AcceptsNew(p) ==
    /\ TokenAccepted(p)
    /\ ~DB!Registered(request(p).device)
    /\ DB!KeyOwners(request(p).key) = {}
    /\ FreeAddresses(p) # {}

\* Mutant: a deferred transaction, which takes no lock when it begins.
PreparedDeferred(p, rec, isNew) ==
    /\ UNCHANGED lock
    /\ Set(p, [frame[p] EXCEPT !.record = rec, !.created = isNew,
                               !.reserved = {}])
    /\ Goto(p, "peer_apply")
    /\ UNCHANGED <<devices, tokens, peerState, names, budget>>

Prepared(p, rec, isNew) ==
    /\ lock' = p
    /\ Set(p, [frame[p] EXCEPT !.record = rec, !.created = isNew,
                               !.reserved = {}])
    /\ Goto(p, "peer_apply")
    /\ UNCHANGED <<devices, tokens, peerState, names, budget>>

PrepareExisting(p) ==
    /\ At(p, "registry_prepare")
    /\ lock = NoProcess
    /\ AcceptsExisting(p)
    /\ Prepared(p, [device |-> request(p).device,
                    key |-> devices[request(p).device].key,
                    address |-> devices[request(p).device].address], FALSE)

PrepareNew(p) ==
    /\ At(p, "registry_prepare")
    /\ lock = NoProcess
    /\ AcceptsNew(p)
    /\ Prepared(p, [device |-> request(p).device, key |-> request(p).key,
                    address |-> Min(FreeAddresses(p))], TRUE)

\* Refused token, revoked device, key conflict or exhausted pool.
Reject(p) ==
    /\ At(p, "registry_prepare")
    /\ lock = NoProcess
    /\ ~AcceptsExisting(p) /\ ~AcceptsNew(p)
    /\ Fail(p)
    /\ UNCHANGED <<peerState, names, budget>>

\* sqlite3.OperationalError: the lock was not free within 30 seconds.
BusyTimeout(p) ==
    /\ At(p, "registry_prepare")
    /\ lock # NoProcess
    /\ Fail(p)
    /\ UNCHANGED <<peerState, names, budget>>

(* peers.ensure_peer; reading and setting the peer are in module Gateway.  *)

PeerRefused(p) ==
    /\ At(p, "peer_apply")
    /\ PeerConflict(p)
    /\ Fail(p)
    /\ UNCHANGED <<peerState, names, budget>>

WritePeer(p) ==
    /\ At(p, "config_write")
    /\ EnsureWrite(p)
    /\ Set(p, [frame[p] EXCEPT !.text = {}])
    /\ Goto(p, "hosts_sync")
    /\ UNCHANGED <<database, interface, names, budget>>

(* hosts.sync with the rows of the open transaction.                       *)

\* Mutant: the rows are listed through a connection of their own.
SyncCommittedHosts(p) ==
    /\ At(p, "hosts_sync")
    /\ hosts' = HostEntriesOf(devices)
    /\ Goto(p, IF DnsEnabled THEN "dns_read" ELSE "token_consume")
    /\ UNCHANGED <<database, peerState, dns, frame, budget>>

SyncHosts(p) ==
    /\ At(p, "hosts_sync")
    /\ hosts' = HostEntriesOf(TransactionRows(p))
    /\ Goto(p, IF DnsEnabled THEN "dns_read" ELSE "token_consume")
    /\ UNCHANGED <<database, peerState, dns, frame, budget>>

(* dns.ensure_record: get, replace if different; a failed replacement may  *)
(* or may not have reached the provider and is undone on a best effort.    *)

\* Mutant: any record of the name will do.
ReadAnyDns(p) ==
    /\ At(p, "dns_read")
    /\ record(p).device \notin Operational
    /\ IF dns[record(p).device] # "none"
       THEN /\ Goto(p, "token_consume")
            /\ UNCHANGED frame
       ELSE /\ Goto(p, "dns_replace")
            /\ Set(p, [frame[p] EXCEPT !.previous = dns[record(p).device]])
    /\ UNCHANGED <<database, peerState, names, budget>>

ReadDns(p) ==
    /\ At(p, "dns_read")
    /\ record(p).device \notin Operational
    /\ IF dns[record(p).device] = "gateway"
       THEN /\ Goto(p, "token_consume")
            /\ UNCHANGED frame
       ELSE /\ Goto(p, "dns_replace")
            /\ Set(p, [frame[p] EXCEPT !.previous = dns[record(p).device]])
    /\ UNCHANGED <<database, peerState, names, budget>>

\* validate_device_hostname: the hostname is one of the gateway's own.
DnsRefused(p) ==
    /\ At(p, "dns_read")
    /\ record(p).device \in Operational
    /\ Fail(p)
    /\ UNCHANGED <<peerState, names, budget>>

ReplaceDns(p) ==
    /\ At(p, "dns_replace")
    /\ dns' = [dns EXCEPT ![record(p).device] = "gateway"]
    /\ Goto(p, "token_consume")
    /\ UNCHANGED <<database, peerState, hosts, frame, budget>>

ReplaceDnsFails(p) ==
    /\ At(p, "dns_replace")
    /\ Spend("fault")
    /\ \/ dns' = [dns EXCEPT ![record(p).device] = "gateway"]
       \/ UNCHANGED dns
    /\ Goto(p, "dns_undo")
    /\ UNCHANGED <<database, peerState, hosts, frame>>

\* No mutation is returned, so the cleanup will not restore the record again.
LeaveDns(p) ==
    /\ ReleaseLock(p)
    /\ Goto(p, IF frame[p].created THEN "peer_remove" ELSE "hosts_list")
    /\ Set(p, [frame[p] EXCEPT !.previous = "unset"])
    /\ UNCHANGED <<devices, tokens, peerState, hosts>>

UndoDns(p) ==
    /\ At(p, "dns_undo")
    /\ dns' = [dns EXCEPT ![record(p).device] = frame[p].previous]
    /\ LeaveDns(p)
    /\ UNCHANGED budget

UndoDnsFails(p) ==
    /\ At(p, "dns_undo")
    /\ Spend("repair")
    /\ UNCHANGED dns
    /\ LeaveDns(p)

(* registry.consume_token and the commit at the end of the with-block: the *)
(* row was checked under the same lock, so the UPDATE finds it.            *)

Commit(p) ==
    /\ At(p, "token_consume")
    /\ devices' = TransactionRows(p)
    /\ tokens' = [tokens EXCEPT ![request(p).token].state = "consumed"]
    /\ lock' = NoProcess
    /\ Finish(p)
    /\ UNCHANGED <<peerState, names, budget>>

\* Any of these steps may raise without having had an effect.
StepFails(p) ==
    /\ p \in Request
    /\ stage[p] \in {"peer_reservations", "registry_prepare", "hosts_sync",
                     "dns_read", "token_consume"} \cup PeerStages
    /\ Spend("fault")
    /\ Fail(p)
    /\ UNCHANGED <<peerState, names>>

-----------------------------------------------------------------------------
(* The cleanup of a failed enrollment, after the rollback.                 *)

AfterDnsRestore(p) ==
    /\ Goto(p, IF frame[p].created THEN "peer_remove" ELSE "hosts_list")
    /\ Set(p, [frame[p] EXCEPT !.previous = "unset"])
    /\ UNCHANGED <<database, peerState, hosts>>

RestoreDns(p) ==
    /\ At(p, "dns_restore")
    /\ dns' = [dns EXCEPT ![record(p).device] = frame[p].previous]
    /\ AfterDnsRestore(p)
    /\ UNCHANGED budget

RestoreDnsFails(p) ==
    /\ At(p, "dns_restore")
    /\ Spend("repair")
    /\ UNCHANGED dns
    /\ AfterDnsRestore(p)

StripPeer(p) == p \in Request /\ StripConfig(p, "hosts_list")

RemovalFails(p) ==
    /\ p \in Request
    /\ stage[p] \in RemovalStages
    /\ Spend("repair")
    /\ Set(p, [frame[p] EXCEPT !.text = {}])
    /\ Goto(p, "hosts_list")
    /\ UNCHANGED <<database, peerState, names>>

\* Mutant: the hosts file waits for rows that have not changed since.
RestoreHostsIfCurrent(p) ==
    /\ p \in Request
    /\ At(p, "hosts_restore")
    /\ frame[p].listed = HostEntriesOf(devices)
    /\ hosts' = frame[p].listed
    /\ Finish(p)
    /\ UNCHANGED <<database, peerState, dns, budget>>

RestoreHosts(p) ==
    /\ p \in Request
    /\ At(p, "hosts_restore")
    /\ hosts' = frame[p].listed
    /\ Finish(p)
    /\ UNCHANGED <<database, peerState, dns, budget>>

RestoreHostsFails(p) ==
    /\ p \in Request
    /\ stage[p] \in HostsStages
    /\ Spend("repair")
    /\ Finish(p)
    /\ UNCHANGED <<database, peerState, names>>

\* The server process dies with all its threads; SQLite drops the open
\* transaction, and everything that was applied outside it stays.
ServerDies ==
    /\ \E p \in Request : ~At(p, "idle")
    /\ Spend("crash")
    /\ stage' = [p \in Process |-> IF p \in Request THEN "idle" ELSE stage[p]]
    /\ frame' = [p \in Process |-> IF p \in Request THEN EmptyFrame ELSE frame[p]]
    /\ lock' = IF lock \in Request THEN NoProcess ELSE lock
    /\ UNCHANGED <<devices, tokens, peerState, names>>

-----------------------------------------------------------------------------
\* The steps a thread takes by itself once it has its request.
EnrollStep(p) ==
    \/ ReadReservations(p)
    \/ PrepareExisting(p) \/ PrepareNew(p) \/ Reject(p) \/ BusyTimeout(p)
    \/ p \in Request /\ (EnsureRead(p) \/ EnsureRuntime(p))
    \/ p \in Request /\ (PeerRefused(p) \/ WritePeer(p))
    \/ SyncHosts(p)
    \/ ReadDns(p) \/ DnsRefused(p) \/ ReplaceDns(p) \/ UndoDns(p)
    \/ Commit(p)
    \/ RestoreDns(p)
    \/ p \in Request /\ (RemoveRead(p) \/ RemoveRuntime(p))
    \/ StripPeer(p)
    \/ p \in Request /\ ListDevices(p)
    \/ RestoreHosts(p)

EnrollFault(p) ==
    \/ StepFails(p) \/ ReplaceDnsFails(p) \/ UndoDnsFails(p)
    \/ RestoreDnsFails(p) \/ RemovalFails(p) \/ RestoreHostsFails(p)
=============================================================================
