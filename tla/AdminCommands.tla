--------------------------- MODULE AdminCommands ----------------------------
(***************************************************************************)
(* The administrator's commands that change the gateway (admin_ops.py),    *)
(* each run by a process of its own next to the enrollment server.         *)
(***************************************************************************)
EXTENDS Gateway

CreateToken(t, s) ==
    /\ lock = NoProcess
    /\ DB!CreateToken(t, s)
    /\ UNCHANGED <<lock, peerState, names, stage, frame, budget>>

\* Time passes the expiry of a token, whoever is at work.
TokenExpires(t) ==
    /\ DB!ExpireToken(t)
    /\ UNCHANGED <<lock, peerState, names, stage, frame, budget>>

-----------------------------------------------------------------------------
(* sync_hosts.                                                             *)

StartHostsSync(p) ==
    /\ p \in Admin
    /\ MayStart(p)
    /\ Goto(p, "hosts_list")
    /\ UNCHANGED <<database, peerState, names, frame, budget>>

-----------------------------------------------------------------------------
(* revoke_device.  The row is read without a lock; an enabled device loses *)
(* its peer before the registry is changed.                                *)

\* Mutant: the record is kept without its address.
StartRevokeNoAddress(p) ==
    /\ p \in Admin
    /\ MayStart(p)
    /\ \E d \in DB!RegisteredDevices :
          /\ Set(p, [EmptyFrame EXCEPT
                       !.record = [device |-> d, key |-> devices[d].key,
                                   address |-> NoAddress]])
          /\ Goto(p, IF devices[d].enabled THEN "peer_remove" ELSE "hosts_list")
    /\ UNCHANGED <<database, peerState, names, budget>>

StartRevoke(p) ==
    /\ p \in Admin
    /\ MayStart(p)
    /\ \E d \in DB!RegisteredDevices :
          /\ Set(p, [EmptyFrame EXCEPT
                       !.record = [device |-> d, key |-> devices[d].key,
                                   address |-> devices[d].address]])
          /\ Goto(p, IF devices[d].enabled THEN "peer_remove" ELSE "hosts_list")
    /\ UNCHANGED <<database, peerState, names, budget>>

StripRevoked(p) == p \in Admin /\ StripConfig(p, "registry_revoke")

RevokeRow(p) ==
    /\ At(p, "registry_revoke")
    /\ lock = NoProcess
    /\ DB!Revoke(frame[p].record.device)
    /\ Goto(p, "hosts_list")
    /\ UNCHANGED <<lock, peerState, names, frame, budget>>

\* The exception handler puts the peer back before the command fails.
PutPeerBack(p) ==
    /\ Goto(p, "peer_apply")
    /\ Set(p, [frame[p] EXCEPT !.text = {}])
    /\ UNCHANGED <<database, peerState, names>>

RevokeFails(p) ==
    /\ p \in Admin
    /\ stage[p] \in RemovalStages \cup {"registry_revoke"}
    /\ Spend("fault")
    /\ PutPeerBack(p)

RevokeBusy(p) ==
    /\ At(p, "registry_revoke")
    /\ lock # NoProcess
    /\ PutPeerBack(p)
    /\ UNCHANGED budget

RewritePeer(p) ==
    /\ p \in Admin
    /\ At(p, "config_write")
    /\ EnsureWrite(p)
    /\ Finish(p)
    /\ UNCHANGED <<database, interface, names, budget>>

PutBackRefused(p) ==
    /\ p \in Admin
    /\ At(p, "peer_apply")
    /\ PeerConflict(p)
    /\ Finish(p)
    /\ UNCHANGED <<database, peerState, names, budget>>

PutBackFails(p) ==
    /\ p \in Admin
    /\ stage[p] \in PeerStages
    /\ Spend("repair")
    /\ Finish(p)
    /\ UNCHANGED <<database, peerState, names>>

-----------------------------------------------------------------------------
(* The private hostname and, for a revocation, the public DNS record.      *)

RevokesDns(p) ==
    /\ DnsEnabled
    /\ frame[p].record # NoRecord
    /\ frame[p].record.device \notin Operational

\* What follows the hosts file in the command of p.
AfterHosts(p) ==
    IF RevokesDns(p)
    THEN Goto(p, "dns_lookup") /\ Set(p, [frame[p] EXCEPT !.listed = {}])
    ELSE Finish(p)

WriteHosts(p) ==
    /\ p \in Admin
    /\ At(p, "hosts_restore")
    /\ hosts' = frame[p].listed
    /\ AfterHosts(p)
    /\ UNCHANGED <<database, peerState, dns, budget>>

\* HostsManagerError becomes a warning; another error (the temporary file
\* cannot be created, the list cannot be read) ends the command.
WriteHostsFails(p) ==
    /\ p \in Admin
    /\ stage[p] \in HostsStages
    /\ Spend("repair")
    /\ \/ Finish(p)
       \/ At(p, "hosts_restore") /\ AfterHosts(p)
    /\ UNCHANGED <<database, peerState, names>>

LookUpDns(p) ==
    /\ At(p, "dns_lookup")
    /\ IF dns[frame[p].record.device] = "none"
       THEN Finish(p)
       ELSE /\ Goto(p, "dns_delete")
            /\ Set(p, [frame[p] EXCEPT
                         !.previous = dns[frame[p].record.device]])
    /\ UNCHANGED <<database, peerState, names, budget>>

DeleteDns(p) ==
    /\ At(p, "dns_delete")
    /\ dns' = [dns EXCEPT ![frame[p].record.device] = "none"]
    /\ Finish(p)
    /\ UNCHANGED <<database, peerState, hosts, budget>>

\* Mutant: the DNS cleanup is inside the handler that puts the peer back.
DeleteDnsFailsAll(p) ==
    /\ At(p, "dns_delete")
    /\ Spend("repair")
    /\ PutPeerBack(p)

\* delete_record restores the previous record when the provider fails; the
\* command reports a warning.
DeleteDnsFails(p) ==
    /\ At(p, "dns_delete")
    /\ Spend("repair")
    /\ \/ dns' = [dns EXCEPT ![frame[p].record.device] = "none"]
       \/ UNCHANGED dns
    /\ Goto(p, "dns_redo")
    /\ UNCHANGED <<database, peerState, hosts, frame>>

RedoDns(p) ==
    /\ At(p, "dns_redo")
    /\ \/ dns' = [dns EXCEPT ![frame[p].record.device] = frame[p].previous]
       \/ UNCHANGED dns
    /\ Finish(p)
    /\ UNCHANGED <<database, peerState, hosts, budget>>

LookUpDnsFails(p) ==
    /\ At(p, "dns_lookup")
    /\ Spend("repair")
    /\ Finish(p)
    /\ UNCHANGED <<database, peerState, names>>

CommandDies(p) ==
    /\ p \in Admin
    /\ ~At(p, "idle")
    /\ Spend("crash")
    /\ Finish(p)
    /\ UNCHANGED <<database, peerState, names>>

-----------------------------------------------------------------------------
AdminStep(p) ==
    \/ p \in Admin /\ (RemoveRead(p) \/ RemoveRuntime(p))
    \/ StripRevoked(p)
    \/ RevokeRow(p) \/ RevokeBusy(p)
    \/ p \in Admin /\ (EnsureRead(p) \/ EnsureRuntime(p))
    \/ RewritePeer(p) \/ PutBackRefused(p)
    \/ p \in Admin /\ ListDevices(p)
    \/ WriteHosts(p)
    \/ LookUpDns(p) \/ DeleteDns(p) \/ RedoDns(p)

AdminFault(p) ==
    \/ RevokeFails(p) \/ PutBackFails(p) \/ WriteHostsFails(p)
    \/ LookUpDnsFails(p) \/ DeleteDnsFails(p)
=============================================================================
