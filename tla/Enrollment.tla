----------------------------- MODULE Enrollment -----------------------------
(***************************************************************************)
(* The gateway at work: enrollment requests served by threads, and the     *)
(* administrator's commands run next to them, over one registry, one       *)
(* WireGuard configuration and interface, one hosts file and one DNS zone. *)
(***************************************************************************)
EXTENDS EnrollService, AdminCommands

\* The host goes down with every process; the interface is brought up again
\* from the configuration file.
Reboot ==
    /\ Spend("crash")
    /\ stage' = [p \in Process |-> "idle"]
    /\ frame' = [p \in Process |-> EmptyFrame]
    /\ lock' = NoProcess
    /\ interface' \in BroughtUp(config)
    /\ UNCHANGED <<devices, tokens, config, names>>

Next ==
    \/ \E t \in Token, s \in Scope : CreateToken(t, s)
    \/ \E t \in Token : TokenExpires(t)
    \/ \E p \in Request : Receive(p) \/ EnrollStep(p) \/ EnrollFault(p)
    \/ \E p \in Admin : StartHostsSync(p) \/ StartRevoke(p)
    \/ \E p \in Admin : AdminStep(p) \/ AdminFault(p) \/ CommandDies(p)
    \/ ServerDies
    \/ Reboot

Spec == Init /\ [][Next]_gatewayVars

(***************************************************************************)
(* Threads and commands that have started run on: nothing in them waits    *)
(* without a timeout.  Clients, the administrator, faults and crashes are  *)
(* under no obligation.                                                    *)
(***************************************************************************)
Fairness ==
    /\ \A p \in Request : WF_gatewayVars(EnrollStep(p))
    /\ \A p \in Admin : WF_gatewayVars(AdminStep(p))

FairSpec == Spec /\ Fairness

-----------------------------------------------------------------------------
(***************************************************************************)
(* The tables, seen as module Registry sees them.  Expiry is checked once, *)
(* under the lock, when the row is prepared: a token that expires while    *)
(* its enrollment holds the lock is still consumed by it.                  *)
(***************************************************************************)
Admitted(t) == lock \in Request /\ request(lock).token = t

AdmittedTokens ==
    [t \in Token |->
        IF Admitted(t) /\ tokens[t].state = "expired"
        THEN [tokens[t] EXCEPT !.state = "fresh"]
        ELSE tokens[t]]

Promised == INSTANCE Registry WITH tokens <- AdmittedTokens

(***************************************************************************)
(* The committed tables change only as module Registry allows, however     *)
(* requests and commands overlap, fail or die: one token per enrollment,   *)
(* a fresh address for a new row, no way back for a revoked one.           *)
(***************************************************************************)
ImplementsRegistry == Promised!Spec

WellFormed(text) ==
    /\ Unmanaged(text) = ManualBlocks
    /\ \A b, c \in text :
          b # c => b.key # c.key /\ (b.owner # c.owner \/ b.owner = NoOwner)

(***************************************************************************)
(* No write of the configuration, however stale the text it was made from, *)
(* loses a hand-written block, or leaves two blocks with one owner or key. *)
(***************************************************************************)
ConfigWellFormed == WellFormed(config)

-----------------------------------------------------------------------------
Installed(rec) ==
    /\ [owner |-> rec.device, key |-> rec.key, address |-> rec.address]
          \in config
    /\ interface[rec.key] = rec.address

EnabledRecords ==
    {[device |-> d, key |-> devices[d].key, address |-> devices[d].address] :
        d \in {e \in DB!RegisteredDevices : devices[e].enabled}}

(***************************************************************************)
(* Every enabled device of the committed table has its block in the        *)
(* configuration and its address on the live interface, at every moment.   *)
(***************************************************************************)
EnabledHavePeers == \A rec \in EnabledRecords : Installed(rec)

(***************************************************************************)
(* "A token is consumed only after the peer update and private hostname    *)
(* update succeed": whenever an enrollment commits, its peer is in the     *)
(* file and on the interface, its name in the hosts file and, with DNS     *)
(* automation, in the public zone.                                         *)
(***************************************************************************)
Applied(rec) ==
    /\ Installed(rec)
    /\ [device |-> rec.device, address |-> rec.address] \in hosts
    /\ DnsEnabled => dns[rec.device] = "gateway"

ConsumedOnlyWhenApplied ==
    [][\A p \in Request :
          At(p, "token_consume") /\ tokens' # tokens
             /\ tokens'[request(p).token].state = "consumed"
             /\ tokens[request(p).token].state # "consumed"
          => Applied(record(p))]_gatewayVars

(***************************************************************************)
(* "The registry allocates around addresses already present in the         *)
(* WireGuard configuration": a prepared row never takes the address of a   *)
(* block that is in the file at that moment.                               *)
(***************************************************************************)
AllocatesAroundConfig ==
    [][\A p \in Request :
          ~frame[p].created /\ frame'[p].created =>
             \A b \in config : b.address # record(p)'.address]_gatewayVars

(***************************************************************************)
(* No address is routed to two peers by the configuration file, whatever   *)
(* failed or died before.                                                  *)
(***************************************************************************)
AddressesNotShared ==
    \A b, c \in config : b # c => b.address # c.address

(***************************************************************************)
(* "If a later enrollment step fails [...] the local transaction/peer/     *)
(* hosts state is rolled back": undoing a failed enrollment takes nothing  *)
(* from a device that is enrolled.                                         *)
(***************************************************************************)
RollbackStaysLocal ==
    [][\A p \in Request :
          stage[p] \in RemovalStages /\ stage'[p] # stage[p] =>
             \A rec \in EnabledRecords : Installed(rec) => Installed(rec)'
      ]_gatewayVars

-----------------------------------------------------------------------------
\* No operation is in progress, no repair has failed, no process has died.
Settled ==
    /\ Idle
    /\ budget.repair = MaxRepairFaults
    /\ budget.crash = MaxCrashes

(***************************************************************************)
(* Once every operation has ended, and its repairs have succeeded, the     *)
(* managed blocks and the live peers are exactly those of the enabled      *)
(* devices.                                                                *)
(***************************************************************************)
SettledPeers ==
    Settled =>
      /\ config \ Unmanaged(config) =
            {[owner |-> rec.device, key |-> rec.key, address |-> rec.address] :
                rec \in EnabledRecords}
      /\ \A k \in Key :
            interface[k] # NoAddress =>
               \E b \in config : b.key = k /\ b.address = interface[k]
      /\ \A rec \in EnabledRecords : interface[rec.key] = rec.address

(***************************************************************************)
(* Once every operation has ended, the managed block of the hosts file     *)
(* names exactly the enabled devices, each at its registered address.      *)
(***************************************************************************)
SettledHosts ==
    Settled =>
      hosts = {[device |-> rec.device, address |-> rec.address] :
                 rec \in EnabledRecords}

(***************************************************************************)
(* Once every operation has ended, the public names of enabled devices     *)
(* lead to the gateway, those of revoked ones are gone, and the name of a  *)
(* device that was never registered does not lead to the gateway.          *)
(***************************************************************************)
SettledDns ==
    Settled /\ DnsEnabled =>
      \A d \in Device :
         IF ~DB!Registered(d) THEN dns[d] # "gateway"
         ELSE IF devices[d].enabled THEN dns[d] = "gateway"
         ELSE dns[d] = "none"

(***************************************************************************)
(* "Revocation removes the live WireGuard peer, removes its managed        *)
(* persistent block": once every operation has ended, a revoked device     *)
(* has neither.                                                            *)
(***************************************************************************)
RevokedHaveNoPeer ==
    Idle =>
      \A d \in DB!RegisteredDevices :
         ~devices[d].enabled =>
            /\ ~HasManagedBlock(config, d)
            /\ interface[devices[d].key] # devices[d].address

(***************************************************************************)
(* "Existing unmanaged peers are left untouched": the live interface keeps *)
(* every hand-written peer at its address.                                 *)
(***************************************************************************)
ManualPeersUntouched ==
    \A b \in ManualBlocks : interface[b.key] = b.address

-----------------------------------------------------------------------------
(***************************************************************************)
(* Every request is answered and every command ends, and a write lock that *)
(* was taken is given back.                                                *)
(***************************************************************************)
OperationsEnd == \A p \in Process : ~At(p, "idle") ~> At(p, "idle")
LockReturned == \A p \in Process : lock = p ~> lock # p
=============================================================================
