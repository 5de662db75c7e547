------------------------------ MODULE Registry ------------------------------
(***************************************************************************)
(* What the device registry of gway-wire promises, at the granularity of   *)
(* its committed SQLite transactions: the table of devices, the table of   *)
(* one-time enrollment tokens, and the four changes that can be committed  *)
(* to them.  Module Enrollment describes how the enrollment service and    *)
(* the administrator's commands carry these changes out, step by step and  *)
(* concurrently, and implements this specification.                        *)
(***************************************************************************)
EXTENDS Naturals, FiniteSets

CONSTANTS
    Device,         \* device identifiers
    Key,            \* WireGuard public keys
    Token,          \* enrollment tokens (their digests)
    Address,        \* host addresses of the VPN network
    GatewayAddress, \* the gateway's own address
    NoRow,          \* stands for the row a device does not have
    AnyDevice       \* the scope of a token issued for no device in particular

ASSUME NoRowIsDistinct ==
    NoRow \notin [key : Key, address : Address, enabled : BOOLEAN]
ASSUME AnyDeviceIsNoDevice == AnyDevice \notin Device

VARIABLES
    devices,  \* the devices table: Device -> row or NoRow
    tokens    \* the enrollment_tokens table: Token -> its state and scope

registryVars == <<devices, tokens>>

Row == [key : Key, address : Address, enabled : BOOLEAN]

\* "none": never issued; "expired": past its expiry and not consumed.
TokenState == {"none", "fresh", "expired", "consumed"}
TokenRow == [state : TokenState, scope : Device \cup {AnyDevice}]

TypeOK ==
    /\ devices \in [Device -> Row \cup {NoRow}]
    /\ tokens \in [Token -> TokenRow]

Init ==
    /\ devices = [d \in Device |-> NoRow]
    /\ tokens = [t \in Token |-> [state |-> "none", scope |-> AnyDevice]]

-----------------------------------------------------------------------------
Registered(d) == devices[d] # NoRow
RegisteredDevices == {d \in Device : Registered(d)}
ConsumedTokens == {t \in Token : tokens[t].state = "consumed"}

\* Mutant: a revoked device gives its address back.
EnabledAddresses ==
    {devices[d].address : d \in {e \in RegisteredDevices : devices[e].enabled}}

\* Rows are never deleted, so a revoked device keeps its address.
TakenAddresses == {devices[d].address : d \in RegisteredDevices}
\* Mutant: a counter that never looks at the end of the network.
CountedAddresses == {GatewayAddress + 1 + Cardinality(RegisteredDevices)}
FreeAddresses == (Address \ TakenAddresses) \ {GatewayAddress}
KeyOwners(k) == {d \in RegisteredDevices : devices[d].key = k}

TokenAdmits(t, d) ==
    /\ tokens[t].state = "fresh"
    /\ tokens[t].scope \in {AnyDevice, d}

\* Mutant: the UPDATE that consumes the token matches no row.
ConsumeNothing(t) == UNCHANGED tokens

Consume(t) == tokens' = [tokens EXCEPT ![t].state = "consumed"]

CreateToken(t, s) ==
    /\ tokens[t].state = "none"
    /\ tokens' = [tokens EXCEPT ![t] = [state |-> "fresh", scope |-> s]]
    /\ UNCHANGED devices

ExpireToken(t) ==
    /\ tokens[t].state = "fresh"
    /\ tokens' = [tokens EXCEPT ![t].state = "expired"]
    /\ UNCHANGED devices

\* A first enrollment: the token pays for a row with a free address.
Register(d, k, t) ==
    /\ TokenAdmits(t, d)
    /\ ~Registered(d)
    /\ KeyOwners(k) = {}
    /\ \E a \in FreeAddresses :
          devices' = [devices EXCEPT
                        ![d] = [key |-> k, address |-> a, enabled |-> TRUE]]
    /\ Consume(t)

\* Mutant: a new token brings a revoked device back.
ReenrollRevoked(d, k, t) ==
    /\ TokenAdmits(t, d)
    /\ Registered(d)
    /\ devices[d].key = k
    /\ Consume(t)
    /\ devices' = [devices EXCEPT ![d].enabled = TRUE]

\* A repeated enrollment with the same key: the row is reused as it is.
Reenroll(d, k, t) ==
    /\ TokenAdmits(t, d)
    /\ Registered(d)
    /\ devices[d].enabled
    /\ devices[d].key = k
    /\ Consume(t)
    /\ UNCHANGED devices

Revoke(d) ==
    /\ Registered(d)
    /\ devices' = [devices EXCEPT ![d].enabled = FALSE]
    /\ UNCHANGED tokens

Next ==
    \/ \E t \in Token, s \in Device \cup {AnyDevice} : CreateToken(t, s)
    \/ \E t \in Token : ExpireToken(t)
    \/ \E d \in Device, k \in Key, t \in Token : Register(d, k, t)
    \/ \E d \in Device, k \in Key, t \in Token : Reenroll(d, k, t)
    \/ \E d \in Device : Revoke(d)

Spec == Init /\ [][Next]_registryVars

-----------------------------------------------------------------------------
(***************************************************************************)
(* No two devices, enabled or revoked, ever share a key or an address, and *)
(* none has the gateway's: the UNIQUE constraints of the schema are never  *)
(* what saves the allocation.                                              *)
(***************************************************************************)
IdentitiesDistinct ==
    /\ \A d, e \in RegisteredDevices :
          d # e => /\ devices[d].key # devices[e].key
                   /\ devices[d].address # devices[e].address
    /\ \A d \in RegisteredDevices : devices[d].address # GatewayAddress

(***************************************************************************)
(* Every row was paid for with a token of its own: there are never more    *)
(* registered devices than consumed tokens.                                *)
(***************************************************************************)
DevicesPaidFor ==
    Cardinality(RegisteredDevices) <= Cardinality(ConsumedTokens)

(***************************************************************************)
(* The history of the two tables only moves forward: a row keeps its key   *)
(* and its address for ever, a revoked device never comes back, and a      *)
(* consumed token stays consumed.                                          *)
(***************************************************************************)
KeepsIdentity(d) ==
    Registered(d) =>
        /\ Registered(d)'
        /\ devices'[d].key = devices[d].key
        /\ devices'[d].address = devices[d].address
        /\ devices'[d].enabled => devices[d].enabled

HistoryIsFinal ==
    [][/\ \A d \in Device : KeepsIdentity(d)
       /\ ConsumedTokens \subseteq ConsumedTokens']_registryVars
=============================================================================
