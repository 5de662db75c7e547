------------------------------- MODULE Peers --------------------------------
(***************************************************************************)
(* WireGuard peers as the gateway sees them twice: the [Peer] blocks of    *)
(* the persistent configuration, and the peers of the running interface.   *)
(* The configuration text is the set of its blocks; a managed block is     *)
(* owned by the device named in its markers, a hand-written one by nobody. *)
(***************************************************************************)
EXTENDS Naturals

CONSTANTS
    Device, Key, Address,
    NoOwner,    \* owner of a block written outside the managed markers
    NoAddress   \* an interface peer that is absent, or has no allowed IPs

ASSUME NoOwnerIsNoDevice == NoOwner \notin Device
ASSUME NoAddressIsNone == NoAddress \notin Address

Block == [owner : Device \cup {NoOwner}, key : Key, address : Address]
Interface == [Key -> Address \cup {NoAddress}]

-----------------------------------------------------------------------------
(* The configuration file.                                                 *)

Unmanaged(text) == {b \in text : b.owner = NoOwner}


\* Mutant: any begin marker opens the block that is stripped.
StripEveryBlock(text, d) == Unmanaged(text)

StripManagedBlock(text, d) == {b \in text : b.owner # d}

HasManagedBlock(text, d) == \E b \in text : b.owner = d

\* Mutant: only hand-written blocks reserve their address.
ReservedByHand(text) == {b.address : b \in Unmanaged(text)}

ReservedNetworks(text) == {b.address : b \in text}

\* Mutant: only the hand-written blocks are searched for the key.
KeyWrittenByHand(text, d, k) == \E b \in Unmanaged(text) : b.key = k

KeyElsewhere(text, d, k) == \E b \in StripManagedBlock(text, d) : b.key = k

WithManagedBlock(text, d, k, a) ==
    StripManagedBlock(text, d) \cup {[owner |-> d, key |-> k, address |-> a]}

-----------------------------------------------------------------------------
(* The running interface.  An address is routed to at most one peer:       *)
(* giving it to one takes it from the other.                               *)

WgSetPeer(interface, k, a) ==
    [j \in Key |-> IF j = k THEN a
                   ELSE IF interface[j] = a THEN NoAddress
                   ELSE interface[j]]

WgRemovePeer(interface, k) == [interface EXCEPT ![k] = NoAddress]

\* What the interface may be after it is brought up from the configuration:
\* an address that several blocks claim goes to one of them.
BroughtUp(text) ==
    {f \in Interface :
        /\ \A k \in Key : f[k] # NoAddress =>
              \E b \in text : b.key = k /\ b.address = f[k]
        /\ \A a \in {c.address : c \in text} :
              \E b \in text : b.address = a /\ f[b.key] = a
        /\ \A j, k \in Key : f[j] = f[k] /\ f[j] # NoAddress => j = k}

=============================================================================
