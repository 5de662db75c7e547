------------------------------ MODULE PeerFile ------------------------------
(***************************************************************************)
(* The text of the WireGuard configuration and the pool of addresses, as   *)
(* peer_manager.py and registry.allocate_address read them, line by line   *)
(* and host by host.  Module Peers has the same operations on a set of     *)
(* blocks; here it is seen whether the text deserves to be taken for one,  *)
(* when the administrator writes peers by hand between the managed ones    *)
(* and cuts lines, markers included.                                       *)
(***************************************************************************)
EXTENDS Naturals, Sequences, FiniteSets, SequencesExt

CONSTANTS
    Device, Key,
    NoOne,        \* what a line names when it names nothing; no row
    Sizes,        \* bound: sizes of the VPN network, powers of two
    HandKeys,     \* bound: keys of the peers written by hand
    HandNetworks, \* bound: their AllowedIPs, each a set of networks
    MaxPeers,     \* bound: peers written by hand
    MaxCuts       \* bound: lines cut by hand

ASSUME PeerFileConstants ==
    /\ NoOne \notin Device \cup Key
    /\ Sizes \subseteq Nat \ {0}
    /\ HandKeys \subseteq Key
    /\ HandNetworks \subseteq SUBSET SUBSET Nat
    /\ MaxPeers \in Nat /\ MaxCuts \in Nat
ASSUME NoOneIsNoRow ==
    NoOne \notin [key : Key, address : Nat, enabled : BOOLEAN]

VARIABLES
    network, \* the VPN network, a set of addresses that begins at 0
    gateway, \* the gateway's address
    rows,    \* the committed rows of the registry
    text,    \* the lines of the configuration
    peers,   \* the peers still to be written by hand
    cuts     \* the lines still to be cut

vars == <<network, gateway, rows, text, peers, cuts>>

-----------------------------------------------------------------------------
(* The lines.  A bare one is "Key = value"; on another a comment follows,  *)
(* which WireGuard ignores and the readers here take for part of the value.*)

Line(is, of, bare) == [is |-> is, of |-> of, bare |-> bare]
Section(s) == Line(s, NoOne, TRUE)

Block(d, k, a) ==
    <<Line("begin", d, TRUE), Section("peer"), Line("key", k, TRUE),
      Line("allowed", {{a}}, TRUE), Line("end", d, TRUE)>>

IsBegin(line, d) == line.is = "begin" /\ line.of = d
IsEnd(line, d) == line.is = "end" /\ line.of = d

\* The lines at the positions in S, in their order.
LinesAt(lines, S) ==
    [n \in 1..Cardinality(S) |->
       lines[CHOOSE i \in S : Cardinality({j \in S : j <= i}) = n]]

\* _strip_managed_block, having read the line i: it is inside the block.
Inside(lines, d, i) ==
    \E b \in 1..i : /\ IsBegin(lines[b], d)
                    /\ \A m \in b..i : ~IsEnd(lines[m], d)

\* It raises nowhere: no marker is nested, orphaned or left open.
\* Mutant: a block that is not terminated is taken to end with the file.
NotOrphaned(lines, d) ==
    \A i \in DOMAIN lines :
       /\ IsBegin(lines[i], d) => ~Inside(lines, d, i - 1)
       /\ IsEnd(lines[i], d) => Inside(lines, d, i - 1)
Paired(lines, d) ==
    /\ \A i \in DOMAIN lines :
          /\ IsBegin(lines[i], d) => ~Inside(lines, d, i - 1)
          /\ IsEnd(lines[i], d) => Inside(lines, d, i - 1)
    /\ ~Inside(lines, d, Len(lines))

\* What it returns: the lines outside the device's block.
Strip(lines, d) ==
    LinesAt(lines, {i \in DOMAIN lines : /\ ~Inside(lines, d, i)
                                         /\ ~IsEnd(lines[i], d)})

\* ensure_peer: the key may stand nowhere else; the block moves to the end.
CanEnsure(lines, d, k) ==
    /\ Paired(lines, d)
    /\ \A i \in DOMAIN Strip(lines, d) :
          LET line == Strip(lines, d)[i]
          IN line.is = "key" /\ line.bare => line.of # k

\* Mutant: the old block stays where it is.
Appended(lines, d, k, a) == lines \o Block(d, k, a)
Ensured(lines, d, k, a) == Strip(lines, d) \o Block(d, k, a)

\* managed_peers: the blocks, and whether it raises on the markers it meets.
Blocks(lines) ==
    {be \in (DOMAIN lines) \X (DOMAIN lines) :
       /\ lines[be[1]].is = "begin" /\ IsEnd(lines[be[2]], lines[be[1]].of)
       /\ be[1] < be[2]
       /\ \A m \in be[1] + 1 .. be[2] - 1 :
            lines[m].is \notin {"begin", "end"}}

Readable(lines) ==
    \A b \in DOMAIN lines :
       lines[b].is = "begin" => \E be \in Blocks(lines) : be[1] = b

ManagedPeers(lines) ==
    {[device |-> lines[be[1]].of,
      has |-> {<<lines[i].is, lines[i].of>> :
                 i \in {j \in be[1]..be[2] :
                          lines[j].is \in {"key", "allowed"}}}] :
       be \in Blocks(lines)}

\* The line belongs to a [Peer] section.
InPeer(lines, i) ==
    \E s \in DOMAIN lines : /\ s < i
                            /\ lines[s].is = "peer"
                            /\ \A m \in s..i : lines[m].is # "interface"

\* reserved_networks, and of them what ip_network takes.
ReservedNetworks(lines) ==
    UNION {lines[i].of : i \in {j \in DOMAIN lines : /\ lines[j].is = "allowed"
                                                     /\ lines[j].bare
                                                     /\ InPeer(lines, j)}}

-----------------------------------------------------------------------------
(* The pool.                                                               *)

Broadcast == Cardinality(network) - 1

\* hosts(): a /31 and a /32 consist of hosts only.
Hosts == IF Broadcast <= 1 THEN network ELSE network \ {0, Broadcast}

\* Mutant: the addresses of revoked devices are free again.
EnabledRows == {d \in Device : rows[d] # NoOne /\ rows[d].enabled}
Rows == {d \in Device : rows[d] # NoOne}

\* _reserved_networks
Reserved ==
    {0, Broadcast, gateway} \cup {rows[d].address : d \in Rows}
    \cup UNION ReservedNetworks(text)

\* allocate_address takes the first.
Free == {a \in Hosts : a # gateway /\ a \notin Reserved}
Lowest(S) == CHOOSE a \in S : \A b \in S : a <= b

-----------------------------------------------------------------------------
Init ==
    /\ \E n \in Sizes : network = 0..n - 1
    /\ gateway \in network
    /\ rows = [d \in Device |-> NoOne]
    /\ text = <<Section("interface")>>
    /\ peers = MaxPeers
    /\ cuts = MaxCuts

\* prepare_enrollment and ensure_peer; when one of them raises, nothing stays.
Enroll(d, k) ==
    /\ rows[d] = NoOne
    /\ \A e \in Rows : rows[e].key # k
    /\ Free # {}
    /\ CanEnsure(text, d, k)
    /\ rows' = [rows EXCEPT ![d] = [key |-> k, address |-> Lowest(Free),
                                    enabled |-> TRUE]]
    /\ text' = Ensured(text, d, k, Lowest(Free))
    /\ UNCHANGED <<network, gateway, peers, cuts>>

\* A repeated enrollment, or a revocation that fails and puts its peer back.
EnsureAgain(d) ==
    /\ rows[d] # NoOne /\ rows[d].enabled
    /\ CanEnsure(text, d, rows[d].key)
    /\ text' = Ensured(text, d, rows[d].key, rows[d].address)
    /\ UNCHANGED <<network, gateway, rows, peers, cuts>>

\* remove_peer and disable_device.
Revoke(d) ==
    /\ rows[d] # NoOne /\ rows[d].enabled
    /\ Paired(text, d)
    /\ text' = Strip(text, d)
    /\ rows' = [rows EXCEPT ![d].enabled = FALSE]
    /\ UNCHANGED <<network, gateway, peers, cuts>>

\* The administrator writes a peer, in no block, before the line i.
WritePeer(k, allowed, bare, i) ==
    /\ peers > 0
    /\ \A be \in Blocks(text) : i \notin be[1] + 1 .. be[2]
    /\ text' = SubSeq(text, 1, i - 1)
               \o <<Section("peer"), Line("key", k, bare),
                    Line("allowed", allowed, bare)>>
               \o SubSeq(text, i, Len(text))
    /\ peers' = peers - 1
    /\ UNCHANGED <<network, gateway, rows, cuts>>

\* The administrator cuts a line, of a block or not.
CutLine(i) ==
    /\ cuts > 0
    /\ text[i].is # "interface"
    /\ text' = RemoveAt(text, i)
    /\ cuts' = cuts - 1
    /\ UNCHANGED <<network, gateway, rows, peers>>

Next ==
    \/ \E d \in Device, k \in Key : Enroll(d, k)
    \/ \E d \in Device : EnsureAgain(d)
    \/ \E d \in Device : Revoke(d)
    \/ \E k \in HandKeys, allowed \in HandNetworks, bare \in BOOLEAN,
          i \in 2..Len(text) + 1 : WritePeer(k, allowed, bare, i)
    \/ \E i \in DOMAIN text : CutLine(i)

Spec == Init /\ [][Next]_vars

-----------------------------------------------------------------------------
(***************************************************************************)
(* The blocks and the rows say the same: until a line is cut,              *)
(* managed_peers raises nowhere and lists the enabled devices, each once,  *)
(* with its key and address, whatever is enrolled again or revoked and     *)
(* wherever peers were written by hand.  Module Peers takes this for       *)
(* granted.                                                                *)
(***************************************************************************)
ManagedMatchRows ==
    cuts = MaxCuts =>
      /\ Readable(text)
      /\ Cardinality(Blocks(text)) = Cardinality(EnabledRows)
      /\ ManagedPeers(text) =
           {[device |-> d, has |-> {<<"key", rows[d].key>>,
                                    <<"allowed", {{rows[d].address}}>>}] :
              d \in EnabledRows}

\* The lines that stand in no complete block, in their order.
ByHand(lines) ==
    LinesAt(lines, {i \in DOMAIN lines :
                      \A be \in Blocks(lines) : i \notin be[1]..be[2]})

(***************************************************************************)
(* Enrollment and revocation neither lose nor reorder a line that stands   *)
(* in no complete block, though the marker of a block was cut: "Existing   *)
(* unmanaged peers are left untouched" (docs/phase-3.md).                  *)
(***************************************************************************)
HandWrittenKept ==
    [][peers' = peers /\ cuts' = cuts => ByHand(text') = ByHand(text)]_vars

(***************************************************************************)
(* An address is given once, and from what the pool has left: it is a host *)
(* of the network that is neither the gateway's nor any row's, a revoked   *)
(* one's included, nor of a network that some peer of the configuration    *)
(* claims on a line without comment (README.md, "allocates around          *)
(* addresses already present in the WireGuard configuration").             *)
(***************************************************************************)
AllocatesAroundFile ==
    [][\A d \in Device : rows[d] = NoOne /\ rows'[d] # NoOne =>
         LET a == rows'[d].address
         IN /\ a \in network \ {0, Broadcast, gateway}
            /\ \A e \in Device : rows[e] # NoOne => rows[e].address # a
            /\ \A i \in DOMAIN text, s \in DOMAIN text :
                 (/\ text[i].is = "allowed" /\ text[i].bare
                  /\ text[s].is = "peer" /\ s < i
                  /\ \A m \in s..i : text[m].is # "interface")
                   => \A net \in text[i].of : a \notin net]_vars

=============================================================================
