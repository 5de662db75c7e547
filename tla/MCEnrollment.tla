---------------------------- MODULE MCEnrollment ----------------------------
(* Instances of Enrollment for TLC.                                        *)
EXTENDS Enrollment, TLC

CONSTANTS d1, d2, d3, k1, k2, k0, t1, t2

Ask(d, k, t) == [device |-> d, key |-> k, token |-> t]

\* One device, one key, two tokens: a client that asks again.
SameDevice == {Ask(d1, k1, t1), Ask(d1, k1, t2)}

\* Two devices, each with its key; the first one may ask again, the second
\* also tries the first one's key.
TwoDevices ==
    {Ask(d1, k1, t1), Ask(d1, k1, t2), Ask(d2, k2, t2), Ask(d2, k1, t2)}

\* A third device, whose hostname is one of the gateway's own.
OneOperational == TwoDevices \cup {Ask(d3, k2, t1)}

\* Three devices, two of which ask with the same key.
ThreeDevices == {Ask(d1, k1, t1), Ask(d2, k1, t1), Ask(d3, k2, t2)}

\* A client whose key is that of a hand-written peer.
ManualKey == {Ask(d1, k0, t1)}

\* The gateway found one peer written by hand.
OneManualPeer == {[owner |-> NoOwner, key |-> k0, address |-> 2]}

\* The threads of the server are interchangeable.
RequestSymmetry == Permutations(Request)
=============================================================================
