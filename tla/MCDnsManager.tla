---------------------------- MODULE MCDnsManager ----------------------------
(* Instance of DnsManager for TLC: a device with a name of its own, and one *)
(* that is named like the gateway.                                          *)
EXTENDS DnsManager, TLC

CONSTANTS d1, d2, n1, vpn, register

HostnameOf == [d \in Device |-> IF d = d1 THEN n1 ELSE vpn]

\* The registration name is missing, the gateway's and the device's are wrong.
RecordsBefore ==
    [n \in Name |-> IF n = register THEN {"none"} ELSE {"foreign"}]

Interchangeable == Permutations(Process)
=============================================================================
