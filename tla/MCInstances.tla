----------------------------- MODULE MCInstances -----------------------------
(***************************************************************************)
(* Instances for model checking: interfaces in up to three networks.       *)
(***************************************************************************)
EXTENDS Instances

Nic(network, id, ip) ==
    [network |-> network, networkId |-> id, ipv4 |-> ip, ipv6 |-> Absent, public |-> Absent]
A == [Nic(1, 11, "10.1.0.1") EXCEPT !.public = "p"]
B == [Nic(2, 12, "10.2.0.1") EXCEPT !.ipv6 = "fd::2"]
C == Nic(3, 13, "10.3.0.1")

NoneOrThree == {{}, {A, B, C}}

==============================================================================
