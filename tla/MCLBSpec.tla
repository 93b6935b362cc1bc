------------------------------- MODULE MCLBSpec -------------------------------
(***************************************************************************)
(* LBSpec for model checking: a service with two named ports, edited field *)
(* by field.                                                               *)
(***************************************************************************)
EXTENDS LBSpec

Http(protocol) == [name |-> <<"http">>, protocol |-> protocol, port |-> 80, nodePort |-> 30080]
Dns == [name |-> <<"dns">>, protocol |-> "UDP", port |-> 53, nodePort |-> 30053]
Unnamed == [name |-> <<>>, protocol |-> "TCP", port |-> 80, nodePort |-> 30080]

N1 == [name |-> "n1", ip |-> "10.0.0.1"]
N2 == [name |-> "n2", ip |-> "10.0.0.2"]
Moved == [name |-> "n2", ip |-> "10.0.0.9"]
NoIP == [name |-> "n3", ip |-> Absent]

Bools == {Absent, Bad, "true", "false"}
Addresses == {Absent, Bad, "ip1", "ip2"}
Filters == {Absent, Bad, <<>>, <<80>>}

MCValues ==
    [internal |-> Bools, yawolInternal |-> Bools,
     plan |-> {Absent, Bad, "p10", "p50"}, flavor |-> {Absent, Bad, "t1.2", "s1a.2d"},
     address |-> Addresses, yawolAddress |-> Addresses,
     tcpIdle |-> {Absent, Bad, 3, 4}, yawolTcpIdle |-> {Absent, Bad, 4},
     udpIdle |-> {Absent, Bad, 5}, yawolUdpIdle |-> {Absent, Bad, 5},
     proxy |-> Bools, yawolProxy |-> Bools,
     filter |-> Filters, yawolFilter |-> Filters,
     session |-> Bools,
     ports |-> {<<Http("TCP"), Dns>>, <<Http("TCP")>>, <<Unnamed>>, <<Http("SCTP")>>},
     nodes |-> {<<N1>>, <<N1, N2>>, <<N2, N1>>, <<N1, Moved>>, <<NoIP, N2>>},
     ranges |-> {<<>>, <<"r1">>}, yawolRanges |-> {Absent, <<"r2">>, <<"r1", "r2">>},
     network |-> {"net1", "net3"}, listenerNetwork |-> {Absent, "net2"},
     observability |-> {Absent, "o1"}, labels |-> {Absent, "l1"}]

MCStart ==
    [f \in DOMAIN MCValues |->
       CASE f = "ports" -> <<Http("TCP"), Dns>>
         [] f = "nodes" -> <<N1, N2>>
         [] f = "ranges" -> <<>>
         [] f = "network" -> "net1"
         [] OTHER -> Absent]

MCFlavors == [f \in {"t1.2", "s1a.2d"} |-> IF f = "t1.2" THEN "p10" ELSE "p50"]

=============================================================================
