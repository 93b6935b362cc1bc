--------------------------- MODULE MCLoadBalancer ---------------------------
(***************************************************************************)
(* Constants for model checking LoadBalancer.                              *)
(***************************************************************************)
EXTENDS LoadBalancer, TLC

\* A service, the same with a second port, one in another network, and one that
\* lbSpecFromService rejects.
OnePort    == [valid |-> TRUE,  net |-> "net1", pools |-> {"p1"}]
TwoPorts   == [valid |-> TRUE,  net |-> "net1", pools |-> {"p1", "p2"}]
OtherNet   == [valid |-> TRUE,  net |-> "net2", pools |-> {"p1"}]
Rejected   == [valid |-> FALSE, net |-> "net1", pools |-> {"p1"}]

AllSpecs   == {OnePort, TwoPorts, OtherNet, Rejected}
TwoSpecs   == {OnePort, TwoPorts}

MCNetworks == {"net1", "net2"}
MCPools    == {"p1", "p2"}

\* Metrics shipping with one configuration, or with two that differ in the secret.
MCEndpoints == {"url"}
MCSecrets   == {"old", "new"}
OneWrite    == {[push |-> "url", secret |-> "old"]}
TwoWrites   == {[push |-> "url", secret |-> x] : x \in MCSecrets}

\* Services, references and node lists are interchangeable: no definition of the
\* specification chooses one of them. Used by the runs without liveness.
Symmetry ==
    Permutations(Services) \cup Permutations(CredRefs) \cup Permutations(NodeLists)

=============================================================================
