------------------------------ MODULE Instances ------------------------------
(***************************************************************************)
(* The servers behind the nodes: pkg/ccm/instances.go with the server      *)
(* queries of pkg/stackit/client/iaas.go.                                  *)
(*                                                                         *)
(* External are the kubelets, which register nodes, the two controllers of *)
(* k8s.io/cloud-provider, which ask and then write what they were told to  *)
(* the node (the node controller: InstanceMetadata; the lifecycle          *)
(* controller, for nodes that are not ready: InstanceExists, then          *)
(* InstanceShutdown), and the IaaS API, which lists servers and interfaces *)
(* in any order.  Between question and write servers come and go, and      *)
(* nodes too: what the node controller was told is written to whatever     *)
(* node bears the name by then.                                            *)
(***************************************************************************)
EXTENDS Integers, FiniteSets, SequencesExt

CONSTANTS
    Names,           \* names of servers and nodes
    ServerIds,       \* never used twice
    NicSets,         \* the sets of network interfaces a server may have
    DefaultNetwork,  \* option defaultNetwork, a name or an id, or Absent
    Region, OtherRegion,
    Schemes,         \* the forms of provider ids kubelets register with
    MaxDisturbances, \* bound on failed calls and on changes of servers
    Absent, NotFound, Error

\* An interface: name and id of its network, numbers because names are compared, and its
\* addresses.
Nics == UNION NicSets

ASSUME InstancesAssumption ==
    /\ Absent \notin ServerIds /\ NotFound \notin ServerIds /\ Error \notin ServerIds
    /\ NotFound # Error /\ Error \notin BOOLEAN
    /\ Region # OtherRegion
    /\ \A nic \in Nics : nic.network \in Nat /\ nic.networkId \in Nat
    /\ Schemes \subseteq {"none", "stackit", "bare", "openstack", "regional", "other"}
    /\ MaxDisturbances \in Nat

VARIABLES
    server,       \* server[s]: name, status and interfaces of server s, or Absent
    unused,       \* the ids not used yet
    node,         \* node[n]: the node object n, or Absent
    metadata,     \* metadata[n]: the answer the node controller is about to apply, or Absent
    lifecycle,    \* lifecycle[n]: what the lifecycle controller does next with node n
    disturbances  \* how many of the bounded events are left

vars == <<server, unused, node, metadata, lifecycle, disturbances>>

Statuses == {"ACTIVE", "STOPPING", "INACTIVE"}
Alive(s) == s \in ServerIds /\ server[s] # Absent

-----------------------------------------------------------------------------
\* Provider ids.

ProviderID(scheme, s) ==
    CASE scheme = "none" -> {Absent}
      [] scheme \in {"stackit", "bare", "other"} -> {[scheme |-> scheme, region |-> "", id |-> s]}
      [] scheme = "openstack" -> {[scheme |-> "openstack", region |-> r, id |-> s] : r \in {"", Region, OtherRegion}}
      [] scheme = "regional" -> {[scheme |-> "stackit", region |-> Region, id |-> s]}

\* Without "://" an id counts as stackit's; those must not name a region, openstack's may.
instanceIDFromProviderID(p) ==
    CASE p.scheme = "openstack" -> [id |-> p.id, region |-> p.region]
      [] p.scheme \in {"stackit", "bare"} /\ p.region = "" -> [id |-> p.id, region |-> ""]
      [] OTHER -> Error

makeInstanceID(s) == [scheme |-> "stackit", region |-> "", id |-> s]

-----------------------------------------------------------------------------
\* Queries.  An operator that asks the API gives the set of possible answers.

\* Mutant: the first server of the list will do.
FirstServer(name) ==
    LET listed == {s \in ServerIds : Alive(s)}
    IN  IF listed = {} THEN {NotFound} ELSE listed

\* The first server of that name in the list, which has no particular order.
getServerByName(name) ==
    LET named == {s \in ServerIds : Alive(s) /\ server[s].name = name}
    IN  IF named = {} THEN {NotFound} ELSE named

\* Mutant: a server that is not found is an error like any other.
NeverNotFound(n) ==
    LET p == node[n].provider
        x == instanceIDFromProviderID(p)
    IN  CASE p = Absent -> getServerByName(n)
          [] p # Absent /\ x = Error -> {Error}
          [] p # Absent /\ x # Error /\ x.region \notin {"", Region} -> {Error}
          [] OTHER -> {IF Alive(x.id) THEN x.id ELSE Error}

getInstance(n) ==
    LET p == node[n].provider
        x == instanceIDFromProviderID(p)
    IN  CASE p = Absent -> getServerByName(n)
          [] p # Absent /\ x = Error -> {Error}
          [] p # Absent /\ x # Error /\ x.region \notin {"", Region} -> {Error}
          [] OTHER -> {IF Alive(x.id) THEN x.id ELSE NotFound}

\* Mutant: any error means that there is no such server.
ErrorIsNotFound(answer) == IF answer \in {NotFound, Error} THEN FALSE ELSE TRUE

InstanceExists(answer) ==
    CASE answer = NotFound -> FALSE
      [] answer = Error -> Error
      [] OTHER -> TRUE

InstanceShutdown(answer) ==
    IF answer \in {NotFound, Error} THEN Error ELSE server[answer].status = "STOPPING"

\* Up to twelve elements are sorted by insertion, so equal names keep their order.
Sorted(nics) ==
    LET Before(i, j) == nics[i].network < nics[j].network \/ (nics[i].network = nics[j].network /\ i < j)
        Position(i) == Cardinality({j \in DOMAIN nics : Before(j, i)}) + 1
    IN  [k \in DOMAIN nics |-> nics[CHOOSE i \in DOMAIN nics : Position(i) = k]]

IsDefault(nic) == DefaultNetwork \in {nic.network, nic.networkId}

\* Mutant: the interfaces stay in the order of the API.
UnsortedNics(nics) ==
    LET sorted == nics
        defaults == {i \in DOMAIN sorted : IsDefault(sorted[i])}
        idx == CHOOSE i \in defaults : \A j \in defaults : i <= j
    IN  IF DefaultNetwork = Absent \/ defaults = {} THEN sorted
        ELSE <<sorted[idx]>> \o RemoveAt(sorted, idx)

sortNics(nics) ==
    LET sorted == Sorted(nics)
        defaults == {i \in DOMAIN sorted : IsDefault(sorted[i])}
        idx == CHOOSE i \in defaults : \A j \in defaults : i <= j
    IN  IF DefaultNetwork = Absent \/ defaults = {} THEN sorted
        ELSE <<sorted[idx]>> \o RemoveAt(sorted, idx)

addToNodeAddresses(addresses, add) ==
    IF Contains(addresses, add) THEN addresses ELSE Append(addresses, add)

\* The addresses of the interfaces and, last, the name of the server.
NodeAddresses(name, nics) ==
    LET Of(type, ip) == IF ip = Absent THEN <<>> ELSE <<[type |-> type, address |-> ip]>>
        OfNic(nic) == Of("InternalIP", nic.ipv4) \o Of("InternalIP", nic.ipv6) \o Of("ExternalIP", nic.public)
        AddNic(addresses, nic) == FoldLeft(addToNodeAddresses, addresses, OfNic(nic))
    IN  addToNodeAddresses(FoldLeft(AddNic, <<>>, nics), [type |-> "Hostname", address |-> name])

\* The API lists the interfaces of a server of that name in any order: what becomes of each
\* set of them.
Listings ==
    [name \in Names |->
       UNION {{[nics |-> nics, addresses |-> NodeAddresses(name, sortNics(order))] : order \in SetToSeqs(nics)} :
                 nics \in NicSets}]

InstanceMetadata(s) ==
    {[provider |-> makeInstanceID(s), addresses |-> l.addresses, nics |-> l.nics] :
       l \in {listing \in Listings[server[s].name] : listing.nics = server[s].nics}}

-----------------------------------------------------------------------------

ProviderIds == [scheme : {"stackit", "bare", "other", "openstack"},
                region : {"", Region, OtherRegion}, id : ServerIds]
Addresses   == UNION {{l.addresses : l \in Listings[name]} : name \in Names}
Servers     == [name : Names, status : Statuses, nics : NicSets]
NodeObjects == [host : ServerIds, provider : ProviderIds \cup {Absent}, nics : NicSets \cup {{}},
                addresses : Addresses \cup {<<>>}, shutdown : BOOLEAN]
Answers     == [provider : ProviderIds, addresses : Addresses, nics : NicSets]

\* Nothing is told from something.
ASSUME AbsentAssumption ==
    Absent \notin ProviderIds /\ Absent \notin Servers /\ Absent \notin NodeObjects /\ Absent \notin Answers

TypeOK ==
    /\ server \in [ServerIds -> Servers \cup {Absent}]
    /\ unused \subseteq ServerIds /\ \A s \in unused : server[s] = Absent
    /\ node \in [Names -> NodeObjects \cup {Absent}]
    /\ metadata \in [Names -> Answers \cup {Absent}]
    /\ lifecycle \in [Names -> {"idle", "delete", "askShutdown", "taint"}]
    /\ \A n \in Names : node[n] = Absent => lifecycle[n] = "idle"
    /\ disturbances \in 0..MaxDisturbances

-----------------------------------------------------------------------------

Init ==
    /\ server = [s \in ServerIds |-> Absent]
    /\ unused = ServerIds
    /\ node = [n \in Names |-> Absent]
    /\ metadata = [n \in Names |-> Absent]
    /\ lifecycle = [n \in Names |-> "idle"]
    /\ disturbances = MaxDisturbances

Disturb == disturbances > 0 /\ disturbances' = disturbances - 1
Calm == UNCHANGED disturbances

\* A call may fail for reasons of its own.
Answer(n, answer) ==
    \/ answer \in getInstance(n) /\ Calm
    \/ answer = Error /\ Disturb

-----------------------------------------------------------------------------
\* Servers and kubelets.

\* The servers of a project bear different names.
CreateServer(s, name, nics) ==
    /\ s \in unused
    /\ \A t \in ServerIds : Alive(t) => server[t].name # name
    /\ server' = [server EXCEPT ![s] = [name |-> name, status |-> "ACTIVE", nics |-> nics]]
    /\ unused' = unused \ {s}
    /\ UNCHANGED <<node, metadata, lifecycle, disturbances>>

ChangeServer(s) ==
    /\ Alive(s)
    /\ Disturb
    /\ \/ \E nics \in NicSets : server' = [server EXCEPT ![s].nics = nics]
       \/ /\ server[s].status # "STOPPING"
          /\ server' = [server EXCEPT ![s].status = IF @ = "ACTIVE" THEN "STOPPING" ELSE "ACTIVE"]
       \/ server' = [server EXCEPT ![s] = Absent]
    /\ UNCHANGED <<unused, node, metadata, lifecycle>>

Stopped(s) ==
    /\ Alive(s) /\ server[s].status = "STOPPING"
    /\ server' = [server EXCEPT ![s].status = "INACTIVE"]
    /\ UNCHANGED <<unused, node, metadata, lifecycle, disturbances>>

\* A kubelet registers its node under the name of its server, with the provider id of its
\* configuration.
Register(s, provider) ==
    /\ Alive(s) /\ server[s].status = "ACTIVE"
    /\ node[server[s].name] = Absent
    /\ node' = [node EXCEPT ![server[s].name] =
                  [host |-> s, provider |-> provider, addresses |-> <<>>, nics |-> {}, shutdown |-> FALSE]]
    /\ UNCHANGED <<server, unused, metadata, lifecycle, disturbances>>

-----------------------------------------------------------------------------
\* The node controller.

\* No metadata for a server that is not found, an error for one without interfaces: both
\* leave the node as it is.
AskMetadata(n) ==
    /\ node[n] # Absent /\ metadata[n] = Absent
    /\ \E s \in getInstance(n) \cap ServerIds :
          /\ server[s].nics # {}
          /\ \E answer \in InstanceMetadata(s) : metadata' = [metadata EXCEPT ![n] = answer]
    /\ UNCHANGED <<server, unused, node, lifecycle, disturbances>>

\* The node is read again by its name, which another object may bear by now; without one
\* the answer is dropped.  A provider id that is there stays.
ApplyMetadata(n) ==
    /\ metadata[n] # Absent
    /\ node' = IF node[n] = Absent THEN node
               ELSE [node EXCEPT ![n].provider = IF @ = Absent THEN metadata[n].provider ELSE @,
                                 ![n].addresses = metadata[n].addresses,
                                 ![n].nics = metadata[n].nics]
    /\ metadata' = [metadata EXCEPT ![n] = Absent]
    /\ UNCHANGED <<server, unused, lifecycle, disturbances>>

-----------------------------------------------------------------------------
\* The lifecycle controller.  A node may be not ready while its server runs.

AskExists(n) ==
    /\ node[n] # Absent /\ lifecycle[n] = "idle"
    /\ \E answer \in ServerIds \cup {NotFound, Error} :
          /\ Answer(n, answer)
          /\ LET exists == InstanceExists(answer) IN
             lifecycle' = [lifecycle EXCEPT ![n] =
               CASE exists = Error -> "idle"
                 [] exists = TRUE -> "askShutdown"
                 [] exists = FALSE -> "delete"]
    /\ UNCHANGED <<server, unused, node, metadata>>

DeleteNode(n) ==
    /\ lifecycle[n] = "delete"
    /\ node' = [node EXCEPT ![n] = Absent]
    /\ lifecycle' = [lifecycle EXCEPT ![n] = "idle"]
    /\ UNCHANGED <<server, unused, metadata, disturbances>>

AskShutdown(n) ==
    /\ lifecycle[n] = "askShutdown"
    /\ \E answer \in ServerIds \cup {NotFound, Error} :
          /\ Answer(n, answer)
          /\ lifecycle' = [lifecycle EXCEPT ![n] =
               IF InstanceShutdown(answer) = TRUE THEN "taint" ELSE "idle"]
    /\ UNCHANGED <<server, unused, node, metadata>>

Taint(n) ==
    /\ lifecycle[n] = "taint"
    /\ node' = [node EXCEPT ![n].shutdown = TRUE]
    /\ lifecycle' = [lifecycle EXCEPT ![n] = "idle"]
    /\ UNCHANGED <<server, unused, metadata, disturbances>>

\* A node that is ready again loses the taint.
Untaint(n) ==
    /\ node[n] # Absent /\ node[n].shutdown
    /\ lifecycle[n] = "idle"
    /\ Alive(node[n].host) /\ server[node[n].host].status = "ACTIVE"
    /\ node' = [node EXCEPT ![n].shutdown = FALSE]
    /\ UNCHANGED <<server, unused, metadata, lifecycle, disturbances>>

-----------------------------------------------------------------------------

NodeController(n) == AskMetadata(n) \/ ApplyMetadata(n)
LifecycleController(n) == AskExists(n) \/ DeleteNode(n) \/ AskShutdown(n) \/ Taint(n)

Next ==
    \/ \E s \in ServerIds, name \in Names, nics \in NicSets : CreateServer(s, name, nics)
    \/ \E s \in ServerIds : ChangeServer(s) \/ Stopped(s)
    \/ \E s \in ServerIds, scheme \in Schemes : \E p \in ProviderID(scheme, s) : Register(s, p)
    \/ \E n \in Names : NodeController(n) \/ LifecycleController(n) \/ Untaint(n)

Spec == Init /\ [][Next]_vars

\* The lifecycle controller is sure to look at a node that is not ready, as one without its
\* server, and to finish what it began.
Monitored(n) ==
    /\ lifecycle[n] # "idle" \/ (node[n] # Absent /\ ~Alive(node[n].host))
    /\ LifecycleController(n)

\* The controllers ask again and again and write what they were told.
Fairness ==
    \A n \in Names : WF_vars(NodeController(n)) /\ WF_vars(Monitored(n))

FairSpec == Spec /\ Fairness

-----------------------------------------------------------------------------
\* Properties.

\* A node is deleted only when a server is gone: the one that registered it or the one its
\* provider id names (an answer that outlived its node may have named a server of the past).
\* It is not deleted for a failed call, for a provider id of another region or one that does
\* not parse, or for a server list in which others come first.
NeverEvicted ==
    [][\A n \in Names : node[n] # Absent /\ node'[n] = Absent =>
          \/ ~Alive(node[n].host)
          \/ node[n].provider # Absent /\ ~Alive(node[n].provider.id)]_vars

\* A node is never bound to a living server other than the one it runs on, although its
\* provider id may come from an answer given for an earlier node of the name: the id that
\* InstanceMetadata found by name is the host's or that of a server that is gone.
BoundToHost ==
    \A n \in Names :
       node[n] # Absent /\ node[n].provider # Absent =>
          (Alive(node[n].host) /\ Alive(node[n].provider.id) => node[n].provider.id = node[n].host)

\* The addresses of a node do not change, nor their order, unless the interfaces of its
\* server do: the order of the API does not reach the node.
AddressesStable ==
    [][\A n \in Names :
         node[n] # Absent /\ node'[n] # Absent /\ node[n].nics # {} /\ node'[n].nics = node[n].nics =>
            node'[n].addresses = node[n].addresses]_vars

\* The provider id of node n is one that getInstance can use.
Usable(n) ==
    node[n].provider = Absent \/
    LET x == instanceIDFromProviderID(node[n].provider)
    IN  x # Error /\ x.region \in {"", Region}

\* The provider id of node n names a server that is not its own.
Misbound(n) == node[n].provider # Absent /\ node[n].provider.id # node[n].host

\* A node with a usable provider id settles, whatever failed in between: it gets the
\* addresses its server has, unless it is bound to another, and it is deleted once the server
\* is gone, unless a new server took over the name.
EventuallySettled ==
    \A n \in Names :
       (node[n] # Absent /\ Usable(n))
          ~> \/ node[n] = Absent
             \/ /\ Alive(node[n].host)
                /\ server[node[n].host].nics \in {{}, node[n].nics} \/ Misbound(n)
             \/ /\ ~Alive(node[n].host)
                /\ \E s \in ServerIds : Alive(s) /\ server[s].name = n

==============================================================================
