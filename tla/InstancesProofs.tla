--------------------------- MODULE InstancesProofs ---------------------------
(***************************************************************************)
(* Proofs about Instances, for any servers, nodes, interfaces and          *)
(* disturbances: nodes are bound to no living server but the one they run  *)
(* on, are deleted only when a server is gone, and keep their addresses.   *)
(***************************************************************************)
EXTENDS Instances, FiniteSetTheorems, TLAPS

\* Living servers bear different names.
NamesInv ==
    \A s, t \in ServerIds : Alive(s) /\ Alive(t) /\ server[s].name = server[t].name => s = t

\* Server s has borne the name n, and bears it if it lives.
Bears(s, n) == s \in ServerIds \ unused /\ (Alive(s) => server[s].name = n)

\* Why a node may be deleted.
Orphaned(n) == ~Alive(node[n].host) \/ (node[n].provider # Absent /\ ~Alive(node[n].provider.id))

Listed(n, o) == [nics |-> o.nics, addresses |-> o.addresses] \in Listings[n]

\* The host of node n, the server of its provider id and the one an answer on its way is
\* about, be it given for an earlier node of the name, are all servers of that name.
NodeInv(n) ==
    /\ node[n] # Absent =>
          /\ Bears(node[n].host, n)
          /\ node[n].provider # Absent => Bears(node[n].provider.id, n)
          /\ lifecycle[n] = "delete" => Orphaned(n)
          /\ node[n].nics # {} => Listed(n, node[n])
    /\ metadata[n] # Absent => Bears(metadata[n].provider.id, n) /\ Listed(n, metadata[n])

InstancesInv == TypeOK /\ NamesInv /\ \A n \in Names : NodeInv(n)

-----------------------------------------------------------------------------

LEMMA InitInv == Init => InstancesInv
  <1> SUFFICES ASSUME Init PROVE InstancesInv
    OBVIOUS
  <1>1. TypeOK
    BY InstancesAssumption DEF Init, TypeOK
  <1>2. NamesInv
    BY DEF Init, NamesInv, Alive
  <1>3. \A n \in Names : NodeInv(n)
    BY DEF Init, NodeInv
  <1> QED
    BY <1>1, <1>2, <1>3 DEF InstancesInv

\* Servers that have an id in use come to an end and keep their names.
ServersStay ==
    /\ unused' \subseteq unused
    /\ \A s \in ServerIds \ unused : Alive(s)' => Alive(s) /\ server'[s].name = server[s].name

LEMMA BearsStays ==
  ASSUME ServersStay, NEW n, NEW s, Bears(s, n)
  PROVE  Bears(s, n)' /\ (~Alive(s) => ~Alive(s)')
  BY DEF ServersStay, Bears, Alive

LEMMA NodeStays ==
  ASSUME TypeOK, NEW n \in Names, NodeInv(n), ServersStay,
         node'[n] = node[n], metadata'[n] = metadata[n], lifecycle'[n] = "delete" => lifecycle[n] = "delete"
  PROVE  NodeInv(n)'
  <1>1. metadata[n] # Absent => Bears(metadata[n].provider.id, n)' /\ Listed(n, metadata[n])
    BY BearsStays DEF NodeInv
  <1>2. CASE node[n] = Absent
    BY <1>1, <1>2 DEF NodeInv, Listed
  <1>3. CASE node[n] # Absent
    <2>1. Bears(node[n].host, n)' /\ (~Alive(node[n].host) => ~Alive(node[n].host)')
      BY <1>3, BearsStays DEF NodeInv
    <2>2. node[n].provider # Absent =>
             Bears(node[n].provider.id, n)' /\ (~Alive(node[n].provider.id) => ~Alive(node[n].provider.id)')
      BY <1>3, BearsStays DEF NodeInv
    <2>3. lifecycle'[n] = "delete" => Orphaned(n)'
      BY <1>3, <2>1, <2>2 DEF NodeInv, Orphaned, Alive
    <2> QED
      BY <1>1, <1>3, <2>1, <2>2, <2>3 DEF NodeInv, Listed
  <1> QED
    BY <1>2, <1>3

\* A question about node n is answered with a living server of that name; that there is
\* none is answered only if the node is orphaned.
LEMMA InstanceBears ==
  ASSUME InstancesInv, NEW n \in Names, node[n] # Absent
  PROVE  /\ NotFound \in getInstance(n) => Orphaned(n)
         /\ \A s \in getInstance(n) \cap ServerIds : Alive(s) /\ server[s].name = n
  <1> DEFINE h == node[n].host
             p == node[n].provider
             x == instanceIDFromProviderID(p)
  <1>1. Bears(h, n) /\ (p # Absent => Bears(p.id, n))
    BY DEF InstancesInv, NodeInv
  <1>2. NotFound # Error /\ NotFound \notin ServerIds /\ Error \notin ServerIds
    BY InstancesAssumption
  <1>3. CASE p = Absent
    <2>1. getInstance(n) = getServerByName(n)
      BY <1>3 DEF getInstance
    <2> DEFINE named == {s \in ServerIds : Alive(s) /\ server[s].name = n}
    <2>2. CASE named = {}
      <3>1. ~Alive(h)
        BY <1>1, <2>2 DEF Bears
      <3>2. getServerByName(n) = {NotFound}
        BY <2>2 DEF getServerByName
      <3> QED
        BY <1>2, <2>1, <3>1, <3>2 DEF Orphaned
    <2>3. CASE named # {}
      <3>1. getServerByName(n) = named
        BY <2>3 DEF getServerByName
      <3> QED
        BY <1>2, <2>1, <3>1
    <2> QED
      BY <2>2, <2>3
  <1>4. CASE p # Absent /\ x = Error
    <2>1. getInstance(n) = {Error}
      BY <1>4 DEF getInstance
    <2> QED
      BY <1>2, <2>1
  <1>5. CASE p # Absent /\ x # Error
    <2>1. x.id = p.id
      BY <1>5 DEF instanceIDFromProviderID
    <2>2. getInstance(n) = {Error} \/ getInstance(n) = {IF Alive(x.id) THEN x.id ELSE NotFound}
      BY <1>5 DEF getInstance
    <2>3. CASE Alive(p.id)
      BY <1>1, <1>2, <1>5, <2>1, <2>2, <2>3 DEF Bears
    <2>4. CASE ~Alive(p.id)
      BY <1>2, <1>5, <2>1, <2>2, <2>4 DEF Orphaned
    <2> QED
      BY <2>3, <2>4
  <1> QED
    BY <1>3, <1>4, <1>5

-----------------------------------------------------------------------------
\* Steps of servers and kubelets.

LEMMA ServerInv ==
  ASSUME InstancesInv, UNCHANGED <<node, metadata, lifecycle>>,
         \/ \E s \in ServerIds, name \in Names, nics \in NicSets : CreateServer(s, name, nics)
         \/ \E s \in ServerIds : ChangeServer(s) \/ Stopped(s)
  PROVE  InstancesInv'
  <1>t. TypeOK
    BY DEF InstancesInv
  <1>1. PICK s \in ServerIds, o \in Servers \cup {Absent} :
           /\ server' = [server EXCEPT ![s] = o]
           /\ \/ Alive(s) /\ unused' = unused /\ (o # Absent => o.name = server[s].name)
              \/ /\ s \in unused /\ unused' = unused \ {s}
                 /\ \A t \in ServerIds : Alive(t) => server[t].name # o.name
           /\ disturbances' = disturbances \/ Disturb
    <2>1. CASE \E s \in ServerIds, name \in Names, nics \in NicSets : CreateServer(s, name, nics)
      <3>1. PICK s \in ServerIds, name \in Names, nics \in NicSets : CreateServer(s, name, nics)
        BY <2>1
      <3> DEFINE o == [name |-> name, status |-> "ACTIVE", nics |-> nics]
      <3>2. o \in Servers /\ o.name = name /\ server' = [server EXCEPT ![s] = o]
        BY <3>1 DEF Servers, Statuses, CreateServer
      <3> HIDE DEF o
      <3> QED
        BY <3>1, <3>2 DEF CreateServer
    <2>2. ASSUME NEW s \in ServerIds, ChangeServer(s) \/ Stopped(s)
          PROVE  \E o \in Servers \cup {Absent} :
                    /\ server' = [server EXCEPT ![s] = o] /\ Alive(s) /\ unused' = unused
                    /\ o # Absent => o.name = server[s].name
                    /\ disturbances' = disturbances \/ Disturb
      <3>1. server[s] \in Servers /\ Alive(s) /\ unused' = unused /\ (disturbances' = disturbances \/ Disturb)
        BY <2>2, <1>t DEF ChangeServer, Stopped, Alive, TypeOK
      <3>2. CASE server' = [server EXCEPT ![s] = Absent]
        BY <3>1, <3>2
      <3>3. ASSUME NEW nics \in NicSets, server' = [server EXCEPT ![s].nics = nics]
            PROVE  \E o \in Servers : server' = [server EXCEPT ![s] = o] /\ o.name = server[s].name
        <4> DEFINE o == [server[s] EXCEPT !.nics = nics]
        <4>1. o \in Servers /\ o.name = server[s].name
          BY <3>1 DEF Servers
        <4>2. server' = [server EXCEPT ![s] = o]
          BY <3>3
        <4> HIDE DEF o
        <4> QED
          BY <4>1, <4>2
      <3>4. ASSUME NEW status \in Statuses, server' = [server EXCEPT ![s].status = status]
            PROVE  \E o \in Servers : server' = [server EXCEPT ![s] = o] /\ o.name = server[s].name
        <4> DEFINE o == [server[s] EXCEPT !.status = status]
        <4>1. o \in Servers /\ o.name = server[s].name
          BY <3>1 DEF Servers
        <4>2. server' = [server EXCEPT ![s] = o]
          BY <3>4
        <4> HIDE DEF o
        <4> QED
          BY <4>1, <4>2
      <3>5. \/ server' = [server EXCEPT ![s] = Absent]
            \/ \E nics \in NicSets : server' = [server EXCEPT ![s].nics = nics]
            \/ \E status \in Statuses : server' = [server EXCEPT ![s].status = status]
        <4>1. CASE Stopped(s)
          BY <4>1 DEF Stopped, Statuses
        <4>2. CASE ChangeServer(s)
          BY <4>2 DEF ChangeServer, Statuses
        <4> QED
          BY <2>2, <4>1, <4>2
      <3> QED
        BY <3>1, <3>2, <3>3, <3>4, <3>5
    <2> QED
      BY <2>1, <2>2
  <1>2. /\ server' \in [ServerIds -> Servers \cup {Absent}] /\ server'[s] = o
        /\ \A t \in ServerIds \ {s} : server'[t] = server[t]
    BY <1>1, <1>t DEF TypeOK
  <1>3. ServersStay
    BY <1>1, <1>2 DEF ServersStay, Alive
  <1>4. TypeOK'
    <2>1. disturbances' \in 0 .. MaxDisturbances
      BY <1>1, <1>t, InstancesAssumption DEF TypeOK, Disturb
    <2>2. unused' \subseteq ServerIds /\ \A t \in unused' : server'[t] = Absent
      BY <1>1, <1>2, <1>t DEF TypeOK, Alive
    <2> QED
      BY <1>2, <2>1, <2>2, <1>t DEF TypeOK
  <1>5. NamesInv'
    BY <1>1, <1>2 DEF InstancesInv, NamesInv, Alive
  <1>6. \A n \in Names : NodeInv(n)'
    BY <1>3, <1>t, NodeStays DEF InstancesInv
  <1> QED
    BY <1>4, <1>5, <1>6 DEF InstancesInv

\* What the controllers and kubelets leave alone.
LEMMA OneNode ==
  ASSUME InstancesInv, NEW n \in Names, UNCHANGED <<server, unused>>,
         node' \in [Names -> NodeObjects \cup {Absent}], metadata' \in [Names -> Answers \cup {Absent}],
         lifecycle' \in [Names -> {"idle", "delete", "askShutdown", "taint"}],
         disturbances' = disturbances \/ Disturb,
         \A d \in Names \ {n} : /\ node'[d] = node[d] /\ metadata'[d] = metadata[d]
                                /\ lifecycle'[d] = lifecycle[d],
         node'[n] = Absent => lifecycle'[n] = "idle",
         NodeInv(n)'
  PROVE  InstancesInv'
  <1>t. TypeOK
    BY DEF InstancesInv
  <1>1. TypeOK'
    <2>1. disturbances' \in 0 .. MaxDisturbances
      BY <1>t, InstancesAssumption DEF TypeOK, Disturb
    <2> QED
      BY <2>1, <1>t DEF TypeOK
  <1>2. NamesInv'
    BY DEF InstancesInv, NamesInv, Alive
  <1>3. ServersStay
    BY DEF ServersStay, Alive
  <1>4. \A d \in Names \ {n} : NodeInv(d)'
    BY <1>3, <1>t, NodeStays DEF InstancesInv
  <1> QED
    BY <1>1, <1>2, <1>4 DEF InstancesInv

LEMMA RegisterInv ==
  ASSUME InstancesInv, NEW s \in ServerIds, NEW scheme \in Schemes, NEW p \in ProviderID(scheme, s),
         Register(s, p)
  PROVE  InstancesInv'
  <1>t. TypeOK
    BY DEF InstancesInv
  <1>1. p = Absent \/ (p \in ProviderIds /\ p.id = s)
    <2>1. CASE scheme = "none"
      BY <2>1 DEF ProviderID
    <2>2. CASE scheme \in {"stackit", "bare", "other"}
      <3>1. p = [scheme |-> scheme, region |-> "", id |-> s]
        BY <2>2 DEF ProviderID
      <3> QED
        BY <2>2, <3>1 DEF ProviderIds
    <2>3. CASE scheme = "openstack"
      <3>1. PICK r \in {"", Region, OtherRegion} : p = [scheme |-> "openstack", region |-> r, id |-> s]
        BY <2>3 DEF ProviderID
      <3> QED
        BY <3>1 DEF ProviderIds
    <2>4. CASE scheme = "regional"
      <3>1. p = [scheme |-> "stackit", region |-> Region, id |-> s]
        BY <2>4 DEF ProviderID
      <3> QED
        BY <3>1 DEF ProviderIds
    <2> QED
      BY <2>1, <2>2, <2>3, <2>4, InstancesAssumption
  <1>2. PICK n \in Names : n = server[s].name
    BY <1>t DEF Register, Alive, TypeOK, Servers
  <1> DEFINE o == [host |-> s, provider |-> p, addresses |-> <<>>, nics |-> {}, shutdown |-> FALSE]
  <1>3. /\ o \in NodeObjects /\ o.host = s /\ o.provider = p /\ o.nics = {}
        /\ node' = [node EXCEPT ![n] = o] /\ node[n] = Absent
    BY <1>1, <1>2 DEF Register, NodeObjects
  <1> HIDE DEF o
  <1>4. /\ node' \in [Names -> NodeObjects \cup {Absent}] /\ node'[n] = o
        /\ \A d \in Names \ {n} : node'[d] = node[d]
    BY <1>3, <1>t DEF TypeOK
  <1>5. Alive(s) /\ UNCHANGED <<server, unused, metadata, lifecycle, disturbances>>
    BY DEF Register
  <1>6. lifecycle[n] = "idle" /\ s \notin unused
    BY <1>3, <1>5, <1>t DEF TypeOK, Alive
  <1>7. NodeInv(n)'
    <2>1. Bears(s, n)'
      BY <1>2, <1>5, <1>6 DEF Bears, Alive
    <2>2. (metadata[n] # Absent => Bears(metadata[n].provider.id, n) /\ Listed(n, metadata[n]))'
      BY <1>5 DEF InstancesInv, NodeInv, Bears, Alive, Listed
    <2>3. (Bears(node[n].host, n) /\ (node[n].provider # Absent => Bears(node[n].provider.id, n)))'
      BY <1>1, <1>3, <1>4, <2>1 DEF Bears, Alive
    <2> QED
      BY <1>3, <1>4, <1>5, <1>6, <2>2, <2>3 DEF NodeInv
  <1> QED
    BY <1>3, <1>4, <1>5, <1>6, <1>7, <1>t, OneNode, AbsentAssumption DEF TypeOK


-----------------------------------------------------------------------------
\* Steps of the controllers.

LEMMA AskMetadataInv ==
  ASSUME InstancesInv, NEW n \in Names, AskMetadata(n)
  PROVE  InstancesInv'
  <1>t. TypeOK /\ NodeInv(n)
    BY DEF InstancesInv
  <1>1. PICK s \in getInstance(n) \cap ServerIds :
           \E answer \in InstanceMetadata(s) : metadata' = [metadata EXCEPT ![n] = answer]
    BY DEF AskMetadata
  <1>2. PICK answer \in InstanceMetadata(s) : metadata' = [metadata EXCEPT ![n] = answer]
    BY <1>1
  <1>3. node[n] # Absent /\ UNCHANGED <<server, unused, node, lifecycle, disturbances>>
    BY DEF AskMetadata
  <1>a. Alive(s) /\ server[s].name = n /\ s \notin unused
    <2>1. Alive(s) /\ server[s].name = n
      BY <1>1, <1>3, InstanceBears
    <2> QED
      BY <2>1, <1>t DEF Alive, TypeOK
  <1>4. PICK l \in Listings[n] :
           answer = [provider |-> makeInstanceID(s), addresses |-> l.addresses, nics |-> l.nics]
    BY <1>2, <1>a DEF InstanceMetadata
  <1>5. l.nics \in NicSets /\ l = [nics |-> l.nics, addresses |-> l.addresses]
    BY DEF Listings
  <1>6. makeInstanceID(s) \in ProviderIds /\ makeInstanceID(s).id = s
    BY <1>1 DEF makeInstanceID, ProviderIds
  <1>7. l.addresses \in Addresses
    BY DEF Addresses
  <1>8. answer \in Answers /\ answer.provider.id = s /\ Listed(n, answer)
    BY <1>4, <1>5, <1>6, <1>7 DEF Answers, Listed
  <1>9. /\ metadata' \in [Names -> Answers \cup {Absent}] /\ metadata'[n] = answer
        /\ \A d \in Names \ {n} : metadata'[d] = metadata[d]
    BY <1>2, <1>8, <1>t DEF TypeOK
  <1>10. NodeInv(n)'
    <2>1. Bears(s, n)'
      BY <1>1, <1>3, <1>a DEF Bears, Alive
    <2>2. (Bears(metadata[n].provider.id, n) /\ Listed(n, metadata[n]))'
      BY <1>8, <1>9, <2>1 DEF Bears, Alive, Listed
    <2>3. (/\ Bears(node[n].host, n)
           /\ node[n].provider # Absent => Bears(node[n].provider.id, n)
           /\ lifecycle[n] = "delete" => Orphaned(n)
           /\ node[n].nics # {} => Listed(n, node[n]))'
      BY <1>3, <1>t DEF NodeInv, Bears, Orphaned, Alive, Listed
    <2> QED
      BY <2>2, <2>3 DEF NodeInv
  <1> QED
    BY <1>3, <1>9, <1>10, <1>t, OneNode DEF TypeOK

\* What ApplyMetadata writes.
LEMMA Applied ==
  ASSUME InstancesInv, NEW n \in Names, node[n] # Absent, ApplyMetadata(n)
  PROVE  /\ node[n] \in NodeObjects /\ node'[n] \in NodeObjects
         /\ node' \in [Names -> NodeObjects \cup {Absent}]
         /\ \A d \in Names \ {n} : node'[d] = node[d]
         /\ node'[n].host = node[n].host
         /\ node'[n].provider = IF node[n].provider = Absent THEN metadata[n].provider ELSE node[n].provider
         /\ node'[n].addresses = metadata[n].addresses /\ node'[n].nics = metadata[n].nics
  <1>t. TypeOK
    BY DEF InstancesInv
  <1>1. node[n] \in NodeObjects /\ metadata[n] \in Answers
    BY <1>t DEF ApplyMetadata, TypeOK
  <1>2. PICK p : p = IF node[n].provider = Absent THEN metadata[n].provider ELSE node[n].provider
    OBVIOUS
  <1>3. /\ p \in ProviderIds \cup {Absent} /\ metadata[n].addresses \in Addresses \cup {<<>>}
        /\ metadata[n].nics \in NicSets \cup {{}}
    BY <1>1, <1>2 DEF NodeObjects, Answers
  <1> DEFINE o == [node[n] EXCEPT !.provider = p, !.addresses = metadata[n].addresses, !.nics = metadata[n].nics]
  <1>4. /\ o \in NodeObjects /\ o.host = node[n].host /\ o.provider = p
        /\ o.addresses = metadata[n].addresses /\ o.nics = metadata[n].nics
    BY <1>1, <1>3 DEF NodeObjects
  <1>5. node' = [node EXCEPT ![n] = o]
    BY <1>1, <1>2, <1>t DEF ApplyMetadata, TypeOK, NodeObjects
  <1> HIDE DEF o
  <1>6. /\ node' \in [Names -> NodeObjects \cup {Absent}] /\ node'[n] = o
        /\ \A d \in Names \ {n} : node'[d] = node[d]
    BY <1>4, <1>5, <1>t DEF TypeOK
  <1> QED
    BY <1>1, <1>2, <1>4, <1>6

LEMMA ApplyMetadataInv ==
  ASSUME InstancesInv, NEW n \in Names, ApplyMetadata(n)
  PROVE  InstancesInv'
  <1>t. TypeOK /\ NodeInv(n)
    BY DEF InstancesInv
  <1>1. /\ metadata[n] # Absent /\ metadata' = [metadata EXCEPT ![n] = Absent]
        /\ UNCHANGED <<server, unused, lifecycle, disturbances>>
    BY DEF ApplyMetadata
  <1>2. /\ metadata' \in [Names -> Answers \cup {Absent}] /\ metadata'[n] = Absent
        /\ \A d \in Names \ {n} : metadata'[d] = metadata[d]
    BY <1>1, <1>t DEF TypeOK
  <1>3. CASE node[n] = Absent
    <2>1. node' = node /\ lifecycle[n] = "idle"
      BY <1>3, <1>t DEF ApplyMetadata, TypeOK
    <2>2. NodeInv(n)'
      BY <1>2, <1>3, <2>1 DEF NodeInv
    <2> QED
      BY <1>1, <1>2, <1>3, <2>1, <2>2, <1>t, OneNode DEF TypeOK
  <1>4. CASE node[n] # Absent
    <2>1. node'[n] # Absent
      BY <1>4, Applied, AbsentAssumption
    <2>2. \A s : (Bears(s, n)' <=> Bears(s, n)) /\ (Alive(s)' <=> Alive(s))
      BY <1>1 DEF Bears, Alive
    <2>3. (Bears(node[n].host, n) /\ Bears(node[n].provider.id, n))'
      <3>1. Bears(node[n].host, n) /\ Bears(node'[n].provider.id, n)
        BY <1>1, <1>4, <1>t, Applied DEF NodeInv
      <3> QED
        BY <1>1, <1>4, <3>1, Applied DEF Bears, Alive
    <2>4. lifecycle'[n] = "delete" => Orphaned(n)'
      <3>1. node[n].provider # Absent => node'[n].provider = node[n].provider
        BY <1>4, Applied
      <3>2. lifecycle[n] = "delete" => Orphaned(n)
        BY <1>4, <1>t DEF NodeInv
      <3>3. node'[n].host = node[n].host
        BY <1>4, Applied
      <3>4. Orphaned(n) => Orphaned(n)'
        BY <2>2, <3>1, <3>3 DEF Orphaned
      <3> QED
        BY <1>1, <3>2, <3>4
    <2>5. Listed(n, node[n])'
      BY <1>1, <1>4, <1>t, Applied DEF NodeInv, Listed
    <2>6. NodeInv(n)'
      BY <1>2, <2>1, <2>3, <2>4, <2>5 DEF NodeInv
    <2> QED
      BY <1>1, <1>2, <1>4, <2>1, <2>6, <1>t, OneNode, Applied DEF TypeOK
  <1> QED
    BY <1>3, <1>4

\* The lifecycle controller moves on without writing.
LEMMA LifecycleInv ==
  ASSUME InstancesInv, NEW n \in Names, AskExists(n) \/ AskShutdown(n)
  PROVE  InstancesInv'
  <1>t. TypeOK /\ NodeInv(n)
    BY DEF InstancesInv
  <1>1. UNCHANGED <<server, unused, node, metadata>> /\ (disturbances' = disturbances \/ Disturb)
    BY DEF AskExists, AskShutdown, Answer, Calm
  <1>2. node[n] # Absent
    BY <1>t DEF AskExists, AskShutdown, TypeOK
  <1>3. PICK l \in {"idle", "delete", "askShutdown", "taint"} :
           /\ lifecycle' = [lifecycle EXCEPT ![n] = l]
           /\ l = "delete" => Orphaned(n)
    <2>1. CASE AskShutdown(n)
      BY <2>1 DEF AskShutdown
    <2>2. CASE AskExists(n)
      <3>1. PICK answer \in ServerIds \cup {NotFound, Error} :
               /\ Answer(n, answer)
               /\ lifecycle' = [lifecycle EXCEPT ![n] =
                     CASE InstanceExists(answer) = Error -> "idle"
                       [] InstanceExists(answer) = TRUE -> "askShutdown"
                       [] InstanceExists(answer) = FALSE -> "delete"]
        BY <2>2 DEF AskExists
      <3>2. CASE answer = NotFound
        <4>1. InstanceExists(answer) = FALSE
          BY <3>2, InstancesAssumption DEF InstanceExists
        <4>2. NotFound \in getInstance(n)
          BY <3>1, <3>2, InstancesAssumption DEF Answer
        <4>3. Orphaned(n)
          BY <1>2, <4>2, InstanceBears
        <4>4. lifecycle' = [lifecycle EXCEPT ![n] = "delete"]
          BY <3>1, <4>1, InstancesAssumption
        <4> QED
          BY <4>3, <4>4
      <3>3. CASE answer = Error
        <4>1. InstanceExists(answer) = Error
          BY <3>3, InstancesAssumption DEF InstanceExists
        <4>2. lifecycle' = [lifecycle EXCEPT ![n] = "idle"]
          BY <3>1, <4>1, InstancesAssumption
        <4> QED
          BY <4>2
      <3>4. CASE answer \in ServerIds
        <4>1. InstanceExists(answer) = TRUE
          BY <3>4, InstancesAssumption DEF InstanceExists
        <4>2. lifecycle' = [lifecycle EXCEPT ![n] = "askShutdown"]
          BY <3>1, <4>1, InstancesAssumption
        <4> QED
          BY <4>2
      <3> QED
        BY <3>2, <3>3, <3>4
    <2> QED
      BY <2>1, <2>2
  <1>4. /\ lifecycle' \in [Names -> {"idle", "delete", "askShutdown", "taint"}] /\ lifecycle'[n] = l
        /\ \A d \in Names \ {n} : lifecycle'[d] = lifecycle[d]
    BY <1>3, <1>t DEF TypeOK
  <1>5. NodeInv(n)'
    <2>1. /\ Orphaned(n)' <=> Orphaned(n)
          /\ \A s : Bears(s, n)' <=> Bears(s, n)
      BY <1>1 DEF Orphaned, Bears, Alive
    <2> QED
      BY <1>1, <1>2, <1>3, <1>4, <2>1, <1>t DEF NodeInv, Listed
  <1> QED
    BY <1>1, <1>2, <1>4, <1>5, <1>t, OneNode DEF TypeOK


LEMMA DeleteNodeInv ==
  ASSUME InstancesInv, NEW n \in Names, DeleteNode(n)
  PROVE  InstancesInv'
  <1>t. TypeOK
    BY DEF InstancesInv
  <1>1. /\ node' \in [Names -> NodeObjects \cup {Absent}] /\ node'[n] = Absent
        /\ lifecycle' \in [Names -> {"idle", "delete", "askShutdown", "taint"}] /\ lifecycle'[n] = "idle"
        /\ \A d \in Names \ {n} : node'[d] = node[d] /\ lifecycle'[d] = lifecycle[d]
        /\ UNCHANGED <<server, unused, metadata, disturbances>>
    BY <1>t DEF DeleteNode, TypeOK
  <1>2. NodeInv(n)'
    <2>1. \A s : Bears(s, n)' <=> Bears(s, n)
      BY <1>1 DEF Bears, Alive
    <2> QED
      BY <1>1, <2>1 DEF InstancesInv, NodeInv, Listed
  <1> QED
    BY <1>1, <1>2, <1>t, OneNode DEF TypeOK

\* Taint and Untaint write one mark.
LEMMA Tainted ==
  ASSUME InstancesInv, NEW n \in Names, Taint(n) \/ Untaint(n)
  PROVE  /\ node[n] \in NodeObjects /\ node'[n] \in NodeObjects
         /\ node' \in [Names -> NodeObjects \cup {Absent}]
         /\ \A d \in Names \ {n} : node'[d] = node[d]
         /\ node'[n].host = node[n].host /\ node'[n].provider = node[n].provider
         /\ node'[n].addresses = node[n].addresses /\ node'[n].nics = node[n].nics
  <1>t. TypeOK
    BY DEF InstancesInv
  <1>1. node[n] \in NodeObjects
    BY <1>t DEF Taint, Untaint, TypeOK
  <1>2. PICK b \in BOOLEAN : node' = [node EXCEPT ![n].shutdown = b]
    BY DEF Taint, Untaint
  <1> DEFINE o == [node[n] EXCEPT !.shutdown = b]
  <1>3. /\ o \in NodeObjects /\ o.host = node[n].host /\ o.provider = node[n].provider
        /\ o.addresses = node[n].addresses /\ o.nics = node[n].nics
    BY <1>1 DEF NodeObjects
  <1>4. node' = [node EXCEPT ![n] = o]
    BY <1>2
  <1> HIDE DEF o
  <1>5. /\ node' \in [Names -> NodeObjects \cup {Absent}] /\ node'[n] = o
        /\ \A d \in Names \ {n} : node'[d] = node[d]
    BY <1>3, <1>4, <1>t DEF TypeOK
  <1> QED
    BY <1>1, <1>3, <1>5

LEMMA TaintInv ==
  ASSUME InstancesInv, NEW n \in Names, Taint(n) \/ Untaint(n)
  PROVE  InstancesInv'
  <1>t. TypeOK /\ NodeInv(n)
    BY DEF InstancesInv
  <1>1. /\ lifecycle' \in [Names -> {"idle", "delete", "askShutdown", "taint"}] /\ lifecycle'[n] = "idle"
        /\ \A d \in Names \ {n} : lifecycle'[d] = lifecycle[d]
        /\ UNCHANGED <<server, unused, metadata, disturbances>>
    BY <1>t DEF Taint, Untaint, TypeOK
  <1>2. node[n] # Absent /\ node'[n] # Absent
    BY Tainted, AbsentAssumption
  <1>3. NodeInv(n)'
    <2>1. \A s : (Bears(s, n)' <=> Bears(s, n)) /\ (Alive(s)' <=> Alive(s))
      BY <1>1 DEF Bears, Alive
    <2>2. Listed(n, node'[n]) <=> Listed(n, node[n])
      BY Tainted DEF Listed
    <2> QED
      BY <1>1, <1>2, <2>1, <2>2, <1>t, Tainted DEF NodeInv, Listed
  <1> QED
    BY <1>1, <1>2, <1>3, <1>t, OneNode, Tainted DEF TypeOK

LEMMA NextInv == InstancesInv /\ [Next]_vars => InstancesInv'
  <1> SUFFICES ASSUME InstancesInv, [Next]_vars PROVE InstancesInv'
    OBVIOUS
  <1>1. CASE UNCHANGED vars
    <2>1. TypeOK' /\ NamesInv'
      BY <1>1 DEF vars, InstancesInv, TypeOK, NamesInv, Alive
    <2>2. ServersStay
      BY <1>1 DEF vars, ServersStay, Alive
    <2>3. \A n \in Names : NodeInv(n)'
      BY <1>1, <2>2, NodeStays DEF vars, InstancesInv
    <2> QED
      BY <2>1, <2>3 DEF InstancesInv
  <1>2. CASE \/ \E s \in ServerIds, name \in Names, nics \in NicSets : CreateServer(s, name, nics)
             \/ \E s \in ServerIds : ChangeServer(s) \/ Stopped(s)
    <2>1. UNCHANGED <<node, metadata, lifecycle>>
      BY <1>2 DEF CreateServer, ChangeServer, Stopped
    <2> QED
      BY <1>2, <2>1, ServerInv
  <1>3. ASSUME NEW n \in Names, NodeController(n) \/ LifecycleController(n) \/ Untaint(n)
        PROVE  InstancesInv'
    BY <1>3, AskMetadataInv, ApplyMetadataInv, LifecycleInv, DeleteNodeInv, TaintInv
       DEF NodeController, LifecycleController
  <1> QED
    BY <1>1, <1>2, <1>3, RegisterInv DEF Next

-----------------------------------------------------------------------------

\* The inductive invariant holds whatever servers come and go, whatever calls fail and
\* however the two controllers interleave.
THEOREM InstancesInvariant == Spec => []InstancesInv
  <1> QED
    BY InitInv, NextInv, PTL DEF Spec

\* Type correctness of servers, node objects and answers on their way.
THEOREM TypeCorrect == Spec => []TypeOK
  <1>1. InstancesInv => TypeOK
    BY DEF InstancesInv
  <1> QED
    BY <1>1, InstancesInvariant, PTL

\* A provider id that InstanceMetadata found by name names the server the node runs on or one
\* that is gone, never another living one, although the answer may have been given for an
\* earlier node of the name: servers of one name follow each other.
THEOREM NodesBound == Spec => []BoundToHost
  <1>1. InstancesInv => BoundToHost
    BY DEF InstancesInv, NamesInv, NodeInv, Bears, BoundToHost
  <1> QED
    BY <1>1, InstancesInvariant, PTL

\* What a step makes of a node object.
LEMMA NodeStep ==
  ASSUME InstancesInv, [Next]_vars, NEW n \in Names, node[n] # Absent
  PROVE  \/ node'[n] = node[n]
         \/ node'[n] = Absent /\ lifecycle[n] = "delete"
         \/ node'[n] # Absent /\ node'[n].nics = node[n].nics /\ node'[n].addresses = node[n].addresses
         \/ /\ node'[n] # Absent /\ metadata[n] # Absent
            /\ node'[n].nics = metadata[n].nics /\ node'[n].addresses = metadata[n].addresses
  <1>t. TypeOK
    BY DEF InstancesInv
  <1>1. ASSUME NEW m \in Names, ApplyMetadata(m), node[m] # Absent
        PROVE  \/ node'[n] = node[n]
               \/ /\ node'[n] # Absent /\ metadata[n] # Absent
                  /\ node'[n].nics = metadata[n].nics /\ node'[n].addresses = metadata[n].addresses
    <2>1. CASE m = n
      <3>1. ApplyMetadata(n)
        BY <1>1, <2>1
      <3>2. metadata[n] # Absent
        BY <3>1 DEF ApplyMetadata
      <3> QED
        BY <3>1, <3>2, Applied, AbsentAssumption
    <2>2. CASE m # n
      BY <1>1, <2>2, Applied
    <2> QED
      BY <2>1, <2>2
  <1>2. ASSUME NEW m \in Names, Taint(m) \/ Untaint(m)
        PROVE  \/ node'[n] = node[n]
               \/ node'[n] # Absent /\ node'[n].nics = node[n].nics /\ node'[n].addresses = node[n].addresses
    BY <1>2, Tainted, AbsentAssumption
  <1>3. ASSUME NEW m \in Names, DeleteNode(m)
        PROVE  node'[n] = node[n] \/ (node'[n] = Absent /\ lifecycle[n] = "delete")
    BY <1>3, <1>t DEF DeleteNode, TypeOK
  <1>4. ASSUME NEW s \in ServerIds, NEW p, Register(s, p) PROVE node'[n] = node[n]
    BY <1>4, <1>t DEF Register, TypeOK
  <1>5. ASSUME NEW m \in Names, AskMetadata(m) \/ AskExists(m) \/ AskShutdown(m) PROVE node' = node
    BY <1>5 DEF AskMetadata, AskExists, AskShutdown
  <1>7. ASSUME NEW m \in Names, ApplyMetadata(m), node[m] = Absent PROVE node' = node
    BY <1>7 DEF ApplyMetadata
  <1>6. ASSUME \/ \E s \in ServerIds, name \in Names, nics \in NicSets : CreateServer(s, name, nics)
               \/ \E s \in ServerIds : ChangeServer(s) \/ Stopped(s)
               \/ UNCHANGED vars
        PROVE  node' = node
    BY <1>6 DEF CreateServer, ChangeServer, Stopped, vars
  <1> QED
    BY <1>1, <1>2, <1>3, <1>4, <1>5, <1>6, <1>7 DEF Next, NodeController, LifecycleController

\* The lifecycle controller deletes a node only when its server, or the one of its provider
\* id, is gone: not after a failed call, nor for a provider id of another region or one that
\* does not parse.
THEOREM NoEviction == Spec => NeverEvicted
  <1>1. InstancesInv /\ [Next]_vars =>
           [\A n \in Names : node[n] # Absent /\ node'[n] = Absent =>
              \/ ~Alive(node[n].host)
              \/ node[n].provider # Absent /\ ~Alive(node[n].provider.id)]_vars
    <2> SUFFICES ASSUME InstancesInv, [Next]_vars, NEW n \in Names, node[n] # Absent, node'[n] = Absent
                 PROVE  Orphaned(n)
      BY DEF Orphaned
    <2>1. lifecycle[n] = "delete"
      BY NodeStep
    <2> QED
      BY <2>1 DEF InstancesInv, NodeInv
  <1> QED
    BY <1>1, InstancesInvariant, PTL DEF Spec, NeverEvicted


-----------------------------------------------------------------------------
\* The order of the API does not reach the node.  Interfaces of one server are told apart
\* by their networks; where two lie in one network the code keeps the order of the API.

\* The networks of a server's interfaces differ.
OwnNetworks == \A nics \in NicSets : \A x, y \in nics : x.network = y.network => x = y

Before(nics, x) == {y \in nics : y.network < x.network}
Rank(nics, x) == Cardinality(Before(nics, x)) + 1

\* By how many a network is preceded tells it from the others.
LEMMA RankInjective ==
  ASSUME OwnNetworks, NEW nics \in NicSets, IsFiniteSet(nics), NEW x \in nics, NEW y \in nics,
         Rank(nics, x) = Rank(nics, y)
  PROVE  x = y
  <1>1. \A z \in nics : z.network \in Nat
    BY InstancesAssumption DEF Nics
  <1>2. ASSUME NEW u \in nics, NEW v \in nics, u.network < v.network
        PROVE  Rank(nics, u) # Rank(nics, v)
    <2>1. /\ Before(nics, v) \subseteq nics /\ Before(nics, u) \subseteq Before(nics, v)
          /\ u \in Before(nics, v) /\ u \notin Before(nics, u)
      BY <1>1, <1>2 DEF Before
    <2>2. IsFiniteSet(Before(nics, v)) /\ IsFiniteSet(Before(nics, u))
      BY <2>1, FS_Subset
    <2>3. Cardinality(Before(nics, u)) # Cardinality(Before(nics, v))
      BY <2>1, <2>2, FS_Subset
    <2>4. Cardinality(Before(nics, u)) \in Nat /\ Cardinality(Before(nics, v)) \in Nat
      BY <2>2, FS_CardinalityType
    <2> QED
      BY <2>3, <2>4 DEF Rank
  <1>3. ~(x.network < y.network) /\ ~(y.network < x.network)
    BY <1>2
  <1>4. x.network = y.network
    BY <1>1, <1>3
  <1> QED
    BY <1>4 DEF OwnNetworks

LEMMA RankRange ==
  ASSUME NEW nics \in NicSets, IsFiniteSet(nics), NEW x \in nics
  PROVE  Rank(nics, x) \in 1 .. Cardinality(nics)
  <1>1. Before(nics, x) \subseteq nics \ {x} /\ IsFiniteSet(nics \ {x})
    BY FS_RemoveElement, InstancesAssumption DEF Before, Nics
  <1>2. Cardinality(nics \ {x}) = Cardinality(nics) - 1 /\ Cardinality(nics) \in Nat
    BY FS_RemoveElement, FS_CardinalityType
  <1>3. Cardinality(Before(nics, x)) \in Nat /\ Cardinality(Before(nics, x)) <= Cardinality(nics \ {x})
    BY <1>1, FS_Subset, FS_CardinalityType
  <1> QED
    BY <1>2, <1>3 DEF Rank

\* An order of the interfaces lists every one of them once.
LEMMA OrderBijective ==
  ASSUME NEW nics, IsFiniteSet(nics), NEW order \in SetToSeqs(nics)
  PROVE  /\ order \in [1 .. Cardinality(nics) -> nics] /\ Cardinality(nics) \in Nat
         /\ \A i, j \in 1 .. Cardinality(nics) : order[i] = order[j] => i = j
         /\ \A x \in nics : \E i \in 1 .. Cardinality(nics) : order[i] = x
  <1> DEFINE D == 1 .. Cardinality(nics)
  <1>1. Cardinality(nics) \in Nat
    BY FS_CardinalityType
  <1>2. order \in [D -> nics] /\ \A i, j \in D : order[i] = order[j] => i = j
    BY DEF SetToSeqs
  <1>3. order \in Injection(D, nics)
    BY <1>2 DEF Injection, IsInjective
  <1>4. Cardinality(D) = Cardinality(nics)
    BY <1>1, FS_Interval
  <1>5. order \in Surjection(D, nics)
    BY <1>3, <1>4, FS_Injection
  <1> QED
    BY <1>1, <1>2, <1>5 DEF Surjection


\* Sorting puts every interface at its rank, whatever the order was.
LEMMA SortedByRank ==
  ASSUME OwnNetworks, NEW nics \in NicSets, IsFiniteSet(nics), NEW order \in SetToSeqs(nics)
  PROVE  /\ Sorted(order) = [k \in 1 .. Cardinality(nics) |-> Sorted(order)[k]]
         /\ \A k \in 1 .. Cardinality(nics) :
               Sorted(order)[k] \in nics /\ Rank(nics, Sorted(order)[k]) = k
  <1> DEFINE D == 1 .. Cardinality(nics)
             Earlier(i) == {j \in DOMAIN order :
                              \/ order[j].network < order[i].network
                              \/ order[j].network = order[i].network /\ j < i}
             Position(i) == Cardinality(Earlier(i)) + 1
             At(k) == CHOOSE i \in DOMAIN order : Position(i) = k
  <1>1. /\ DOMAIN order = D /\ order \in [D -> nics] /\ Cardinality(nics) \in Nat
        /\ \A i, j \in D : order[i] = order[j] => i = j
        /\ \A x \in nics : \E i \in D : order[i] = x
    BY OrderBijective
  <1>2. \A i \in D : Position(i) = Rank(nics, order[i])
    <2> SUFFICES ASSUME NEW i \in D PROVE Position(i) = Rank(nics, order[i])
      OBVIOUS
    <2>1. Earlier(i) = {j \in D : order[j] \in Before(nics, order[i])}
      <3>1. \A j \in D : order[j].network = order[i].network => j = i
        BY <1>1 DEF OwnNetworks
      <3>2. \A j \in D : ~(order[j].network = order[i].network /\ j < i)
        BY <1>1, <3>1
      <3> QED
        BY <1>1, <3>2 DEF Before
    <2>2. IsFiniteSet(Earlier(i))
      <3>1. Earlier(i) \subseteq D /\ IsFiniteSet(D)
        BY <1>1, <2>1, FS_Interval
      <3> QED
        BY <3>1, FS_Subset
    <2> DEFINE f == [j \in Earlier(i) |-> order[j]]
               E == Earlier(i)
               B == Before(nics, order[i])
    <2>3. f \in [E -> B] /\ \A j, k \in E : f[j] = f[k] => j = k
      BY <1>1, <2>1
    <2>4. \A x \in B : \E j \in E : f[j] = x
      BY <1>1, <2>1 DEF Before
    <2>5. f \in Bijection(E, B)
      <3> HIDE DEF f, E, B
      <3> QED
        BY <2>3, <2>4 DEF Bijection, Injection, Surjection, IsInjective
    <2>6. Cardinality(B) = Cardinality(E)
      <3>1. ExistsBijection(E, B)
        BY <2>5 DEF ExistsBijection
      <3> QED
        BY <2>2, <3>1, FS_Bijection
    <2> QED
      BY <2>6 DEF Rank
  <1>3. \A k \in D : \E i \in D : Position(i) = k
    <2> DEFINE g == [i \in D |-> Rank(nics, order[i])]
    <2>1. g \in [D -> D]
      BY <1>1, RankRange
    <2>2. \A i, j \in D : g[i] = g[j] => i = j
      BY <1>1, RankInjective
    <2>3. IsFiniteSet(D)
      BY <1>1, FS_Interval
    <2>4. g \in Surjection(D, D)
      <3>1. g \in Injection(D, D)
        <4> HIDE DEF g
        <4> QED
          BY <2>1, <2>2 DEF Injection, IsInjective
      <3> QED
        BY <2>3, <3>1, FS_Injection
    <2>5. \A k \in D : \E i \in D : g[i] = k
      <3> HIDE DEF g
      <3> QED
        BY <2>4 DEF Surjection
    <2> QED
      BY <1>2, <2>5
  <1>4. \A k \in D : At(k) \in D /\ Position(At(k)) = k
    <2> SUFFICES ASSUME NEW k \in D PROVE At(k) \in D /\ Position(At(k)) = k
      OBVIOUS
    <2>1. \E i \in DOMAIN order : Position(i) = k
      BY <1>1, <1>3
    <2> HIDE DEF Position
    <2>2. At(k) \in DOMAIN order /\ Position(At(k)) = k
      BY <2>1, Zenon
    <2> QED
      BY <1>1, <2>2
  <1>5. Sorted(order) = [k \in D |-> order[At(k)]]
    BY <1>1 DEF Sorted
  <1> HIDE DEF At, Position
  <1>6. \A k \in D : order[At(k)] \in nics /\ Rank(nics, order[At(k)]) = k
    BY <1>1, <1>2, <1>4
  <1> QED
    BY <1>5, <1>6

LEMMA SortedUnique ==
  ASSUME OwnNetworks, NEW nics \in NicSets, IsFiniteSet(nics),
         NEW order \in SetToSeqs(nics), NEW other \in SetToSeqs(nics)
  PROVE  Sorted(order) = Sorted(other)
  <1>1. ASSUME NEW k \in 1 .. Cardinality(nics) PROVE Sorted(order)[k] = Sorted(other)[k]
    BY SortedByRank, RankInjective
  <1> QED
    BY <1>1, SortedByRank

\* Every listing of the same interfaces gives the same addresses in the same order.
LEMMA ListingUnique ==
  ASSUME OwnNetworks, \A nics \in NicSets : IsFiniteSet(nics),
         NEW n \in Names, NEW l \in Listings[n], NEW m \in Listings[n], l.nics = m.nics
  PROVE  l.addresses = m.addresses
  <1>a. PICK ln \in NicSets : \E lo \in SetToSeqs(ln) :
           l = [nics |-> ln, addresses |-> NodeAddresses(n, sortNics(lo))]
    BY DEF Listings
  <1>b. PICK mn \in NicSets : \E mo \in SetToSeqs(mn) :
           m = [nics |-> mn, addresses |-> NodeAddresses(n, sortNics(mo))]
    BY DEF Listings
  <1>1. PICK lo \in SetToSeqs(ln) : l = [nics |-> ln, addresses |-> NodeAddresses(n, sortNics(lo))]
    BY <1>a
  <1>2. PICK mo \in SetToSeqs(mn) : m = [nics |-> mn, addresses |-> NodeAddresses(n, sortNics(mo))]
    BY <1>b
  <1>3. ln = mn
    BY <1>1, <1>2
  <1>4. Sorted(lo) = Sorted(mo)
    BY <1>3, SortedUnique
  <1>5. sortNics(lo) = sortNics(mo)
    BY <1>4 DEF sortNics
  <1> QED
    BY <1>1, <1>2, <1>5

\* The addresses of a node, and their order, change only with the interfaces of its server,
\* though the API lists the interfaces in any order: sortNics undoes it, as long as no two
\* interfaces of a server lie in one network.
THEOREM AddressesKept ==
  ASSUME OwnNetworks, \A nics \in NicSets : IsFiniteSet(nics)
  PROVE  Spec => AddressesStable
  <1>1. InstancesInv /\ [Next]_vars =>
           [\A n \in Names :
              node[n] # Absent /\ node'[n] # Absent /\ node[n].nics # {} /\ node'[n].nics = node[n].nics =>
                 node'[n].addresses = node[n].addresses]_vars
    <2> SUFFICES ASSUME InstancesInv, [Next]_vars, NEW n \in Names, node[n] # Absent, node'[n] # Absent,
                        node[n].nics # {}, node'[n].nics = node[n].nics
                 PROVE  node'[n].addresses = node[n].addresses
      OBVIOUS
    <2>1. CASE metadata[n] # Absent /\ node'[n].nics = metadata[n].nics
                 /\ node'[n].addresses = metadata[n].addresses
      <3>1. /\ [nics |-> node[n].nics, addresses |-> node[n].addresses] \in Listings[n]
            /\ [nics |-> metadata[n].nics, addresses |-> metadata[n].addresses] \in Listings[n]
        BY <2>1 DEF InstancesInv, NodeInv, Listed
      <3>2. PICK l \in Listings[n] : l.nics = node[n].nics /\ l.addresses = node[n].addresses
        BY <3>1
      <3>3. PICK m \in Listings[n] : m.nics = metadata[n].nics /\ m.addresses = metadata[n].addresses
        BY <3>1
      <3> QED
        BY <2>1, <3>2, <3>3, ListingUnique
    <2> QED
      BY <2>1, NodeStep
  <1> QED
    BY <1>1, InstancesInvariant, PTL DEF Spec, AddressesStable

=============================================================================
