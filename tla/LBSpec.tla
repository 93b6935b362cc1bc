-------------------------------- MODULE LBSpec --------------------------------
(***************************************************************************)
(* What a service asks of its load balancer: lbSpecFromService and         *)
(* compareLBwithSpec of pkg/ccm/loadbalancer_spec.go with pkg/cmp.         *)
(*                                                                         *)
(* The user edits annotations and ports, nodes come and go, the controller *)
(* is restarted with other options, and now and then it reconciles: the    *)
(* load balancer that results depends on all that went before.  The calls  *)
(* of the reconciliation, what can fail between them and the credentials   *)
(* are the business of module LoadBalancer; here they are one step.        *)
(* External is the API: it picks an ephemeral address, may keep targets in *)
(* another order, and refuses to change what cannot be changed.  Someone   *)
(* may use it past the controller, and the load balancer may be older than *)
(* this version of the controller.                                         *)
(***************************************************************************)
EXTENDS Integers, SequencesExt

CONSTANTS
    Absent,         \* an annotation that is not there, a pointer that is nil
    Bad,            \* an annotation that does not parse
    Values,         \* Values[f]: what users and operators may set field f to
    Start,          \* the fields of the service and options to begin with
    Plans, Flavors, \* available plans; plans of the flavors of yawol
    DefaultPlan, DefaultTCPIdleTimeout, DefaultUDPIdleTimeout,
    EphemeralIP,    \* the address the API picks
    HealthChecks,   \* what someone may set up for a pool past the controller
    MaxEdits        \* bound on edits

\* Durations count half seconds.
ASSUME SpecAssumption ==
    /\ Absent # Bad /\ EphemeralIP # Absent
    /\ DOMAIN Start = DOMAIN Values
    /\ \A f \in DOMAIN Values : Start[f] \in Values[f]
    /\ {"nodes", "ports"} \subseteq DOMAIN Values
    /\ \A list \in Values["nodes"] \cup Values["ports"] : list \in Seq(Range(list))
    /\ DefaultPlan \in Plans /\ \A f \in DOMAIN Flavors : Flavors[f] \in Plans
    /\ DefaultTCPIdleTimeout \in Nat /\ DefaultUDPIdleTimeout \in Nat
    /\ MaxEdits \in Nat

VARIABLES
    svc,       \* annotations and spec of the service, nodes, options of the controller
    lb,        \* the load balancer of the API, or Absent
    outcome,   \* what the last reconciliation did
    edits      \* edits left

vars == <<svc, lb, outcome, edits>>

TypeOK ==
    /\ \A f \in DOMAIN Values : svc[f] \in Values[f]
    /\ outcome \in {"none", "created", "updated", "kept", "invalid", "immutable", "refused"}
    /\ lb # Absent => lb.planId \in Plans /\ lb.private \in BOOLEAN /\ lb.ephemeral \in BOOLEAN
    /\ edits \in Nat

-----------------------------------------------------------------------------
\* The parts of lbSpecFromService, each with the errors it returns.

Found(v) == v # Absent
IsTrue(v) == v = "true"          \* ParseBool, errors ignored
Conflict(v, yawol) == Found(v) /\ Found(yawol) /\ IsTrue(v) # IsTrue(yawol)

InternalInvalid(s) == s.internal = Bad \/ Conflict(s.internal, s.yawolInternal)
Private(s) == IF Found(s.yawolInternal) THEN IsTrue(s.yawolInternal) ELSE IsTrue(s.internal)

PlanInvalid(s) ==
    IF Found(s.plan) THEN s.plan \notin Plans
    ELSE Found(s.flavor) /\ s.flavor \notin DOMAIN Flavors

getPlanID(s) ==
    CASE Found(s.plan) -> s.plan
      [] ~Found(s.plan) /\ Found(s.flavor) -> Flavors[s.flavor]
      [] OTHER -> DefaultPlan

Ephemeral(s) == ~Found(s.address) /\ ~Found(s.yawolAddress) /\ ~Private(s)
Address(s) == IF Found(s.address) THEN s.address ELSE s.yawolAddress
AddressInvalid(s) ==
    \/ Found(s.address) /\ Found(s.yawolAddress) /\ s.address # s.yawolAddress
    \/ ~Private(s) /\ ~Ephemeral(s) /\ Address(s) = Bad

\* A duration of yawol that does not parse counts as zero in the comparison.
TimeoutInvalid(v, yawol) ==
    \/ v = Bad
    \/ Found(v) /\ Found(yawol) /\ v # (IF yawol = Bad THEN 0 ELSE yawol)

Timeout(v, yawol, default) ==
    CASE Found(v) -> v
      [] ~Found(v) /\ Found(yawol) /\ yawol # Bad -> yawol
      [] OTHER -> default

\* "%.0fs" of a duration: whole seconds, a half to the even side.
Seconds(d) == IF d % 2 = 0 THEN d \div 2 ELSE 2 * ((d + 1) \div 4)

ProxyEnabled(s) == IsTrue(IF Found(s.proxy) THEN s.proxy ELSE s.yawolProxy)
ProxyFilter(s) == IF Found(s.filter) THEN s.filter ELSE s.yawolFilter
ProxyInvalid(s) ==
    \/ s.proxy = Bad \/ Conflict(s.proxy, s.yawolProxy)
    \/ /\ ProxyEnabled(s)
       /\ \/ Found(s.filter) /\ Found(s.yawolFilter) /\ s.filter # s.yawolFilter
          \/ ProxyFilter(s) = Bad

\* Without a filter every TCP port speaks the proxy protocol.
proxyProtocolEnableForPort(s, port) ==
    /\ ProxyEnabled(s)
    /\ ~Found(ProxyFilter(s)) \/ \E i \in DOMAIN ProxyFilter(s) : ProxyFilter(s)[i] = port

\* Nodes without an internal address are no targets: the k-th target is the k-th node that
\* has one.
Addressed(s) == {i \in DOMAIN s.nodes : Found(s.nodes[i].ip)}
TargetNode(s, k) ==
    CHOOSE i \in Addressed(s) : Cardinality({j \in Addressed(s) : j <= i}) = k
Targets(s) ==
    [k \in 1 .. Cardinality(Addressed(s)) |->
       LET n == s.nodes[TargetNode(s, k)] IN [name |-> n.name, ip |-> n.ip]]

PortName(p) == IF p.name = <<>> THEN <<p.protocol, p.port>> ELSE p.name

Listeners(s) ==
    [i \in DOMAIN s.ports |->
       LET p == s.ports[i] IN
       [name |-> PortName(p), port |-> p.port, pool |-> PortName(p),
        protocol |-> IF p.protocol = "TCP" /\ proxyProtocolEnableForPort(s, p.port)
                     THEN "TCP_PROXY" ELSE p.protocol,
        idle |-> Seconds(IF p.protocol = "TCP"
                         THEN Timeout(s.tcpIdle, s.yawolTcpIdle, DefaultTCPIdleTimeout)
                         ELSE Timeout(s.udpIdle, s.yawolUdpIdle, DefaultUDPIdleTimeout))]]

TargetPools(s) ==
    [i \in DOMAIN s.ports |->
       [name |-> PortName(s.ports[i]), port |-> s.ports[i].nodePort,
        targets |-> Targets(s), sourceIP |-> IsTrue(s.session), check |-> Absent]]

SourceRanges(s) ==
    CASE s.ranges # <<>> -> s.ranges
      [] s.ranges = <<>> /\ Found(s.yawolRanges) -> s.yawolRanges
      [] OTHER -> <<>>

Networks(s) ==
    IF Found(s.listenerNetwork)
    THEN <<[role |-> "targets", id |-> s.network], [role |-> "listeners", id |-> s.listenerNetwork]>>
    ELSE <<[role |-> "both", id |-> s.network]>>

Invalid(s) ==
    \/ InternalInvalid(s) \/ PlanInvalid(s) \/ AddressInvalid(s)
    \/ TimeoutInvalid(s.tcpIdle, s.yawolTcpIdle) \/ TimeoutInvalid(s.udpIdle, s.yawolUdpIdle)
    \/ ProxyInvalid(s) \/ s.session = Bad
    \/ \E i \in DOMAIN s.ports : s.ports[i].protocol \notin {"TCP", "UDP"}

lbSpecFromService(s) ==
    [private |-> Private(s), ephemeral |-> Ephemeral(s),
     address |-> IF Private(s) \/ Ephemeral(s) THEN Absent ELSE Address(s),
     planId |-> getPlanID(s), networks |-> Networks(s), listeners |-> Listeners(s),
     pools |-> TargetPools(s), ranges |-> SourceRanges(s),
     observability |-> s.observability, labels |-> s.labels,
     disableTargetSecurityGroupAssignment |-> TRUE]

-----------------------------------------------------------------------------
\* compareLBwithSpec.

\* Each element of a takes the first element of b that equals it and is not taken yet:
\* match[i] is the one that the i-th takes.
SliceEqualUnordered(a, b) ==
    /\ Len(a) = Len(b)
    /\ \E match \in [DOMAIN a -> DOMAIN b] :
          \A i \in DOMAIN a :
             LET free == {j \in DOMAIN b : b[j] = a[i] /\ \A k \in 1 .. i - 1 : match[k] # j}
             IN  match[i] \in free /\ \A j \in free : match[i] <= j

\* Mutant: a static address is compared before it is known to be wanted.
AddressChangedAlways(l, spec) == l.address # spec.address

AddressChanged(l, spec) ==
    IF Found(spec.address) THEN l.address # spec.address
    ELSE ~l.private /\ ~l.ephemeral

NetworksChanged(l, spec) == l.networks # spec.networks

\* Mutant: the networks are looked at only while everything else is unchanged.
ImmutableUnlessMutable(l, spec) ==
    \/ l.private # spec.private \/ AddressChanged(l, spec)
    \/ l.listeners = spec.listeners /\ NetworksChanged(l, spec)

ImmutableChanged(l, spec) ==
    l.private # spec.private \/ AddressChanged(l, spec) \/ NetworksChanged(l, spec)

\* A listener's options are those of its protocol; the lists are compared in order.
ListenersFulfilled(l, spec) == l.listeners = spec.listeners

\* Mutant: a pool without a health check asks for none in particular.
PoolsUnchecked(l, spec) ==
    /\ Len(l.pools) = Len(spec.pools)
    /\ \A i \in DOMAIN l.pools :
          LET x == l.pools[i] y == spec.pools[i] IN
          /\ x.name = y.name /\ x.port = y.port /\ x.sourceIP = y.sourceIP
          /\ Found(y.check) => x.check = y.check
          /\ SliceEqualUnordered(x.targets, y.targets)

PoolsFulfilled(l, spec) ==
    /\ Len(l.pools) = Len(spec.pools)
    /\ \A i \in DOMAIN l.pools :
          LET x == l.pools[i] y == spec.pools[i] IN
          /\ x.name = y.name /\ x.port = y.port /\ x.sourceIP = y.sourceIP
          /\ x.check = y.check
          /\ SliceEqualUnordered(x.targets, y.targets)

Fulfills(l, spec) ==
    /\ l.observability = spec.observability
    /\ Found(spec.address) => ~l.ephemeral       \* else the address is to be promoted
    /\ ListenersFulfilled(l, spec) /\ PoolsFulfilled(l, spec)
    /\ l.planId = spec.planId /\ l.ranges = spec.ranges

-----------------------------------------------------------------------------
\* The API.

\* Targets are a set to the API: what comes back may be in another order.
Orders(list) ==
    {[i \in DOMAIN list |-> list[order[i]]] : order \in Bijection(DOMAIN list, DOMAIN list)}

Reordered(pools) ==
    LET lists == UNION {Orders(pools[i].targets) : i \in DOMAIN pools}
    IN  {[i \in DOMAIN pools |-> [pools[i] EXCEPT !.targets = targets[i]]] :
           targets \in {t \in [DOMAIN pools -> lists] :
                          \A i \in DOMAIN pools : t[i] \in Orders(pools[i].targets)}}

Stored(spec, address, disabled) ==
    {[spec EXCEPT !.address = address, !.pools = pools,
                  !.disableTargetSecurityGroupAssignment = disabled] :
       pools \in Reordered(spec.pools)}

FirstAddress(spec) == IF spec.ephemeral THEN EphemeralIP ELSE spec.address

\* An ephemeral address may become a static one, never the other way round.
Accepts(l, spec) ==
    /\ l.private = spec.private /\ l.networks = spec.networks
    /\ l.private \/ l.address = spec.address \/ (l.ephemeral /\ spec.ephemeral)

-----------------------------------------------------------------------------

\* Load balancers from before the controller disabled the assignment of security groups do
\* not have it disabled.
Init ==
    /\ svc = Start
    /\ \/ lb = Absent
       \/ /\ ~Invalid(Start)
          /\ LET spec == lbSpecFromService(Start)
             IN  lb \in Stored(spec, FirstAddress(spec), Absent)
    /\ outcome = "none"
    /\ edits = MaxEdits

Edit(f, v) ==
    /\ edits > 0
    /\ svc[f] # v
    /\ svc' = [svc EXCEPT ![f] = v]
    /\ outcome' = "none"
    /\ edits' = edits - 1
    /\ UNCHANGED lb

\* External: someone configures a health check at the API.
SetHealthCheck ==
    /\ edits > 0
    /\ lb # Absent
    /\ \E i \in DOMAIN lb.pools, check \in HealthChecks :
          lb' = [lb EXCEPT !.pools[i].check = check]
    /\ outcome' = "none"
    /\ edits' = edits - 1
    /\ UNCHANGED svc

\* EnsureLoadBalancer, as far as the specification is concerned.
Reconcile ==
    /\ outcome = "none"
    /\ LET spec == lbSpecFromService(svc) IN
       CASE Invalid(svc) -> outcome' = "invalid" /\ UNCHANGED lb
         [] ~Invalid(svc) /\ lb = Absent ->
              /\ outcome' = "created"
              /\ lb' \in Stored(spec, FirstAddress(spec),
                               spec.disableTargetSecurityGroupAssignment)
         [] ~Invalid(svc) /\ lb # Absent ->
              CASE ImmutableChanged(lb, spec) -> outcome' = "immutable" /\ UNCHANGED lb
                [] ~ImmutableChanged(lb, spec) /\ Fulfills(lb, spec) ->
                     outcome' = "kept" /\ UNCHANGED lb
                [] ~ImmutableChanged(lb, spec) /\ ~Fulfills(lb, spec) ->
                     IF Accepts(lb, spec)
                     THEN /\ outcome' = "updated"
                          /\ lb' \in Stored(spec, lb.address,
                                           lb.disableTargetSecurityGroupAssignment)
                     ELSE outcome' = "refused" /\ UNCHANGED lb
    /\ UNCHANGED <<svc, edits>>

Next ==
    \/ \E f \in DOMAIN Values : \E v \in Values[f] : Edit(f, v)
    \/ SetHealthCheck
    \/ Reconcile

Spec == Init /\ [][Next]_vars

-----------------------------------------------------------------------------
\* Properties.

\* compareLBwithSpec reports an immutable change exactly when the API would refuse the
\* update, whatever else changed with it: no update is refused, no service is stuck
\* without need.
ImmutableIsExact ==
    /\ outcome # "refused"
    /\ outcome = "immutable" => ~Accepts(lb, lbSpecFromService(svc))

\* After a create or an update the load balancer fulfils the specification it was made
\* from: the next reconciliation does not update again.
NoUpdateLoop ==
    outcome \in {"created", "updated"} =>
       LET spec == lbSpecFromService(svc)
       IN  ~ImmutableChanged(lb, spec) /\ Fulfills(lb, spec)

\* Two lists hold the same elements, equally often.
Occurrences(list, x) == {i \in DOMAIN list : list[i] = x}
SameTargets(a, b) ==
    \A x \in Range(a) \cup Range(b) :
       Cardinality(Occurrences(a, x)) = Cardinality(Occurrences(b, x))

\* Everything that a field of its own says, but for labels and security groups.
FieldsAsNew ==
    outcome \in {"created", "updated", "kept"} =>
       LET spec == lbSpecFromService(svc) IN
       /\ lb.address = FirstAddress(spec)
       /\ lb.private = spec.private /\ lb.ephemeral = spec.ephemeral
       /\ lb.planId = spec.planId /\ lb.networks = spec.networks
       /\ lb.listeners = spec.listeners /\ lb.ranges = spec.ranges
       /\ lb.observability = spec.observability

\* The target pools, but for the order of targets.
PoolsAsNew ==
    outcome \in {"created", "updated", "kept"} =>
       LET pools == lbSpecFromService(svc).pools IN
       /\ Len(lb.pools) = Len(pools)
       /\ \A i \in DOMAIN pools :
             /\ lb.pools[i].name = pools[i].name /\ lb.pools[i].port = pools[i].port
             /\ lb.pools[i].sourceIP = pools[i].sourceIP
             /\ lb.pools[i].check = pools[i].check
             /\ SameTargets(lb.pools[i].targets, pools[i].targets)

\* What a reconciliation leaves does not depend on the way there: it is what a load
\* balancer created afresh for the service would be, labels and the order of targets
\* aside, health checks that someone set up included.  The one thing that does depend on
\* it is the assignment of security groups, which no reconciliation changes: it is as it
\* was when the load balancer was created.
NoHistory ==
    /\ [](FieldsAsNew /\ PoolsAsNew)
    /\ [][lb # Absent => lb'.disableTargetSecurityGroupAssignment
                            = lb.disableTargetSecurityGroupAssignment]_vars

==============================================================================
