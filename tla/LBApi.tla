-------------------------------- MODULE LBApi --------------------------------
(***************************************************************************)
(* The STACKIT load balancer API as pkg/ccm uses it through                *)
(* pkg/stackit/client/loadbalancer.go: load balancers, one per service     *)
(* name, and observability credentials, found by their display name.       *)
(*                                                                         *)
(* The service is external.  What is modelled is what the code relies on:  *)
(*  - every change of a load balancer moves its version, and an update     *)
(*    must carry the version it was computed from;                         *)
(*  - credentials that a load balancer references cannot be deleted;       *)
(*  - the service does not check that a reference names live credentials,  *)
(*    so nothing here hides a controller that writes a dangling one.       *)
(* Each operator is the effect of a call that the service accepts.         *)
(***************************************************************************)
EXTENDS Naturals, FiniteSets

CONSTANTS
    Services,       \* the Kubernetes services; a service's load balancer and
                    \* credentials carry the name GetLoadBalancerName gives
    CredRefs,       \* references the API hands out for credentials
    Secrets,        \* user name and password of metricsRemoteWrite
    Endpoints,      \* push URL of metricsRemoteWrite
    Networks,       \* the part of a load balancer that cannot be changed
    Pools,          \* target pools, one per service port
    NodeLists,      \* the lists of nodes that targets are made from
    None            \* an absent pointer

ASSUME NoneAssumption ==
    /\ None \notin Services
    /\ None \notin CredRefs
    /\ None \notin Secrets
    /\ None \notin Endpoints
    /\ None \notin Networks
    /\ None \notin NodeLists

VARIABLES
    lb,             \* lb[s]: the load balancer named after service s
    owner,          \* owner[c]: the service named by c's display name, or None
                    \* when there are no credentials c
    secret          \* secret[c]: what credentials c hold

api == <<lb, owner, secret>>

Statuses == {"NONE", "PENDING", "READY", "ERROR", "TERMINATING"}

\* The fields of a load balancer that a payload carries.
Payloads == [ref     : CredRefs \cup {None},
             push    : Endpoints \cup {None},
             net     : Networks \cup {None},
             targets : [Pools -> NodeLists \cup {None}]]

NoPayload == [ref |-> None, push |-> None, net |-> None,
              targets |-> [p \in Pools |-> None]]

LoadBalancers == [status : Statuses, version : Nat, spec : Payloads]

NoLoadBalancer == [status |-> "NONE", version |-> 0, spec |-> NoPayload]

ApiTypeOK ==
    /\ lb \in [Services -> LoadBalancers]
    /\ owner \in [CredRefs -> Services \cup {None}]
    /\ secret \in [CredRefs -> Secrets \cup {None}]

ApiInit ==
    /\ lb = [s \in Services |-> NoLoadBalancer]
    /\ owner = [c \in CredRefs |-> None]
    /\ secret = [c \in CredRefs |-> None]

Exists(s) == lb[s].status # "NONE"

Referenced(c) == \E s \in Services : lb[s].spec.ref = c

CredentialsOf(s) == {c \in CredRefs : owner[c] = s}

\* Credentials that the API agrees to delete.
Deletable(c) == owner[c] # None /\ ~Referenced(c)

\* The version that an update carries is the current one.
Current(s, version) == Exists(s) /\ version = lb[s].version

PoolsOf(payload) == {p \in Pools : payload.targets[p] # None}

-----------------------------------------------------------------------------

ApiCreateLB(s, payload) ==
    /\ ~Exists(s)
    /\ \E st \in {"PENDING", "READY"} :
          lb' = [lb EXCEPT ![s] = [status |-> st, version |-> 1, spec |-> payload]]
    /\ UNCHANGED <<owner, secret>>

\* An update may or may not send the load balancer back to provisioning.
ApiUpdateLB(s, version, payload) ==
    /\ Current(s, version)
    /\ \E st \in {lb[s].status, "PENDING"} :
          /\ lb[s].status = "TERMINATING" => st = "TERMINATING"
          /\ lb' = [lb EXCEPT ![s] = [status  |-> st,
                                      version |-> lb[s].version + 1,
                                      spec    |-> payload]]
    /\ UNCHANGED <<owner, secret>>

\* The same payload with other targets in one pool.
WithTargets(payload, pool, nodeList) ==
    [ref |-> payload.ref, push |-> payload.push, net |-> payload.net,
     targets |-> [payload.targets EXCEPT ![pool] = nodeList]]

\* The same payload without observability options.
WithoutObservability(payload) ==
    [ref |-> None, push |-> None, net |-> payload.net, targets |-> payload.targets]

\* The same load balancer in another status.
WithStatus(balancer, st) ==
    [status |-> st, version |-> balancer.version, spec |-> balancer.spec]

\* Repeating the update of a pool changes nothing.
ApiUpdateTargetPool(s, pool, nodeList) ==
    /\ Exists(s)
    /\ pool \in PoolsOf(lb[s].spec)
    /\ IF lb[s].spec.targets[pool] = nodeList THEN lb' = lb
       ELSE lb' = [lb EXCEPT ![s] = [status  |-> lb[s].status,
                                     version |-> lb[s].version + 1,
                                     spec    |-> WithTargets(lb[s].spec, pool, nodeList)]]
    /\ UNCHANGED <<owner, secret>>

\* "Deleting a load balancer doesn't return an error if [it] cannot be found."
ApiDeleteLB(s) ==
    /\ lb' = IF Exists(s) THEN [lb EXCEPT ![s] = WithStatus(lb[s], "TERMINATING")] ELSE lb
    /\ UNCHANGED <<owner, secret>>

ApiCreateCredentials(s, c, sec) ==
    /\ owner' = [owner EXCEPT ![c] = s]
    /\ secret' = [secret EXCEPT ![c] = sec]
    /\ lb' = lb

ApiUpdateCredentials(c, sec) ==
    /\ owner[c] # None
    /\ secret' = [secret EXCEPT ![c] = sec]
    /\ UNCHANGED <<lb, owner>>

ApiDeleteCredentials(c) ==
    /\ Deletable(c)
    /\ owner' = [owner EXCEPT ![c] = None]
    /\ secret' = [secret EXCEPT ![c] = None]
    /\ lb' = lb

-----------------------------------------------------------------------------
\* What the service does on its own.

\* Provisioning ends.
ApiProvisioned(s) ==
    /\ lb[s].status = "PENDING"
    /\ lb' = [lb EXCEPT ![s] = WithStatus(lb[s], "READY")]
    /\ UNCHANGED <<owner, secret>>

\* A load balancer fails, or the operators repair a failed one.
ApiBreaks(s) ==
    /\ lb[s].status \in {"PENDING", "READY"}
    /\ lb' = [lb EXCEPT ![s] = WithStatus(lb[s], "ERROR")]
    /\ UNCHANGED <<owner, secret>>

ApiRepaired(s) ==
    /\ lb[s].status = "ERROR"
    /\ lb' = [lb EXCEPT ![s] = WithStatus(lb[s], "PENDING")]
    /\ UNCHANGED <<owner, secret>>

\* Termination ends.
ApiGone(s) ==
    /\ lb[s].status = "TERMINATING"
    /\ lb' = [lb EXCEPT ![s] = NoLoadBalancer]
    /\ UNCHANGED <<owner, secret>>

==============================================================================
