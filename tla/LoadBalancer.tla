----------------------------- MODULE LoadBalancer -----------------------------
(***************************************************************************)
(* The service handlers of the cloud controller manager                    *)
(* (pkg/ccm/loadbalancer.go): EnsureLoadBalancer with createLoadBalancer   *)
(* and reconcileObservabilityCredentials, UpdateLoadBalancer,              *)
(* GetLoadBalancer and EnsureLoadBalancerDeleted with cleanUpCredentials.  *)
(*                                                                         *)
(* Every call of the load balancer API is a step of its own, so the        *)
(* handlers of different services, host updates, the API's own changes, a  *)
(* lost answer and a restart of the controller fall between any two calls. *)
(* The service controller that calls the handlers (k8s.io/cloud-provider)  *)
(* is external: it runs at most one of Ensure and Delete per service at a  *)
(* time, queues a service whose handler failed again, and runs host        *)
(* updates from a worker of their own, at any moment of a handler.         *)
(***************************************************************************)
EXTENDS LBApi

CONSTANTS
    ServiceSpecs,     \* the load balancer services users may ask for
    RemoteWrites,     \* the metricsRemoteWrite configurations of a controller
    MaxDisturbances   \* bound on user changes, failed calls and restarts

\* valid: lbSpecFromService accepts the service; net: its immutable part;
\* pools: one target pool per port.
ASSUME SpecsAssumption ==
    /\ ServiceSpecs \subseteq [valid : BOOLEAN, net : Networks, pools : SUBSET Pools]
    /\ None \notin ServiceSpecs

ASSUME RemoteWritesAssumption ==
    /\ RemoteWrites \subseteq [push : Endpoints, secret : Secrets]
    /\ None \notin RemoteWrites

ASSUME BoundsAssumption == MaxDisturbances \in Nat

VARIABLES
    svc,        \* svc[s]: what the user asks for, None when s wants no load balancer
    nodes,      \* the nodes of the cluster
    metrics,    \* l.metricsRemoteWrite of the running controller
    dirty,      \* dirty[s]: s is in the service queue
    result,     \* result[s]: what the last handler of s returned
    pc,         \* pc[s]: the next call of the handler of s
    job,        \* job[s]: the service and nodes the handler was called with
    got,        \* got[s]: the load balancer the handler read (lb)
    obs,        \* obs[s]: reference in the observability options it will write
    todo,       \* todo[s]: listed credentials still to be deleted
    hostDirty,  \* hostDirty[s]: the nodes changed since the last host update
    hostJob,    \* hostJob[s]: service and nodes of a running host update, or None
    hostTodo,   \* hostTodo[s]: pools it has still to update
    raced,      \* raced[s]: history of the last node change, see ChangeNodes
    budget      \* disturbances left

request == <<svc, nodes, metrics>>
queue   == <<dirty, result>>
local   == <<job, got, obs, todo>>
hosts   == <<hostDirty, hostJob, hostTodo, raced>>
vars    == <<api, request, queue, pc, local, hosts, budget>>

Jobs == [svc : ServiceSpecs \cup {None}, nodes : NodeLists]

ASSUME JobsAssumption == None \notin Jobs

Calls == {"get", "list", "purge", "createCredentials", "updateCredentials",
          "createLB", "updateLB", "dropCredentials",
          "lookup", "getToDelete", "unreference", "deleteLB"}

Results == {"none", "error", "retry", "ready", "absent", "terminating", "deleted"}

TypeOK ==
    /\ ApiTypeOK
    /\ svc \in [Services -> ServiceSpecs \cup {None}]
    /\ nodes \in NodeLists
    /\ metrics \in RemoteWrites \cup {None}
    /\ dirty \in [Services -> BOOLEAN]
    /\ result \in [Services -> Results]
    /\ pc \in [Services -> Calls \cup {"idle", "compare"}]
    /\ job \in [Services -> Jobs]
    /\ got \in [Services -> LoadBalancers]
    /\ obs \in [Services -> CredRefs \cup {None}]
    /\ todo \in [Services -> SUBSET CredRefs]
    /\ hostDirty \in [Services -> BOOLEAN]
    /\ hostJob \in [Services -> Jobs \cup {None}]
    /\ hostTodo \in [Services -> SUBSET Pools]
    /\ raced \in [Services -> BOOLEAN]
    /\ budget \in Nat

Init ==
    /\ ApiInit
    /\ svc \in [Services -> ServiceSpecs \cup {None}]
    /\ nodes \in NodeLists
    /\ metrics \in RemoteWrites \cup {None}
    /\ dirty = [s \in Services |-> TRUE]
    /\ result = [s \in Services |-> "none"]
    /\ pc = [s \in Services |-> "idle"]
    /\ job = [s \in Services |-> [svc |-> None, nodes |-> nodes]]
    /\ got = [s \in Services |-> NoLoadBalancer]
    /\ obs = [s \in Services |-> None]
    /\ todo = [s \in Services |-> {}]
    /\ hostDirty = [s \in Services |-> FALSE]
    /\ hostJob = [s \in Services |-> None]
    /\ hostTodo = [s \in Services |-> {}]
    /\ raced = [s \in Services |-> FALSE]
    /\ budget = MaxDisturbances

-----------------------------------------------------------------------------
\* How a handler moves on.

Disturb == budget > 0 /\ budget' = budget - 1

\* The handler of s goes on to call `next`.
Continue(s, next) ==
    /\ pc' = [pc EXCEPT ![s] = next]
    /\ UNCHANGED <<queue, request, hosts>>

\* The handler of s returns r.  An error, wrapped as RetryError or not, puts the
\* service back into the queue.
Return(s, r) ==
    /\ pc' = [pc EXCEPT ![s] = "idle"]
    /\ result' = [result EXCEPT ![s] = r]
    /\ dirty' = [dirty EXCEPT ![s] = dirty[s] \/ r \in {"error", "retry"}]
    /\ got' = [got EXCEPT ![s] = NoLoadBalancer]
    /\ obs' = [obs EXCEPT ![s] = None]
    /\ todo' = [todo EXCEPT ![s] = {}]
    /\ UNCHANGED <<job, request, hosts>>

\* A call took effect, but its answer was lost (a timeout): the handler sees an error.
AnswerLost(s) == Disturb /\ Return(s, "error")

\* A call fails before it has any effect, or the API refuses it.
Refused(s) ==
    \/ pc[s] \in {"updateLB", "unreference"} /\ ~Current(s, got[s].version)
    \/ pc[s] = "createLB" /\ Exists(s)
    \/ pc[s] = "updateCredentials" /\ owner[got[s].spec.ref] = None
    \/ pc[s] = "dropCredentials" /\ ~Deletable(got[s].spec.ref)
    \/ pc[s] = "purge" /\ \E c \in todo[s] : ~Deletable(c)

CallFails(s) ==
    /\ pc[s] \in Calls
    /\ pc[s] = "purge" => todo[s] # {}
    /\ IF Refused(s) THEN budget' = budget ELSE Disturb
    /\ Return(s, "error")
    /\ UNCHANGED api

-----------------------------------------------------------------------------
\* EnsureLoadBalancer.

\* The service controller takes s from its queue.
Start(s) ==
    /\ pc[s] = "idle"
    /\ dirty[s]
    /\ dirty' = [dirty EXCEPT ![s] = FALSE]
    /\ result' = [result EXCEPT ![s] = "none"]
    /\ job' = [job EXCEPT ![s] = [svc |-> svc[s], nodes |-> nodes]]
    /\ pc' = [pc EXCEPT ![s] = IF svc[s] = None THEN "lookup" ELSE "get"]
    /\ raced' = [raced EXCEPT ![s] = FALSE]
    /\ UNCHANGED <<api, request, got, obs, todo, hostDirty, hostJob, hostTodo, budget>>

\* Mutant: new credentials without cleaning up first.
ReconcileWithoutCleanUp(ref) ==
    CASE metrics = None -> "compare"
      [] metrics # None /\ ref = None -> "createCredentials"
      [] metrics # None /\ ref # None -> "updateCredentials"

\* reconcileObservabilityCredentials: which call comes first, for a load
\* balancer with reference `ref` (None too when there is no load balancer).
ReconcileCredentials(ref) ==
    CASE metrics = None -> "compare"
      [] metrics # None /\ ref = None -> "list"
      [] metrics # None /\ ref # None -> "updateCredentials"

EnsureGet(s) ==
    /\ pc[s] = "get"
    /\ got' = [got EXCEPT ![s] = lb[s]]
    /\ Continue(s, ReconcileCredentials(lb[s].spec.ref))
    /\ UNCHANGED <<api, job, obs, todo, budget>>

\* cleanUpCredentials, from EnsureLoadBalancer and EnsureLoadBalancerDeleted.
ListCredentials(s) ==
    /\ pc[s] = "list"
    /\ todo' = [todo EXCEPT ![s] = CredentialsOf(s)]
    /\ Continue(s, "purge")
    /\ UNCHANGED <<api, job, got, obs, budget>>

PurgeCredentials(s, c) ==
    /\ pc[s] = "purge"
    /\ c \in todo[s]
    /\ ApiDeleteCredentials(c)
    /\ \/ /\ todo' = [todo EXCEPT ![s] = @ \ {c}]
          /\ Continue(s, "purge")
          /\ UNCHANGED <<job, got, obs, budget>>
       \/ AnswerLost(s)

\* The listed credentials are gone; the caller goes on.
Purged(s) ==
    /\ pc[s] = "purge"
    /\ todo[s] = {}
    /\ Continue(s, IF job[s].svc = None THEN "deleteLB" ELSE "createCredentials")
    /\ UNCHANGED <<api, local, budget>>

\* The API never hands out a reference twice: c is one that nothing mentions.
Fresh(c) ==
    /\ owner[c] = None
    /\ ~Referenced(c)
    /\ \A s \in Services : got[s].spec.ref # c /\ obs[s] # c /\ c \notin todo[s]

\* Mutant: credentials without a display name, which no clean-up finds.
CreateUnnamedCredentials(s, c) ==
    /\ pc[s] = "createCredentials"
    /\ Fresh(c)
    /\ ApiCreateCredentials(None, c, metrics.secret)
    /\ \/ /\ obs' = [obs EXCEPT ![s] = c]
          /\ Continue(s, "compare")
          /\ UNCHANGED <<job, got, todo, budget>>
       \/ AnswerLost(s)

CreateCredentials(s, c) ==
    /\ pc[s] = "createCredentials"
    /\ Fresh(c)
    /\ ApiCreateCredentials(s, c, metrics.secret)
    /\ \/ /\ obs' = [obs EXCEPT ![s] = c]
          /\ Continue(s, "compare")
          /\ UNCHANGED <<job, got, todo, budget>>
       \/ AnswerLost(s)

UpdateCredentials(s) ==
    /\ pc[s] = "updateCredentials"
    /\ ApiUpdateCredentials(got[s].spec.ref, metrics.secret)
    /\ \/ /\ obs' = [obs EXCEPT ![s] = got[s].spec.ref]
          /\ Continue(s, "compare")
          /\ UNCHANGED <<job, got, todo, budget>>
       \/ AnswerLost(s)

\* Mutant: the secret where the endpoint belongs.
SpecMixedUp(service, nodeList, ref) ==
    [ref     |-> ref,
     push    |-> IF ref = None THEN None ELSE metrics.secret,
     net     |-> service.net,
     targets |-> [p \in Pools |-> IF p \in service.pools THEN nodeList ELSE None]]

\* lbSpecFromService for a valid service.
SpecFromService(service, nodeList, ref) ==
    [ref     |-> ref,
     push    |-> IF ref = None THEN None ELSE metrics.push,
     net     |-> service.net,
     targets |-> [p \in Pools |-> IF p \in service.pools THEN nodeList ELSE None]]

WantedSpec(s) == SpecFromService(job[s].svc, job[s].nodes, obs[s])

\* Mutant: observability is not compared.
FulfillsWithoutObservability(current, wanted) == current.targets = wanted.targets

\* compareLBwithSpec: a difference that no update can remove, and no difference.
ImmutableChanged(current, wanted) == current.net # wanted.net

Fulfills(current, wanted) ==
    /\ current.ref = wanted.ref
    /\ current.push = wanted.push
    /\ current.targets = wanted.targets

\* How EnsureLoadBalancer ends for the load balancer it read last.
StatusResult(status) ==
    CASE status = "READY" -> "ready"
      [] status = "ERROR" -> "error"
      [] OTHER -> "retry"

\* The local decisions between two calls: the specification is built, which may
\* fail, and compared with the load balancer.
Compare(s) ==
    /\ pc[s] = "compare"
    /\ CASE ~job[s].svc.valid ->
              Return(s, "error")
         [] job[s].svc.valid /\ got[s].status = "NONE" ->
              Continue(s, "createLB") /\ UNCHANGED local
         [] job[s].svc.valid /\ got[s].status # "NONE" ->
              IF ImmutableChanged(got[s].spec, WantedSpec(s)) THEN Return(s, "error")
              ELSE IF Fulfills(got[s].spec, WantedSpec(s))
                   THEN Return(s, StatusResult(got[s].status))
                   ELSE Continue(s, "updateLB") /\ UNCHANGED local
    /\ UNCHANGED <<api, budget>>

CreateLB(s) ==
    /\ pc[s] = "createLB"
    /\ ApiCreateLB(s, WantedSpec(s))
    /\ \/ /\ Return(s, IF lb'[s].status = "READY" THEN "ready" ELSE "retry")
          /\ UNCHANGED budget
       \/ AnswerLost(s)

\* Mutant: the update takes whatever version is current.
UpdateLBUnversioned(s) ==
    /\ pc[s] = "updateLB"
    /\ ApiUpdateLB(s, lb[s].version, WantedSpec(s))
    /\ \/ /\ IF metrics = None /\ got[s].spec.ref # None
             THEN /\ got' = [got EXCEPT ![s] = WithStatus(got[s], lb'[s].status)]
                  /\ Continue(s, "dropCredentials")
                  /\ UNCHANGED <<job, obs, todo>>
             ELSE Return(s, StatusResult(lb'[s].status))
          /\ UNCHANGED budget
       \/ AnswerLost(s)

\* The update carries the version that was read.  When it drops the reference to
\* the old credentials, these are deleted next.
UpdateLB(s) ==
    /\ pc[s] = "updateLB"
    /\ ApiUpdateLB(s, got[s].version, WantedSpec(s))
    /\ \/ /\ IF metrics = None /\ got[s].spec.ref # None
             THEN /\ got' = [got EXCEPT ![s] = WithStatus(got[s], lb'[s].status)]
                  /\ Continue(s, "dropCredentials")
                  /\ UNCHANGED <<job, obs, todo>>
             ELSE Return(s, StatusResult(lb'[s].status))
          /\ UNCHANGED budget
       \/ AnswerLost(s)

\* The credentials that the load balancer referenced when it was read are deleted,
\* after an update of EnsureLoadBalancer or of EnsureLoadBalancerDeleted.
DropCredentials(s) ==
    /\ pc[s] = "dropCredentials"
    /\ ApiDeleteCredentials(got[s].spec.ref)
    /\ \/ /\ IF job[s].svc = None
             THEN Continue(s, "list") /\ UNCHANGED local
             ELSE Return(s, StatusResult(got[s].status))
          /\ UNCHANGED budget
       \/ AnswerLost(s)

-----------------------------------------------------------------------------
\* Removal: GetLoadBalancer, then EnsureLoadBalancerDeleted.

\* The service controller asks GetLoadBalancer first and calls
\* EnsureLoadBalancerDeleted only for a load balancer that exists.
GetLoadBalancer(s) ==
    /\ pc[s] = "lookup"
    /\ IF Exists(s) THEN Continue(s, "getToDelete") /\ UNCHANGED local
                    ELSE Return(s, "absent")
    /\ UNCHANGED <<api, budget>>

\* Mutants: referenced credentials are cleaned up before they are unreferenced;
\* credentials are cleaned up only if the load balancer references some.
GetToDeleteWithoutUnreference(s) ==
    /\ pc[s] = "getToDelete"
    /\ CASE lb[s].status = "NONE" -> Return(s, "absent")
         [] lb[s].status = "TERMINATING" -> Return(s, "terminating")
         [] OTHER ->
              /\ got' = [got EXCEPT ![s] = lb[s]]
              /\ Continue(s, "list")
              /\ UNCHANGED <<job, obs, todo>>
    /\ UNCHANGED <<api, budget>>

GetToDeleteWithoutCleanUp(s) ==
    /\ pc[s] = "getToDelete"
    /\ CASE lb[s].status = "NONE" -> Return(s, "absent")
         [] lb[s].status = "TERMINATING" -> Return(s, "terminating")
         [] OTHER ->
              /\ got' = [got EXCEPT ![s] = lb[s]]
              /\ Continue(s, IF lb[s].spec.ref = None THEN "deleteLB" ELSE "unreference")
              /\ UNCHANGED <<job, obs, todo>>
    /\ UNCHANGED <<api, budget>>

GetToDelete(s) ==
    /\ pc[s] = "getToDelete"
    /\ CASE lb[s].status = "NONE" -> Return(s, "absent")
         [] lb[s].status = "TERMINATING" -> Return(s, "terminating")
         [] OTHER ->
              /\ got' = [got EXCEPT ![s] = lb[s]]
              /\ Continue(s, IF lb[s].spec.ref = None THEN "list" ELSE "unreference")
              /\ UNCHANGED <<job, obs, todo>>
    /\ UNCHANGED <<api, budget>>

\* The payload is the load balancer that was read, without observability.
Unreference(s) ==
    /\ pc[s] = "unreference"
    /\ ApiUpdateLB(s, got[s].version, WithoutObservability(got[s].spec))
    /\ \/ Continue(s, "dropCredentials") /\ UNCHANGED <<local, budget>>
       \/ AnswerLost(s)

DeleteLB(s) ==
    /\ pc[s] = "deleteLB"
    /\ ApiDeleteLB(s)
    /\ \/ Return(s, "deleted") /\ UNCHANGED budget
       \/ AnswerLost(s)

-----------------------------------------------------------------------------
\* UpdateLoadBalancer: the node sync of the service controller.

StartHostUpdate(s) ==
    /\ hostDirty[s]
    /\ hostJob[s] = None
    /\ svc[s] # None
    /\ IF svc[s].valid
       THEN /\ hostDirty' = [hostDirty EXCEPT ![s] = FALSE]
            /\ hostJob' = [hostJob EXCEPT ![s] = [svc |-> svc[s], nodes |-> nodes]]
            /\ hostTodo' = [hostTodo EXCEPT ![s] = svc[s].pools]
            /\ UNCHANGED raced
       ELSE UNCHANGED hosts
    /\ UNCHANGED <<api, request, queue, pc, local, budget>>

\* Mutant: a failed host update is not repeated.
HostsFailForGood(s) ==
    /\ hostJob' = [hostJob EXCEPT ![s] = None]
    /\ hostTodo' = [hostTodo EXCEPT ![s] = {}]
    /\ UNCHANGED <<hostDirty, raced>>

\* The pools are updated one by one.  The first error ends the handler, which the
\* service controller calls again.
HostsFail(s) ==
    /\ hostDirty' = [hostDirty EXCEPT ![s] = TRUE]
    /\ hostJob' = [hostJob EXCEPT ![s] = None]
    /\ hostTodo' = [hostTodo EXCEPT ![s] = {}]
    /\ UNCHANGED raced

UpdateTargetPool(s, p) ==
    /\ hostJob[s] # None
    /\ p \in hostTodo[s]
    /\ ApiUpdateTargetPool(s, p, hostJob[s].nodes)
    /\ \/ /\ hostTodo' = [hostTodo EXCEPT ![s] = @ \ {p}]
          /\ UNCHANGED <<hostDirty, hostJob, raced, budget>>
       \/ Disturb /\ HostsFail(s)
    /\ UNCHANGED <<request, queue, pc, local>>

UpdateTargetPoolFails(s, p) ==
    /\ hostJob[s] # None
    /\ p \in hostTodo[s]
    /\ IF Exists(s) /\ p \in PoolsOf(lb[s].spec) THEN Disturb ELSE budget' = budget
    /\ HostsFail(s)
    /\ UNCHANGED <<api, request, queue, pc, local>>

HostsUpdated(s) ==
    /\ hostJob[s] # None
    /\ hostTodo[s] = {}
    /\ hostJob' = [hostJob EXCEPT ![s] = None]
    /\ UNCHANGED <<api, request, queue, pc, local, hostDirty, hostTodo, raced, budget>>

-----------------------------------------------------------------------------
\* Users, nodes, the API and crashes.

ChangeService(s) ==
    /\ Disturb
    /\ \E want \in ServiceSpecs \cup {None} :
          want # svc[s] /\ svc' = [svc EXCEPT ![s] = want]
    /\ dirty' = [dirty EXCEPT ![s] = TRUE]
    /\ UNCHANGED <<api, nodes, metrics, result, pc, local, hosts>>

\* raced[s] notes whether this change falls where the version of a load balancer
\* cannot protect its targets from a running EnsureLoadBalancer: the handler has its
\* list of nodes and has yet to read the load balancer, or the nodes change back to
\* a list that it read.
ChangeNodes ==
    /\ Disturb
    /\ \E ns \in NodeLists :
          /\ ns # nodes
          /\ nodes' = ns
          /\ raced' = [s \in Services |->
                         pc[s] = "get" \/ \E p \in Pools : got[s].spec.targets[p] = ns]
    /\ hostDirty' = [s \in Services |-> TRUE]
    /\ UNCHANGED <<api, svc, metrics, queue, pc, local, hostJob, hostTodo>>

\* The controller stops between two calls and starts again, perhaps configured
\* differently.  Every service is queued; UpdateLoadBalancer "is not called on
\* controller start-up".
Restart ==
    /\ Disturb
    /\ metrics' \in RemoteWrites \cup {None}
    /\ dirty' = [s \in Services |-> TRUE]
    /\ result' = [s \in Services |-> "none"]
    /\ pc' = [s \in Services |-> "idle"]
    /\ got' = [s \in Services |-> NoLoadBalancer]
    /\ obs' = [s \in Services |-> None]
    /\ todo' = [s \in Services |-> {}]
    /\ hostDirty' = [s \in Services |-> FALSE]
    /\ hostJob' = [s \in Services |-> None]
    /\ hostTodo' = [s \in Services |-> {}]
    /\ raced' = [s \in Services |-> FALSE]
    /\ UNCHANGED <<api, svc, nodes, job>>

Provision(s) ==
    /\ ApiProvisioned(s) \/ ApiRepaired(s) \/ ApiGone(s)
    /\ UNCHANGED <<request, queue, pc, local, hosts, budget>>

Break(s) ==
    /\ Disturb
    /\ ApiBreaks(s)
    /\ UNCHANGED <<request, queue, pc, local, hosts>>

-----------------------------------------------------------------------------

Ensure(s) ==
    \/ EnsureGet(s)
    \/ ListCredentials(s)
    \/ \E c \in CredRefs : PurgeCredentials(s, c) \/ CreateCredentials(s, c)
    \/ Purged(s)
    \/ UpdateCredentials(s)
    \/ Compare(s)
    \/ CreateLB(s)
    \/ UpdateLB(s)
    \/ DropCredentials(s)

Delete(s) == GetLoadBalancer(s) \/ GetToDelete(s) \/ Unreference(s) \/ DeleteLB(s)

Handler(s) == Ensure(s) \/ Delete(s) \/ CallFails(s)

HostUpdate(s) ==
    \/ \E p \in Pools : UpdateTargetPool(s, p) \/ UpdateTargetPoolFails(s, p)
    \/ HostsUpdated(s)

Next ==
    \/ \E s \in Services :
          \/ Start(s) \/ Handler(s)
          \/ StartHostUpdate(s) \/ HostUpdate(s)
          \/ ChangeService(s) \/ Provision(s) \/ Break(s)
    \/ ChangeNodes
    \/ Restart

Spec == Init /\ [][Next]_vars

\* A queued service is taken, a running handler makes its next call, and the API
\* finishes provisioning, repair and termination.
Fairness ==
    \A s \in Services :
       /\ WF_vars(Start(s))
       /\ WF_vars(Handler(s))
       /\ WF_vars(StartHostUpdate(s))
       /\ WF_vars(HostUpdate(s))
       /\ WF_vars(Provision(s))

FairSpec == Spec /\ Fairness

-----------------------------------------------------------------------------
\* Safety.

\* However often a handler fails and is retried, a service has at most one set of
\* observability credentials: reconcileObservabilityCredentials creates new ones
\* only after everything of the service's name that an earlier attempt left behind
\* has been deleted.
AtMostOneCredential ==
    \A c, d \in CredRefs : owner[c] # None /\ owner[c] = owner[d] => c = d

\* A load balancer only ever references credentials that exist and that carry its
\* own name, although the API does not check references.
NoDanglingReference ==
    \A s \in Services :
       lb[s].spec.ref # None => owner[lb[s].spec.ref] = s

\* "Make sure that no credentials are referenced, otherwise the deletion fails":
\* whenever a handler is about to delete credentials the API can agree to it.
DeletesOnlyUnreferenced ==
    \A s \in Services :
       /\ pc[s] = "purge" => \A c \in todo[s] : Deletable(c)
       /\ pc[s] = "dropCredentials" => Deletable(got[s].spec.ref)

\* When EnsureLoadBalancerDeleted returns from a load balancer it deleted, no
\* credentials of the service are left, whatever earlier attempts left behind.
DeletedLeavesNothing ==
    \A s \in Services :
       result[s] = "deleted" =>
          CredentialsOf(s) = {} /\ lb[s].status \in {"NONE", "TERMINATING"}

\* The calls of a handler that cleans up, that builds a specification, that belongs
\* to EnsureLoadBalancer or to removal, and that goes back to the reference it read.
CleaningUp == {"list", "purge", "createCredentials", "deleteLB"}
Specifying == {"compare", "createLB", "updateLB"}
Ensuring   == {"get", "createCredentials", "updateCredentials"} \cup Specifying
Deleting   == {"lookup", "getToDelete", "unreference", "deleteLB"}
RereadsRef == {"updateCredentials", "unreference", "dropCredentials"}

\* What the handler's position says of its own variables.
ControlInv(s) ==
    /\ result[s] # "none" => pc[s] = "idle"
    /\ pc[s] \in Ensuring => job[s].svc # None
    /\ pc[s] \in Deleting => job[s].svc = None
    /\ pc[s] \in {"list", "purge"} /\ job[s].svc # None => metrics # None
    /\ pc[s] \in {"createCredentials", "updateCredentials"} => metrics # None
    /\ obs[s] # None <=> pc[s] \in Specifying /\ metrics # None
    /\ pc[s] \in RereadsRef => got[s].spec.ref # None

\* Why the credential invariants hold: what the handler of s has established when it
\* stands before each call.  The clean-up starts only with no reference in place; the
\* list is complete when it is taken and stays so; a reference about to be written is
\* alive and named after s; and when old credentials are deleted the load balancer
\* has let go of them.
HandlerInv(s) ==
    /\ pc[s] \in CleaningUp \cup {"dropCredentials"} => lb[s].spec.ref = None
    /\ pc[s] \in CleaningUp => got[s].spec.ref = None \/ job[s].svc = None
    /\ pc[s] = "purge" => todo[s] = CredentialsOf(s)
    /\ pc[s] \in {"createCredentials", "deleteLB"} => CredentialsOf(s) = {}
    /\ pc[s] \in Specifying /\ obs[s] # None => owner[obs[s]] = s
    /\ pc[s] \in Specifying \cup RereadsRef /\ got[s].spec.ref # None
          => owner[got[s].spec.ref] = s

CredentialInv ==
    /\ AtMostOneCredential
    /\ NoDanglingReference
    /\ DeletedLeavesNothing
    /\ \A s \in Services : ControlInv(s) /\ HandlerInv(s)

\* When EnsureLoadBalancer returns success, the load balancer has the service's
\* network and pools, and it ships metrics exactly if the controller is configured
\* to, with the configured endpoint and credentials.
ReadyInSync ==
    \A s \in Services :
       result[s] = "ready" =>
          /\ lb[s].spec.net = job[s].svc.net
          /\ PoolsOf(lb[s].spec) = job[s].svc.pools
          /\ lb[s].spec.ref = None <=> metrics = None
          /\ metrics # None => /\ lb[s].spec.push = metrics.push
                              /\ secret[lb[s].spec.ref] = metrics.secret

\* The targets that a service with a usable load balancer is meant to have.
TargetsCurrent(s) ==
    svc[s] # None /\ svc[s].valid /\ Exists(s) /\ lb[s].spec.net = svc[s].net
       => \A p \in svc[s].pools : lb[s].spec.targets[p] = nodes

\* Nothing runs for s and nothing is queued.
AtRest(s) == pc[s] = "idle" /\ ~dirty[s] /\ hostJob[s] = None /\ ~hostDirty[s]

\* A node list that EnsureLoadBalancer took before a host update never lasts over the
\* newer one that UpdateLoadBalancer wrote, although the two run side by side: when a
\* service comes to rest, every pool has the nodes of the cluster.  The version that an
\* update carries (loadbalancer.go) stops the handler, a failed or partial host update
\* is repeated, and after a restart EnsureLoadBalancer makes up for it.  What the
\* version cannot stop is excused: nodes that changed between the handler's list of
\* nodes and its reading of the load balancer, or back to a list that it read.
TargetsFollowNodes ==
    \A s \in Services : AtRest(s) /\ ~raced[s] => TargetsCurrent(s)

\* Credentials disappear only through a handler of the service they are named
\* after: clean-up by display name never reaches another service's credentials.
NoForeignDeletion ==
    [][\A c \in CredRefs :
          owner[c] # None /\ owner'[c] # owner[c]
             => owner'[c] = None /\ pc[owner[c]] \in {"purge", "dropCredentials"}]_vars

-----------------------------------------------------------------------------
\* Liveness.

Settled(s) ==
    IF svc[s] = None THEN ~Exists(s)
    ELSE \/ ~svc[s].valid
         \/ Exists(s) /\ lb[s].spec.net # svc[s].net
         \/ /\ lb[s].status = "READY"
            /\ PoolsOf(lb[s].spec) = svc[s].pools
            /\ lb[s].spec.ref = None <=> metrics = None
            /\ metrics # None => secret[lb[s].spec.ref] = metrics.secret

\* Once users, failures and restarts leave it alone, every service gets what it asks
\* for and stays there: a load balancer in sync, or none; except for a service whose
\* specification is invalid or whose immutable part was changed.  Host updates run at any
\* moment of a handler.  The targets of every pool end up being the nodes of the cluster,
\* unless the last change of the nodes fell where the version cannot protect the targets
\* from the handler that was running: then an older list may stay until the service or
\* the nodes change again.
Converges == \A s \in Services : <>[](Settled(s) /\ (TargetsCurrent(s) \/ raced[s]))

==============================================================================
