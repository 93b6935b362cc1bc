-------------------------- MODULE LoadBalancerProofs --------------------------
(***************************************************************************)
(* Proofs about LoadBalancer for any number of services, credentials,      *)
(* specifications and disturbances.                                        *)
(***************************************************************************)
EXTENDS LoadBalancer, TLAPS

LEMMA NoLoadBalancerType == NoLoadBalancer \in LoadBalancers
  BY DEF NoLoadBalancer, LoadBalancers, NoPayload, Payloads, Statuses

\* What SpecFromService builds from a service is a payload of the API.
LEMMA SpecFromServiceType ==
  ASSUME NEW service \in ServiceSpecs, NEW nodeList \in NodeLists,
         NEW ref \in CredRefs \cup {None},
         metrics \in RemoteWrites \cup {None},
         ref # None => metrics # None
  PROVE  SpecFromService(service, nodeList, ref) \in Payloads
  <1>1. service \in [valid : BOOLEAN, net : Networks, pools : SUBSET Pools]
    BY SpecsAssumption
  <1>2. ref # None => metrics.push \in Endpoints
    BY RemoteWritesAssumption
  <1> QED
    BY <1>1, <1>2 DEF SpecFromService, Payloads

-----------------------------------------------------------------------------
\* Types and control.

TypeInv == TypeOK /\ \A s \in Services : ControlInv(s)

LEMMA InitType == Init => TypeInv
  BY NoLoadBalancerType, BoundsAssumption
  DEF Init, ApiInit, TypeInv, TypeOK, ApiTypeOK, Jobs, Results, Calls, ControlInv,
      Ensuring, Deleting, Specifying, RereadsRef

\* Returning from a handler.
LEMMA ReturnType ==
  ASSUME TypeInv, NEW s \in Services, NEW r \in Results, Return(s, r),
         ApiTypeOK', budget' \in Nat
  PROVE  TypeInv'
  BY NoLoadBalancerType
  DEF TypeInv, TypeOK, Return, request, hosts, ControlInv, Ensuring, Deleting, Specifying, RereadsRef

LEMMA DisturbType ==
  ASSUME TypeOK, Disturb
  PROVE  budget' \in Nat
  BY DEF TypeOK, Disturb

\* The API's operations keep its state well typed.
LEMMA ApiType ==
  ASSUME ApiTypeOK, NEW s \in Services
  PROVE  /\ \A p \in Payloads : ApiCreateLB(s, p) => ApiTypeOK'
         /\ \A v \in Nat, p \in Payloads : ApiUpdateLB(s, v, p) => ApiTypeOK'
         /\ \A p \in Pools, n \in NodeLists : ApiUpdateTargetPool(s, p, n) => ApiTypeOK'
         /\ ApiDeleteLB(s) => ApiTypeOK'
         /\ \A c \in CredRefs, x \in Secrets : ApiCreateCredentials(s, c, x) => ApiTypeOK'
         /\ \A c \in CredRefs, x \in Secrets : ApiUpdateCredentials(c, x) => ApiTypeOK'
         /\ \A c \in CredRefs : ApiDeleteCredentials(c) => ApiTypeOK'
         /\ ApiProvisioned(s) \/ ApiBreaks(s) \/ ApiRepaired(s) \/ ApiGone(s) => ApiTypeOK'
  <1> USE DEF ApiTypeOK, LoadBalancers, Statuses
  <1>1. \A p \in Payloads : ApiCreateLB(s, p) => ApiTypeOK'
    BY DEF ApiCreateLB
  <1>2. \A v \in Nat, p \in Payloads : ApiUpdateLB(s, v, p) => ApiTypeOK'
    BY DEF ApiUpdateLB
  <1>3. \A p \in Pools, n \in NodeLists : ApiUpdateTargetPool(s, p, n) => ApiTypeOK'
    <2> TAKE p \in Pools, n \in NodeLists
    <2>1. lb[s].spec \in Payloads /\ lb[s].version + 1 \in Nat /\ lb[s].status \in Statuses
      OBVIOUS
    <2>2. WithTargets(lb[s].spec, p, n) \in Payloads
      BY <2>1 DEF WithTargets, Payloads
    <2> QED
      BY <2>1, <2>2 DEF ApiUpdateTargetPool
  <1>4. ApiDeleteLB(s) => ApiTypeOK'
    BY DEF ApiDeleteLB, WithStatus
  <1>5. \A c \in CredRefs, x \in Secrets : ApiCreateCredentials(s, c, x) => ApiTypeOK'
    BY DEF ApiCreateCredentials
  <1>6. \A c \in CredRefs, x \in Secrets : ApiUpdateCredentials(c, x) => ApiTypeOK'
    BY DEF ApiUpdateCredentials
  <1>7. \A c \in CredRefs : ApiDeleteCredentials(c) => ApiTypeOK'
    BY DEF ApiDeleteCredentials
  <1>8. ApiProvisioned(s) \/ ApiBreaks(s) \/ ApiRepaired(s) \/ ApiGone(s) => ApiTypeOK'
    BY NoLoadBalancerType DEF ApiProvisioned, ApiBreaks, ApiRepaired, ApiGone, WithStatus
  <1> QED
    BY <1>1, <1>2, <1>3, <1>4, <1>5, <1>6, <1>7, <1>8

LEMMA ApiUnchanged == ApiTypeOK /\ UNCHANGED api => ApiTypeOK'
  BY DEF ApiTypeOK, api

\* A handler that goes on only moves its program counter.
LEMMA ContinueType ==
  ASSUME TypeInv, NEW s \in Services, NEW next \in Calls \cup {"idle", "compare"},
         Continue(s, next), ApiTypeOK', budget' \in Nat,
         job' = job,
         got' \in [Services -> LoadBalancers],
         obs' \in [Services -> CredRefs \cup {None}],
         todo' \in [Services -> SUBSET CredRefs],
         \A t \in Services \ {s} : got'[t] = got[t] /\ obs'[t] = obs[t],
         ControlInv(s)'
  PROVE  TypeInv'
  <1>1. TypeOK'
    BY DEF TypeInv, TypeOK, Continue, queue, request, hosts
  <1>2. ASSUME NEW t \in Services \ {s}
        PROVE  ControlInv(t)'
    <2>1. /\ pc'[t] = pc[t] /\ result'[t] = result[t] /\ job'[t] = job[t]
          /\ metrics' = metrics /\ got'[t] = got[t] /\ obs'[t] = obs[t]
      BY <1>2 DEF TypeInv, TypeOK, Continue, queue, request
    <2> QED
      BY <2>1, <1>2 DEF TypeInv, ControlInv
  <1> QED
    BY <1>1, <1>2 DEF TypeInv

LEMMA ReconcileType ==
  ASSUME TypeOK, NEW ref
  PROVE  /\ ReconcileCredentials(ref) \in {"compare", "list", "updateCredentials"}
         /\ ReconcileCredentials(ref) = "compare" <=> metrics = None
         /\ ReconcileCredentials(ref) = "updateCredentials" => ref # None
         /\ ReconcileCredentials(ref) = "list" => ref = None
  BY DEF ReconcileCredentials

LEMMA WantedSpecType ==
  ASSUME TypeInv, NEW s \in Services, pc[s] \in Specifying
  PROVE  WantedSpec(s) \in Payloads
  <1>1. job[s] \in Jobs /\ obs[s] \in CredRefs \cup {None}
    BY DEF TypeInv, TypeOK
  <1>2. job[s].svc \in ServiceSpecs /\ job[s].nodes \in NodeLists
    BY <1>1 DEF TypeInv, ControlInv, Ensuring, Jobs
  <1>3. obs[s] # None => metrics # None
    BY DEF TypeInv, ControlInv
  <1>4. metrics \in RemoteWrites \cup {None}
    BY DEF TypeInv, TypeOK
  <1> QED
    BY <1>1, <1>2, <1>3, <1>4, SpecFromServiceType DEF WantedSpec

LEMMA NextType == TypeInv /\ [Next]_vars => TypeInv'
  <1> SUFFICES ASSUME TypeInv, [Next]_vars
               PROVE  TypeInv'
    OBVIOUS
  <1>t. TypeOK /\ ApiTypeOK /\ budget \in Nat
    BY DEF TypeInv, TypeOK
  <1>r. Results = {"none", "error", "retry", "ready", "absent", "terminating", "deleted"}
    BY DEF Results
  <1>1. ASSUME NEW s \in Services, AnswerLost(s), ApiTypeOK'
        PROVE  TypeInv'
    BY <1>1, <1>t, <1>r, ReturnType, DisturbType DEF AnswerLost
  <1>2. ASSUME NEW s \in Services, Start(s)
        PROVE  TypeInv'
    <2>1. TypeOK'
      BY <1>2, <1>t, ApiUnchanged DEF Start, TypeOK, api, request, hosts, Jobs, Results, Calls
    <2>2. ASSUME NEW t \in Services
          PROVE  ControlInv(t)'
      BY <1>2, <1>t DEF Start, TypeInv, TypeOK, request, ControlInv, Ensuring, Deleting, Specifying, RereadsRef
    <2> QED
      BY <2>1, <2>2 DEF TypeInv
  <1>3. ASSUME NEW s \in Services, EnsureGet(s)
        PROVE  TypeInv'
    <2> DEFINE next == ReconcileCredentials(lb[s].spec.ref)
    <2>1. next \in Calls \cup {"idle", "compare"}
      BY <1>t, ReconcileType DEF Calls
    <2>2. ApiTypeOK'
      BY <1>3, <1>t, ApiUnchanged DEF EnsureGet
    <2>3. got' \in [Services -> LoadBalancers]
      BY <1>3, <1>t DEF EnsureGet, ApiTypeOK, TypeOK
    <2>4. ControlInv(s)'
      BY <1>3, <1>t, ReconcileType DEF EnsureGet, Continue, queue, request,
         TypeInv, TypeOK, ControlInv, Ensuring, Deleting, Specifying, RereadsRef
    <2> QED
      BY <1>3, <1>t, <2>1, <2>2, <2>3, <2>4, ContinueType DEF EnsureGet, TypeOK
  <1>4. ASSUME NEW s \in Services, ListCredentials(s)
        PROVE  TypeInv'
    <2>1. ControlInv(s)'
      BY <1>4, <1>t DEF ListCredentials, Continue, queue, request, TypeInv, TypeOK,
         ControlInv, Ensuring, Deleting, Specifying, RereadsRef
    <2> QED
      BY <1>4, <1>t, <2>1, ContinueType, ApiUnchanged
      DEF ListCredentials, CredentialsOf, TypeOK, Calls
  <1>5. ASSUME NEW s \in Services, NEW c \in CredRefs, PurgeCredentials(s, c)
        PROVE  TypeInv'
    <2>1. ApiTypeOK'
      BY <1>5, <1>t, ApiType DEF PurgeCredentials
    <2>2. CASE AnswerLost(s)
      BY <1>1, <2>1, <2>2
    <2>3. CASE /\ todo' = [todo EXCEPT ![s] = @ \ {c}]
               /\ Continue(s, "purge")
               /\ UNCHANGED <<job, got, obs, budget>>
      <3>1. ControlInv(s)'
        BY <1>5, <1>t, <2>3 DEF PurgeCredentials, Continue, queue, request, TypeInv,
           TypeOK, ControlInv, Ensuring, Deleting, Specifying, RereadsRef
      <3> QED
        BY <1>t, <2>1, <2>3, <3>1, ContinueType DEF TypeOK, Calls
    <2> QED
      BY <1>5, <2>2, <2>3 DEF PurgeCredentials
  <1>6. ASSUME NEW s \in Services, Purged(s)
        PROVE  TypeInv'
    <2>1. ControlInv(s)'
      BY <1>6, <1>t DEF Purged, Continue, queue, request, local, TypeInv, TypeOK,
         ControlInv, Ensuring, Deleting, Specifying, RereadsRef
    <2> QED
      BY <1>6, <1>t, <2>1, ContinueType, ApiUnchanged DEF Purged, local, TypeOK, Calls
  <1>7. ASSUME NEW s \in Services, NEW c \in CredRefs, CreateCredentials(s, c)
        PROVE  TypeInv'
    <2>1. metrics \in RemoteWrites
      BY <1>7, <1>t DEF CreateCredentials, TypeInv, TypeOK, ControlInv
    <2>2. metrics.secret \in Secrets
      BY <2>1, RemoteWritesAssumption
    <2>3. ApiTypeOK'
      BY <1>7, <1>t, <2>2, ApiType DEF CreateCredentials
    <2>4. CASE AnswerLost(s)
      BY <1>1, <2>3, <2>4
    <2>5. CASE /\ obs' = [obs EXCEPT ![s] = c]
               /\ Continue(s, "compare")
               /\ UNCHANGED <<job, got, todo, budget>>
      <3>1. ControlInv(s)'
        BY <1>7, <1>t, <2>1, <2>5, NoneAssumption DEF CreateCredentials, Continue, queue,
           request, TypeInv, TypeOK, ControlInv, Ensuring, Deleting, Specifying, RereadsRef
      <3> QED
        BY <1>t, <2>3, <2>5, <3>1, ContinueType DEF TypeOK, Calls
    <2> QED
      BY <1>7, <2>4, <2>5 DEF CreateCredentials
  <1>8. ASSUME NEW s \in Services, UpdateCredentials(s)
        PROVE  TypeInv'
    <2>1. metrics \in RemoteWrites
      BY <1>8, <1>t DEF UpdateCredentials, TypeInv, TypeOK, ControlInv
    <2>2. metrics.secret \in Secrets
      BY <2>1, RemoteWritesAssumption
    <2>r. got[s].spec.ref \in CredRefs
      BY <1>8, <1>t DEF UpdateCredentials, TypeInv, TypeOK, ControlInv, RereadsRef,
         LoadBalancers, Payloads
    <2>3. ApiTypeOK'
      BY <1>8, <1>t, <2>2, <2>r, ApiType DEF UpdateCredentials
    <2>4. CASE AnswerLost(s)
      BY <1>1, <2>3, <2>4
    <2>5. CASE /\ obs' = [obs EXCEPT ![s] = got[s].spec.ref]
               /\ Continue(s, "compare")
               /\ UNCHANGED <<job, got, todo, budget>>
      <3>1. ControlInv(s)'
        BY <1>8, <1>t, <2>1, <2>5, <2>r, NoneAssumption DEF UpdateCredentials, Continue, queue,
           request, TypeInv, TypeOK, ControlInv, Ensuring, Deleting, Specifying, RereadsRef
      <3> QED
        BY <1>t, <2>3, <2>5, <2>r, <3>1, ContinueType DEF TypeOK, Calls
    <2> QED
      BY <1>8, <2>4, <2>5 DEF UpdateCredentials
  <1>9. ASSUME NEW s \in Services, Compare(s)
        PROVE  TypeInv'
    <2>1. ApiTypeOK' /\ budget' \in Nat
      BY <1>9, <1>t, ApiUnchanged DEF Compare
    <2>2. ASSUME NEW r \in Results, Return(s, r)
          PROVE  TypeInv'
      BY <2>1, <2>2, ReturnType
    <2>3. ASSUME NEW next \in {"createLB", "updateLB"}, Continue(s, next), UNCHANGED local
          PROVE  TypeInv'
      <3>1. ControlInv(s)'
        BY <1>9, <1>t, <2>3 DEF Compare, Continue, queue, request, local, TypeInv, TypeOK,
           ControlInv, Ensuring, Deleting, Specifying, RereadsRef
      <3> QED
        BY <1>t, <2>1, <2>3, <3>1, ContinueType DEF local, TypeOK, Calls
    <2>4. StatusResult(got[s].status) \in Results
      BY DEF StatusResult, Results
    <2>5. job[s].svc.valid \in BOOLEAN
      BY <1>9, <1>t, SpecsAssumption DEF Compare, TypeInv, TypeOK, ControlInv, Ensuring,
         Specifying, Jobs
    <2> QED
      BY <1>9, <1>r, <2>2, <2>3, <2>4, <2>5, Zenon DEF Compare
  <1>10. ASSUME NEW s \in Services, CreateLB(s)
         PROVE  TypeInv'
    <2>1. ApiTypeOK'
      BY <1>10, <1>t, WantedSpecType, ApiType DEF CreateLB, Specifying
    <2>2. CASE AnswerLost(s)
      BY <1>1, <2>1, <2>2
    <2>3. ASSUME NEW r \in Results, Return(s, r), UNCHANGED budget
          PROVE  TypeInv'
      BY <1>t, <2>1, <2>3, ReturnType
    <2> QED
      BY <1>10, <1>r, <2>2, <2>3 DEF CreateLB
  <1>11. ASSUME NEW s \in Services, UpdateLB(s)
         PROVE  TypeInv'
    <2>1. ApiTypeOK'
      <3>1. got[s].version \in Nat
        BY <1>t DEF TypeOK, LoadBalancers
      <3> QED
        BY <1>11, <1>t, <3>1, WantedSpecType, ApiType DEF UpdateLB, Specifying
    <2>2. CASE AnswerLost(s)
      BY <1>1, <2>1, <2>2
    <2>3. ASSUME NEW r \in Results, Return(s, r), UNCHANGED budget
          PROVE  TypeInv'
      BY <1>t, <2>1, <2>3, ReturnType
    <2>4. StatusResult(lb'[s].status) \in Results
      BY DEF StatusResult, Results
    <2>5. CASE /\ metrics = None /\ got[s].spec.ref # None
               /\ got' = [got EXCEPT ![s] = WithStatus(got[s], lb'[s].status)]
               /\ Continue(s, "dropCredentials")
               /\ UNCHANGED <<job, obs, todo>>
               /\ UNCHANGED budget
      <3>1. WithStatus(got[s], lb'[s].status) \in LoadBalancers
        BY <1>t, <2>1 DEF TypeOK, ApiTypeOK, WithStatus, LoadBalancers
      <3>2. got' \in [Services -> LoadBalancers] /\ got'[s].spec = got[s].spec
        BY <1>t, <2>5, <3>1 DEF TypeOK, WithStatus
      <3>3. ControlInv(s)'
        BY <1>11, <1>t, <2>5, <3>2 DEF UpdateLB, Continue, queue, request, TypeInv, TypeOK,
           ControlInv, Ensuring, Deleting, Specifying, RereadsRef
      <3> QED
        BY <1>t, <2>1, <2>5, <3>2, <3>3, ContinueType DEF TypeOK, Calls
    <2> QED
      BY <1>11, <2>2, <2>3, <2>4, <2>5 DEF UpdateLB
  <1>12. ASSUME NEW s \in Services, DropCredentials(s)
         PROVE  TypeInv'
    <2>1. ApiTypeOK'
      <3>1. got[s].spec.ref \in CredRefs
        BY <1>12, <1>t DEF DropCredentials, TypeInv, TypeOK, ControlInv, RereadsRef,
           LoadBalancers, Payloads
      <3> QED
        BY <1>12, <1>t, <3>1, ApiType DEF DropCredentials
    <2>2. CASE AnswerLost(s)
      BY <1>1, <2>1, <2>2
    <2>3. ASSUME NEW r \in Results, Return(s, r), UNCHANGED budget
          PROVE  TypeInv'
      BY <1>t, <2>1, <2>3, ReturnType
    <2>4. StatusResult(got[s].status) \in Results
      BY DEF StatusResult, Results
    <2>5. CASE job[s].svc = None /\ Continue(s, "list") /\ UNCHANGED local /\ UNCHANGED budget
      <3>1. ControlInv(s)'
        BY <1>12, <1>t, <2>5 DEF DropCredentials, Continue, queue, request, local, TypeInv,
           TypeOK, ControlInv, Ensuring, Deleting, Specifying, RereadsRef
      <3> QED
        BY <1>t, <2>1, <2>5, <3>1, ContinueType DEF local, TypeOK, Calls
    <2> QED
      BY <1>12, <2>2, <2>3, <2>4, <2>5 DEF DropCredentials
  <1>13. ASSUME NEW s \in Services, GetLoadBalancer(s)
         PROVE  TypeInv'
    <2>1. ApiTypeOK' /\ budget' \in Nat
      BY <1>13, <1>t, ApiUnchanged DEF GetLoadBalancer
    <2>2. CASE Return(s, "absent")
      BY <1>r, <2>1, <2>2, ReturnType
    <2>3. CASE Continue(s, "getToDelete") /\ UNCHANGED local
      <3>1. ControlInv(s)'
        BY <1>13, <1>t, <2>3 DEF GetLoadBalancer, Continue, queue, request, local, TypeInv,
           TypeOK, ControlInv, Ensuring, Deleting, Specifying, RereadsRef
      <3> QED
        BY <1>t, <2>1, <2>3, <3>1, ContinueType DEF local, TypeOK, Calls
    <2> QED
      BY <1>13, <2>2, <2>3 DEF GetLoadBalancer
  <1>14. ASSUME NEW s \in Services, GetToDelete(s)
         PROVE  TypeInv'
    <2>1. ApiTypeOK' /\ budget' \in Nat
      BY <1>14, <1>t, ApiUnchanged DEF GetToDelete
    <2>2. CASE Return(s, "absent") \/ Return(s, "terminating")
      BY <1>r, <2>1, <2>2, ReturnType
    <2>3. CASE /\ got' = [got EXCEPT ![s] = lb[s]]
               /\ Continue(s, IF lb[s].spec.ref = None THEN "list" ELSE "unreference")
               /\ UNCHANGED <<job, obs, todo>>
      <3>1. got' \in [Services -> LoadBalancers]
        BY <1>t, <2>3 DEF TypeOK, ApiTypeOK
      <3>2. ControlInv(s)'
        BY <1>14, <1>t, <2>3 DEF GetToDelete, Continue, queue, request, TypeInv,
           TypeOK, ControlInv, Ensuring, Deleting, Specifying, RereadsRef
      <3> QED
        BY <1>t, <2>1, <2>3, <3>1, <3>2, ContinueType DEF TypeOK, Calls
    <2> QED
      BY <1>14, <2>2, <2>3, Zenon DEF GetToDelete
  <1>15. ASSUME NEW s \in Services, Unreference(s)
         PROVE  TypeInv'
    <2>1. ApiTypeOK'
      <3>1. got[s].version \in Nat /\ WithoutObservability(got[s].spec) \in Payloads
        BY <1>t DEF TypeOK, LoadBalancers, Payloads, WithoutObservability
      <3> QED
        BY <1>15, <1>t, <3>1, ApiType DEF Unreference
    <2>2. CASE AnswerLost(s)
      BY <1>1, <2>1, <2>2
    <2>3. CASE Continue(s, "dropCredentials") /\ UNCHANGED <<local, budget>>
      <3>1. ControlInv(s)'
        BY <1>15, <1>t, <2>3 DEF Unreference, Continue, queue, request, local, TypeInv,
           TypeOK, ControlInv, Ensuring, Deleting, Specifying, RereadsRef
      <3> QED
        BY <1>t, <2>1, <2>3, <3>1, ContinueType DEF local, TypeOK, Calls
    <2> QED
      BY <1>15, <2>2, <2>3 DEF Unreference
  <1>16. ASSUME NEW s \in Services, DeleteLB(s)
         PROVE  TypeInv'
    <2>1. ApiTypeOK'
      BY <1>16, <1>t, ApiType DEF DeleteLB
    <2> QED
      BY <1>16, <1>1, <1>r, <1>t, <2>1, ReturnType DEF DeleteLB
  <1>17. ASSUME NEW s \in Services, CallFails(s)
         PROVE  TypeInv'
    BY <1>17, <1>r, <1>t, ApiUnchanged, DisturbType, ReturnType DEF CallFails
  <1>18. ASSUME UNCHANGED <<request, queue, pc, local>>, ApiTypeOK',
                hostDirty' \in [Services -> BOOLEAN],
                hostJob' \in [Services -> Jobs \cup {None}],
                hostTodo' \in [Services -> SUBSET Pools],
                raced' \in [Services -> BOOLEAN],
                budget' \in Nat
         PROVE  TypeInv'
    BY <1>18, <1>t DEF TypeInv, TypeOK, request, queue, local, ControlInv
  <1>19. ASSUME NEW s \in Services, StartHostUpdate(s)
         PROVE  TypeInv'
    <2>1. svc[s] \in ServiceSpecs /\ svc[s].pools \in SUBSET Pools
      BY <1>19, <1>t, SpecsAssumption DEF StartHostUpdate, TypeOK
    <2>2. [svc |-> svc[s], nodes |-> nodes] \in Jobs
      BY <1>t, <2>1 DEF TypeOK, Jobs
    <2>3. /\ hostDirty' \in [Services -> BOOLEAN]
          /\ hostJob' \in [Services -> Jobs \cup {None}]
          /\ hostTodo' \in [Services -> SUBSET Pools]
      <3>1. hostDirty' = [hostDirty EXCEPT ![s] = FALSE] \/ hostDirty' = hostDirty
        BY <1>19 DEF StartHostUpdate, hosts
      <3>2. \/ hostJob' = [hostJob EXCEPT ![s] = [svc |-> svc[s], nodes |-> nodes]]
            \/ hostJob' = hostJob
        BY <1>19 DEF StartHostUpdate, hosts
      <3>3. hostTodo' = [hostTodo EXCEPT ![s] = svc[s].pools] \/ hostTodo' = hostTodo
        BY <1>19 DEF StartHostUpdate, hosts
      <3>4. hostDirty' \in [Services -> BOOLEAN]
        BY <3>1, <1>t DEF TypeOK
      <3>5. hostJob' \in [Services -> Jobs \cup {None}]
        BY <3>2, <2>2, <1>t DEF TypeOK
      <3>6. hostTodo' \in [Services -> SUBSET Pools]
        BY <3>3, <2>1, <1>t DEF TypeOK
      <3> QED
        BY <3>4, <3>5, <3>6
    <2>4. UNCHANGED <<request, queue, pc, local, raced>> /\ ApiTypeOK' /\ budget' \in Nat
      BY <1>19, <1>t, ApiUnchanged DEF StartHostUpdate, hosts
    <2> QED
      BY <1>18, <1>t, <2>3, <2>4 DEF TypeOK
  <1>20. ASSUME NEW s \in Services, HostsFail(s)
         PROVE  /\ hostDirty' \in [Services -> BOOLEAN]
                /\ hostJob' \in [Services -> Jobs \cup {None}]
                /\ hostTodo' \in [Services -> SUBSET Pools]
                /\ raced' \in [Services -> BOOLEAN]
    BY <1>20, <1>t DEF HostsFail, TypeOK
  <1>21. ASSUME NEW s \in Services, NEW p \in Pools, UpdateTargetPool(s, p)
         PROVE  TypeInv'
    <2>1. ApiTypeOK'
      BY <1>21, <1>t, ApiType DEF UpdateTargetPool, TypeOK, Jobs
    <2>2. CASE Disturb /\ HostsFail(s)
      BY <1>18, <1>20, <1>21, <1>t, <2>1, <2>2, DisturbType DEF UpdateTargetPool
    <2>3. CASE /\ hostTodo' = [hostTodo EXCEPT ![s] = @ \ {p}]
               /\ UNCHANGED <<hostDirty, hostJob, raced, budget>>
      <3>1. hostTodo' \in [Services -> SUBSET Pools]
        BY <1>t, <2>3 DEF TypeOK
      <3> QED
        BY <1>18, <1>21, <1>t, <2>1, <2>3, <3>1 DEF UpdateTargetPool, TypeOK
    <2> QED
      BY <1>21, <2>2, <2>3 DEF UpdateTargetPool
  <1>22. ASSUME NEW s \in Services, NEW p \in Pools, UpdateTargetPoolFails(s, p)
         PROVE  TypeInv'
    BY <1>18, <1>20, <1>22, <1>t, ApiUnchanged, DisturbType DEF UpdateTargetPoolFails
  <1>23. ASSUME NEW s \in Services, HostsUpdated(s)
         PROVE  TypeInv'
    BY <1>18, <1>23, <1>t, ApiUnchanged DEF HostsUpdated, TypeOK
  <1>24. ASSUME NEW s \in Services, ChangeService(s)
         PROVE  TypeInv'
    <2>1. TypeOK'
      BY <1>24, <1>t, ApiUnchanged, DisturbType DEF ChangeService, TypeOK, local, hosts
    <2>2. \A t \in Services : ControlInv(t)'
      BY <1>24 DEF ChangeService, TypeInv, local, ControlInv
    <2> QED
      BY <2>1, <2>2 DEF TypeInv
  <1>25. ASSUME ChangeNodes
         PROVE  TypeInv'
    <2>1. TypeOK'
      BY <1>25, <1>t, ApiUnchanged, DisturbType DEF ChangeNodes, TypeOK, local, queue
    <2>2. \A t \in Services : ControlInv(t)'
      BY <1>25 DEF ChangeNodes, TypeInv, local, queue, ControlInv
    <2> QED
      BY <2>1, <2>2 DEF TypeInv
  <1>26. ASSUME Restart
         PROVE  TypeInv'
    <2>1. TypeOK'
      BY <1>26, <1>r, <1>t, ApiUnchanged, DisturbType, NoLoadBalancerType DEF Restart, TypeOK
    <2>2. \A t \in Services : ControlInv(t)'
      BY <1>26 DEF Restart, ControlInv, Ensuring, Deleting, Specifying, RereadsRef
    <2> QED
      BY <2>1, <2>2 DEF TypeInv
  <1>27. ASSUME NEW s \in Services, Provision(s)
         PROVE  TypeInv'
    BY <1>18, <1>27, <1>t, ApiType DEF Provision, hosts, TypeOK
  <1>28. ASSUME NEW s \in Services, Break(s)
         PROVE  TypeInv'
    BY <1>18, <1>28, <1>t, ApiType, DisturbType DEF Break, hosts, TypeOK
  <1>29. CASE UNCHANGED vars
    BY <1>18, <1>29, <1>t, ApiUnchanged DEF vars, hosts, TypeOK
  <1> QED
    BY <1>2, <1>3, <1>4, <1>5, <1>6, <1>7, <1>8, <1>9, <1>10, <1>11, <1>12, <1>13, <1>14,
       <1>15, <1>16, <1>17, <1>19, <1>21, <1>22, <1>23, <1>24, <1>25, <1>26, <1>27, <1>28,
       <1>29
    DEF Next, Handler, Ensure, Delete, HostUpdate

\* Every variable keeps its type, and every handler's position agrees with what it
\* holds: it never uses an absent service, configuration or reference.
THEOREM TypeCorrect == Spec => []TypeOK
  <1>1. TypeInv => TypeOK
    BY DEF TypeInv
  <1> QED
    BY InitType, NextType, <1>1, PTL DEF Spec
-----------------------------------------------------------------------------
\* Credentials.

\* The part of the invariant that speaks of one service.
Own(s) ==
  /\ HandlerInv(s)
  /\ lb[s].spec.ref # None => owner[lb[s].spec.ref] = s
  /\ result[s] = "deleted" =>
        CredentialsOf(s) = {} /\ lb[s].status \in {"NONE", "TERMINATING"}

LEMMA CredentialInvParts ==
  ASSUME TypeInv
  PROVE  CredentialInv <=> AtMostOneCredential /\ \A s \in Services : Own(s)
  BY DEF CredentialInv, Own, NoDanglingReference, DeletedLeavesNothing, TypeInv

LEMMA CredentialInvPartsNext ==
  ASSUME TypeInv'
  PROVE  CredentialInv' <=> AtMostOneCredential' /\ \A s \in Services : Own(s)'
  BY DEF CredentialInv, Own, NoDanglingReference, DeletedLeavesNothing, TypeInv

\* What does not concern a service leaves its part of the invariant alone.
LEMMA OwnUnchanged ==
  ASSUME NEW t \in Services, Own(t),
         pc'[t] = pc[t], result'[t] = result[t], job'[t] = job[t], got'[t] = got[t],
         obs'[t] = obs[t], todo'[t] = todo[t],
         lb'[t].spec.ref = lb[t].spec.ref,
         lb[t].status \in {"NONE", "TERMINATING"} => lb'[t].status \in {"NONE", "TERMINATING"},
         \A c \in CredRefs : owner'[c] = t <=> owner[c] = t,
         lb[t].spec.ref \in CredRefs \cup {None},
         got[t].spec.ref \in CredRefs \cup {None},
         obs[t] \in CredRefs \cup {None}
  PROVE  Own(t)'
  <1>1. CredentialsOf(t)' = CredentialsOf(t)
    BY DEF CredentialsOf
  <1> QED
    BY <1>1 DEF Own, HandlerInv

\* A step of the handler of s may create or delete credentials of s and change the
\* load balancer of s, and nothing else.
OnlyOf(s) ==
  /\ \A t \in Services \ {s} :
        /\ pc'[t] = pc[t] /\ result'[t] = result[t] /\ job'[t] = job[t]
        /\ got'[t] = got[t] /\ obs'[t] = obs[t] /\ todo'[t] = todo[t]
        /\ lb'[t] = lb[t]
  /\ \A c \in CredRefs : owner'[c] = owner[c] \/ (owner[c] \in {s, None} /\ owner'[c] \in {s, None})

LEMMA HandlerStep ==
  ASSUME TypeInv, TypeInv', CredentialInv, NEW s \in Services,
         OnlyOf(s), Own(s)', AtMostOneCredential'
  PROVE  CredentialInv'
  <1>1. ASSUME NEW t \in Services \ {s}
        PROVE  Own(t)'
    <2>1. Own(t)
      BY CredentialInvParts
    <2>2. \A c \in CredRefs : owner'[c] = t <=> owner[c] = t
      BY NoneAssumption DEF OnlyOf
    <2>3. /\ lb[t].spec.ref \in CredRefs \cup {None}
          /\ got[t].spec.ref \in CredRefs \cup {None}
          /\ obs[t] \in CredRefs \cup {None}
      BY DEF TypeInv, TypeOK, ApiTypeOK, LoadBalancers, Payloads
    <2> QED
      BY <2>1, <2>2, <2>3, OwnUnchanged DEF OnlyOf
  <1> QED
    BY <1>1, CredentialInvPartsNext

\* The frame of a handler step that returns or goes on.
LEMMA ReturnOnly ==
  ASSUME TypeInv, NEW s \in Services, NEW r, Return(s, r)
  PROVE  \A t \in Services \ {s} :
            /\ pc'[t] = pc[t] /\ result'[t] = result[t] /\ job'[t] = job[t]
            /\ got'[t] = got[t] /\ obs'[t] = obs[t] /\ todo'[t] = todo[t]
  BY DEF TypeInv, TypeOK, Return

LEMMA ContinueOnly ==
  ASSUME TypeInv, NEW s \in Services, NEW next, Continue(s, next)
  PROVE  /\ pc'[s] = next
         /\ result' = result
         /\ metrics' = metrics
         /\ \A t \in Services \ {s} : pc'[t] = pc[t]
  BY DEF TypeInv, TypeOK, Continue, queue, request

\* A handler that returns leaves nothing to be shown but the state of the API.
LEMMA ReturnOwn ==
  ASSUME TypeInv, NEW s \in Services, NEW r, Return(s, r),
         lb'[s].spec.ref # None => owner'[lb'[s].spec.ref] = s,
         r = "deleted" => CredentialsOf(s)' = {} /\ lb'[s].status \in {"NONE", "TERMINATING"}
  PROVE  Own(s)'
  <1>1. pc'[s] = "idle" /\ result'[s] = r
    BY DEF TypeInv, TypeOK, Return
  <1> QED
    BY <1>1 DEF Own, HandlerInv, CleaningUp, Specifying, RereadsRef

LEMMA InitCredentials == Init => CredentialInv
  BY NoneAssumption
  DEF Init, ApiInit, NoLoadBalancer, NoPayload, CredentialInv, AtMostOneCredential,
      NoDanglingReference, DeletedLeavesNothing, ControlInv, HandlerInv, CleaningUp,
      Specifying, Ensuring, Deleting, RereadsRef

\* Deleting credentials of s that nothing references, or creating credentials for a
\* service that has none, keeps at most one set per service.
LEMMA DeleteKeepsOne ==
  ASSUME TypeInv, CredentialInv, NEW s \in Services, NEW c \in CredRefs,
         owner[c] = s, ApiDeleteCredentials(c)
  PROVE  /\ AtMostOneCredential'
         /\ lb' = lb
         /\ \A d \in CredRefs : owner'[d] = IF d = c THEN None ELSE owner[d]
         /\ CredentialsOf(s)' = CredentialsOf(s) \ {c}
         /\ \A t \in Services : lb[t].spec.ref # c
  BY NoneAssumption
  DEF ApiDeleteCredentials, Deletable, Referenced, TypeInv, TypeOK, ApiTypeOK, CredentialsOf,
      CredentialInv, AtMostOneCredential

LEMMA CreateKeepsOne ==
  ASSUME TypeInv, CredentialInv, NEW s \in Services, NEW c \in CredRefs, NEW x,
         CredentialsOf(s) = {}, owner[c] = None, ApiCreateCredentials(s, c, x)
  PROVE  /\ AtMostOneCredential'
         /\ lb' = lb
         /\ \A d \in CredRefs : owner'[d] = IF d = c THEN s ELSE owner[d]
  BY NoneAssumption
  DEF ApiCreateCredentials, TypeInv, TypeOK, ApiTypeOK, CredentialsOf,
      CredentialInv, AtMostOneCredential

\* A call that leaves credentials alone.
LEMMA SameCredentials ==
  ASSUME CredentialInv, owner' = owner
  PROVE  AtMostOneCredential' /\ \A s \in Services : CredentialsOf(s)' = CredentialsOf(s)
  BY DEF CredentialInv, AtMostOneCredential, CredentialsOf

\* What an update that the API accepts does to the load balancer.
LEMMA UpdateEffect ==
  ASSUME TypeInv, NEW s \in Services, NEW v, NEW payload, ApiUpdateLB(s, v, payload)
  PROVE  /\ lb'[s].spec = payload
         /\ owner' = owner
         /\ \A t \in Services \ {s} : lb'[t] = lb[t]
  BY DEF ApiUpdateLB, TypeInv, TypeOK, ApiTypeOK

LEMMA NextCredentials ==
  TypeInv /\ TypeInv' /\ CredentialInv /\ [Next]_vars => CredentialInv'
  <1> SUFFICES ASSUME TypeInv, TypeInv', CredentialInv, [Next]_vars
               PROVE  CredentialInv'
    OBVIOUS
  <1>t. /\ TypeOK /\ ApiTypeOK /\ AtMostOneCredential
        /\ \A s \in Services : Own(s) /\ ControlInv(s)
    BY CredentialInvParts DEF TypeInv, TypeOK
  <1>u. ASSUME NEW s \in Services
        PROVE  /\ lb[s].spec.ref \in CredRefs \cup {None}
               /\ got[s].spec.ref \in CredRefs \cup {None}
               /\ obs[s] \in CredRefs \cup {None}
    BY <1>t DEF TypeOK, ApiTypeOK, LoadBalancers, Payloads
  \* A handler that returns without having touched the credentials of another
  \* service or left a dangling reference.
  <1>1. ASSUME NEW s \in Services, NEW r, Return(s, r), r # "deleted",
               AtMostOneCredential',
               \A t \in Services \ {s} : lb'[t] = lb[t],
               \A c \in CredRefs : owner'[c] = owner[c]
                  \/ (owner[c] \in {s, None} /\ owner'[c] \in {s, None}),
               lb'[s].spec.ref # None => owner'[lb'[s].spec.ref] = s
        PROVE  CredentialInv'
    <2>1. OnlyOf(s)
      BY <1>1, ReturnOnly DEF OnlyOf
    <2>2. Own(s)'
      BY <1>1, ReturnOwn
    <2> QED
      BY <1>1, <2>1, <2>2, HandlerStep
  \* ... in particular when the API did not change at all.
  <1>2. ASSUME NEW s \in Services, NEW r, Return(s, r), r # "deleted", UNCHANGED api
        PROVE  CredentialInv'
    BY <1>t, <1>1, <1>2, SameCredentials DEF api, Own
  <1>3. ASSUME NEW s \in Services, Start(s)
        PROVE  CredentialInv'
    <2>1. OnlyOf(s)
      BY <1>3, <1>t DEF Start, OnlyOf, TypeOK, api
    <2>2. pc'[s] \in {"lookup", "get"} /\ result'[s] = "none" /\ UNCHANGED <<lb, owner>>
      BY <1>3, <1>t DEF Start, TypeOK, api
    <2>3. Own(s)'
      BY <1>t, <2>2 DEF Own, HandlerInv, CleaningUp, Specifying, RereadsRef
    <2> QED
      BY <2>1, <2>2, <2>3, HandlerStep, SameCredentials
  <1>4. ASSUME NEW s \in Services, EnsureGet(s)
        PROVE  CredentialInv'
    <2>1. /\ pc'[s] = ReconcileCredentials(lb[s].spec.ref)
          /\ UNCHANGED <<lb, owner, job, obs, todo, result, metrics>>
          /\ got'[s] = lb[s]
          /\ \A t \in Services \ {s} : got'[t] = got[t] /\ pc'[t] = pc[t]
      BY <1>4, <1>t, ContinueOnly DEF EnsureGet, TypeOK, api
    <2>2. OnlyOf(s)
      BY <2>1 DEF OnlyOf
    <2>3. result[s] = "none" /\ obs[s] = None
      BY <1>4, <1>t DEF EnsureGet, ControlInv, Specifying
    <2>4. pc'[s] \in {"compare", "list", "updateCredentials"} /\ (pc'[s] = "list" => lb[s].spec.ref = None)
      BY <1>t, <2>1, ReconcileType
    <2>5. Own(s)'
      BY <1>t, <2>1, <2>3, <2>4 DEF Own, HandlerInv, CleaningUp, Specifying, RereadsRef
    <2> QED
      BY <2>1, <2>2, <2>5, HandlerStep, SameCredentials
  <1>5. ASSUME NEW s \in Services, ListCredentials(s)
        PROVE  CredentialInv'
    <2>1. /\ pc'[s] = "purge"
          /\ UNCHANGED <<lb, owner, job, obs, got, result>>
          /\ todo'[s] = CredentialsOf(s)
          /\ \A t \in Services \ {s} : todo'[t] = todo[t] /\ pc'[t] = pc[t]
      BY <1>5, <1>t, ContinueOnly DEF ListCredentials, TypeOK, api
    <2>2. OnlyOf(s)
      BY <2>1 DEF OnlyOf
    <2>3. result[s] = "none"
      BY <1>5, <1>t DEF ListCredentials, ControlInv
    <2>4. Own(s)'
      BY <1>5, <1>t, <2>1, <2>3, SameCredentials
      DEF ListCredentials, Own, HandlerInv, CleaningUp, Specifying, RereadsRef
    <2> QED
      BY <2>1, <2>2, <2>4, HandlerStep, SameCredentials
  <1>6. ASSUME NEW s \in Services, NEW c \in CredRefs, PurgeCredentials(s, c)
        PROVE  CredentialInv'
    <2>1. owner[c] = s /\ lb[s].spec.ref = None /\ result[s] = "none"
      BY <1>6, <1>t DEF PurgeCredentials, Own, HandlerInv, ControlInv, CleaningUp, CredentialsOf
    <2>2. /\ AtMostOneCredential' /\ lb' = lb
          /\ \A d \in CredRefs : owner'[d] = IF d = c THEN None ELSE owner[d]
          /\ CredentialsOf(s)' = CredentialsOf(s) \ {c}
      BY <1>6, <2>1, DeleteKeepsOne DEF PurgeCredentials
    <2>3. CASE AnswerLost(s)
      BY <1>1, <2>1, <2>2, <2>3 DEF AnswerLost
    <2>4. CASE /\ todo' = [todo EXCEPT ![s] = @ \ {c}]
               /\ Continue(s, "purge")
               /\ UNCHANGED <<job, got, obs, budget>>
      <3>1. /\ pc'[s] = "purge" /\ todo'[s] = todo[s] \ {c} /\ UNCHANGED <<job, got, obs, result>>
            /\ \A t \in Services \ {s} : todo'[t] = todo[t] /\ pc'[t] = pc[t]
        BY <1>t, <2>4, ContinueOnly DEF TypeOK
      <3>2. OnlyOf(s)
        BY <2>1, <2>2, <3>1 DEF OnlyOf
      <3>3. Own(s)'
        BY <1>6, <1>t, <2>1, <2>2, <3>1
        DEF PurgeCredentials, Own, HandlerInv, CleaningUp, Specifying, RereadsRef
      <3> QED
        BY <2>2, <3>2, <3>3, HandlerStep
    <2> QED
      BY <1>6, <2>3, <2>4 DEF PurgeCredentials
  <1>7. ASSUME NEW s \in Services, Purged(s)
        PROVE  CredentialInv'
    <2>1. /\ pc'[s] \in {"deleteLB", "createCredentials"}
          /\ UNCHANGED <<lb, owner, job, obs, got, todo, result>>
          /\ \A t \in Services \ {s} : pc'[t] = pc[t]
      BY <1>7, <1>t, ContinueOnly DEF Purged, local, api
    <2>2. OnlyOf(s)
      BY <2>1 DEF OnlyOf
    <2>3. result[s] = "none" /\ CredentialsOf(s) = {} /\ lb[s].spec.ref = None
      BY <1>7, <1>t DEF Purged, ControlInv, Own, HandlerInv, CleaningUp
    <2>4. Own(s)'
      BY <1>7, <1>t, <2>1, <2>3, SameCredentials
      DEF Purged, Own, HandlerInv, CleaningUp, Specifying, RereadsRef
    <2> QED
      BY <2>1, <2>2, <2>4, HandlerStep, SameCredentials
  <1>8. ASSUME NEW s \in Services, NEW c \in CredRefs, CreateCredentials(s, c)
        PROVE  CredentialInv'
    <2>1. /\ CredentialsOf(s) = {} /\ lb[s].spec.ref = None /\ result[s] = "none"
          /\ owner[c] = None /\ got[s].spec.ref = None
      BY <1>8, <1>t DEF CreateCredentials, Fresh, Own, HandlerInv, ControlInv, CleaningUp, Ensuring
    <2>2. /\ AtMostOneCredential' /\ lb' = lb
          /\ \A d \in CredRefs : owner'[d] = IF d = c THEN s ELSE owner[d]
      BY <1>8, <2>1, CreateKeepsOne DEF CreateCredentials
    <2>3. CASE AnswerLost(s)
      BY <1>1, <2>1, <2>2, <2>3 DEF AnswerLost
    <2>4. CASE /\ obs' = [obs EXCEPT ![s] = c]
               /\ Continue(s, "compare")
               /\ UNCHANGED <<job, got, todo, budget>>
      <3>1. /\ pc'[s] = "compare" /\ obs'[s] = c /\ UNCHANGED <<job, got, todo, result>>
            /\ \A t \in Services \ {s} : obs'[t] = obs[t] /\ pc'[t] = pc[t]
        BY <1>t, <2>4, ContinueOnly DEF TypeOK
      <3>2. OnlyOf(s)
        BY <2>1, <2>2, <3>1 DEF OnlyOf
      <3>3. Own(s)'
        BY <2>1, <2>2, <3>1 DEF Own, HandlerInv, CleaningUp, Specifying, RereadsRef
      <3> QED
        BY <2>2, <3>2, <3>3, HandlerStep
    <2> QED
      BY <1>8, <2>3, <2>4 DEF CreateCredentials
  <1>9. ASSUME NEW s \in Services, UpdateCredentials(s)
        PROVE  CredentialInv'
    <2>1. UNCHANGED <<lb, owner>>
      BY <1>9 DEF UpdateCredentials, ApiUpdateCredentials
    <2>2. result[s] = "none"
      BY <1>9, <1>t DEF UpdateCredentials, ControlInv
    <2>3. CASE AnswerLost(s)
      BY <1>1, <1>t, <2>1, <2>3, SameCredentials DEF AnswerLost, Own
    <2>4. CASE /\ obs' = [obs EXCEPT ![s] = got[s].spec.ref]
               /\ Continue(s, "compare")
               /\ UNCHANGED <<job, got, todo, budget>>
      <3>1. /\ pc'[s] = "compare" /\ obs'[s] = got[s].spec.ref /\ UNCHANGED <<job, got, todo, result>>
            /\ \A t \in Services \ {s} : obs'[t] = obs[t] /\ pc'[t] = pc[t]
        BY <1>t, <2>4, ContinueOnly DEF TypeOK
      <3>2. OnlyOf(s)
        BY <2>1, <3>1 DEF OnlyOf
      <3>3. Own(s)'
        BY <1>9, <1>t, <2>1, <2>2, <3>1
        DEF UpdateCredentials, Own, HandlerInv, CleaningUp, Specifying, RereadsRef
      <3> QED
        BY <2>1, <3>2, <3>3, HandlerStep, SameCredentials
    <2> QED
      BY <1>9, <2>3, <2>4 DEF UpdateCredentials
  <1>10. ASSUME NEW s \in Services, Compare(s)
         PROVE  CredentialInv'
    <2>1. UNCHANGED <<lb, owner>> /\ UNCHANGED api
      BY <1>10 DEF Compare, api
    <2>2. ASSUME NEW next \in {"createLB", "updateLB"}, Continue(s, next), UNCHANGED local
          PROVE  CredentialInv'
      <3>1. /\ pc'[s] = next /\ UNCHANGED <<job, got, obs, todo, result>>
            /\ \A t \in Services \ {s} : pc'[t] = pc[t]
        BY <2>2, ContinueOnly DEF local
      <3>2. OnlyOf(s)
        BY <2>1, <3>1 DEF OnlyOf
      <3>3. result[s] = "none"
        BY <1>10, <1>t DEF Compare, ControlInv
      <3>4. Own(s)'
        BY <1>10, <1>t, <2>1, <2>2, <3>1, <3>3
        DEF Compare, Own, HandlerInv, CleaningUp, Specifying, RereadsRef
      <3> QED
        BY <2>1, <3>2, <3>4, HandlerStep, SameCredentials
    <2>3. StatusResult(got[s].status) # "deleted"
      BY DEF StatusResult
    <2>4. job[s].svc.valid \in BOOLEAN
      BY <1>10, <1>t, SpecsAssumption DEF Compare, TypeOK, ControlInv, Ensuring,
         Specifying, Jobs
    <2>5. ASSUME NEW r, Return(s, r), r # "deleted"
          PROVE  CredentialInv'
      BY <1>2, <2>1, <2>5
    <2>6. CASE Return(s, "error") \/ Return(s, StatusResult(got[s].status))
      BY <2>3, <2>5, <2>6
    <2> QED
      BY <1>10, <2>2, <2>4, <2>6, Zenon DEF Compare
  <1>11. ASSUME NEW s \in Services, CreateLB(s)
         PROVE  CredentialInv'
    <2>1. /\ owner' = owner
          /\ lb'[s].spec.ref = obs[s]
          /\ \A t \in Services \ {s} : lb'[t] = lb[t]
      BY <1>11, <1>t DEF CreateLB, ApiCreateLB, ApiTypeOK, WantedSpec, SpecFromService
    <2>2. lb'[s].spec.ref # None => owner'[lb'[s].spec.ref] = s
      BY <1>11, <1>t, <2>1 DEF CreateLB, Own, HandlerInv, Specifying
    <2>3. \E r : Return(s, r) /\ r # "deleted"
      BY <1>11 DEF CreateLB, AnswerLost
    <2> QED
      BY <1>1, <2>1, <2>2, <2>3, SameCredentials
  <1>12. ASSUME NEW s \in Services, UpdateLB(s)
         PROVE  CredentialInv'
    <2>1. /\ owner' = owner
          /\ lb'[s].spec.ref = obs[s]
          /\ \A t \in Services \ {s} : lb'[t] = lb[t]
      BY <1>12, UpdateEffect DEF UpdateLB, WantedSpec, SpecFromService
    <2>2. lb'[s].spec.ref # None => owner'[lb'[s].spec.ref] = s
      BY <1>12, <1>t, <2>1 DEF UpdateLB, Own, HandlerInv, Specifying
    <2>3. ASSUME NEW r, Return(s, r), r # "deleted"
          PROVE  CredentialInv'
      BY <1>1, <2>1, <2>2, <2>3, SameCredentials
    <2>4. StatusResult(lb'[s].status) # "deleted"
      BY DEF StatusResult
    <2>5. CASE /\ metrics = None /\ got[s].spec.ref # None
               /\ got' = [got EXCEPT ![s] = WithStatus(got[s], lb'[s].status)]
               /\ Continue(s, "dropCredentials")
               /\ UNCHANGED <<job, obs, todo>>
      <3>1. /\ pc'[s] = "dropCredentials" /\ UNCHANGED <<job, obs, todo, result>>
            /\ got'[s].spec = got[s].spec
            /\ \A t \in Services \ {s} : got'[t] = got[t] /\ pc'[t] = pc[t]
        BY <1>t, <2>5, ContinueOnly DEF TypeOK, WithStatus
      <3>2. OnlyOf(s)
        BY <2>1, <3>1 DEF OnlyOf
      <3>3. result[s] = "none" /\ obs[s] = None
        BY <1>12, <1>t, <2>5 DEF UpdateLB, ControlInv
      <3>4. Own(s)'
        BY <1>12, <1>t, <2>1, <2>5, <3>1, <3>3
        DEF UpdateLB, Own, HandlerInv, CleaningUp, Specifying, RereadsRef
      <3> QED
        BY <2>1, <3>2, <3>4, HandlerStep, SameCredentials
    <2> QED
      BY <1>12, <2>3, <2>4, <2>5 DEF UpdateLB, AnswerLost
  <1>13. ASSUME NEW s \in Services, DropCredentials(s)
         PROVE  CredentialInv'
    <2> DEFINE c == got[s].spec.ref
    <2>1. /\ c \in CredRefs /\ owner[c] = s /\ lb[s].spec.ref = None /\ result[s] = "none"
      BY <1>13, <1>t, <1>u DEF DropCredentials, Own, HandlerInv, ControlInv, RereadsRef
    <2>2. /\ AtMostOneCredential' /\ lb' = lb
          /\ \A d \in CredRefs : owner'[d] = IF d = c THEN None ELSE owner[d]
      BY <1>13, <2>1, DeleteKeepsOne DEF DropCredentials
    <2>3. ASSUME NEW r, Return(s, r), r # "deleted"
          PROVE  CredentialInv'
      BY <1>1, <2>1, <2>2, <2>3
    <2>4. StatusResult(got[s].status) # "deleted"
      BY DEF StatusResult
    <2>5. CASE job[s].svc = None /\ Continue(s, "list") /\ UNCHANGED local
      <3>1. /\ pc'[s] = "list" /\ UNCHANGED <<job, got, obs, todo, result>>
            /\ \A t \in Services \ {s} : pc'[t] = pc[t]
        BY <2>5, ContinueOnly DEF local
      <3>2. OnlyOf(s)
        BY <2>1, <2>2, <3>1 DEF OnlyOf
      <3>3. Own(s)'
        BY <2>1, <2>2, <2>5, <3>1 DEF Own, HandlerInv, CleaningUp, Specifying, RereadsRef
      <3> QED
        BY <2>2, <3>2, <3>3, HandlerStep
    <2> QED
      BY <1>13, <2>3, <2>4, <2>5 DEF DropCredentials, AnswerLost
  <1>14. ASSUME NEW s \in Services, GetLoadBalancer(s)
         PROVE  CredentialInv'
    <2>1. UNCHANGED <<lb, owner>> /\ UNCHANGED api
      BY <1>14 DEF GetLoadBalancer, api
    <2>2. CASE Return(s, "absent")
      BY <1>2, <2>1, <2>2
    <2>3. CASE Continue(s, "getToDelete") /\ UNCHANGED local
      <3>1. /\ pc'[s] = "getToDelete" /\ UNCHANGED <<job, got, obs, todo, result>>
            /\ \A t \in Services \ {s} : pc'[t] = pc[t]
        BY <2>3, ContinueOnly DEF local
      <3>2. OnlyOf(s)
        BY <2>1, <3>1 DEF OnlyOf
      <3>3. result[s] = "none"
        BY <1>14, <1>t DEF GetLoadBalancer, ControlInv
      <3>4. Own(s)'
        BY <1>t, <2>1, <3>1, <3>3 DEF Own, HandlerInv, CleaningUp, Specifying, RereadsRef
      <3> QED
        BY <2>1, <3>2, <3>4, HandlerStep, SameCredentials
    <2> QED
      BY <1>14, <2>2, <2>3 DEF GetLoadBalancer
  <1>15. ASSUME NEW s \in Services, GetToDelete(s)
         PROVE  CredentialInv'
    <2>1. UNCHANGED <<lb, owner>> /\ UNCHANGED api
      BY <1>15 DEF GetToDelete, api
    <2>2. CASE Return(s, "absent") \/ Return(s, "terminating")
      BY <1>2, <2>1, <2>2
    <2>3. CASE /\ got' = [got EXCEPT ![s] = lb[s]]
               /\ Continue(s, IF lb[s].spec.ref = None THEN "list" ELSE "unreference")
               /\ UNCHANGED <<job, obs, todo>>
      <3>1. /\ pc'[s] = IF lb[s].spec.ref = None THEN "list" ELSE "unreference"
            /\ got'[s] = lb[s] /\ UNCHANGED <<job, obs, todo, result>>
            /\ \A t \in Services \ {s} : pc'[t] = pc[t] /\ got'[t] = got[t]
        BY <1>t, <2>3, ContinueOnly DEF TypeOK
      <3>2. OnlyOf(s)
        BY <2>1, <3>1 DEF OnlyOf
      <3>3. result[s] = "none"
        BY <1>15, <1>t DEF GetToDelete, ControlInv
      <3>4. Own(s)'
        BY <1>t, <2>1, <3>1, <3>3 DEF Own, HandlerInv, CleaningUp, Specifying, RereadsRef
      <3> QED
        BY <2>1, <3>2, <3>4, HandlerStep, SameCredentials
    <2> QED
      BY <1>15, <2>2, <2>3, Zenon DEF GetToDelete
  <1>16. ASSUME NEW s \in Services, Unreference(s)
         PROVE  CredentialInv'
    <2>1. /\ owner' = owner
          /\ lb'[s].spec.ref = None
          /\ \A t \in Services \ {s} : lb'[t] = lb[t]
      BY <1>16, UpdateEffect DEF Unreference, WithoutObservability
    <2>2. CASE AnswerLost(s)
      BY <1>1, <2>1, <2>2, SameCredentials DEF AnswerLost
    <2>3. CASE Continue(s, "dropCredentials") /\ UNCHANGED <<local, budget>>
      <3>1. /\ pc'[s] = "dropCredentials" /\ UNCHANGED <<job, got, obs, todo, result>>
            /\ \A t \in Services \ {s} : pc'[t] = pc[t]
        BY <2>3, ContinueOnly DEF local
      <3>2. OnlyOf(s)
        BY <2>1, <3>1 DEF OnlyOf
      <3>3. result[s] = "none"
        BY <1>16, <1>t DEF Unreference, ControlInv
      <3>4. Own(s)'
        BY <1>16, <1>t, <2>1, <3>1, <3>3
        DEF Unreference, Own, HandlerInv, CleaningUp, Specifying, RereadsRef
      <3> QED
        BY <2>1, <3>2, <3>4, HandlerStep, SameCredentials
    <2> QED
      BY <1>16, <2>2, <2>3 DEF Unreference
  <1>17. ASSUME NEW s \in Services, DeleteLB(s)
         PROVE  CredentialInv'
    <2>1. /\ owner' = owner
          /\ lb'[s].spec = lb[s].spec
          /\ lb'[s].status \in {"NONE", "TERMINATING"}
          /\ \A t \in Services \ {s} : lb'[t] = lb[t]
      BY <1>17, <1>t DEF DeleteLB, ApiDeleteLB, ApiTypeOK, WithStatus, Exists
    <2>2. CredentialsOf(s)' = {} /\ lb[s].spec.ref = None
      BY <1>17, <1>t, <2>1, SameCredentials DEF DeleteLB, Own, HandlerInv, CleaningUp
    <2>3. ASSUME NEW r, Return(s, r)
          PROVE  CredentialInv'
      <3>1. OnlyOf(s)
        BY <2>1, <2>3, ReturnOnly DEF OnlyOf
      <3>2. Own(s)'
        BY <2>1, <2>2, <2>3, ReturnOwn
      <3> QED
        BY <2>1, <3>1, <3>2, HandlerStep, SameCredentials
    <2> QED
      BY <1>17, <2>3 DEF DeleteLB, AnswerLost
  <1>18. ASSUME NEW s \in Services, CallFails(s)
         PROVE  CredentialInv'
    BY <1>2, <1>18 DEF CallFails
  \* Steps outside the handlers that keep references and credentials.
  <1>19. ASSUME UNCHANGED <<pc, result, local, owner>>,
                \A t \in Services :
                   /\ lb'[t].spec.ref = lb[t].spec.ref
                   /\ lb[t].status \in {"NONE", "TERMINATING"}
                         => lb'[t].status \in {"NONE", "TERMINATING"}
         PROVE  CredentialInv'
    <2>1. ASSUME NEW t \in Services
          PROVE  Own(t)'
      BY <1>19, <1>t, <1>u, OwnUnchanged DEF local
    <2> QED
      BY <1>19, <2>1, SameCredentials, CredentialInvPartsNext
  <1>20. ASSUME UNCHANGED <<pc, result, local, api>>
         PROVE  CredentialInv'
    BY <1>19, <1>20 DEF api
  <1>21. ASSUME NEW s \in Services, NEW p \in Pools, UpdateTargetPool(s, p)
         PROVE  CredentialInv'
    <2>1. owner' = owner /\ \A t \in Services : lb'[t].spec.ref = lb[t].spec.ref
                                            /\ lb'[t].status = lb[t].status
      BY <1>21, <1>t DEF UpdateTargetPool, ApiUpdateTargetPool, WithTargets, ApiTypeOK
    <2> QED
      BY <1>19, <1>21, <2>1 DEF UpdateTargetPool, queue
  <1>22. ASSUME NEW s \in Services, ApiProvisioned(s) \/ ApiRepaired(s) \/ ApiBreaks(s),
                UNCHANGED <<pc, queue, local>>
         PROVE  CredentialInv'
    <2>1. /\ owner' = owner
          /\ \A t \in Services :
                /\ lb'[t].spec.ref = lb[t].spec.ref
                /\ lb[t].status \in {"NONE", "TERMINATING"} => lb'[t].status = lb[t].status
      BY <1>22, <1>t DEF ApiProvisioned, ApiRepaired, ApiBreaks, WithStatus, ApiTypeOK
    <2> QED
      BY <1>19, <1>22, <2>1 DEF queue
  <1>23. ASSUME NEW s \in Services, ApiGone(s), UNCHANGED <<pc, queue, local>>
         PROVE  CredentialInv'
    <2>1. /\ owner' = owner
          /\ lb'[s] = NoLoadBalancer
          /\ \A t \in Services \ {s} : lb'[t] = lb[t]
      BY <1>23, <1>t DEF ApiGone, ApiTypeOK
    <2>2. OnlyOf(s)
      BY <1>23, <2>1 DEF OnlyOf, queue, local
    <2>3. Own(s)'
      BY <1>23, <1>t, <2>1, SameCredentials
      DEF Own, HandlerInv, NoLoadBalancer, NoPayload, queue, local
    <2> QED
      BY <2>1, <2>2, <2>3, HandlerStep, SameCredentials
  <1>24. ASSUME Restart
         PROVE  CredentialInv'
    <2>1. ASSUME NEW t \in Services
          PROVE  Own(t)'
      BY <1>24, <1>t DEF Restart, api, Own, HandlerInv, CleaningUp, Specifying, RereadsRef
    <2> QED
      BY <1>24, <2>1, SameCredentials, CredentialInvPartsNext DEF Restart, api
  <1>25. CASE UNCHANGED vars
    BY <1>20, <1>25 DEF vars, queue
  <1>26. ASSUME NEW s \in Services,
                \/ StartHostUpdate(s) \/ HostsUpdated(s) \/ ChangeService(s) \/ ChangeNodes
                \/ \E p \in Pools : UpdateTargetPoolFails(s, p)
         PROVE  CredentialInv'
    BY <1>20, <1>26
    DEF StartHostUpdate, HostsUpdated, ChangeService, ChangeNodes, UpdateTargetPoolFails, queue
  <1>27. ASSUME ChangeNodes
         PROVE  CredentialInv'
    BY <1>20, <1>27 DEF ChangeNodes, queue
  <1>28. ASSUME NEW s \in Services, Provision(s) \/ Break(s)
         PROVE  CredentialInv'
    BY <1>22, <1>23, <1>28 DEF Provision, Break
  <1> QED
    BY <1>3, <1>4, <1>5, <1>6, <1>7, <1>8, <1>9, <1>10, <1>11, <1>12, <1>13, <1>14, <1>15,
       <1>16, <1>17, <1>18, <1>21, <1>24, <1>25, <1>26, <1>27, <1>28
    DEF Next, Handler, Ensure, Delete, HostUpdate

\* The invariant that the following three theorems are read off, for every number of
\* services, however their handlers, host updates, failures and restarts interleave.
THEOREM CredentialsSafe == Spec => []CredentialInv
  <1>1. Init => TypeInv /\ CredentialInv
    BY InitType, InitCredentials
  <1>2. TypeInv /\ CredentialInv /\ [Next]_vars => (TypeInv /\ CredentialInv)'
    BY NextType, NextCredentials
  <1> QED
    BY <1>1, <1>2, PTL DEF Spec

\* Retries never accumulate credentials.
THEOREM NeverTwoCredentials == Spec => []AtMostOneCredential
  <1>1. CredentialInv => AtMostOneCredential
    BY DEF CredentialInv
  <1> QED
    BY <1>1, CredentialsSafe, PTL

\* No load balancer references credentials that are gone or another service's.
THEOREM ReferencesAlive == Spec => []NoDanglingReference
  <1>1. CredentialInv => NoDanglingReference
    BY DEF CredentialInv
  <1> QED
    BY <1>1, CredentialsSafe, PTL

\* A deletion that reports success has removed every credential of the service.
THEOREM DeletionComplete == Spec => []DeletedLeavesNothing
  <1>1. CredentialInv => DeletedLeavesNothing
    BY DEF CredentialInv
  <1> QED
    BY <1>1, CredentialsSafe, PTL

\* The API never has reason to refuse the deletion of credentials.
THEOREM DeletionNeverRefused == Spec => []DeletesOnlyUnreferenced
  <1>1. TypeInv /\ CredentialInv => DeletesOnlyUnreferenced
    <2> SUFFICES ASSUME TypeInv, CredentialInv, NEW s \in Services
                 PROVE  /\ pc[s] = "purge" => \A c \in todo[s] : Deletable(c)
                        /\ pc[s] = "dropCredentials" => Deletable(got[s].spec.ref)
      BY DEF DeletesOnlyUnreferenced
    <2>1. ASSUME NEW c \in CredRefs, owner[c] = s, lb[s].spec.ref = None
          PROVE  Deletable(c)
      BY <2>1, NoneAssumption DEF Deletable, Referenced, CredentialInv, NoDanglingReference
    <2>2. CASE pc[s] = "purge"
      BY <2>1, <2>2 DEF CredentialInv, HandlerInv, CleaningUp, CredentialsOf
    <2>3. CASE pc[s] = "dropCredentials"
      <3>1. got[s].spec.ref \in CredRefs
        BY <2>3 DEF CredentialInv, ControlInv, RereadsRef, TypeInv, TypeOK, LoadBalancers, Payloads
      <3> QED
        BY <2>1, <2>3, <3>1 DEF CredentialInv, HandlerInv, ControlInv, RereadsRef
    <2> QED
      BY <2>2, <2>3
  <1>2. Init => TypeInv /\ CredentialInv
    BY InitType, InitCredentials
  <1>3. TypeInv /\ CredentialInv /\ [Next]_vars => (TypeInv /\ CredentialInv)'
    BY NextType, NextCredentials
  <1> QED
    BY <1>1, <1>2, <1>3, PTL DEF Spec
\* Only three calls change whose credentials are whose.
LEMMA OwnerSteps ==
  ASSUME Next
  PROVE  \/ owner' = owner
         \/ \E s \in Services, d \in CredRefs : PurgeCredentials(s, d) \/ CreateCredentials(s, d)
         \/ \E s \in Services : DropCredentials(s)
  <1>1. ASSUME NEW s \in Services, Ensure(s)
        PROVE  \/ owner' = owner
               \/ \E d \in CredRefs : PurgeCredentials(s, d) \/ CreateCredentials(s, d)
               \/ DropCredentials(s)
    BY <1>1 DEF Ensure, EnsureGet, ListCredentials, Purged, UpdateCredentials, Compare,
                CreateLB, UpdateLB, ApiUpdateCredentials, ApiCreateLB, ApiUpdateLB, api
  <1>2. ASSUME NEW s \in Services, Delete(s) \/ CallFails(s)
        PROVE  owner' = owner
    BY <1>2 DEF Delete, GetLoadBalancer, GetToDelete, Unreference, DeleteLB, CallFails,
                ApiUpdateLB, ApiDeleteLB, api
  <1>3. ASSUME NEW s \in Services, Start(s) \/ StartHostUpdate(s) \/ HostUpdate(s)
        PROVE  owner' = owner
    BY <1>3 DEF Start, StartHostUpdate, HostUpdate, UpdateTargetPool, UpdateTargetPoolFails,
                HostsUpdated, ApiUpdateTargetPool, api
  <1>4. ASSUME NEW s \in Services, ChangeService(s) \/ Provision(s) \/ Break(s)
        PROVE  owner' = owner
    BY <1>4 DEF ChangeService, Provision, Break, ApiProvisioned, ApiRepaired, ApiGone,
                ApiBreaks, api
  <1>5. ChangeNodes \/ Restart => owner' = owner
    BY DEF ChangeNodes, Restart, api
  <1> QED
    BY <1>1, <1>2, <1>3, <1>4, <1>5 DEF Next, Handler

\* Credentials disappear only through a handler of the service they are named after,
\* however many services share the project's list of credentials (cleanUpCredentials).
THEOREM ForeignUntouched == Spec => NoForeignDeletion
  <1> DEFINE Step ==
        \A c \in CredRefs :
          owner[c] # None /\ owner'[c] # owner[c]
             => owner'[c] = None /\ pc[owner[c]] \in {"purge", "dropCredentials"}
  <1>1. TypeInv /\ CredentialInv /\ [Next]_vars => [Step]_vars
    <2> SUFFICES ASSUME TypeInv, CredentialInv, Next, NEW c \in CredRefs,
                        owner[c] # None, owner'[c] # owner[c]
                 PROVE  owner'[c] = None /\ pc[owner[c]] \in {"purge", "dropCredentials"}
      OBVIOUS
    <2>t. /\ owner \in [CredRefs -> Services \cup {None}]
          /\ \A s \in Services : todo[s] \subseteq CredRefs /\ HandlerInv(s) /\ ControlInv(s)
          /\ \A s \in Services : got[s].spec.ref \in CredRefs \cup {None}
      BY DEF TypeInv, TypeOK, ApiTypeOK, CredentialInv, LoadBalancers, Payloads
    <2>1. ASSUME NEW s \in Services, NEW d \in CredRefs, PurgeCredentials(s, d)
          PROVE  owner'[c] = None /\ pc[owner[c]] \in {"purge", "dropCredentials"}
      BY <2>1, <2>t DEF PurgeCredentials, ApiDeleteCredentials, HandlerInv, CredentialsOf
    <2>2. ASSUME NEW s \in Services, NEW d \in CredRefs, CreateCredentials(s, d)
          PROVE  FALSE
      BY <2>2, <2>t DEF CreateCredentials, Fresh, ApiCreateCredentials
    <2>3. ASSUME NEW s \in Services, DropCredentials(s)
          PROVE  owner'[c] = None /\ pc[owner[c]] \in {"purge", "dropCredentials"}
      BY <2>3, <2>t
      DEF DropCredentials, ApiDeleteCredentials, HandlerInv, ControlInv, RereadsRef
    <2> QED
      BY <2>1, <2>2, <2>3, OwnerSteps
  <1>2. Spec => [](TypeInv /\ CredentialInv)
    <2>1. Init => TypeInv /\ CredentialInv
      BY InitType, InitCredentials
    <2>2. TypeInv /\ CredentialInv /\ [Next]_vars => (TypeInv /\ CredentialInv)'
      BY NextType, NextCredentials
    <2> QED
      BY <2>1, <2>2, PTL DEF Spec
  <1> QED
    BY <1>1, <1>2, PTL DEF Spec, NoForeignDeletion

-----------------------------------------------------------------------------
\* What EnsureLoadBalancer reports as ready.

Alive(status) == status \notin {"NONE", "TERMINATING"}

\* The same but for the nodes in the target pools, which a host update changes.
SameService(x, y) == x.ref = y.ref /\ x.push = y.push /\ x.net = y.net /\ PoolsOf(x) = PoolsOf(y)

\* The specification is the one that the running handler of s was asked for.
Fits(s, spec) ==
    /\ spec.net = job[s].svc.net
    /\ PoolsOf(spec) = job[s].svc.pools
    /\ spec.ref = None <=> metrics = None
    /\ metrics # None => spec.push = metrics.push /\ secret[spec.ref] = metrics.secret

\* The steps of EnsureLoadBalancer between reading the load balancer and writing it.
Holding == {"list", "purge", "createCredentials", "updateCredentials", "compare", "updateLB"}

\* Why the answer of EnsureLoadBalancer is right: nobody but the handler ends the load
\* balancer that it read or changes more than targets, and the credentials it will refer
\* to hold the configured secret since they were created or updated.
SyncInv(s) ==
    /\ pc[s] \in Holding /\ job[s].svc # None /\ Alive(got[s].status) =>
          Alive(lb[s].status) /\ SameService(lb[s].spec, got[s].spec)
    /\ pc[s] = "dropCredentials" /\ job[s].svc # None /\ got[s].status = "READY" =>
          Alive(lb[s].status) /\ Fits(s, lb[s].spec)
    /\ pc[s] \in Specifying /\ obs[s] # None => secret[obs[s]] = metrics.secret
    /\ result[s] = "ready" => Alive(lb[s].status) /\ Fits(s, lb[s].spec)

AllSync == \A s \in Services : SyncInv(s)

\* What does not concern a service leaves its part of the invariant alone.
LEMMA SyncUnchanged ==
  ASSUME TypeInv, CredentialInv, NEW t \in Services, SyncInv(t),
         pc'[t] = pc[t], result'[t] = result[t], job'[t] = job[t], got'[t] = got[t],
         obs'[t] = obs[t], metrics' = metrics,
         Alive(lb[t].status) => Alive(lb'[t].status) /\ SameService(lb'[t].spec, lb[t].spec),
         \A c \in CredRefs : owner[c] = t => secret'[c] = secret[c]
  PROVE  SyncInv(t)'
  <1>1. /\ lb[t].spec.ref \in CredRefs \cup {None}
        /\ obs[t] \in CredRefs \cup {None}
    BY DEF TypeInv, TypeOK, ApiTypeOK, LoadBalancers, Payloads
  <1>2. lb[t].spec.ref # None => secret'[lb[t].spec.ref] = secret[lb[t].spec.ref]
    BY <1>1 DEF CredentialInv, NoDanglingReference
  <1>3. pc[t] \in Specifying /\ obs[t] # None => secret'[obs[t]] = secret[obs[t]]
    BY <1>1 DEF CredentialInv, HandlerInv
  <1>4. Alive(lb[t].status) /\ Fits(t, lb[t].spec) => Fits(t, lb[t].spec)'
    BY <1>2 DEF Fits, SameService
  <1>5. pc'[t] \in Holding /\ job'[t].svc # None /\ Alive(got'[t].status) =>
           Alive(lb'[t].status) /\ SameService(lb'[t].spec, got'[t].spec)
    BY DEF SyncInv, SameService
  <1>6. pc'[t] = "dropCredentials" /\ job'[t].svc # None /\ got'[t].status = "READY" =>
           Alive(lb'[t].status) /\ Fits(t, lb[t].spec)'
    BY <1>4 DEF SyncInv
  <1>7. pc'[t] \in Specifying /\ obs'[t] # None => secret'[obs'[t]] = metrics'.secret
    BY <1>3 DEF SyncInv
  <1>8. result'[t] = "ready" => Alive(lb'[t].status) /\ Fits(t, lb[t].spec)'
    BY <1>4 DEF SyncInv
  <1> QED
    BY <1>5, <1>6, <1>7, <1>8 DEF SyncInv

\* A step of the handler of s.
SyncOnly(s) ==
  /\ \A t \in Services \ {s} :
        /\ pc'[t] = pc[t] /\ result'[t] = result[t] /\ job'[t] = job[t]
        /\ got'[t] = got[t] /\ obs'[t] = obs[t] /\ lb'[t] = lb[t]
  /\ metrics' = metrics
  /\ \A c \in CredRefs : owner[c] \notin {s, None} => secret'[c] = secret[c]

LEMMA SyncHandlerStep ==
  ASSUME TypeInv, CredentialInv, AllSync, NEW s \in Services, SyncOnly(s), SyncInv(s)'
  PROVE  AllSync'
  <1>1. ASSUME NEW t \in Services \ {s}
        PROVE  SyncInv(t)'
    <2>1. \A c \in CredRefs : owner[c] = t => secret'[c] = secret[c]
      BY <1>1, NoneAssumption DEF SyncOnly
    <2>2. SyncInv(t) /\ SameService(lb'[t].spec, lb[t].spec)
      BY <1>1 DEF AllSync, SyncOnly, SameService
    <2> QED
      BY <1>1, <2>1, <2>2, SyncUnchanged DEF SyncOnly
  <1> QED
    BY <1>1 DEF AllSync

\* A handler that returns, and only what it calls ready is to be shown.
LEMMA SyncReturn ==
  ASSUME TypeInv, CredentialInv, AllSync, NEW s \in Services, NEW r, Return(s, r),
         r = "ready" => Alive(lb'[s].status) /\ Fits(s, lb[s].spec)',
         \A t \in Services \ {s} : lb'[t] = lb[t],
         \A c \in CredRefs : owner[c] \notin {s, None} => secret'[c] = secret[c]
  PROVE  AllSync'
  <1>1. pc'[s] = "idle" /\ result'[s] = r /\ metrics' = metrics
    BY DEF Return, TypeInv, TypeOK, request
  <1>2. SyncInv(s)'
    BY <1>1 DEF SyncInv, Holding, Specifying
  <1>3. SyncOnly(s)
    BY <1>1, ReturnOnly DEF SyncOnly
  <1> QED
    BY <1>2, <1>3, SyncHandlerStep

\* The pools of a specification built from a service are those of the service.
LEMMA WantedFits ==
  ASSUME TypeInv, NEW s \in Services, pc[s] \in Specifying
  PROVE  /\ WantedSpec(s).net = job[s].svc.net
         /\ PoolsOf(WantedSpec(s)) = job[s].svc.pools
         /\ WantedSpec(s).ref = obs[s]
         /\ WantedSpec(s).ref = None <=> metrics = None
         /\ metrics # None => WantedSpec(s).push = metrics.push
  <1>1. job[s].svc \in ServiceSpecs /\ job[s].nodes \in NodeLists
    BY DEF TypeInv, TypeOK, ControlInv, Ensuring, Jobs
  <1>2. job[s].svc.pools \subseteq Pools /\ job[s].nodes # None
    BY <1>1, SpecsAssumption, NoneAssumption
  <1>3. obs[s] = None <=> metrics = None
    BY DEF TypeInv, ControlInv
  <1>4. PoolsOf(WantedSpec(s)) = job[s].svc.pools
    BY <1>2 DEF PoolsOf, WantedSpec, SpecFromService
  <1> QED
    BY <1>3, <1>4 DEF WantedSpec, SpecFromService

\* Reading, cleaning up and reconciling the credentials.
LEMMA PrepareSync ==
  ASSUME TypeInv, CredentialInv, AllSync, NEW s \in Services,
         \/ Start(s) \/ EnsureGet(s) \/ ListCredentials(s) \/ Purged(s) \/ UpdateCredentials(s)
         \/ \E c \in CredRefs : PurgeCredentials(s, c) \/ CreateCredentials(s, c)
  PROVE  AllSync'
  <1>t. /\ TypeOK /\ ApiTypeOK /\ ControlInv(s) /\ HandlerInv(s) /\ SyncInv(s)
        /\ got[s].spec.ref \in CredRefs \cup {None}
    BY DEF TypeInv, TypeOK, CredentialInv, AllSync, LoadBalancers, Payloads
  <1>1. CASE Start(s)
    <2>1. pc'[s] \in {"lookup", "get"} /\ result'[s] = "none"
      BY <1>1, <1>t DEF Start, TypeOK
    <2>2. SyncInv(s)'
      BY <2>1 DEF SyncInv, Holding, Specifying
    <2>3. SyncOnly(s)
      BY <1>1, <1>t DEF Start, SyncOnly, TypeOK, api, request
    <2> QED
      BY <2>2, <2>3, SyncHandlerStep
  <1>2. CASE EnsureGet(s)
    <2>1. /\ pc'[s] \in {"compare", "list", "updateCredentials"}
          /\ UNCHANGED <<lb, secret, job, obs, result, metrics>> /\ got'[s] = lb[s]
          /\ \A t \in Services \ {s} : got'[t] = got[t] /\ pc'[t] = pc[t]
      BY <1>2, <1>t, ContinueOnly, ReconcileType DEF EnsureGet, TypeOK, api
    <2>2. obs[s] = None /\ result[s] = "none"
      BY <1>2, <1>t DEF EnsureGet, ControlInv, Specifying
    <2>3. SyncInv(s)'
      BY <2>1, <2>2 DEF SyncInv, SameService
    <2>4. SyncOnly(s)
      BY <2>1 DEF SyncOnly
    <2> QED
      BY <2>3, <2>4, SyncHandlerStep
  <1>3. CASE ListCredentials(s) \/ Purged(s)
    <2>1. /\ pc[s] \in {"list", "purge"} /\ pc'[s] \in {"purge", "createCredentials", "deleteLB"}
          /\ UNCHANGED <<lb, secret, job, obs, got, result, metrics>>
          /\ \A t \in Services \ {s} : pc'[t] = pc[t]
      BY <1>3, <1>t, ContinueOnly DEF ListCredentials, Purged, api, local
    <2>2. result[s] = "none"
      BY <2>1, <1>t DEF ControlInv
    <2>3. SyncInv(s)'
      BY <2>1, <2>2, <1>t DEF SyncInv, Holding, Specifying
    <2>4. SyncOnly(s)
      BY <2>1 DEF SyncOnly
    <2> QED
      BY <2>3, <2>4, SyncHandlerStep
  <1>4. ASSUME NEW c \in CredRefs, PurgeCredentials(s, c)
        PROVE  AllSync'
    <2>1. /\ pc[s] = "purge" /\ owner[c] = s /\ lb' = lb
          /\ \A d \in CredRefs \ {c} : secret'[d] = secret[d]
      BY <1>4, <1>t DEF PurgeCredentials, ApiDeleteCredentials, HandlerInv, CredentialsOf, ApiTypeOK
    <2>2. CASE AnswerLost(s)
      BY <2>1, <2>2, SyncReturn DEF AnswerLost
    <2>3. CASE /\ Continue(s, "purge")
               /\ UNCHANGED <<job, got, obs, budget>>
      <3>1. /\ pc'[s] = "purge" /\ UNCHANGED <<job, got, obs, result, metrics>>
            /\ \A t \in Services \ {s} : pc'[t] = pc[t]
        BY <2>3, ContinueOnly
      <3>2. result[s] = "none"
        BY <2>1, <1>t DEF ControlInv
      <3>3. SyncInv(s)'
        BY <2>1, <3>1, <3>2, <1>t DEF SyncInv, Holding, Specifying
      <3>4. SyncOnly(s)
        BY <2>1, <3>1 DEF SyncOnly
      <3> QED
        BY <3>3, <3>4, SyncHandlerStep
    <2> QED
      BY <1>4, <2>2, <2>3 DEF PurgeCredentials
  \* The credentials that the load balancer is to refer to get the configured secret.
  <1>5. ASSUME NEW c \in CredRefs, owner[c] \in {s, None}, lb' = lb,
               secret' = [secret EXCEPT ![c] = metrics.secret],
               pc[s] \in {"createCredentials", "updateCredentials"},
               \/ /\ obs' = [obs EXCEPT ![s] = c]
                  /\ Continue(s, "compare")
                  /\ UNCHANGED <<job, got, todo, budget>>
               \/ AnswerLost(s)
        PROVE  AllSync'
    <2>1. secret'[c] = metrics.secret /\ \A d \in CredRefs \ {c} : secret'[d] = secret[d]
      BY <1>5, <1>t DEF ApiTypeOK
    <2>2. CASE AnswerLost(s)
      BY <1>5, <2>1, <2>2, SyncReturn DEF AnswerLost
    <2>3. CASE /\ obs' = [obs EXCEPT ![s] = c]
               /\ Continue(s, "compare")
               /\ UNCHANGED <<job, got, todo, budget>>
      <3>1. /\ pc'[s] = "compare" /\ obs'[s] = c /\ UNCHANGED <<job, got, result, metrics>>
            /\ \A t \in Services \ {s} : pc'[t] = pc[t] /\ obs'[t] = obs[t]
        BY <2>3, <1>t, ContinueOnly DEF TypeOK
      <3>2. result[s] = "none"
        BY <1>5, <1>t DEF ControlInv
      <3>3. SyncInv(s)'
        BY <1>5, <2>1, <3>1, <3>2, <1>t DEF SyncInv, Holding, Specifying
      <3>4. SyncOnly(s)
        BY <1>5, <2>1, <3>1 DEF SyncOnly
      <3> QED
        BY <3>3, <3>4, SyncHandlerStep
    <2> QED
      BY <1>5, <2>2, <2>3
  <1>6. ASSUME NEW c \in CredRefs, CreateCredentials(s, c)
        PROVE  AllSync'
    BY <1>5, <1>6 DEF CreateCredentials, Fresh, ApiCreateCredentials
  <1>7. CASE UpdateCredentials(s)
    <2>1. got[s].spec.ref \in CredRefs /\ owner[got[s].spec.ref] = s
      BY <1>7, <1>t DEF UpdateCredentials, ControlInv, HandlerInv, RereadsRef
    <2> QED
      BY <1>5, <1>7, <2>1 DEF UpdateCredentials, ApiUpdateCredentials
  <1> QED
    BY <1>1, <1>2, <1>3, <1>4, <1>6, <1>7

\* Building the specification, comparing and writing it.
LEMMA WriteSync ==
  ASSUME TypeInv, CredentialInv, AllSync, NEW s \in Services,
         Compare(s) \/ CreateLB(s) \/ UpdateLB(s) \/ DropCredentials(s)
  PROVE  AllSync'
  <1>t. /\ TypeOK /\ ApiTypeOK /\ ControlInv(s) /\ HandlerInv(s) /\ SyncInv(s)
        /\ got[s].spec.ref \in CredRefs \cup {None} /\ obs[s] \in CredRefs \cup {None}
    BY DEF TypeInv, TypeOK, CredentialInv, AllSync, LoadBalancers, Payloads
  <1>r. \A status : StatusResult(status) = "ready" <=> status = "READY"
    BY DEF StatusResult
  <1>m. ASSUME NEW r, Return(s, r)
        PROVE  job' = job /\ metrics' = metrics
    BY <1>m DEF Return, request
  <1>w. ASSUME pc[s] \in Specifying, lb'[s].spec = WantedSpec(s), job' = job, metrics' = metrics,
               secret' = secret
        PROVE  Fits(s, lb[s].spec)'
    <2>1. metrics # None => secret[obs[s]] = metrics.secret
      BY <1>w, <1>t DEF SyncInv, ControlInv
    <2> QED
      BY <1>w, <2>1, WantedFits DEF Fits
  <1>1. CASE Compare(s)
    <2>0. UNCHANGED <<lb, owner, secret>> /\ pc[s] = "compare" /\ pc[s] \in Specifying
      BY <1>1 DEF Compare, api, Specifying
    <2>1. CASE Return(s, "error")
      BY <2>0, <2>1, SyncReturn
    <2>2. CASE \E next \in {"createLB", "updateLB"} : Continue(s, next) /\ UNCHANGED local
      <3>1. /\ pc'[s] \in {"createLB", "updateLB"} /\ UNCHANGED <<job, got, obs, result, metrics>>
            /\ \A t \in Services \ {s} : pc'[t] = pc[t]
        BY <2>2, ContinueOnly DEF local
      <3>2. result[s] = "none"
        BY <2>0, <1>t DEF ControlInv
      <3>3. SyncInv(s)'
        BY <2>0, <3>1, <3>2, <1>t DEF SyncInv, Holding, Specifying
      <3>4. SyncOnly(s)
        BY <2>0, <3>1 DEF SyncOnly
      <3> QED
        BY <3>3, <3>4, SyncHandlerStep
    <2>3. CASE /\ Return(s, StatusResult(got[s].status))
               /\ ~ImmutableChanged(got[s].spec, WantedSpec(s))
               /\ Fulfills(got[s].spec, WantedSpec(s))
      <3>1. ASSUME got[s].status = "READY"
            PROVE  Alive(lb'[s].status) /\ Fits(s, lb[s].spec)'
        <4>1. /\ got[s].spec.net = WantedSpec(s).net /\ got[s].spec.ref = WantedSpec(s).ref
              /\ got[s].spec.push = WantedSpec(s).push
              /\ PoolsOf(got[s].spec) = PoolsOf(WantedSpec(s))
          BY <2>3 DEF ImmutableChanged, Fulfills, PoolsOf
        <4>2. Alive(lb[s].status) /\ SameService(lb[s].spec, got[s].spec)
          <5>1. job[s].svc # None /\ Alive(got[s].status)
            BY <2>0, <3>1, <1>t DEF ControlInv, Ensuring, Alive
          <5> QED
            BY <2>0, <5>1, <1>t DEF SyncInv, Holding
        <4>3. metrics # None => secret[obs[s]] = metrics.secret
          BY <2>0, <1>t DEF SyncInv, ControlInv
        <4>4. Fits(s, lb[s].spec)
          BY <2>0, <4>1, <4>2, <4>3, WantedFits DEF Fits, SameService
        <4>5. job' = job /\ metrics' = metrics
          BY <2>3, <1>m
        <4> QED
          BY <2>0, <4>2, <4>4, <4>5 DEF Fits
      <3> QED
        BY <2>0, <2>3, <3>1, <1>r, SyncReturn
    <2>4. job[s].svc.valid \in BOOLEAN
      BY <2>0, <1>t, SpecsAssumption DEF TypeOK, ControlInv, Ensuring, Jobs
    <2> QED
      BY <1>1, <2>1, <2>2, <2>3, <2>4, Zenon DEF Compare
  <1>2. CASE CreateLB(s)
    <2>1. /\ pc[s] \in Specifying /\ lb'[s].spec = WantedSpec(s) /\ secret' = secret
          /\ \A t \in Services \ {s} : lb'[t] = lb[t]
      BY <1>2, <1>t DEF CreateLB, ApiCreateLB, ApiTypeOK, Specifying
    <2>2. CASE Return(s, IF lb'[s].status = "READY" THEN "ready" ELSE "retry")
      <3>1. Fits(s, lb[s].spec)'
        BY <2>1, <2>2, <1>m, <1>w
      <3> QED
        BY <2>1, <2>2, <3>1, SyncReturn DEF Alive
    <2>3. CASE AnswerLost(s)
      BY <2>1, <2>3, SyncReturn DEF AnswerLost
    <2> QED
      BY <1>2, <2>2, <2>3 DEF CreateLB
  <1>3. CASE UpdateLB(s)
    <2>1. /\ pc[s] = "updateLB" /\ pc[s] \in Specifying
          /\ lb'[s].spec = WantedSpec(s) /\ secret' = secret
          /\ \A t \in Services \ {s} : lb'[t] = lb[t]
      <3>1. pc[s] = "updateLB" /\ ApiUpdateLB(s, got[s].version, WantedSpec(s))
        BY <1>3 DEF UpdateLB
      <3>2. secret' = secret
        BY <3>1 DEF ApiUpdateLB
      <3>3. lb'[s].spec = WantedSpec(s) /\ \A t \in Services \ {s} : lb'[t] = lb[t]
        BY <3>1, <1>t, UpdateEffect
      <3> QED
        BY <3>1, <3>2, <3>3 DEF Specifying
    <2>2. CASE Return(s, StatusResult(lb'[s].status))
      <3>1. Fits(s, lb[s].spec)'
        BY <2>1, <2>2, <1>m, <1>w
      <3> QED
        BY <2>1, <2>2, <3>1, <1>r, SyncReturn DEF Alive
    <2>3. CASE /\ got' = [got EXCEPT ![s] = WithStatus(got[s], lb'[s].status)]
               /\ Continue(s, "dropCredentials")
               /\ UNCHANGED <<job, obs, todo>>
      <3>1. /\ pc'[s] = "dropCredentials" /\ UNCHANGED <<job, obs, result, metrics>>
            /\ got'[s].status = lb'[s].status
            /\ \A t \in Services \ {s} : pc'[t] = pc[t] /\ got'[t] = got[t]
        BY <2>3, <1>t, ContinueOnly DEF TypeOK, WithStatus
      <3>2. result[s] = "none"
        BY <2>1, <1>t DEF ControlInv
      <3>3. Fits(s, lb[s].spec)'
        BY <2>1, <3>1, <1>w
      <3>4. SyncInv(s)'
        BY <3>1, <3>2, <3>3 DEF SyncInv, Holding, Specifying, Alive
      <3>5. SyncOnly(s)
        BY <2>1, <3>1 DEF SyncOnly
      <3> QED
        BY <3>4, <3>5, SyncHandlerStep
    <2>4. CASE AnswerLost(s)
      BY <2>1, <2>4, SyncReturn DEF AnswerLost
    <2> QED
      BY <1>3, <2>2, <2>3, <2>4 DEF UpdateLB
  <1>4. CASE DropCredentials(s)
    <2>1. /\ pc[s] = "dropCredentials" /\ lb' = lb /\ lb[s].spec.ref = None
          /\ got[s].spec.ref \in CredRefs /\ owner[got[s].spec.ref] = s
          /\ \A d \in CredRefs \ {got[s].spec.ref} : secret'[d] = secret[d]
      BY <1>4, <1>t DEF DropCredentials, ApiDeleteCredentials, ControlInv, HandlerInv, RereadsRef,
                        ApiTypeOK
    <2>2. CASE AnswerLost(s)
      BY <2>1, <2>2, SyncReturn DEF AnswerLost
    <2>3. CASE job[s].svc # None /\ Return(s, StatusResult(got[s].status))
      <3>1. ASSUME got[s].status = "READY"
            PROVE  Alive(lb'[s].status) /\ Fits(s, lb[s].spec)'
        <4>1. Alive(lb[s].status) /\ Fits(s, lb[s].spec)
          BY <2>1, <2>3, <3>1, <1>t DEF SyncInv
        <4>2. metrics = None
          BY <2>1, <4>1 DEF Fits
        <4>3. job' = job /\ metrics' = metrics
          BY <2>3, <1>m
        <4> QED
          BY <2>1, <4>1, <4>2, <4>3 DEF Fits
      <3> QED
        BY <2>1, <2>3, <3>1, <1>r, SyncReturn
    <2>4. CASE job[s].svc = None /\ Continue(s, "list") /\ UNCHANGED local
      <3>1. /\ pc'[s] = "list" /\ UNCHANGED <<job, got, obs, result, metrics>>
            /\ \A t \in Services \ {s} : pc'[t] = pc[t]
        BY <2>4, ContinueOnly DEF local
      <3>2. result[s] = "none"
        BY <2>1, <1>t DEF ControlInv
      <3>3. SyncInv(s)'
        BY <2>4, <3>1, <3>2 DEF SyncInv, Holding, Specifying
      <3>4. SyncOnly(s)
        BY <2>1, <3>1 DEF SyncOnly
      <3> QED
        BY <3>3, <3>4, SyncHandlerStep
    <2> QED
      BY <1>4, <2>2, <2>3, <2>4 DEF DropCredentials
  <1> QED
    BY <1>1, <1>2, <1>3, <1>4

\* Removal: the handler was called without a service, so nothing is to be shown of it.
LEMMA DeleteSync ==
  ASSUME TypeInv, CredentialInv, AllSync, NEW s \in Services, Delete(s) \/ CallFails(s)
  PROVE  AllSync'
  <1>t. TypeOK /\ ApiTypeOK /\ ControlInv(s) /\ SyncInv(s)
    BY DEF TypeInv, TypeOK, AllSync
  <1>f. /\ secret' = secret
        /\ \A t \in Services \ {s} : lb'[t] = lb[t]
    <2>1. CASE GetLoadBalancer(s) \/ GetToDelete(s) \/ CallFails(s)
      BY <2>1 DEF GetLoadBalancer, GetToDelete, CallFails, api
    <2>2. CASE Unreference(s)
      BY <2>2, UpdateEffect DEF Unreference, ApiUpdateLB
    <2>3. CASE DeleteLB(s)
      BY <2>3, <1>t DEF DeleteLB, ApiDeleteLB, ApiTypeOK
    <2> QED
      BY <2>1, <2>2, <2>3 DEF Delete
  <1>1. ASSUME NEW r, Return(s, r), r # "ready"
        PROVE  AllSync'
    BY <1>1, <1>f, SyncReturn
  <1>2. ASSUME NEW next \in {"getToDelete", "list", "unreference", "dropCredentials"},
               Continue(s, next), job' = job, obs' = obs,
               \A t \in Services \ {s} : got'[t] = got[t],
               pc[s] \in Deleting
        PROVE  AllSync'
    <2>1. /\ pc'[s] = next /\ UNCHANGED <<result, metrics>>
          /\ \A t \in Services \ {s} : pc'[t] = pc[t]
      BY <1>2, ContinueOnly
    <2>2. result[s] = "none" /\ job[s].svc = None
      BY <1>2, <1>t DEF ControlInv, Deleting
    <2>3. SyncInv(s)'
      BY <1>2, <2>1, <2>2 DEF SyncInv, Specifying
    <2>4. SyncOnly(s)
      BY <1>2, <1>f, <2>1 DEF SyncOnly
    <2> QED
      BY <2>3, <2>4, SyncHandlerStep
  <1>3. CASE GetLoadBalancer(s)
    BY <1>1, <1>2, <1>3 DEF GetLoadBalancer, Deleting, local
  <1>4. CASE GetToDelete(s)
    <2>1. CASE Return(s, "absent") \/ Return(s, "terminating")
      BY <1>1, <2>1
    <2>2. CASE /\ got' = [got EXCEPT ![s] = lb[s]]
               /\ Continue(s, IF lb[s].spec.ref = None THEN "list" ELSE "unreference")
               /\ UNCHANGED <<job, obs, todo>>
      <3>1. pc[s] \in Deleting /\ \A t \in Services \ {s} : got'[t] = got[t]
        BY <1>4, <2>2, <1>t DEF GetToDelete, Deleting, TypeOK
      <3> QED
        BY <1>2, <2>2, <3>1
    <2> QED
      BY <1>4, <2>1, <2>2, Zenon DEF GetToDelete
  <1>5. CASE Unreference(s)
    BY <1>1, <1>2, <1>5 DEF Unreference, AnswerLost, Deleting, local
  <1>6. CASE DeleteLB(s) \/ CallFails(s)
    BY <1>1, <1>6 DEF DeleteLB, CallFails, AnswerLost
  <1> QED
    BY <1>3, <1>4, <1>5, <1>6 DEF Delete

\* Steps outside the handlers.
LEMMA ElsewhereSync ==
  ASSUME TypeInv, CredentialInv, AllSync, NEW s \in Services,
         \/ StartHostUpdate(s) \/ HostUpdate(s) \/ ChangeService(s) \/ Provision(s) \/ Break(s)
         \/ ChangeNodes \/ UNCHANGED vars
  PROVE  AllSync'
  <1>t. TypeOK /\ ApiTypeOK
    BY DEF TypeInv, TypeOK
  <1>1. UNCHANGED <<pc, result, job, got, obs, metrics, secret>>
    BY DEF StartHostUpdate, HostUpdate, UpdateTargetPool, UpdateTargetPoolFails, HostsUpdated,
           ChangeService, Provision, Break, ChangeNodes, vars, api, request, queue, local,
           ApiUpdateTargetPool, ApiProvisioned, ApiRepaired, ApiGone, ApiBreaks
  <1>2. ASSUME NEW t \in Services
        PROVE  Alive(lb[t].status) => Alive(lb'[t].status) /\ SameService(lb'[t].spec, lb[t].spec)
    <2>1. CASE \/ StartHostUpdate(s) \/ HostsUpdated(s) \/ ChangeService(s) \/ ChangeNodes
               \/ UNCHANGED vars \/ \E p \in Pools : UpdateTargetPoolFails(s, p)
      <3>1. lb' = lb
        BY <2>1 DEF StartHostUpdate, HostsUpdated, ChangeService, ChangeNodes,
                    UpdateTargetPoolFails, vars, api
      <3> QED
        BY <3>1 DEF SameService
    <2>2. CASE Provision(s) \/ Break(s)
      BY <2>2, <1>t DEF Provision, Break, ApiProvisioned, ApiRepaired, ApiGone, ApiBreaks,
                        ApiTypeOK, WithStatus, Alive, SameService
    <2>3. ASSUME NEW p \in Pools, UpdateTargetPool(s, p)
          PROVE  Alive(lb[t].status) => Alive(lb'[t].status) /\ SameService(lb'[t].spec, lb[t].spec)
      <3>1. hostJob[s].nodes \in NodeLists /\ hostJob[s].nodes # None
        BY <2>3, <1>t, NoneAssumption DEF UpdateTargetPool, TypeOK, Jobs
      <3>2. CASE lb' = lb
        BY <3>2 DEF SameService
      <3>3. CASE lb' = [lb EXCEPT ![s] =
                          [status  |-> lb[s].status, version |-> lb[s].version + 1,
                           spec    |-> WithTargets(lb[s].spec, p, hostJob[s].nodes)]]
        <4>1. CASE t # s
          BY <3>3, <4>1, <1>t DEF ApiTypeOK, SameService
        <4>2. CASE t = s
          <5>1. lb'[s].status = lb[s].status /\ lb'[s].spec = WithTargets(lb[s].spec, p, hostJob[s].nodes)
            BY <3>3, <1>t DEF ApiTypeOK
          <5>2. lb[s].spec.targets \in [Pools -> NodeLists \cup {None}] /\ p \in PoolsOf(lb[s].spec)
            BY <2>3, <1>t DEF UpdateTargetPool, ApiUpdateTargetPool, ApiTypeOK, LoadBalancers, Payloads
          <5>3. PoolsOf(lb'[s].spec) = PoolsOf(lb[s].spec)
            BY <3>1, <5>1, <5>2 DEF PoolsOf, WithTargets
          <5> QED
            BY <4>2, <5>1, <5>3 DEF SameService, WithTargets
        <4> QED
          BY <4>1, <4>2
      <3> QED
        BY <2>3, <3>2, <3>3 DEF UpdateTargetPool, ApiUpdateTargetPool
    <2> QED
      BY <2>1, <2>2, <2>3 DEF HostUpdate
  <1>3. ASSUME NEW t \in Services
        PROVE  SyncInv(t)'
    BY <1>1, <1>2, <1>3, SyncUnchanged DEF AllSync
  <1> QED
    BY <1>3 DEF AllSync

LEMMA NextSync ==
  ASSUME TypeInv, CredentialInv, AllSync, [Next]_vars
  PROVE  AllSync'
  <1>1. ASSUME NEW s \in Services, Start(s) \/ Handler(s)
        PROVE  AllSync'
    BY <1>1, PrepareSync, WriteSync, DeleteSync DEF Handler, Ensure
  <1>2. ASSUME NEW s \in Services,
               \/ StartHostUpdate(s) \/ HostUpdate(s) \/ ChangeService(s) \/ Provision(s) \/ Break(s)
        PROVE  AllSync'
    BY <1>2, ElsewhereSync
  <1>3. CASE ChangeNodes \/ UNCHANGED vars
    <2>1. CASE Services = {}
      BY <2>1 DEF AllSync
    <2>2. CASE \E s : s \in Services
      BY <1>3, <2>2, ElsewhereSync
    <2> QED
      BY <2>1, <2>2
  <1>4. CASE Restart
    <2>1. \A s \in Services : pc'[s] = "idle" /\ result'[s] = "none"
      BY <1>4 DEF Restart
    <2> QED
      BY <2>1 DEF AllSync, SyncInv, Holding, Specifying
  <1> QED
    BY <1>1, <1>2, <1>3, <1>4 DEF Next

\* When EnsureLoadBalancer reports success (loadbalancer.go, compareLBwithSpec found no
\* difference, or the API took the update) the load balancer is the one asked for, with
\* credentials that hold the configured secret, for any number of services and however
\* host updates, failures and other handlers fall between its calls.
THEOREM ReadyMeansInSync == Spec => []ReadyInSync
  <1>1. Init => TypeInv /\ CredentialInv /\ AllSync
    <2>1. Init => AllSync
      BY DEF Init, AllSync, SyncInv, Holding, Specifying
    <2> QED
      BY <2>1, InitType, InitCredentials
  <1>2. TypeInv /\ CredentialInv /\ AllSync /\ [Next]_vars => (TypeInv /\ CredentialInv /\ AllSync)'
    BY NextType, NextCredentials, NextSync
  <1>3. AllSync => ReadyInSync
    BY DEF AllSync, SyncInv, Fits, ReadyInSync
  <1> QED
    BY <1>1, <1>2, <1>3, PTL DEF Spec

-----------------------------------------------------------------------------
\* Targets follow the nodes.

\* EnsureLoadBalancer has read the load balancer and has not written it yet.
Read == {"list", "purge", "createCredentials", "updateCredentials"} \cup Specifying

Reader(s) == pc[s] \in Read /\ job[s].svc # None

\* Nobody has yet to tell s about its nodes or its service.
Quiet(s) == ~hostDirty[s] /\ ~dirty[s]

\* Pool p has the nodes of the cluster, or a running host update will set them.
Served(s, p) == lb[s].spec.targets[p] = nodes \/ p \in hostTodo[s]

\* What is known of the host update and of the request a handler works on.
RequestInv(s) ==
    /\ hostJob[s] = None => hostTodo[s] = {}
    /\ hostJob[s] # None /\ ~hostDirty[s] => hostJob[s].nodes = nodes
    /\ ~dirty[s] => job[s].svc = svc[s]
    /\ lb[s].status = "NONE" => lb[s] = NoLoadBalancer

\* What a handler that is about to write knows of the load balancer: it is the one that
\* was read as long as the version is the same.
VersionInv(s) ==
    Reader(s) =>
       /\ pc[s] = "createLB" => got[s].status = "NONE"
       /\ got[s].status = "NONE" => lb[s] = NoLoadBalancer
       /\ Exists(s) => got[s].version <= lb[s].version
       /\ Exists(s) /\ got[s].version = lb[s].version => got[s].spec = lb[s].spec

\* A list of nodes that is no longer the cluster's was noticed (raced), or is about to be
\* overwritten, or cannot be written because the version has moved.
OutdatedInv(s) ==
    job[s].nodes # nodes /\ ~raced[s] =>
       /\ pc[s] # "get"
       /\ Reader(s) => \A p \in Pools : got[s].spec.targets[p] # nodes
       /\ Reader(s) /\ Quiet(s) => \A p \in svc[s].pools :
             Served(s, p) \/ (got[s].status # "NONE" /\ ~Exists(s))

\* The pools that the handler saw up to date still are, and so are all of them when it
\* has written or has found nothing to write.
ServedInv(s) ==
    /\ Reader(s) /\ Quiet(s) /\ Exists(s) => \A p \in svc[s].pools :
          got[s].spec.targets[p] = nodes => Served(s, p)
    /\ pc[s] \in {"idle", "dropCredentials"} /\ Quiet(s) /\ ~raced[s] /\ svc[s] # None /\ Exists(s)
          => \A p \in svc[s].pools : Served(s, p)

TargetInv(s) == RequestInv(s) /\ VersionInv(s) /\ OutdatedInv(s) /\ ServedInv(s)

AllTargets == \A s \in Services : TargetInv(s)

LEMMA TargetUnchanged ==
  ASSUME NEW t \in Services, TargetInv(t), nodes' = nodes, lb'[t] = lb[t],
         pc'[t] = pc[t], dirty'[t] = dirty[t], svc'[t] = svc[t], job'[t] = job[t], got'[t] = got[t],
         hostDirty'[t] = hostDirty[t], hostJob'[t] = hostJob[t], hostTodo'[t] = hostTodo[t],
         raced'[t] = raced[t]
  PROVE  TargetInv(t)'
  BY DEF TargetInv, RequestInv, VersionInv, OutdatedInv, ServedInv, Reader, Quiet, Served, Exists

\* A step of the handler of s that leaves requests, nodes and host updates alone.
TargetOnly(s) ==
  /\ \A t \in Services \ {s} :
        /\ pc'[t] = pc[t] /\ dirty'[t] = dirty[t] /\ job'[t] = job[t] /\ got'[t] = got[t]
        /\ lb'[t] = lb[t]
  /\ UNCHANGED <<svc, nodes, hosts>>

LEMMA TargetHandlerStep ==
  ASSUME AllTargets, NEW s \in Services, TargetOnly(s), TargetInv(s)'
  PROVE  AllTargets'
  <1>1. ASSUME NEW t \in Services \ {s}
        PROVE  TargetInv(t)'
    BY <1>1, TargetUnchanged DEF AllTargets, TargetOnly, hosts
  <1> QED
    BY <1>1 DEF AllTargets

\* A handler that returns: with an error it will run again, otherwise the pools must be served.
LEMMA TargetReturn ==
  ASSUME TypeInv, AllTargets, NEW s \in Services, NEW r, Return(s, r),
         \A t \in Services \ {s} : lb'[t] = lb[t],
         lb'[s].status = "NONE" => lb'[s] = NoLoadBalancer,
         r \notin {"error", "retry"} /\ Quiet(s) /\ ~raced[s] /\ svc[s] # None /\ Exists(s)'
            => \A p \in svc[s].pools : (Served(s, p))'
  PROVE  AllTargets'
  <1>t. TypeOK /\ TargetInv(s)
    BY DEF TypeInv, AllTargets
  <1>1. /\ pc'[s] = "idle" /\ job' = job /\ UNCHANGED <<svc, nodes, hosts>>
        /\ ~dirty'[s] => ~dirty[s] /\ r \notin {"error", "retry"}
        /\ \A t \in Services \ {s} : pc'[t] = pc[t] /\ dirty'[t] = dirty[t] /\ got'[t] = got[t]
    BY <1>t DEF Return, TypeOK, request
  <1>2. RequestInv(s)'
    BY <1>t, <1>1 DEF TargetInv, RequestInv, hosts
  <1>3. VersionInv(s)' /\ OutdatedInv(s)'
    BY <1>1 DEF VersionInv, OutdatedInv, Reader, Read, Specifying
  <1>4. ServedInv(s)'
    <2>1. ~Reader(s)'
      BY <1>1 DEF Reader, Read, Specifying
    <2>2. (Quiet(s))' => Quiet(s) /\ r \notin {"error", "retry"}
      BY <1>1 DEF Quiet, hosts
    <2>3. svc' = svc /\ raced' = raced
      BY <1>1 DEF hosts
    <2> QED
      BY <2>1, <2>2, <2>3 DEF ServedInv
  <1>5. TargetOnly(s)
    BY <1>1 DEF TargetOnly
  <1> QED
    BY <1>2, <1>3, <1>4, <1>5, TargetHandlerStep DEF TargetInv

\* A handler that goes on between reading and writing, and one that removes.
LEMMA TargetContinue ==
  ASSUME TypeInv, AllTargets, NEW s \in Services, NEW next, Continue(s, next),
         lb' = lb, job' = job, got' = got,
         \/ next \in Read /\ next # "createLB" /\ pc[s] \in Read
         \/ next = "createLB" /\ pc[s] \in Read /\ got[s].status = "NONE"
         \/ next \notin {"get", "idle"} /\ job[s].svc = None
  PROVE  AllTargets'
  <1>t. TypeOK /\ TargetInv(s)
    BY DEF TypeInv, AllTargets
  <1>1. /\ pc'[s] = next /\ UNCHANGED <<svc, nodes, dirty, hosts>>
        /\ \A t \in Services \ {s} : pc'[t] = pc[t]
    BY <1>t DEF Continue, TypeOK, request, queue
  <1>2. /\ Exists(s)' <=> Exists(s)
        /\ (Quiet(s))' <=> Quiet(s)
        /\ \A p : (Served(s, p))' <=> Served(s, p)
    BY <1>1 DEF Exists, Quiet, Served, hosts
  <1>3. /\ Reader(s)' => Reader(s)
        /\ pc'[s] # "get"
        /\ pc'[s] = "createLB" /\ Reader(s)' => got[s].status = "NONE"
        /\ pc'[s] \in {"idle", "dropCredentials"} => job[s].svc = None
    BY <1>1 DEF Reader, Read, Specifying
  <1>4. RequestInv(s)'
    BY <1>t, <1>1 DEF TargetInv, RequestInv, hosts
  <1>5. VersionInv(s)'
    BY <1>t, <1>2, <1>3 DEF TargetInv, VersionInv
  <1>6. OutdatedInv(s)'
    <2>1. raced' = raced /\ svc' = svc /\ nodes' = nodes
      BY <1>1 DEF hosts
    <2> QED
      BY <1>t, <1>2, <1>3, <2>1 DEF TargetInv, OutdatedInv
  <1>7. ServedInv(s)'
    <2>1. raced' = raced /\ svc' = svc /\ nodes' = nodes
      BY <1>1 DEF hosts
    <2>2. pc'[s] \in {"idle", "dropCredentials"} /\ Quiet(s) => svc[s] = None
      BY <1>t, <1>3 DEF TargetInv, RequestInv, Quiet
    <2> QED
      BY <1>t, <1>2, <1>3, <2>1, <2>2 DEF TargetInv, ServedInv
  <1>8. TargetOnly(s)
    BY <1>1 DEF TargetOnly
  <1> QED
    BY <1>4, <1>5, <1>6, <1>7, <1>8, TargetHandlerStep DEF TargetInv

\* Up to the reading of the load balancer, and the calls before it is written.
LEMMA PrepareTargets ==
  ASSUME TypeInv, AllTargets, NEW s \in Services,
         \/ Start(s) \/ EnsureGet(s) \/ ListCredentials(s) \/ Purged(s) \/ UpdateCredentials(s)
         \/ \E c \in CredRefs : PurgeCredentials(s, c) \/ CreateCredentials(s, c)
  PROVE  AllTargets'
  <1>t. TypeOK /\ TargetInv(s) /\ ControlInv(s)
    BY DEF TypeInv, AllTargets
  <1>l. lb' = lb
    BY DEF Start, EnsureGet, ListCredentials, Purged, UpdateCredentials, PurgeCredentials,
           CreateCredentials, ApiUpdateCredentials, ApiCreateCredentials, ApiDeleteCredentials, api
  <1>n. lb'[s].status = "NONE" => lb'[s] = NoLoadBalancer
    BY <1>t, <1>l DEF TargetInv, RequestInv
  <1>e. ASSUME AnswerLost(s)
        PROVE  AllTargets'
    BY <1>e, <1>l, <1>n, TargetReturn DEF AnswerLost
  <1>1. CASE Start(s)
    <2>1. /\ pc'[s] \in {"get", "lookup"}
          /\ job'[s].svc = svc[s] /\ job'[s].nodes = nodes /\ UNCHANGED <<svc, nodes>>
          /\ \A t \in Services \ {s} : /\ pc'[t] = pc[t] /\ dirty'[t] = dirty[t] /\ job'[t] = job[t]
                                       /\ raced'[t] = raced[t]
          /\ UNCHANGED <<got, hostDirty, hostJob, hostTodo>>
      BY <1>1, <1>t DEF Start, TypeOK, request
    <2>2. RequestInv(s)'
      BY <1>t, <1>l, <2>1 DEF TargetInv, RequestInv
    <2>3. VersionInv(s)' /\ OutdatedInv(s)' /\ ServedInv(s)'
      BY <2>1 DEF VersionInv, OutdatedInv, ServedInv, Reader, Read, Specifying
    <2>4. \A t \in Services \ {s} : TargetInv(t)'
      BY <1>l, <2>1, TargetUnchanged DEF AllTargets
    <2> QED
      BY <2>2, <2>3, <2>4 DEF AllTargets, TargetInv
  <1>2. CASE EnsureGet(s)
    <2>1. /\ pc[s] = "get" /\ pc'[s] \in {"list", "compare", "updateCredentials"} /\ got'[s] = lb[s]
          /\ job' = job /\ UNCHANGED <<svc, nodes, dirty, hosts>>
          /\ \A t \in Services \ {s} : pc'[t] = pc[t] /\ got'[t] = got[t]
      BY <1>2, <1>t, ReconcileType DEF EnsureGet, Continue, TypeOK, request, queue
    <2>2. RequestInv(s)'
      BY <1>t, <1>l, <2>1 DEF TargetInv, RequestInv, hosts
    <2>3. VersionInv(s)'
      <3>1. lb[s].version \in Nat
        BY <1>t DEF TypeOK, ApiTypeOK, LoadBalancers
      <3> QED
        BY <1>l, <2>1, <2>2, <3>1 DEF VersionInv, RequestInv
    <2>4. OutdatedInv(s)'
      BY <1>t, <2>1 DEF TargetInv, OutdatedInv, hosts
    <2>5. ServedInv(s)'
      BY <1>l, <2>1 DEF ServedInv, Served
    <2>6. TargetOnly(s)
      BY <1>l, <2>1 DEF TargetOnly
    <2> QED
      BY <2>2, <2>3, <2>4, <2>5, <2>6, TargetHandlerStep DEF TargetInv
  <1>3. CASE ListCredentials(s)
    BY <1>3, <1>l, TargetContinue DEF ListCredentials, Read
  <1>4. CASE Purged(s)
    BY <1>4, <1>l, TargetContinue DEF Purged, local, Read
  <1>5. CASE UpdateCredentials(s)
    BY <1>5, <1>e, <1>l, TargetContinue DEF UpdateCredentials, Read, Specifying
  <1>6. ASSUME NEW c \in CredRefs, PurgeCredentials(s, c)
        PROVE  AllTargets'
    BY <1>6, <1>e, <1>l, TargetContinue DEF PurgeCredentials, Read
  <1>7. ASSUME NEW c \in CredRefs, CreateCredentials(s, c)
        PROVE  AllTargets'
    BY <1>7, <1>e, <1>l, TargetContinue DEF CreateCredentials, Read, Specifying
  <1> QED
    BY <1>1, <1>2, <1>3, <1>4, <1>5, <1>6, <1>7

\* What the handler would write has the nodes it was called with in the service's pools.
LEMMA WantedTargets ==
  ASSUME TypeInv, AllTargets, NEW s \in Services, pc[s] \in Specifying, ~dirty[s]
  PROVE  /\ svc[s] # None /\ job[s].svc = svc[s]
         /\ svc[s].pools \subseteq Pools
         /\ \A p \in svc[s].pools : WantedSpec(s).targets[p] = job[s].nodes
  <1>1. job[s].svc # None /\ job[s].svc = svc[s]
    BY DEF TypeInv, ControlInv, Ensuring, AllTargets, TargetInv, RequestInv
  <1>2. svc[s].pools \subseteq Pools
    BY <1>1, SpecsAssumption DEF TypeInv, TypeOK
  <1> QED
    BY <1>1, <1>2 DEF WantedSpec, SpecFromService

\* Writing, or finding nothing to write.
LEMMA WriteTargets ==
  ASSUME TypeInv, AllTargets, NEW s \in Services,
         Compare(s) \/ CreateLB(s) \/ UpdateLB(s) \/ DropCredentials(s)
  PROVE  AllTargets'
  <1>t. TypeOK /\ ApiTypeOK /\ TargetInv(s) /\ ControlInv(s)
    BY DEF TypeInv, TypeOK, AllTargets
  <1>m. nodes \in NodeLists /\ nodes # None
    BY <1>t, NoneAssumption DEF TypeOK
  <1>r. ASSUME NEW r, Return(s, r)
        PROVE  UNCHANGED <<nodes, hosts>>
    BY <1>r DEF Return, request
  <1>s. pc[s] \in Specifying => Reader(s)
    BY <1>t DEF Reader, Read, ControlInv, Ensuring
  <1>1. CASE Compare(s)
    <2>0. pc[s] = "compare" /\ lb' = lb /\ pc[s] \in Specifying /\ pc[s] \in Read
      BY <1>1 DEF Compare, api, Specifying, Read
    <2>n. lb'[s].status = "NONE" => lb'[s] = NoLoadBalancer
      BY <1>t, <2>0 DEF TargetInv, RequestInv
    <2>1. CASE Return(s, "error")
      BY <2>0, <2>1, <2>n, TargetReturn
    <2>2. CASE got[s].status = "NONE" /\ Continue(s, "createLB") /\ UNCHANGED local
      BY <2>0, <2>2, TargetContinue DEF local
    <2>3. CASE Continue(s, "updateLB") /\ UNCHANGED local
      BY <2>0, <2>3, TargetContinue DEF local, Read, Specifying
    <2>4. CASE Return(s, StatusResult(got[s].status)) /\ Fulfills(got[s].spec, WantedSpec(s))
      <3>1. ASSUME Quiet(s), ~raced[s], svc[s] # None, Exists(s), NEW p \in svc[s].pools
            PROVE  Served(s, p)
        <4>1. got[s].spec.targets[p] = job[s].nodes /\ p \in Pools
          BY <2>0, <2>4, <3>1, WantedTargets DEF Fulfills, Quiet
        <4>2. CASE job[s].nodes = nodes
          BY <1>t, <1>s, <2>0, <3>1, <4>1, <4>2 DEF TargetInv, ServedInv
        <4>3. CASE job[s].nodes # nodes
          BY <1>t, <1>s, <2>0, <3>1, <4>1, <4>3 DEF TargetInv, OutdatedInv
        <4> QED
          BY <4>2, <4>3
      <3>2. Exists(s)' => Exists(s)
        BY <2>0 DEF Exists
      <3>3. \A p : Served(s, p) => (Served(s, p))'
        BY <1>r, <2>0, <2>4 DEF Served, hosts
      <3> QED
        BY <2>0, <2>4, <2>n, <3>1, <3>2, <3>3, TargetReturn
    <2>5. job[s].svc.valid \in BOOLEAN
      BY <2>0, <1>t, SpecsAssumption DEF TypeOK, ControlInv, Ensuring, Jobs
    <2> QED
      BY <1>1, <2>1, <2>2, <2>3, <2>4, <2>5, Zenon DEF Compare
  <1>2. ASSUME pc[s] \in {"createLB", "updateLB"}, lb'[s].spec = WantedSpec(s),
               pc[s] = "createLB" => ~Exists(s),
               pc[s] = "updateLB" => Current(s, got[s].version),
               Quiet(s), ~raced[s], NEW p \in svc[s].pools, UNCHANGED <<nodes, hosts>>
        PROVE  (Served(s, p))'
    <2>1. pc[s] \in Specifying /\ Reader(s)
      BY <1>2, <1>s DEF Specifying
    <2>2. lb'[s].spec.targets[p] = job[s].nodes /\ p \in Pools
      BY <1>2, <2>1, WantedTargets DEF Quiet
    <2>3. CASE job[s].nodes = nodes
      BY <1>2, <2>2, <2>3 DEF Served
    <2>4. CASE job[s].nodes # nodes
      <3>1. /\ Served(s, p) \/ (got[s].status # "NONE" /\ ~Exists(s))
            /\ got[s].spec.targets[p] # nodes
        BY <1>t, <1>2, <2>1, <2>2, <2>4 DEF TargetInv, OutdatedInv
      <3>2. CASE pc[s] = "createLB"
        <4>1. got[s].status = "NONE" /\ lb[s] = NoLoadBalancer
          BY <1>t, <2>1, <3>2 DEF TargetInv, VersionInv
        <4>2. lb[s].spec.targets[p] # nodes
          BY <1>m, <2>2, <4>1 DEF NoLoadBalancer, NoPayload
        <4> QED
          BY <1>2, <3>1, <4>1, <4>2 DEF Served, hosts
      <3>3. CASE pc[s] = "updateLB"
        <4>1. Exists(s) /\ got[s].spec = lb[s].spec
          BY <1>t, <1>2, <2>1, <3>3 DEF TargetInv, VersionInv, Current
        <4> QED
          BY <1>2, <3>1, <4>1 DEF Served, hosts
      <3> QED
        BY <1>2, <3>2, <3>3
    <2> QED
      BY <2>3, <2>4
  <1>3. CASE CreateLB(s)
    <2>1. /\ pc[s] = "createLB" /\ ~Exists(s) /\ lb'[s].spec = WantedSpec(s)
          /\ lb'[s].status # "NONE" /\ \A t \in Services \ {s} : lb'[t] = lb[t]
      BY <1>3, <1>t DEF CreateLB, ApiCreateLB, ApiTypeOK
    <2>2. ASSUME NEW r, Return(s, r)
          PROVE  AllTargets'
      BY <1>2, <1>r, <2>1, <2>2, TargetReturn
    <2> QED
      BY <1>3, <2>2 DEF CreateLB, AnswerLost
  <1>4. CASE UpdateLB(s)
    <2>0. pc[s] = "updateLB" /\ ApiUpdateLB(s, got[s].version, WantedSpec(s))
      BY <1>4 DEF UpdateLB
    <2>1. /\ Current(s, got[s].version) /\ lb'[s].spec = WantedSpec(s)
          /\ lb'[s].status # "NONE" /\ \A t \in Services \ {s} : lb'[t] = lb[t]
      BY <2>0, <1>t DEF ApiUpdateLB, ApiTypeOK, Current, Exists
    <2>2. ASSUME NEW r, Return(s, r)
          PROVE  AllTargets'
      BY <1>2, <1>r, <2>0, <2>1, <2>2, TargetReturn
    <2>3. CASE /\ got' = [got EXCEPT ![s] = WithStatus(got[s], lb'[s].status)]
               /\ Continue(s, "dropCredentials")
               /\ UNCHANGED <<job, obs, todo>>
      <3>1. /\ pc'[s] = "dropCredentials" /\ UNCHANGED <<svc, nodes, dirty, hosts, job>>
            /\ \A t \in Services \ {s} : pc'[t] = pc[t] /\ got'[t] = got[t]
        BY <1>t, <2>3 DEF Continue, TypeOK, request, queue
      <3>2. RequestInv(s)'
        BY <1>t, <2>1, <3>1 DEF TargetInv, RequestInv, hosts
      <3>3. VersionInv(s)' /\ OutdatedInv(s)'
        BY <3>1 DEF VersionInv, OutdatedInv, Reader, Read, Specifying
      <3>4. ServedInv(s)'
        <4>1. ~Reader(s)'
          BY <3>1 DEF Reader, Read, Specifying
        <4>2. (Quiet(s))' => Quiet(s)
          BY <3>1 DEF Quiet, hosts
        <4>3. svc' = svc /\ raced' = raced
          BY <3>1 DEF hosts
        <4>4. ASSUME Quiet(s), ~raced[s], NEW p \in svc[s].pools
              PROVE  (Served(s, p))'
          BY <1>2, <2>0, <2>1, <3>1, <4>4
        <4> QED
          BY <4>1, <4>2, <4>3, <4>4 DEF ServedInv
      <3>5. TargetOnly(s)
        BY <2>1, <3>1 DEF TargetOnly
      <3> QED
        BY <3>2, <3>3, <3>4, <3>5, TargetHandlerStep DEF TargetInv
    <2> QED
      BY <1>4, <2>2, <2>3 DEF UpdateLB, AnswerLost
  <1>5. CASE DropCredentials(s)
    <2>1. pc[s] = "dropCredentials" /\ lb' = lb
      BY <1>5 DEF DropCredentials, ApiDeleteCredentials
    <2>2. ASSUME NEW r, Return(s, r)
          PROVE  AllTargets'
      <3>1. lb'[s].status = "NONE" => lb'[s] = NoLoadBalancer
        BY <1>t, <2>1 DEF TargetInv, RequestInv
      <3>2. ASSUME Quiet(s), ~raced[s], svc[s] # None, Exists(s)', NEW p \in svc[s].pools
            PROVE  (Served(s, p))'
        <4>1. Served(s, p)
          BY <1>t, <2>1, <3>2 DEF TargetInv, ServedInv, Exists
        <4> QED
          BY <1>r, <2>1, <2>2, <4>1 DEF Served, hosts
      <3> QED
        BY <2>1, <2>2, <3>1, <3>2, TargetReturn
    <2>3. CASE job[s].svc = None /\ Continue(s, "list") /\ UNCHANGED local
      BY <2>1, <2>3, TargetContinue DEF local
    <2> QED
      BY <1>5, <2>2, <2>3 DEF DropCredentials, AnswerLost
  <1> QED
    BY <1>1, <1>3, <1>4, <1>5

\* A handler that goes on removing.
LEMMA TargetRemoval ==
  ASSUME TypeInv, AllTargets, NEW s \in Services, NEW next, Continue(s, next), next \notin {"get", "idle"},
         job' = job, job[s].svc = None,
         \A t \in Services \ {s} : lb'[t] = lb[t] /\ got'[t] = got[t],
         lb'[s].status = "NONE" => lb'[s] = NoLoadBalancer
  PROVE  AllTargets'
  <1>t. TypeOK /\ TargetInv(s)
    BY DEF TypeInv, AllTargets
  <1>1. /\ pc'[s] = next /\ UNCHANGED <<svc, nodes, dirty, hosts>>
        /\ \A t \in Services \ {s} : pc'[t] = pc[t]
    BY <1>t DEF Continue, TypeOK, request, queue
  <1>2. RequestInv(s)'
    BY <1>t, <1>1 DEF TargetInv, RequestInv, hosts
  <1>3. VersionInv(s)' /\ OutdatedInv(s)'
    BY <1>1 DEF VersionInv, OutdatedInv, Reader
  <1>4. ServedInv(s)'
    BY <1>1, <1>2 DEF ServedInv, RequestInv, Reader, Quiet
  <1>5. TargetOnly(s)
    BY <1>1 DEF TargetOnly
  <1> QED
    BY <1>2, <1>3, <1>4, <1>5, TargetHandlerStep DEF TargetInv

\* Removal and failed calls: nothing is to be shown of a service that is not wanted.
LEMMA DeleteTargets ==
  ASSUME TypeInv, AllTargets, NEW s \in Services, Delete(s) \/ CallFails(s)
  PROVE  AllTargets'
  <1>t. TypeOK /\ ApiTypeOK /\ TargetInv(s) /\ ControlInv(s)
    BY DEF TypeInv, TypeOK, AllTargets
  <1>n. lb[s].status = "NONE" => lb[s] = NoLoadBalancer
    BY <1>t DEF TargetInv, RequestInv
  <1>d. pc[s] \in Deleting => job[s].svc = None /\ (Quiet(s) => svc[s] = None)
    BY <1>t DEF ControlInv, TargetInv, RequestInv, Quiet
  <1>1. ASSUME NEW r, Return(s, r), r = "error" \/ pc[s] \in Deleting,
               \A t \in Services \ {s} : lb'[t] = lb[t],
               lb'[s].status = "NONE" => lb'[s] = NoLoadBalancer
        PROVE  AllTargets'
    BY <1>1, <1>d, TargetReturn
  <1>2. CASE CallFails(s)
    <2>1. lb' = lb
      BY <1>2 DEF CallFails, api
    <2> QED
      BY <1>1, <1>2, <1>n, <2>1 DEF CallFails
  <1>3. CASE GetLoadBalancer(s)
    <2>1. lb' = lb /\ pc[s] \in Deleting
      BY <1>3 DEF GetLoadBalancer, api, Deleting
    <2>2. CASE Continue(s, "getToDelete") /\ UNCHANGED local
      BY <1>d, <2>1, <2>2, TargetContinue DEF local
    <2> QED
      BY <1>1, <1>3, <1>n, <2>1, <2>2 DEF GetLoadBalancer
  <1>4. CASE GetToDelete(s)
    <2>1. lb' = lb /\ pc[s] \in Deleting
      BY <1>4 DEF GetToDelete, api, Deleting
    <2>2. CASE Return(s, "absent") \/ Return(s, "terminating")
      BY <1>1, <1>n, <2>1, <2>2
    <2>3. CASE /\ got' = [got EXCEPT ![s] = lb[s]]
               /\ Continue(s, IF lb[s].spec.ref = None THEN "list" ELSE "unreference")
               /\ UNCHANGED <<job, obs, todo>>
      <3>1. \A t \in Services \ {s} : got'[t] = got[t]
        BY <1>t, <2>3 DEF TypeOK
      <3> QED
        BY <1>d, <1>n, <2>1, <2>3, <3>1, TargetRemoval
    <2> QED
      BY <1>4, <2>2, <2>3, Zenon DEF GetToDelete
  <1>5. CASE Unreference(s)
    <2>1. pc[s] = "unreference" /\ pc[s] \in Deleting
      BY <1>5 DEF Unreference, Deleting
    <2>2. lb'[s].status # "NONE" /\ \A t \in Services \ {s} : lb'[t] = lb[t]
      BY <1>5, <1>t DEF Unreference, ApiUpdateLB, ApiTypeOK, Current, Exists
    <2>3. CASE AnswerLost(s)
      BY <1>1, <2>1, <2>2, <2>3 DEF AnswerLost
    <2>4. CASE Continue(s, "dropCredentials") /\ UNCHANGED <<local, budget>>
      BY <1>d, <2>1, <2>2, <2>4, TargetRemoval DEF local
    <2> QED
      BY <1>5, <2>3, <2>4 DEF Unreference
  <1>6. CASE DeleteLB(s)
    <2>1. pc[s] \in Deleting
      BY <1>6 DEF DeleteLB, Deleting
    <2>2. /\ \A t \in Services \ {s} : lb'[t] = lb[t]
          /\ lb'[s].status = "NONE" => lb'[s] = NoLoadBalancer
      BY <1>6, <1>t, <1>n DEF DeleteLB, ApiDeleteLB, ApiTypeOK, WithStatus
    <2> QED
      BY <1>1, <1>6, <2>1, <2>2 DEF DeleteLB, AnswerLost
  <1> QED
    BY <1>2, <1>3, <1>4, <1>5, <1>6 DEF Delete

\* Host updates: what they have done is served, what they have to do is in hostTodo, and
\* one that fails is due again.
LEMMA HostTargets ==
  ASSUME TypeInv, AllTargets, NEW s \in Services, StartHostUpdate(s) \/ HostUpdate(s)
  PROVE  AllTargets'
  <1>t. TypeOK /\ ApiTypeOK /\ TargetInv(s)
    BY DEF TypeInv, TypeOK, AllTargets
  <1>u. UNCHANGED <<svc, nodes, pc, dirty, job, got, raced>>
    BY DEF StartHostUpdate, HostUpdate, UpdateTargetPool, UpdateTargetPoolFails, HostsUpdated,
           HostsFail, request, queue, local, hosts
  <1>1. ASSUME TargetInv(s)',
               \A t \in Services \ {s} : /\ lb'[t] = lb[t] /\ hostDirty'[t] = hostDirty[t]
                                         /\ hostJob'[t] = hostJob[t] /\ hostTodo'[t] = hostTodo[t]
        PROVE  AllTargets'
    BY <1>1, <1>u, TargetUnchanged DEF AllTargets
  <1>2. ASSUME lb' = lb, hostDirty'[s] \/ \A p \in svc[s].pools : p \in hostTodo'[s],
               RequestInv(s)'
        PROVE  TargetInv(s)'
    BY <1>t, <1>u, <1>2 DEF TargetInv, VersionInv, OutdatedInv, ServedInv, Reader, Quiet,
                            Served, Exists
  <1>3. CASE StartHostUpdate(s)
    <2>1. CASE UNCHANGED hosts
      BY <1>3, <1>t, <1>u, <2>1, TargetUnchanged DEF StartHostUpdate, api, hosts, AllTargets
    <2>2. CASE /\ hostDirty' = [hostDirty EXCEPT ![s] = FALSE]
               /\ hostJob' = [hostJob EXCEPT ![s] = [svc |-> svc[s], nodes |-> nodes]]
               /\ hostTodo' = [hostTodo EXCEPT ![s] = svc[s].pools]
      <3>1. lb' = lb /\ hostJob'[s].nodes = nodes /\ hostTodo'[s] = svc[s].pools
        BY <1>3, <1>t, <2>2 DEF StartHostUpdate, api, TypeOK
      <3>2. hostJob'[s] # None
        BY <1>3, <1>t, <2>2, JobsAssumption DEF StartHostUpdate, TypeOK, Jobs
      <3>3. RequestInv(s)'
        BY <1>t, <1>u, <3>1, <3>2 DEF TargetInv, RequestInv
      <3> QED
        BY <1>1, <1>2, <1>t, <2>2, <3>1, <3>3 DEF TypeOK
    <2> QED
      BY <1>3, <2>1, <2>2 DEF StartHostUpdate
  <1>4. ASSUME HostsFail(s), \A t \in Services \ {s} : lb'[t] = lb[t],
               lb'[s].status = lb[s].status, Exists(s) \/ lb'[s] = lb[s], VersionInv(s)'
        PROVE  AllTargets'
    <2>1. /\ hostDirty'[s] /\ hostJob'[s] = None /\ hostTodo'[s] = {}
          /\ \A t \in Services \ {s} : /\ hostDirty'[t] = hostDirty[t] /\ hostJob'[t] = hostJob[t]
                                       /\ hostTodo'[t] = hostTodo[t]
      BY <1>4, <1>t DEF HostsFail, TypeOK
    <2>2. RequestInv(s)'
      BY <1>t, <1>u, <1>4, <2>1 DEF TargetInv, RequestInv, Exists
    <2>3. OutdatedInv(s)' /\ ServedInv(s)'
      BY <1>t, <1>u, <2>1 DEF TargetInv, OutdatedInv, ServedInv, Reader, Quiet
    <2> QED
      BY <1>1, <1>4, <2>1, <2>2, <2>3 DEF TargetInv
  <1>5. ASSUME NEW p \in Pools, UpdateTargetPoolFails(s, p)
        PROVE  AllTargets'
    <2>1. lb' = lb /\ HostsFail(s)
      BY <1>5 DEF UpdateTargetPoolFails, api
    <2>2. VersionInv(s)'
      BY <1>t, <1>u, <2>1 DEF TargetInv, VersionInv, Reader, Exists
    <2> QED
      BY <1>4, <2>1, <2>2
  <1>6. ASSUME NEW p \in Pools, UpdateTargetPool(s, p)
        PROVE  AllTargets'
    <2> DEFINE n == hostJob[s].nodes
    <2>0. hostJob[s] # None /\ ApiUpdateTargetPool(s, p, n) /\ Exists(s)
      BY <1>6 DEF UpdateTargetPool, ApiUpdateTargetPool
    <2>l. \A t \in Services \ {s} : lb'[t] = lb[t]
      BY <2>0, <1>t DEF ApiUpdateTargetPool, ApiTypeOK
    <2>1. /\ lb'[s].status = lb[s].status
          /\ \A q \in Pools : lb'[s].spec.targets[q] = IF q = p THEN n ELSE lb[s].spec.targets[q]
          /\ lb'[s] = lb[s] \/ lb'[s].version = lb[s].version + 1
      <3>1. lb[s].spec.targets \in [Pools -> NodeLists \cup {None}]
        BY <1>t DEF ApiTypeOK, LoadBalancers, Payloads
      <3>2. CASE lb[s].spec.targets[p] = n /\ lb' = lb
        BY <3>1, <3>2
      <3>3. CASE lb' = [lb EXCEPT ![s] = [status  |-> lb[s].status,
                                          version |-> lb[s].version + 1,
                                          spec    |-> WithTargets(lb[s].spec, p, n)]]
        BY <1>t, <3>1, <3>3 DEF WithTargets, ApiTypeOK
      <3> QED
        BY <2>0, <3>2, <3>3 DEF ApiUpdateTargetPool
    <2>2. VersionInv(s)'
      <3>1. lb[s].version \in Nat /\ got[s].version \in Nat
        BY <1>t DEF TypeOK, ApiTypeOK, LoadBalancers
      <3>2. Reader(s)' <=> Reader(s)
        BY <1>u DEF Reader
      <3>3. Reader(s) => got[s].status # "NONE"
        BY <1>t, <2>0 DEF TargetInv, VersionInv, Exists, NoLoadBalancer
      <3> QED
        BY <1>t, <1>u, <2>0, <2>1, <3>1, <3>2, <3>3 DEF TargetInv, VersionInv, Exists
    <2>3. CASE HostsFail(s)
      BY <1>4, <2>0, <2>l, <2>1, <2>2, <2>3
    <2>4. CASE /\ hostTodo' = [hostTodo EXCEPT ![s] = @ \ {p}]
               /\ UNCHANGED <<hostDirty, hostJob, raced, budget>>
      <3>1. /\ hostTodo'[s] = hostTodo[s] \ {p}
            /\ \A t \in Services \ {s} : hostTodo'[t] = hostTodo[t]
        BY <1>t, <2>4 DEF TypeOK
      <3>2. RequestInv(s)'
        BY <1>t, <1>u, <2>0, <2>1, <2>4 DEF TargetInv, RequestInv, Exists
      <3>3. ~hostDirty[s] => \A q \in Pools : Served(s, q) => (Served(s, q))'
        BY <1>t, <1>u, <2>0, <2>1, <3>1 DEF TargetInv, RequestInv, Served
      <3>4. /\ Exists(s)'
            /\ (Quiet(s))' <=> Quiet(s)
            /\ Reader(s)' <=> Reader(s)
        BY <1>u, <2>0, <2>1, <2>4 DEF Exists, Quiet, Reader
      <3>5. svc[s] # None => svc[s].pools \subseteq Pools
        BY <1>t, SpecsAssumption DEF TypeOK
      <3>6. Reader(s) /\ Quiet(s) => svc[s] # None
        BY <1>t DEF TargetInv, RequestInv, Reader, Quiet
      <3>7. OutdatedInv(s)'
        <4>1. ASSUME job[s].nodes # nodes, ~raced[s], Reader(s), Quiet(s), NEW q \in svc[s].pools
              PROVE  (Served(s, q))'
          <5>1. Served(s, q)
            BY <1>t, <2>0, <4>1 DEF TargetInv, OutdatedInv
          <5> QED
            BY <3>3, <3>5, <3>6, <4>1, <5>1 DEF Quiet
        <4>2. job' = job /\ nodes' = nodes /\ raced' = raced /\ got' = got /\ svc' = svc /\ pc' = pc
          BY <1>u
        <4>3. job[s].nodes # nodes /\ ~raced[s]
                 => pc[s] # "get" /\ (Reader(s) => \A q \in Pools : got[s].spec.targets[q] # nodes)
          BY <1>t DEF TargetInv, OutdatedInv
        <4> QED
          BY <3>4, <4>1, <4>2, <4>3 DEF OutdatedInv
      <3>8. ServedInv(s)'
        BY <1>t, <1>u, <2>0, <3>3, <3>4, <3>5, <3>6 DEF TargetInv, ServedInv, Quiet
      <3> QED
        BY <1>1, <2>2, <2>4, <2>l, <3>1, <3>2, <3>7, <3>8 DEF TargetInv
    <2> QED
      BY <1>6, <2>3, <2>4 DEF UpdateTargetPool
  <1>7. CASE HostsUpdated(s)
    <2>1. /\ lb' = lb /\ hostTodo[s] = {} /\ hostTodo' = hostTodo /\ hostDirty' = hostDirty
          /\ hostJob'[s] = None /\ \A t \in Services \ {s} : hostJob'[t] = hostJob[t]
      BY <1>7, <1>t DEF HostsUpdated, api, TypeOK
    <2>2. TargetInv(s)'
      BY <1>t, <1>u, <2>1 DEF TargetInv, RequestInv, VersionInv, OutdatedInv, ServedInv, Reader,
                              Quiet, Served, Exists
    <2> QED
      BY <1>1, <2>1, <2>2
  <1> QED
    BY <1>3, <1>5, <1>6, <1>7 DEF HostUpdate

\* Users, nodes and the API.
LEMMA ElsewhereTargets ==
  ASSUME TypeInv, AllTargets, NEW s \in Services,
         ChangeService(s) \/ Provision(s) \/ Break(s) \/ ChangeNodes \/ UNCHANGED vars
  PROVE  AllTargets'
  <1>t. TypeOK /\ ApiTypeOK
    BY DEF TypeInv, TypeOK
  <1> SUFFICES ASSUME NEW t \in Services
               PROVE  TargetInv(t)'
    BY DEF AllTargets
  <1>i. TargetInv(t)
    BY DEF AllTargets
  <1>1. CASE ChangeService(s)
    <2>1. /\ UNCHANGED <<lb, nodes, pc, job, got, hosts>>
          /\ t = s => dirty'[t]
          /\ t # s => dirty'[t] = dirty[t] /\ svc'[t] = svc[t]
      BY <1>1, <1>t DEF ChangeService, api, local, TypeOK
    <2>2. CASE t = s
      BY <1>i, <2>1, <2>2 DEF TargetInv, RequestInv, VersionInv, OutdatedInv, ServedInv, Reader,
                              Quiet, Exists, hosts
    <2> QED
      BY <1>i, <2>1, <2>2, TargetUnchanged DEF hosts
  <1>2. CASE ChangeNodes
    <2>1. /\ UNCHANGED <<lb, svc, dirty, pc, job, got, hostJob, hostTodo>> /\ hostDirty'[t]
          /\ ~raced'[t] => pc[t] # "get" /\ \A p \in Pools : got[t].spec.targets[p] # nodes'
      BY <1>2 DEF ChangeNodes, api, queue, local
    <2> QED
      BY <1>i, <2>1 DEF TargetInv, RequestInv, VersionInv, OutdatedInv, ServedInv, Reader, Quiet,
                        Exists
  <1>3. CASE Provision(s) \/ Break(s)
    <2>1. UNCHANGED <<svc, nodes, dirty, pc, job, got, hosts>>
      BY <1>3 DEF Provision, Break, request, queue, local
    <2>2. \/ lb'[t] = lb[t]
          \/ Exists(t) /\ lb'[t] = NoLoadBalancer
          \/ Exists(t) /\ Exists(t)' /\ lb'[t].spec = lb[t].spec /\ lb'[t].version = lb[t].version
      BY <1>3, <1>t DEF Provision, Break, ApiProvisioned, ApiRepaired, ApiGone, ApiBreaks, WithStatus,
                        ApiTypeOK, Exists
    <2>3. ~Exists(t)' <=> lb'[t].status = "NONE"
      BY DEF Exists
    <2>4. CASE Exists(t) /\ lb'[t] = NoLoadBalancer
      <3>1. ~Exists(t)' /\ (Reader(t) => got[t].status # "NONE")
        BY <1>i, <2>4 DEF TargetInv, VersionInv, Exists, NoLoadBalancer
      <3> QED
        BY <1>i, <2>1, <2>4, <3>1 DEF TargetInv, RequestInv, VersionInv, OutdatedInv, ServedInv,
                                      Reader, Quiet, hosts
    <2>5. CASE Exists(t) /\ Exists(t)' /\ lb'[t].spec = lb[t].spec /\ lb'[t].version = lb[t].version
      <3>1. Reader(t) => got[t].status # "NONE"
        BY <1>i, <2>5 DEF TargetInv, VersionInv, Exists, NoLoadBalancer
      <3> QED
        BY <1>i, <2>1, <2>3, <2>5, <3>1 DEF TargetInv, RequestInv, VersionInv, OutdatedInv, ServedInv,
                                      Reader, Quiet, Served, hosts
    <2> QED
      BY <1>i, <2>1, <2>2, <2>4, <2>5, TargetUnchanged DEF hosts
  <1>4. CASE UNCHANGED vars
    BY <1>i, <1>4, TargetUnchanged DEF vars, api, request, queue, local, hosts
  <1> QED
    BY <1>1, <1>2, <1>3, <1>4

LEMMA NextTargets == TypeInv /\ AllTargets /\ [Next]_vars => AllTargets'
  <1> SUFFICES ASSUME TypeInv, AllTargets, [Next]_vars
               PROVE  AllTargets'
    OBVIOUS
  <1>1. ASSUME NEW s \in Services, Start(s) \/ Handler(s)
        PROVE  AllTargets'
    BY <1>1, PrepareTargets, WriteTargets, DeleteTargets DEF Handler, Ensure
  <1>2. ASSUME NEW s \in Services, StartHostUpdate(s) \/ HostUpdate(s)
        PROVE  AllTargets'
    BY <1>2, HostTargets
  <1>3. ASSUME NEW s \in Services, ChangeService(s) \/ Provision(s) \/ Break(s)
        PROVE  AllTargets'
    BY <1>3, ElsewhereTargets
  <1>4. CASE ChangeNodes \/ UNCHANGED vars
    <2>1. CASE Services = {}
      BY <2>1 DEF AllTargets
    <2>2. CASE \E s : s \in Services
      BY <1>4, <2>2, ElsewhereTargets
    <2> QED
      BY <2>1, <2>2
  <1>5. CASE Restart
    <2>1. ASSUME NEW s \in Services
          PROVE  TargetInv(s)'
      <3>1. lb[s].status = "NONE" => lb[s] = NoLoadBalancer
        BY DEF AllTargets, TargetInv, RequestInv
      <3> QED
        BY <1>5, <3>1 DEF Restart, api, TargetInv, RequestInv, VersionInv, OutdatedInv, ServedInv,
                          Reader, Read, Specifying, Quiet
    <2> QED
      BY <2>1 DEF AllTargets
  <1> QED
    BY <1>1, <1>2, <1>3, <1>4, <1>5 DEF Next

\* However EnsureLoadBalancer and UpdateLoadBalancer of a service fall between each other's
\* calls, fail, are repeated or are cut off by a restart, a service that has come to rest
\* has the nodes of the cluster in every pool, unless the nodes changed where the version
\* of the load balancer (loadbalancer.go, the update payload) cannot tell.
THEOREM TargetsCurrentAtRest == Spec => []TargetsFollowNodes
  <1>1. Init => TypeInv /\ AllTargets
    <2>1. Init => AllTargets
      BY DEF Init, ApiInit, AllTargets, TargetInv, RequestInv, VersionInv, OutdatedInv, ServedInv,
             Reader, Read, Specifying, Quiet
    <2> QED
      BY <2>1, InitType
  <1>2. TypeInv /\ AllTargets /\ [Next]_vars => (TypeInv /\ AllTargets)'
    BY NextType, NextTargets
  <1>3. AllTargets => TargetsFollowNodes
    BY DEF AllTargets, TargetInv, RequestInv, ServedInv, Quiet, Served, TargetsFollowNodes, AtRest,
           TargetsCurrent
  <1> QED
    BY <1>1, <1>2, <1>3, PTL DEF Spec

=============================================================================
