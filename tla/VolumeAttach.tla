----------------------------- MODULE VolumeAttach -----------------------------
(***************************************************************************)
(* Attaching and detaching volumes: ControllerPublishVolume,               *)
(* ControllerUnpublishVolume and DeleteVolume of the CSI controller server *)
(* (pkg/csi/blockstorage/controllerserver.go) with AttachVolume,           *)
(* DetachVolume, DeleteVolume, WaitDiskAttached and WaitDiskDetached of    *)
(* pkg/stackit/client/iaas.go.                                             *)
(*                                                                         *)
(* Every IaaS call is a step.  The handlers hold no lock: requests for     *)
(* different nodes, and a deletion, run at the same time on one volume.    *)
(* The sidecars are external: the attacher runs one request per            *)
(* VolumeAttachment (volume and node) at a time and repeats a failed one.  *)
(* So is the IaaS API: attaching and detaching go through an intermediate  *)
(* status and the volume's server is set when attaching ends; a volume is  *)
(* deleted only while it is available; deleting a server frees its volumes.*)
(***************************************************************************)
EXTENDS Naturals, FiniteSets

CONSTANTS
    Volumes,
    Nodes,
    None,
    NodeCapacity,      \* volumes that fit on one server (PCIe lanes)
    MaxDisturbances    \* bound on user changes, failed calls and deleted servers

ASSUME AttachAssumption ==
    /\ None \notin Nodes
    /\ NodeCapacity \in Nat
    /\ MaxDisturbances \in Nat

VARIABLES
    status,     \* status[v]: status of the volume, "NONE" when there is none
    server,     \* server[v]: the volume's ServerId
    target,     \* target[v]: the server an attach or detach is under way for
    servers,    \* the servers that exist
    want,       \* want[v][n]: a VolumeAttachment of v to n exists
    result,     \* result[v][n]: the last final answer for v on n
    pc,         \* pc[v][n]: next call of the handler working on v and n
    seen,       \* seen[v][n]: the volume that ControllerPublishVolume read
    deleter,    \* deleter[v]: where DeleteVolume of v stands
    budget      \* disturbances left

iaas == <<status, server, target, servers>>
vars == <<iaas, want, result, pc, seen, deleter, budget>>

Statuses == {"NONE", "AVAILABLE", "ATTACHING", "ATTACHED", "DETACHING"}

PublishCalls   == {"publishGet", "publishServer", "attachGet", "attach", "waitAttached"}
UnpublishCalls == {"unpublishServer", "detachGet", "detach", "waitDetached"}

TypeOK ==
    /\ status \in [Volumes -> Statuses]
    /\ server \in [Volumes -> Nodes \cup {None}]
    /\ target \in [Volumes -> Nodes \cup {None}]
    /\ servers \in SUBSET Nodes
    /\ want \in [Volumes -> [Nodes -> BOOLEAN]]
    /\ result \in [Volumes -> [Nodes -> {"none", "published", "unpublished"}]]
    /\ pc \in [Volumes -> [Nodes -> PublishCalls \cup UnpublishCalls \cup {"idle"}]]
    /\ seen \in [Volumes -> [Nodes -> [status : Statuses, server : Nodes \cup {None}]]]
    /\ deleter \in [Volumes -> {"idle", "check", "delete", "deleted"}]
    /\ budget \in Nat

Unseen == [status |-> "NONE", server |-> None]

Init ==
    /\ status = [v \in Volumes |-> "AVAILABLE"]
    /\ server = [v \in Volumes |-> None]
    /\ target = [v \in Volumes |-> None]
    /\ servers = Nodes
    /\ want = [v \in Volumes |-> [n \in Nodes |-> FALSE]]
    /\ result = [v \in Volumes |-> [n \in Nodes |-> "unpublished"]]
    /\ pc = [v \in Volumes |-> [n \in Nodes |-> "idle"]]
    /\ seen = [v \in Volumes |-> [n \in Nodes |-> Unseen]]
    /\ deleter = [v \in Volumes |-> "idle"]
    /\ budget = MaxDisturbances

-----------------------------------------------------------------------------

Disturb == budget > 0 /\ budget' = budget - 1

\* Servers' volumes, those being attached or detached included.
Load(n) == Cardinality({v \in Volumes : server[v] = n \/ target[v] = n})

\* The handler of v and n makes `next` its next call.
Continue(v, n, next) ==
    /\ pc' = [pc EXCEPT ![v][n] = next]
    /\ UNCHANGED <<want, result, seen, deleter, budget>>

\* The handler answers r; "none" stands for an error, after which the sidecar asks
\* again.
Answer(v, n, r) ==
    /\ pc' = [pc EXCEPT ![v][n] = "idle"]
    /\ result' = [result EXCEPT ![v][n] = r]
    /\ seen' = [seen EXCEPT ![v][n] = Unseen]
    /\ UNCHANGED <<want, deleter>>

Finish(v, n, r) == Answer(v, n, r) /\ UNCHANGED budget

\* A call fails, or it takes effect and its answer is lost, or the request times out.
CallFails(v, n) ==
    /\ pc[v][n] # "idle"
    /\ Disturb
    /\ Answer(v, n, "none")
    /\ UNCHANGED iaas

-----------------------------------------------------------------------------
\* ControllerPublishVolume.

StartPublish(v, n) ==
    /\ pc[v][n] = "idle"
    /\ want[v][n]
    /\ result[v][n] # "published"
    /\ pc' = [pc EXCEPT ![v][n] = "publishGet"]
    /\ result' = [result EXCEPT ![v][n] = "none"]
    /\ UNCHANGED <<iaas, want, seen, deleter, budget>>

PublishGetVolume(v, n) ==
    /\ pc[v][n] = "publishGet"
    /\ IF status[v] = "NONE" THEN Finish(v, n, "none")
       ELSE /\ seen' = [seen EXCEPT ![v][n] = [status |-> status[v], server |-> server[v]]]
            /\ pc' = [pc EXCEPT ![v][n] = "publishServer"]
            /\ UNCHANGED <<want, result, deleter, budget>>
    /\ UNCHANGED iaas

\* GetServer, then the decisions on the volume that was read before it.
PublishGetServer(v, n) ==
    /\ pc[v][n] = "publishServer"
    /\ CASE n \notin servers -> Finish(v, n, "none")
         [] n \in servers /\ seen[v][n].server = n -> Finish(v, n, "published")
         [] n \in servers /\ seen[v][n].server # n /\ seen[v][n].status # "AVAILABLE" ->
              Finish(v, n, "none")
         [] OTHER -> Continue(v, n, "attachGet")
    /\ UNCHANGED iaas

\* AttachVolume reads the volume once more.
AttachGetVolume(v, n) ==
    /\ pc[v][n] = "attachGet"
    /\ CASE status[v] = "NONE" -> Finish(v, n, "none")
         [] status[v] # "NONE" /\ server[v] = n -> Continue(v, n, "waitAttached")
         [] OTHER -> Continue(v, n, "attach")
    /\ UNCHANGED iaas

\* AddVolumeToServer.  The API refuses a volume that is not available, a server that
\* is gone, and one volume too many (ResourceExhausted).
AddVolumeToServer(v, n) ==
    /\ pc[v][n] = "attach"
    /\ IF status[v] = "AVAILABLE" /\ n \in servers /\ Load(n) < NodeCapacity
       THEN /\ status' = [status EXCEPT ![v] = "ATTACHING"]
            /\ target' = [target EXCEPT ![v] = n]
            /\ UNCHANGED <<server, servers>>
            /\ \/ Continue(v, n, "waitAttached")
               \/ Disturb /\ Answer(v, n, "none")
       ELSE Finish(v, n, "none") /\ UNCHANGED iaas

\* Mutant: the answer does not wait for the volume.
WaitForNothing(v, n) ==
    /\ pc[v][n] = "waitAttached"
    /\ Finish(v, n, "published")
    /\ UNCHANGED iaas

\* WaitDiskAttached polls; a volume that is not found counts as not attached yet.
WaitDiskAttached(v, n) ==
    /\ pc[v][n] = "waitAttached"
    /\ \/ status[v] # "NONE" /\ server[v] = n /\ Finish(v, n, "published")
       \/ (status[v] = "NONE" \/ server[v] # n) /\ Finish(v, n, "none")
    /\ UNCHANGED iaas

-----------------------------------------------------------------------------
\* ControllerUnpublishVolume.

StartUnpublish(v, n) ==
    /\ pc[v][n] = "idle"
    /\ ~want[v][n]
    /\ result[v][n] # "unpublished"
    /\ pc' = [pc EXCEPT ![v][n] = "unpublishServer"]
    /\ result' = [result EXCEPT ![v][n] = "none"]
    /\ UNCHANGED <<iaas, want, seen, deleter, budget>>

\* Mutant: a server that is gone is an error.
UnpublishNeedsServer(v, n) ==
    /\ pc[v][n] = "unpublishServer"
    /\ IF n \in servers THEN Continue(v, n, "detachGet") ELSE Finish(v, n, "none")
    /\ UNCHANGED iaas

UnpublishGetServer(v, n) ==
    /\ pc[v][n] = "unpublishServer"
    /\ IF n \in servers THEN Continue(v, n, "detachGet") ELSE Finish(v, n, "unpublished")
    /\ UNCHANGED iaas

\* Mutant: a volume that is being attached counts as detached.
DetachGetWithoutStatus(v, n) ==
    /\ pc[v][n] = "detachGet"
    /\ IF status[v] = "NONE" THEN Finish(v, n, "unpublished")
       ELSE Continue(v, n, IF server[v] = n THEN "detach" ELSE "waitDetached")
    /\ UNCHANGED iaas

\* DetachVolume reads the volume: nothing to do for an available one and for one that
\* is attached to another server.
DetachGetVolume(v, n) ==
    /\ pc[v][n] = "detachGet"
    /\ CASE status[v] = "NONE" -> Finish(v, n, "unpublished")
         [] status[v] = "AVAILABLE" -> Continue(v, n, "waitDetached")
         [] status[v] \in {"ATTACHING", "DETACHING"} -> Finish(v, n, "none")
         [] status[v] = "ATTACHED" ->
              Continue(v, n, IF server[v] = n THEN "detach" ELSE "waitDetached")
    /\ UNCHANGED iaas

\* Mutant: the volume is detached from whatever server it is on.
RemoveVolumeFromAnyServer(v, n) ==
    /\ pc[v][n] = "detach"
    /\ IF status[v] = "ATTACHED"
       THEN /\ status' = [status EXCEPT ![v] = "DETACHING"]
            /\ target' = [target EXCEPT ![v] = n]
            /\ UNCHANGED <<server, servers>>
            /\ \/ Continue(v, n, "waitDetached")
               \/ Disturb /\ Answer(v, n, "none")
       ELSE /\ Finish(v, n, IF server[v] = n THEN "none" ELSE "unpublished")
            /\ UNCHANGED iaas

\* RemoveVolumeFromServer names volume and server.  When the volume is no longer
\* attached there the API answers not found, which counts as success.
RemoveVolumeFromServer(v, n) ==
    /\ pc[v][n] = "detach"
    /\ IF status[v] = "ATTACHED" /\ server[v] = n
       THEN /\ status' = [status EXCEPT ![v] = "DETACHING"]
            /\ target' = [target EXCEPT ![v] = n]
            /\ UNCHANGED <<server, servers>>
            /\ \/ Continue(v, n, "waitDetached")
               \/ Disturb /\ Answer(v, n, "none")
       ELSE /\ Finish(v, n, IF server[v] = n THEN "none" ELSE "unpublished")
            /\ UNCHANGED iaas

WaitDiskDetached(v, n) ==
    /\ pc[v][n] = "waitDetached"
    /\ \/ (status[v] = "NONE" \/ server[v] # n) /\ Finish(v, n, "unpublished")
       \/ status[v] # "NONE" /\ server[v] = n /\ Finish(v, n, "none")
    /\ UNCHANGED iaas

-----------------------------------------------------------------------------
\* DeleteVolume, called for a volume that no VolumeAttachment names.

StartDelete(v) ==
    /\ deleter[v] = "idle"
    /\ \A n \in Nodes : ~want[v][n] /\ result[v][n] = "unpublished"
    /\ deleter' = [deleter EXCEPT ![v] = "check"]
    /\ UNCHANGED <<iaas, want, result, pc, seen, budget>>

\* diskIsUsed: a volume with a server is not deleted, one that is gone is done.
DeleteCheck(v) ==
    /\ deleter[v] = "check"
    /\ deleter' = [deleter EXCEPT ![v] =
          CASE status[v] = "NONE" -> "deleted"
            [] status[v] # "NONE" /\ server[v] # None -> "idle"
            [] OTHER -> "delete"]
    /\ UNCHANGED <<iaas, want, result, pc, seen, budget>>

DeleteVolume(v) ==
    /\ deleter[v] = "delete"
    /\ IF status[v] = "AVAILABLE"
       THEN /\ status' = [status EXCEPT ![v] = "NONE"]
            /\ \/ deleter' = [deleter EXCEPT ![v] = "deleted"] /\ UNCHANGED budget
               \/ deleter' = [deleter EXCEPT ![v] = "idle"] /\ Disturb
       ELSE /\ deleter' = [deleter EXCEPT ![v] = IF status[v] = "NONE" THEN "deleted" ELSE "idle"]
            /\ UNCHANGED <<status, budget>>
    /\ UNCHANGED <<server, target, servers, want, result, pc, seen>>

-----------------------------------------------------------------------------
\* The API finishes what it began, servers disappear, and users change their minds.

AttachDone(v) ==
    /\ status[v] = "ATTACHING"
    /\ \/ /\ status' = [status EXCEPT ![v] = "ATTACHED"]
          /\ server' = [server EXCEPT ![v] = target[v]]
          /\ UNCHANGED budget
       \/ /\ Disturb
          /\ status' = [status EXCEPT ![v] = "AVAILABLE"]
          /\ UNCHANGED server
    /\ target' = [target EXCEPT ![v] = None]
    /\ UNCHANGED <<servers, want, result, pc, seen, deleter>>

DetachDone(v) ==
    /\ status[v] = "DETACHING"
    /\ status' = [status EXCEPT ![v] = "AVAILABLE"]
    /\ server' = [server EXCEPT ![v] = None]
    /\ target' = [target EXCEPT ![v] = None]
    /\ UNCHANGED <<servers, want, result, pc, seen, deleter, budget>>

\* The server is deleted; what was attached to it, or on its way, is free again.
DeleteServer(n) ==
    /\ Disturb
    /\ n \in servers
    /\ servers' = servers \ {n}
    /\ status' = [v \in Volumes |->
          IF server[v] = n \/ target[v] = n THEN "AVAILABLE" ELSE status[v]]
    /\ server' = [v \in Volumes |-> IF server[v] = n THEN None ELSE server[v]]
    /\ target' = [v \in Volumes |-> IF target[v] = n THEN None ELSE target[v]]
    /\ UNCHANGED <<want, result, pc, seen, deleter>>

\* A VolumeAttachment is created, or marked for deletion; the attacher's finalizer
\* keeps it, and a new one for v and n from being created, until v is unpublished.
ChangeWant(v, n) ==
    /\ Disturb
    /\ want[v][n] \/ result[v][n] = "unpublished"
    /\ want' = [want EXCEPT ![v][n] = ~want[v][n]]
    /\ UNCHANGED <<iaas, result, pc, seen, deleter>>

-----------------------------------------------------------------------------

Publish(v, n) ==
    \/ PublishGetVolume(v, n) \/ PublishGetServer(v, n) \/ AttachGetVolume(v, n)
    \/ AddVolumeToServer(v, n) \/ WaitDiskAttached(v, n)

Unpublish(v, n) ==
    \/ UnpublishGetServer(v, n) \/ DetachGetVolume(v, n)
    \/ RemoveVolumeFromServer(v, n) \/ WaitDiskDetached(v, n)

Handler(v, n) ==
    \/ StartPublish(v, n) \/ Publish(v, n)
    \/ StartUnpublish(v, n) \/ Unpublish(v, n)
    \/ CallFails(v, n)

Delete(v) == StartDelete(v) \/ DeleteCheck(v) \/ DeleteVolume(v)

IaasStep(v) == AttachDone(v) \/ DetachDone(v)

Next ==
    \/ \E v \in Volumes, n \in Nodes : Handler(v, n) \/ ChangeWant(v, n)
    \/ \E v \in Volumes : Delete(v) \/ IaasStep(v)
    \/ \E n \in Nodes : DeleteServer(n)

Spec == Init /\ [][Next]_vars

\* Sidecars repeat what failed, handlers make their next call, the API finishes.
Fairness ==
    /\ \A v \in Volumes, n \in Nodes : WF_vars(Handler(v, n))
    /\ \A v \in Volumes : WF_vars(IaasStep(v))

FairSpec == Spec /\ Fairness

-----------------------------------------------------------------------------
\* Properties.

\* A volume that ControllerPublishVolume reported attached is attached there: no
\* request for another node, no deletion and no stale read takes it away while the
\* server exists and nobody asked to unpublish it.
PublishedIsAttached ==
    \A v \in Volumes, n \in Nodes :
       result[v][n] = "published" /\ n \in servers
          => status[v] = "ATTACHED" /\ server[v] = n

\* A volume that ControllerUnpublishVolume reported detached is neither attached to
\* that node nor on its way there, so another node, or its deletion, may have it:
\* also when an earlier attach was answered with a timeout and finished late.
UnpublishedIsDetached ==
    \A v \in Volumes, n \in Nodes :
       result[v][n] = "unpublished" => server[v] # n /\ target[v] # n

\* The other volumes of n leave no room for v.
Full(n, v) ==
    Cardinality({w \in Volumes \ {v} : server[w] = n \/ target[w] = n}) >= NodeCapacity

AloneWanting(v, n) ==
    /\ want[v][n] /\ n \in servers /\ status[v] # "NONE"
    /\ \A m \in Nodes \ {n} : ~want[v][m]

\* A node that lets go of a volume is rid of it in the end, also of one whose attachment
\* completed after the wait for it had timed out.
EventuallyDetached ==
    \A v \in Volumes, n \in Nodes : <>[](~want[v][n] => result[v][n] = "unpublished")

==============================================================================
