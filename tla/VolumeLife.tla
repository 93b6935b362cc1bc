------------------------------ MODULE VolumeLife ------------------------------
(***************************************************************************)
(* Controller and nodes together: VolumeAttach, and on every node the      *)
(* volume being used and released as NodeServer does it.  Between them     *)
(* stand kubelet and the attach/detach controller (external): a volume is  *)
(* staged when its VolumeAttachment says attached, and the VolumeAttachment *)
(* is deleted when the node no longer lists the volume as in use.          *)
(*                                                                         *)
(* A node here takes one step for what NodeServer does in many; that every *)
(* such step of NodeServer is one of ExclusiveVolume is checked there.     *)
(***************************************************************************)
EXTENDS VolumeAttach

VARIABLES
    inUse,     \* inUse[v]: the nodes that have v mounted
    written    \* written[v]: data has been written to v

lifeVars == <<vars, inUse, written>>

LifeTypeOK ==
    /\ TypeOK
    /\ inUse \in [Volumes -> SUBSET Nodes]
    /\ written \in [Volumes -> BOOLEAN]

LifeInit ==
    /\ Init
    /\ inUse = [v \in Volumes |-> {}]
    /\ written = [v \in Volumes |-> FALSE]

-----------------------------------------------------------------------------

\* NodeStageVolume and NodePublishVolume for the pods of a node.
NodeUse(v, n) ==
    /\ want[v][n] /\ result[v][n] = "published"
    /\ n \in servers \ inUse[v]
    /\ inUse' = [inUse EXCEPT ![v] = @ \cup {n}]
    /\ UNCHANGED <<vars, written>>

NodeWrite(v, n) ==
    /\ n \in inUse[v] /\ ~written[v]
    /\ written' = [written EXCEPT ![v] = TRUE]
    /\ UNCHANGED <<vars, inUse>>

\* NodeUnpublishVolume and NodeUnstageVolume, or a reboot.
NodeRelease(v, n) ==
    /\ n \in inUse[v]
    /\ inUse' = [inUse EXCEPT ![v] = @ \ {n}]
    /\ UNCHANGED <<vars, written>>

\* A VolumeAttachment is deleted only when the node does not use the volume.
AttachmentChanges(v, n) ==
    /\ ChangeWant(v, n)
    /\ n \notin inUse[v]
    /\ UNCHANGED <<inUse, written>>

\* With a server go its mounts.
ServerGoes(n) ==
    /\ DeleteServer(n)
    /\ inUse' = [v \in Volumes |-> inUse[v] \ {n}]
    /\ UNCHANGED written

LifeNext ==
    \/ \E v \in Volumes, n \in Nodes :
          \/ NodeUse(v, n) \/ NodeWrite(v, n) \/ NodeRelease(v, n) \/ AttachmentChanges(v, n)
          \/ Handler(v, n) /\ UNCHANGED <<inUse, written>>
    \/ \E v \in Volumes : (Delete(v) \/ IaasStep(v)) /\ UNCHANGED <<inUse, written>>
    \/ \E n \in Nodes : ServerGoes(n)

LifeSpec == LifeInit /\ [][LifeNext]_lifeVars

-----------------------------------------------------------------------------
\* Properties.

Exclusive(v) == INSTANCE ExclusiveVolume WITH
    Servers <- Nodes, Nobody <- None,
    holder <- server[v], users <- inUse[v], written <- written[v],
    deleted <- (status[v] = "NONE")

\* Every volume behaves like an ExclusiveVolume: it moves from server to server only
\* unused, unless the server is deleted, and is deleted only when it is on none.
EveryVolumeExclusive ==
    /\ \A v \in Volumes : Exclusive(v)!Init
    /\ [][\A v \in Volumes : [Exclusive(v)!Next]_(Exclusive(v)!vars)]_lifeVars

==============================================================================
