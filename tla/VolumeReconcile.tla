---------------------------- MODULE VolumeReconcile ----------------------------
(***************************************************************************)
(* The queries on volumes, ListVolumes and ControllerGetVolume of the CSI  *)
(* controller server (pkg/csi/blockstorage/controllerserver.go), over the  *)
(* volumes and handlers of VolumeAttach, and what they are for: the driver *)
(* advertises LIST_VOLUMES_PUBLISHED_NODES, so the attacher (external)     *)
(* lists the volumes from time to time and publishes again whatever its    *)
(* VolumeAttachments call attached and the listing does not.  Out of band, *)
(* an operator may detach a volume behind the driver's back.               *)
(***************************************************************************)
EXTENDS VolumeAttach

VARIABLES
    listing,   \* the listing the attacher is about to act on, or None
    panicked   \* the driver has crashed

reconcileVars == <<vars, listing, panicked>>

-----------------------------------------------------------------------------

\* Mutant: the entries do not say where volumes are published.
EntriesWithoutStatus(vs) == [v \in vs |-> None]

createVolumeEntries(vs) == [v \in vs |-> server[v]]

\* One call; max_entries is not passed on.
ListVolumes ==
    /\ listing = None
    /\ listing' = createVolumeEntries({v \in Volumes : status[v] # "NONE"})
    /\ UNCHANGED <<vars, panicked>>

\* The driver crashes and is restarted: no handler that was under way answers.
Crash ==
    /\ panicked' = TRUE
    /\ pc' = [v \in Volumes |-> [n \in Nodes |-> "idle"]]
    /\ seen' = [v \in Volumes |-> [n \in Nodes |-> Unseen]]
    /\ deleter' = [v \in Volumes |-> IF deleter[v] = "deleted" THEN "deleted" ELSE "idle"]
    /\ UNCHANGED <<iaas, want, result, listing>>

\* The server id is dereferenced whether there is one or not; nothing recovers.
ControllerGetVolume(v) ==
    /\ Disturb
    /\ status[v] # "NONE"
    /\ IF server[v] = None THEN Crash
       ELSE UNCHANGED <<iaas, want, result, pc, seen, deleter, listing, panicked>>

-----------------------------------------------------------------------------

Missing(v, n) ==
    /\ pc[v][n] = "idle" /\ want[v][n] /\ result[v][n] = "published"
    /\ v \in DOMAIN listing => listing[v] # n

\* VolumeAttachments that the listing contradicts are queued again.
ReconcileVA ==
    /\ listing # None
    /\ result' = [v \in Volumes |-> [n \in Nodes |-> IF Missing(v, n) THEN "none" ELSE result[v][n]]]
    /\ listing' = None
    /\ UNCHANGED <<iaas, want, pc, seen, deleter, budget, panicked>>

DetachOutOfBand(v) ==
    /\ Disturb
    /\ status[v] = "ATTACHED"
    /\ status' = [status EXCEPT ![v] = "DETACHING"]
    /\ target' = [target EXCEPT ![v] = server[v]]
    /\ UNCHANGED <<server, servers, want, result, pc, seen, deleter, listing, panicked>>

ReconcileInit == Init /\ listing = None /\ panicked = FALSE

ReconcileNext ==
    \/ Next /\ UNCHANGED <<listing, panicked>>
    \/ ListVolumes \/ ReconcileVA
    \/ \E v \in Volumes : DetachOutOfBand(v) \/ ControllerGetVolume(v)

ReconcileSpec ==
    /\ ReconcileInit /\ [][ReconcileNext]_reconcileVars
    /\ Fairness
    /\ WF_reconcileVars(ListVolumes) /\ WF_reconcileVars(ReconcileVA)

-----------------------------------------------------------------------------
\* Properties.

\* A node that alone asks for a volume has it in the end and keeps it, even if the volume
\* was detached behind the driver's back, the driver crashed, or ControllerPublishVolume
\* answered success for a volume that was just being detached: the listing shows it and
\* the volume is attached again.
Repaired ==
    \A v \in Volumes, n \in Nodes :
       <>[](AloneWanting(v, n)
              => \/ status[v] = "ATTACHED" /\ server[v] = n /\ result[v][n] = "published"
                 \/ Full(n, v))

\* The driver itself detaches a volume only from a node that no longer wants it, whatever
\* the operator did, the listing said or the driver forgot in a crash.
DetachesOnlyUnwanted ==
    [][\A v \in Volumes :
         status[v] = "ATTACHED" /\ status'[v] = "DETACHING" /\ ~DetachOutOfBand(v)
            => ~want[v][server[v]]]_reconcileVars

\* ControllerGetVolume answers for every volume, as the capability GET_VOLUME promises.
GetVolumeAnswers == ~panicked

==============================================================================
