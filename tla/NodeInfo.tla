------------------------------- MODULE NodeInfo -------------------------------
(***************************************************************************)
(* What a node tells Kubernetes of itself: NodeGetInfo of                  *)
(* pkg/csi/blockstorage/nodeserver.go, which asks for the metadata of the  *)
(* instance (Metadata), counts with pkg/csi/util/mount/mount_helper.go how *)
(* many volumes the node can take, and asks for the metadata again.        *)
(*                                                                         *)
(* The answer adds three counts taken one after the other, free PCIe slots *)
(* and the directories of file system and of block volumes, while volumes  *)
(* are attached, staged, unstaged and detached.  External are the kernel,  *)
(* which shows a volume in a slot, and kubelet, which makes the directory  *)
(* of a volume before it stages it and removes it after unstaging.         *)
(***************************************************************************)
EXTENDS Metadata, Integers

CONSTANTS
    Volumes,
    Kind,     \* Kind[v]: "filesystem", "block" or "foreign" (block, but of another driver or
              \* with metadata that cannot be read)
    Slots     \* root ports of the node

ASSUME NodeInfoAssumption ==
    /\ Slots \in Nat
    /\ IsFiniteSet(Volumes)
    /\ Kind \in [Volumes -> {"filesystem", "block", "foreign"}]

VARIABLES
    place,    \* place[v]: "away", "attached" (in a slot) or "staged" (with a directory, too)
    stage,    \* stage[r]: how far NodeGetInfo has come
    counted,  \* counted[r]: what it has counted so far
    moved,    \* moved[r]: volumes that moved since it began to count
    lost      \* lost[r]: a count failed and was taken for zero

counts == <<counted, moved, lost>>
infoVars == <<vars, place, stage, counts>>

Stages == {"id", "slots", "filesystem", "block", "zone"}

InfoTypeOK ==
    /\ TypeOK
    /\ place \in [Volumes -> {"away", "attached", "staged"}]
    /\ stage \in [Requests -> Stages]
    /\ counted \in [Requests -> Nat]
    /\ moved \in [Requests -> Nat]
    /\ lost \in [Requests -> BOOLEAN]

Occupied == {v \in Volumes : place[v] # "away"}
Free == Slots - Cardinality(Occupied)
Staged(kind) == {v \in Volumes : place[v] = "staged" /\ Kind[v] = kind}

InfoInit ==
    /\ Init
    /\ place \in [Volumes -> {"away", "staged"}]
    /\ Free >= 0
    /\ stage = [r \in Requests |-> "id"]
    /\ counted = [r \in Requests |-> 0]
    /\ moved = [r \in Requests |-> 0]
    /\ lost = [r \in Requests |-> FALSE]

-----------------------------------------------------------------------------

\* GetInstanceID and, after the counts, GetAvailabilityZone: each runs Get to its end.  An
\* error ends NodeGetInfo, and kubelet asks again.
AskMetadata(r) ==
    /\ stage[r] \in {"id", "zone"}
    /\ Request(r)
    /\ LET returns == pc[r] # "idle" /\ pc'[r] = "idle"
           known == answer'[r] = "known"
       IN  /\ stage' = [stage EXCEPT ![r] =
                          CASE ~returns -> @
                            [] returns /\ known /\ @ = "id" -> "slots"
                            [] OTHER -> "id"]
           /\ IF returns
              THEN /\ counted' = [counted EXCEPT ![r] = 0]
                   /\ moved' = [moved EXCEPT ![r] = 0]
                   /\ lost' = [lost EXCEPT ![r] = FALSE]
              ELSE UNCHANGED counts
    /\ UNCHANGED place

Count(r, step, n, next) ==
    /\ stage[r] = step
    /\ counted' = [counted EXCEPT ![r] = @ + n]
    /\ stage' = [stage EXCEPT ![r] = next]
    /\ UNCHANGED <<vars, place, moved, lost>>

\* Bridges without a child.
countFreePCIeSlotsAt(r) == Count(r, "slots", Free, "filesystem")

\* An error is logged and counts as zero.
CountFreeFails(r) ==
    /\ stage[r] = "slots"
    /\ disturbances > 0 /\ disturbances' = disturbances - 1
    /\ stage' = [stage EXCEPT ![r] = "filesystem"]
    /\ lost' = [lost EXCEPT ![r] = TRUE]
    /\ UNCHANGED <<cache, host, pc, locals, answer, overlapped, place, counted, moved>>

countLocalCSIFilesystemVolumesAt(r) ==
    Count(r, "filesystem", Cardinality(Staged("filesystem")), "block")

\* Mutant: volumes of every driver count.
CountAllBlockVolumes(r) ==
    Count(r, "block", Cardinality(Staged("block") \cup Staged("foreign")), "zone")

\* Those whose metadata can be read and names this driver.
countLocalCSIBlockVolumesAt(r) == Count(r, "block", Cardinality(Staged("block")), "zone")

-----------------------------------------------------------------------------

Move(v) ==
    /\ disturbances > 0 /\ disturbances' = disturbances - 1
    /\ \/ place[v] = "away" /\ Free > 0 /\ place' = [place EXCEPT ![v] = "attached"]
       \/ place[v] = "attached" /\ place' \in {[place EXCEPT ![v] = p] : p \in {"away", "staged"}}
       \/ place[v] = "staged" /\ place' = [place EXCEPT ![v] = "attached"]
    /\ moved' = [r \in Requests |-> IF stage[r] = "id" THEN 0 ELSE moved[r] + 1]
    /\ UNCHANGED <<cache, host, pc, locals, answer, overlapped, stage, counted, lost>>

\* The sources of the metadata change, or the container is restarted.
MetadataDisturbed ==
    /\ \/ SourcesChange /\ UNCHANGED <<stage, counts>>
       \/ /\ Restart
          /\ stage' = [r \in Requests |-> "id"]
          /\ counted' = [r \in Requests |-> 0]
          /\ moved' = [r \in Requests |-> 0]
          /\ lost' = [r \in Requests |-> FALSE]
    /\ UNCHANGED place

NodeGetInfo(r) ==
    \/ AskMetadata(r)
    \/ countFreePCIeSlotsAt(r) \/ CountFreeFails(r)
    \/ countLocalCSIFilesystemVolumesAt(r) \/ countLocalCSIBlockVolumesAt(r)

InfoNext ==
    \/ \E r \in Requests : NodeGetInfo(r)
    \/ \E v \in Volumes : Move(v)
    \/ MetadataDisturbed

\* Handlers take their next step, and kubelet asks again.
InfoSpec == InfoInit /\ [][InfoNext]_infoVars /\ \A r \in Requests : WF_infoVars(NodeGetInfo(r))

-----------------------------------------------------------------------------
\* Properties.

Own == {v \in Volumes : Kind[v] \in {"filesystem", "block"}}

\* What the node can take: the slots that no other device occupies.
Capacity == Slots - Cardinality(Occupied \ Own)

InTransit == {v \in Own : place[v] = "attached"}

\* When every count succeeded the answer is wrong by no more than the volumes that moved
\* while it was counted and those that are attached and not staged: the slots of other
\* drivers are not offered, and a volume is not counted twice unless it moves.
CountIsHonest ==
    \A r \in Requests :
       stage[r] = "zone" /\ ~lost[r] =>
          /\ counted[r] <= Capacity + moved[r]
          /\ counted[r] >= Capacity - Cardinality(InTransit) - moved[r]

\* A NodeGetInfo that has learned the id of the instance answers: the zone is known as
\* well, though every source may be gone by then and other requests fail meanwhile.
ZoneFollowsId ==
    [][\A r \in Requests :
         stage[r] = "zone" /\ stage'[r] = "id" => answer'[r] = "known" \/ Restart]_infoVars

==============================================================================
