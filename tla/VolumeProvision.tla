--------------------------- MODULE VolumeProvision ---------------------------
(***************************************************************************)
(* Creating, expanding and deleting volumes: CreateVolume,                 *)
(* ControllerExpandVolume and DeleteVolume of the CSI controller server    *)
(* (pkg/csi/blockstorage/controllerserver.go) over the volume calls of     *)
(* pkg/stackit/client/iaas.go.                                             *)
(*                                                                         *)
(* The driver keeps no state: a volume is found again by its name, so all  *)
(* that makes a repeated CreateVolume safe is the listing it begins with.  *)
(* Every IaaS call is a step.  The sidecars are external: the provisioner  *)
(* repeats CreateVolume for a claim until it succeeds and DeleteVolume once *)
(* the claim is released, the resizer repeats ControllerExpandVolume, each *)
(* one request per claim at a time, the two side by side.  So is the IaaS  *)
(* API: volumes are created and resized through an intermediate status and *)
(* get their new size when the resize ends, and a volume never shrinks.    *)
(***************************************************************************)
EXTENDS Integers, FiniteSets

CONSTANTS
    Claims,            \* a claim's name is the name of its volume
    Sources,           \* snapshots, backups and volumes that claims are filled from
    SourceInfo,        \* SourceInfo[s]: kind and zone of s
    None,
    Unit,              \* bytes per GiB
    Requests,          \* what a claim asks for: [bytes, zone, from]
    Expansions,        \* what an expansion asks for: [bytes, limit], limit 0: none
    MaxVolumes,        \* the project's volume quota
    MaxDisturbances,   \* bound on failures, lost answers, user and attacher changes
    LateDelivery       \* TRUE: a create call that timed out may still take effect

ASSUME ProvisionAssumption ==
    /\ None \notin Sources
    /\ None \notin Nat
    /\ Unit \in Nat \ {0}
    /\ \A r \in Requests : r.bytes \in Nat /\ r.from \in Sources \cup {None}
    /\ \A e \in Expansions : e.bytes \in Nat /\ e.limit \in Nat
    /\ MaxVolumes \in Nat /\ MaxDisturbances \in Nat
    /\ LateDelivery \in BOOLEAN
    /\ \A s \in Sources : SourceInfo[s].kind \in {"snapshot", "backup", "volume"}

VARIABLES
    vols,         \* vols[i]: the i-th volume ever created
    sourceState,  \* state of the snapshots, backups and source volumes
    late,         \* late[c]: a timed-out create call that may still take effect, by kind of
                  \* source; "no" if there was none yet, "done" when it has arrived
    request,      \* request[c]: what claim c asks for
    phase,        \* phase[c]: where the claim stands
    handle,       \* handle[c]: the volume the provisioner was told, or None
    answered,     \* answered[c]: every volume CreateVolume answered for c
    capacity,     \* capacity[c]: the capacity the sidecars were told
    ask,          \* ask[c]: expansion asked for and not answered, or None
    pc,           \* pc[c]: next call of CreateVolume or DeleteVolume for c
    job,          \* job[c]: what that handler holds: source kind, created volume
    xpc,          \* xpc[c]: next call of ControllerExpandVolume for c
    xjob,         \* xjob[c]: the expansion it works on
    budget        \* disturbances left

iaas     == <<vols, sourceState, late>>
claims   == <<request, phase, handle, answered, capacity, ask>>
creator  == <<pc, job>>
expander == <<xpc, xjob>>
vars     == <<iaas, claims, creator, expander, budget>>

Ids == 1 .. MaxVolumes

Settled  == {"AVAILABLE", "ATTACHED"}
Statuses == Settled \cup {"UNUSED", "CREATING", "RESIZING", "ERROR", "ERROR_RESIZING", "GONE"}
Kinds    == {"none", "snapshot", "backup", "volume"}
Zones    == {r.zone : r \in Requests}
Origins  == [kind : Kinds, id : Sources \cup {None}]
FromNothing == [kind |-> "none", id |-> None]

Volume == [name : Claims \cup {None}, size : Nat, newSize : Nat, zone : Zones \cup {None},
           origin : Origins, status : Statuses, attached : BOOLEAN]
Unused == [name |-> None, size |-> 0, newSize |-> 0, zone |-> None,
           origin |-> FromNothing, status |-> "UNUSED", attached |-> FALSE]
NoJob  == [kind |-> "none", id |-> 0]

CreateCalls == {"list", "snapshot", "backup", "sourceVolume", "create", "waitCreated"}
DeleteCalls == {"deleteCheck", "delete"}
ExpandCalls == {"get", "resize", "waitResized"}

TypeOK ==
    /\ vols \in [Ids -> Volume]
    /\ sourceState \in [Sources -> {"CREATING", "AVAILABLE", "GONE"}]
    /\ late \in [Claims -> Kinds \cup {"no", "done"}]
    /\ request \in [Claims -> Requests]
    /\ phase \in [Claims -> {"wanted", "bound", "released", "deleted"}]
    /\ handle \in [Claims -> Ids \cup {None}]
    /\ answered \in [Claims -> SUBSET Ids]
    /\ capacity \in [Claims -> Nat]
    /\ ask \in [Claims -> Expansions \cup {None}]
    /\ pc \in [Claims -> CreateCalls \cup DeleteCalls \cup {"idle"}]
    /\ job \in [Claims -> [kind : Kinds, id : Ids \cup {0}]]
    /\ xpc \in [Claims -> ExpandCalls \cup {"idle"}]
    /\ xjob \in [Claims -> Expansions \cup {None}]
    /\ budget \in 0 .. MaxDisturbances

Init ==
    /\ vols = [i \in Ids |-> Unused]
    /\ sourceState \in [Sources -> {"CREATING", "AVAILABLE"}]
    /\ late = [c \in Claims |-> "no"]
    /\ request \in [Claims -> Requests]
    /\ phase = [c \in Claims |-> "wanted"]
    /\ handle = [c \in Claims |-> None]
    /\ answered = [c \in Claims |-> {}]
    /\ capacity = [c \in Claims |-> 0]
    /\ ask = [c \in Claims |-> None]
    /\ pc = [c \in Claims |-> "idle"]
    /\ job = [c \in Claims |-> NoJob]
    /\ xpc = [c \in Claims |-> "idle"]
    /\ xjob = [c \in Claims |-> None]
    /\ budget = MaxDisturbances

-----------------------------------------------------------------------------

\* Allocation units needed to hold `bytes`.
RoundUpSize(bytes) == bytes \div Unit + (IF bytes % Unit > 0 THEN 1 ELSE 0)

Exists(i) == vols[i].status \notin {"UNUSED", "GONE"}

Found(s, kind) == SourceInfo[s].kind = kind /\ sourceState[s] # "GONE"

Disturb == budget > 0 /\ budget' = budget - 1

\* CreateVolume or DeleteVolume for c makes `next` its next call, holding j.
Continue(c, next, j) ==
    /\ pc' = [pc EXCEPT ![c] = next]
    /\ job' = [job EXCEPT ![c] = j]
    /\ UNCHANGED <<claims, expander>>

\* It answers an error, or its answer is lost; the provisioner asks again.
Fail(c) == Continue(c, "idle", NoJob)

\* A call fails without effect, or the request times out.
CallFails(c) ==
    /\ pc[c] # "idle"
    /\ Disturb
    /\ Fail(c)
    /\ UNCHANGED iaas

ExpandFails(c) ==
    /\ xpc' = [xpc EXCEPT ![c] = "idle"]
    /\ xjob' = [xjob EXCEPT ![c] = None]
    /\ UNCHANGED <<claims, creator>>

ExpandCallFails(c) ==
    /\ xpc[c] # "idle"
    /\ Disturb
    /\ ExpandFails(c)
    /\ UNCHANGED iaas

-----------------------------------------------------------------------------
\* CreateVolume.

StartCreate(c) ==
    /\ pc[c] = "idle" /\ phase[c] = "wanted"
    /\ Continue(c, "list", NoJob)
    /\ UNCHANGED <<iaas, budget>>

\* GetVolumesByName: FilterVolumes over all volumes of the project.
Named(c) == {i \in Ids : Exists(i) /\ vols[i].name = c}

\* The driver answers with volume i; the provisioner binds the claim unless the
\* answer is lost on the way.
Provisioned(c, i) ==
    /\ answered' = [answered EXCEPT ![c] = @ \cup {i}]
    /\ pc' = [pc EXCEPT ![c] = "idle"]
    /\ job' = [job EXCEPT ![c] = NoJob]
    /\ \/ /\ handle' = [handle EXCEPT ![c] = i]
          /\ capacity' = [capacity EXCEPT ![c] = vols[i].size * Unit]
          /\ phase' = [phase EXCEPT ![c] = "bound"]
          /\ UNCHANGED budget
       \/ Disturb /\ UNCHANGED <<handle, capacity, phase>>
    /\ UNCHANGED <<request, ask, expander>>

\* Mutant: volumes that are not available yet do not count.
GetAvailableByName(c) ==
    /\ pc[c] = "list"
    /\ IF \A i \in Named(c) : vols[i].status # "AVAILABLE"
       THEN Continue(c, IF request[c].from = None THEN "create" ELSE "snapshot", NoJob)
            /\ UNCHANGED budget
       ELSE \E i \in Named(c) : vols[i].status = "AVAILABLE" /\ Provisioned(c, i)
    /\ UNCHANGED iaas

\* The source of the claim decides what is read before the volume is created.
FirstRead(from) ==
    CASE from = None -> "create"
      [] from # None /\ SourceInfo[from].kind = "volume" -> "sourceVolume"
      [] OTHER -> "snapshot"

\* Mutant: a volume that exists is an error.
GetVolumesByNameStrict(c) ==
    /\ pc[c] = "list"
    /\ IF Named(c) = {} THEN Continue(c, FirstRead(request[c].from), NoJob) ELSE Fail(c)
    /\ UNCHANGED <<iaas, budget>>

GetVolumesByName(c) ==
    /\ pc[c] = "list"
    /\ \/ /\ Named(c) = {}
          /\ Continue(c, FirstRead(request[c].from), NoJob)
          /\ UNCHANGED budget
       \/ \E i \in Ids :
             /\ Named(c) = {i}
             /\ IF vols[i].size = RoundUpSize(request[c].bytes) /\ vols[i].status = "AVAILABLE"
                THEN Provisioned(c, i)
                ELSE Fail(c) /\ UNCHANGED budget
       \/ /\ Cardinality(Named(c)) > 1
          /\ Fail(c) /\ UNCHANGED budget
    /\ UNCHANGED iaas

\* Mutant: a snapshot is used in whatever zone it is.
GetSnapshotAnyZone(c) ==
    /\ pc[c] = "snapshot"
    /\ LET s == request[c].from IN
       CASE ~Found(s, "snapshot") -> Continue(c, "backup", NoJob)
         [] Found(s, "snapshot") /\ sourceState[s] # "AVAILABLE" -> Fail(c)
         [] OTHER -> Continue(c, "create", [kind |-> "snapshot", id |-> 0])
    /\ UNCHANGED <<iaas, budget>>

\* A source that is no snapshot may be a backup.
GetSnapshot(c) ==
    /\ pc[c] = "snapshot"
    /\ LET s == request[c].from IN
       CASE ~Found(s, "snapshot") -> Continue(c, "backup", NoJob)
         [] /\ Found(s, "snapshot")
            /\ sourceState[s] = "AVAILABLE" /\ SourceInfo[s].zone = request[c].zone ->
              Continue(c, "create", [kind |-> "snapshot", id |-> 0])
         [] OTHER -> Fail(c)
    /\ UNCHANGED <<iaas, budget>>

\* Backups are restored into any zone.
GetBackup(c) ==
    /\ pc[c] = "backup"
    /\ LET s == request[c].from IN
       IF Found(s, "backup") /\ sourceState[s] = "AVAILABLE"
       THEN Continue(c, "create", [kind |-> "backup", id |-> 0])
       ELSE Fail(c)
    /\ UNCHANGED <<iaas, budget>>

\* A volume is cloned within its zone; its status is not looked at.
GetSourceVolume(c) ==
    /\ pc[c] = "sourceVolume"
    /\ LET s == request[c].from IN
       IF Found(s, "volume") /\ SourceInfo[s].zone = request[c].zone
       THEN Continue(c, "create", [kind |-> "volume", id |-> 0])
       ELSE Fail(c)
    /\ UNCHANGED <<iaas, budget>>

\* The API creates the volume c asks for as the i-th; it refuses when the quota is
\* used up, the size is zero or the source is not there.
ApiCreate(c, kind, i) ==
    /\ vols[i].status = "UNUSED"
    /\ \A j \in Ids : vols[j].status = "UNUSED" => i <= j
    /\ RoundUpSize(request[c].bytes) > 0
    /\ kind # "none" => Found(request[c].from, kind) /\ sourceState[request[c].from] = "AVAILABLE"
    /\ vols' = [vols EXCEPT ![i] =
          [name |-> c, size |-> RoundUpSize(request[c].bytes), newSize |-> 0,
           zone |-> request[c].zone,
           origin |-> [kind |-> kind, id |-> IF kind = "none" THEN None ELSE request[c].from],
           status |-> "CREATING", attached |-> FALSE]]

ApiRefusesCreate(c, kind) ==
    \/ \A i \in Ids : vols[i].status # "UNUSED"
    \/ RoundUpSize(request[c].bytes) = 0
    \/ /\ kind # "none"
       /\ ~Found(request[c].from, kind) \/ sourceState[request[c].from] # "AVAILABLE"

\* The create call: it succeeds, it succeeds and the answer is lost, it is refused,
\* or it times out and takes effect later.
CreateVolume(c) ==
    /\ pc[c] = "create"
    /\ \/ \E i \in Ids :
             /\ ApiCreate(c, job[c].kind, i)
             /\ \/ Continue(c, "waitCreated", [kind |-> job[c].kind, id |-> i]) /\ UNCHANGED budget
                \/ Fail(c) /\ Disturb
          /\ UNCHANGED late
       \/ /\ ApiRefusesCreate(c, job[c].kind)
          /\ Fail(c)
          /\ UNCHANGED <<vols, late, budget>>
       \/ /\ LateDelivery /\ late[c] \notin Kinds
          /\ Disturb
          /\ late' = [late EXCEPT ![c] = job[c].kind]
          /\ Fail(c)
          /\ UNCHANGED vols
    /\ UNCHANGED sourceState

\* WaitVolumeTargetStatusWithCustomBackoff: available, or an error state, or out of
\* time.
WaitCreated(c) ==
    /\ pc[c] = "waitCreated"
    /\ IF vols[job[c].id].status = "AVAILABLE"
       THEN Provisioned(c, job[c].id)
       ELSE Fail(c) /\ UNCHANGED budget
    /\ UNCHANGED iaas

-----------------------------------------------------------------------------
\* DeleteVolume, for a released claim.

StartDelete(c) ==
    /\ pc[c] = "idle" /\ phase[c] = "released"
    /\ Continue(c, "deleteCheck", NoJob)
    /\ UNCHANGED <<iaas, budget>>

\* The volume is gone; the provisioner hears of it.
Deleted(c) ==
    /\ phase' = [phase EXCEPT ![c] = "deleted"]
    /\ pc' = [pc EXCEPT ![c] = "idle"]
    /\ UNCHANGED <<request, handle, answered, capacity, ask, job, expander>>

\* Mutant: nobody looks whether the volume is attached.
DeleteUnchecked(c) ==
    /\ pc[c] = "deleteCheck"
    /\ IF Exists(handle[c]) THEN Continue(c, "delete", NoJob) ELSE Deleted(c)
    /\ UNCHANGED <<iaas, budget>>

\* diskIsUsed.
DeleteCheck(c) ==
    /\ pc[c] = "deleteCheck"
    /\ CASE ~Exists(handle[c]) -> Deleted(c)
         [] Exists(handle[c]) /\ vols[handle[c]].attached -> Fail(c)
         [] OTHER -> Continue(c, "delete", NoJob)
    /\ UNCHANGED <<iaas, budget>>

\* The API deletes a volume that it is not busy with, attached or not: that none is
\* attached is for the driver to see to.
DeleteVolume(c) ==
    /\ pc[c] = "delete"
    /\ IF vols[handle[c]].status \in Settled \cup {"ERROR", "ERROR_RESIZING"}
       THEN /\ vols' = [vols EXCEPT ![handle[c]] = [@ EXCEPT !.status = "GONE"]]
            /\ \/ Deleted(c) /\ UNCHANGED budget
               \/ Fail(c) /\ Disturb
       ELSE /\ IF Exists(handle[c]) THEN Fail(c) ELSE Deleted(c)
            /\ UNCHANGED <<vols, budget>>
    /\ UNCHANGED <<sourceState, late>>

-----------------------------------------------------------------------------
\* ControllerExpandVolume.

ExpandContinue(c, next) ==
    /\ xpc' = [xpc EXCEPT ![c] = next]
    /\ UNCHANGED <<claims, creator, xjob, budget>>

\* The limit is compared with the requested bytes.
ExceedsLimit(e) == e.limit > 0 /\ e.limit < e.bytes

StartExpand(c) ==
    /\ xpc[c] = "idle" /\ ask[c] # None /\ phase[c] = "bound"
    /\ ~ExceedsLimit(ask[c])
    /\ xpc' = [xpc EXCEPT ![c] = "get"]
    /\ xjob' = [xjob EXCEPT ![c] = ask[c]]
    /\ UNCHANGED <<iaas, claims, creator, budget>>

\* An answer of `bytes` to the expansion in hand.
Expanded(c, bytes) ==
    /\ \/ /\ capacity' = [capacity EXCEPT ![c] = bytes]
          /\ ask' = [ask EXCEPT ![c] = IF @ = xjob[c] THEN None ELSE @]
          /\ UNCHANGED budget
       \/ Disturb /\ UNCHANGED <<capacity, ask>>
    /\ xpc' = [xpc EXCEPT ![c] = "idle"]
    /\ xjob' = [xjob EXCEPT ![c] = None]
    /\ UNCHANGED <<request, phase, handle, answered, creator>>

\* A volume that is large enough is answered, one that is busy cannot be resized.
ExpandGetVolume(c) ==
    /\ xpc[c] = "get"
    /\ LET v == vols[handle[c]] IN
       CASE ~Exists(handle[c]) -> ExpandFails(c) /\ UNCHANGED budget
         [] Exists(handle[c]) /\ v.size >= RoundUpSize(xjob[c].bytes) ->
              Expanded(c, v.size * Unit)
         [] Exists(handle[c]) /\ v.size < RoundUpSize(xjob[c].bytes) /\ v.status \in Settled ->
              ExpandContinue(c, "resize")
         [] OTHER -> ExpandFails(c) /\ UNCHANGED budget
    /\ UNCHANGED iaas

\* ResizeVolume.  The API refuses a volume that is busy by now, and to shrink one.
ResizeVolume(c) ==
    /\ xpc[c] = "resize"
    /\ LET v == vols[handle[c]]
           size == RoundUpSize(xjob[c].bytes)
       IN IF v.status \in Settled /\ v.size < size
          THEN /\ vols' = [vols EXCEPT ![handle[c]] =
                              [@ EXCEPT !.status = "RESIZING", !.newSize = size]]
               /\ \/ ExpandContinue(c, "waitResized")
                  \/ ExpandFails(c) /\ Disturb
          ELSE ExpandFails(c) /\ UNCHANGED <<vols, budget>>
    /\ UNCHANGED <<sourceState, late>>

\* Mutant: the wait also ends while the volume is still being resized.
WaitResizing(c) ==
    /\ xpc[c] = "waitResized"
    /\ IF vols[handle[c]].status \in Settled \cup {"RESIZING"}
       THEN Expanded(c, xjob[c].bytes)
       ELSE ExpandFails(c) /\ UNCHANGED budget
    /\ UNCHANGED iaas

\* WaitVolumeTargetStatus; the answer is the number of bytes asked for.
WaitResized(c) ==
    /\ xpc[c] = "waitResized"
    /\ IF vols[handle[c]].status \in Settled
       THEN Expanded(c, xjob[c].bytes)
       ELSE ExpandFails(c) /\ UNCHANGED budget
    /\ UNCHANGED iaas

-----------------------------------------------------------------------------
\* The API, the users and the attacher.

SetStatus(i, s) == vols' = [vols EXCEPT ![i] = [@ EXCEPT !.status = s]]

CreateDone(i) ==
    /\ vols[i].status = "CREATING"
    /\ \/ SetStatus(i, "AVAILABLE") /\ UNCHANGED budget
       \/ SetStatus(i, "ERROR") /\ Disturb
    /\ UNCHANGED <<sourceState, late, claims, creator, expander>>

ResizeDone(i) ==
    /\ vols[i].status = "RESIZING"
    /\ \/ /\ vols' = [vols EXCEPT ![i] =
                [@ EXCEPT !.size = vols[i].newSize,
                          !.status = IF vols[i].attached THEN "ATTACHED" ELSE "AVAILABLE"]]
          /\ UNCHANGED budget
       \/ SetStatus(i, "ERROR_RESIZING") /\ Disturb
    /\ UNCHANGED <<sourceState, late, claims, creator, expander>>

\* A create call that timed out takes effect after all.
LateCreate(c) ==
    /\ late[c] \in Kinds
    /\ \/ \E i \in Ids : ApiCreate(c, late[c], i)
       \/ ApiRefusesCreate(c, late[c]) /\ UNCHANGED vols
    /\ late' = [late EXCEPT ![c] = "done"]
    /\ UNCHANGED <<sourceState, claims, creator, expander, budget>>

Attach(c) ==
    /\ Disturb
    /\ phase[c] = "bound" /\ vols[handle[c]].status = "AVAILABLE"
    /\ vols' = [vols EXCEPT ![handle[c]] = [@ EXCEPT !.status = "ATTACHED", !.attached = TRUE]]
    /\ UNCHANGED <<sourceState, late, claims, creator, expander>>

Detach(c) ==
    /\ handle[c] # None
    /\ vols[handle[c]].status \in {"ATTACHED", "ERROR_RESIZING"} /\ vols[handle[c]].attached
    /\ vols' = [vols EXCEPT ![handle[c]] =
          [@ EXCEPT !.attached = FALSE,
                    !.status = IF vols[handle[c]].status = "ATTACHED" THEN "AVAILABLE"
                               ELSE "ERROR_RESIZING"]]
    /\ UNCHANGED <<sourceState, late, claims, creator, expander, budget>>

SourceReady(s) ==
    /\ sourceState[s] = "CREATING"
    /\ sourceState' = [sourceState EXCEPT ![s] = "AVAILABLE"]
    /\ UNCHANGED <<vols, late, claims, creator, expander, budget>>

SourceDeleted(s) ==
    /\ Disturb
    /\ sourceState[s] = "AVAILABLE"
    /\ sourceState' = [sourceState EXCEPT ![s] = "GONE"]
    /\ UNCHANGED <<vols, late, claims, creator, expander>>

\* A user asks for a larger volume, or lets the claim go.
AskExpansion(c, e) ==
    /\ Disturb
    /\ phase[c] = "bound"
    /\ e.bytes > capacity[c]
    /\ ask[c] # None => e.bytes > ask[c].bytes
    /\ ask' = [ask EXCEPT ![c] = e]
    /\ UNCHANGED <<iaas, request, phase, handle, answered, capacity, creator, expander>>

Release(c) ==
    /\ Disturb
    /\ phase[c] = "bound"
    /\ phase' = [phase EXCEPT ![c] = "released"]
    /\ UNCHANGED <<iaas, request, handle, answered, capacity, ask, creator, expander>>

-----------------------------------------------------------------------------

Create(c) ==
    \/ StartCreate(c) \/ GetVolumesByName(c) \/ GetSnapshot(c) \/ GetBackup(c)
    \/ GetSourceVolume(c) \/ CreateVolume(c) \/ WaitCreated(c)

Delete(c) == StartDelete(c) \/ DeleteCheck(c) \/ DeleteVolume(c)

Expand(c) ==
    \/ StartExpand(c) \/ ExpandGetVolume(c) \/ ResizeVolume(c) \/ WaitResized(c)

User(c) ==
    \/ Release(c) \/ Attach(c) \/ \E e \in Expansions : AskExpansion(c, e)

Next ==
    \/ \E c \in Claims :
          \/ Create(c) \/ Delete(c) \/ Expand(c)
          \/ CallFails(c) \/ ExpandCallFails(c)
          \/ User(c) \/ Detach(c) \/ LateCreate(c)
    \/ \E i \in Ids : CreateDone(i) \/ ResizeDone(i)
    \/ \E s \in Sources : SourceReady(s) \/ SourceDeleted(s)

Spec == Init /\ [][Next]_vars

\* The sidecars repeat what failed and detach what is released, handlers make their
\* next call, the API finishes what it began.
Fairness ==
    /\ \A c \in Claims : /\ WF_vars(Create(c)) /\ WF_vars(Delete(c)) /\ WF_vars(Expand(c))
                         /\ WF_vars(Detach(c) /\ phase[c] = "released")
    /\ \A i \in Ids : WF_vars(CreateDone(i)) /\ WF_vars(ResizeDone(i))
    /\ \A s \in Sources : WF_vars(SourceReady(s))

FairSpec == Spec /\ Fairness

-----------------------------------------------------------------------------
\* Properties.

\* CreateVolume is idempotent by name: whatever was lost, timed out or delivered
\* late in between, two answers for a claim never name two volumes.
StableHandle == \A c \in Claims : Cardinality(answered[c]) <= 1

\* A bound claim's volume is its own, holds what the claim asked for, and holds what
\* ControllerExpandVolume answered, although the answer is a number of bytes that no
\* one compares with the volume.
CapacityReal ==
    \A c \in Claims : phase[c] = "bound" =>
       LET v == vols[handle[c]] IN
       /\ v.name = c /\ Exists(handle[c])
       /\ v.size * Unit >= capacity[c] /\ capacity[c] >= request[c].bytes
       /\ v.status # "CREATING" /\ v.status # "ERROR"

\* A volume that is filled from a snapshot or a volume lies in its zone, and is filled
\* with the call for the kind of source that the claim names: also when the source
\* changes between the checks and the create call.
RightSource ==
    \A i \in Ids : Exists(i) /\ vols[i].origin.kind # "none" =>
       LET s == vols[i].origin.id IN
       /\ s = request[vols[i].name].from
       /\ SourceInfo[s].kind = vols[i].origin.kind
       /\ SourceInfo[s].kind # "backup" => SourceInfo[s].zone = vols[i].zone

\* DeleteVolume takes no volume from a server, and none of another claim: a volume
\* disappears only after its claim was released, by its handle, and never while it is
\* attached, although a released volume may be attached still, the API would delete it, and
\* diskIsUsed looks one call before the volume is deleted.
DeletesOnlyReleased ==
    [][\A i \in Ids :
          vols[i].status # "GONE" /\ vols'[i].status = "GONE" =>
             /\ ~vols[i].attached
             /\ phase[vols[i].name] = "released" /\ handle[vols[i].name] = i]_vars

\* What keeps the API from creating the volume of c, or from leaving it usable; or a late
\* call has made a second volume of the name, which an operator has to remove.
CannotProvision(c) ==
    \/ late[c] = "done" /\ Cardinality(Named(c)) > 1
    \/ \E i \in Named(c) : vols[i].status = "ERROR"
    \/ Named(c) = {} /\ ApiRefusesCreate(c, IF request[c].from = None THEN "none"
                                            ELSE SourceInfo[request[c].from].kind)
    \/ /\ request[c].from # None
       /\ SourceInfo[request[c].from].kind # "backup"
       /\ SourceInfo[request[c].from].zone # request[c].zone

\* Every claim is bound in the end, unless the API cannot have its volume; what was
\* lost or timed out on the way is found again by name.
EventuallyProvisioned ==
    \A c \in Claims : <>[](phase[c] = "wanted" => CannotProvision(c))

\* Every expansion within its limit is answered in the end, unless resizing failed for
\* good.
EventuallyExpanded ==
    \A c \in Claims : <>[](phase[c] = "bound" =>
       \/ ask[c] = None \/ ExceedsLimit(ask[c])
       \/ vols[handle[c]].status = "ERROR_RESIZING")

\* The volume of a released claim is deleted in the end.
EventuallyDeleted == \A c \in Claims : <>[](phase[c] # "released")

\* CreateVolume, ControllerExpandVolume and DeleteVolume: repeating each of them after
\* whatever failure leads to an answer, for every claim, unless the API cannot.
ClaimsServed == EventuallyProvisioned /\ EventuallyExpanded /\ EventuallyDeleted

==============================================================================
