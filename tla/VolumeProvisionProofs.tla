------------------------- MODULE VolumeProvisionProofs -------------------------
(***************************************************************************)
(* Proofs about VolumeProvision, for any number of claims, sources and     *)
(* volumes, any unit and any requests: CreateVolume is idempotent by name, *)
(* capacities are real, sources are the right ones, and only the volume of *)
(* a released claim is deleted, and only when no server has it.            *)
(***************************************************************************)
EXTENDS VolumeProvision, FiniteSetTheorems, TLAPS

-----------------------------------------------------------------------------
\* Rounding.

\* Larger volumes have more bytes.
LEMMA UnitMonotonic ==
  ASSUME NEW a \in Nat, NEW b \in Nat, a <= b
  PROVE  a * Unit <= b * Unit
  BY ProvisionAssumption

\* RoundUpSize: so many units hold the bytes, and one fewer would not.
LEMMA RoundUpHolds ==
  ASSUME NEW b \in Nat
  PROVE  /\ RoundUpSize(b) \in Nat
         /\ RoundUpSize(b) * Unit >= b
         /\ RoundUpSize(b) > 0 => (RoundUpSize(b) - 1) * Unit < b
  <1> DEFINE q == b \div Unit
             r == b % Unit
  <1>1. q \in Nat /\ r \in Nat /\ r < Unit /\ b = Unit * q + r
    BY ProvisionAssumption
  <1>2. RoundUpSize(b) = IF r > 0 THEN q + 1 ELSE q
    BY <1>1 DEF RoundUpSize
  <1> HIDE DEF q, r
  <1>3. Unit \in Nat /\ Unit > 0
    BY ProvisionAssumption
  <1>4. (q + 1) * Unit = Unit * q + Unit /\ q * Unit = Unit * q
    BY <1>1, <1>3
  <1>5. (q - 1) * Unit = Unit * q - Unit
    BY <1>1, <1>3
  <1>6. CASE r > 0
    BY <1>1, <1>2, <1>3, <1>4, <1>6
  <1>7. CASE r = 0
    BY <1>1, <1>2, <1>3, <1>4, <1>5, <1>7
  <1> QED
    BY <1>1, <1>6, <1>7

-----------------------------------------------------------------------------
\* Types.

JobType     == [kind : Kinds, id : Ids \cup {0}]
CallType    == CreateCalls \cup DeleteCalls \cup {"idle"}
XCallType   == ExpandCalls \cup {"idle"}
PhaseType   == {"wanted", "bound", "released", "deleted"}
AskType     == Expansions \cup {None}

\* The parts of TypeOK that belong together.
IaasType ==
    /\ vols \in [Ids -> Volume]
    /\ sourceState \in [Sources -> {"CREATING", "AVAILABLE", "GONE"}]
    /\ late \in [Claims -> Kinds \cup {"no", "done"}]
ClaimsType ==
    /\ request \in [Claims -> Requests]
    /\ phase \in [Claims -> PhaseType]
    /\ handle \in [Claims -> Ids \cup {None}]
    /\ answered \in [Claims -> SUBSET Ids]
    /\ capacity \in [Claims -> Nat]
    /\ ask \in [Claims -> AskType]
CreatorType  == pc \in [Claims -> CallType] /\ job \in [Claims -> JobType]
ExpanderType == xpc \in [Claims -> XCallType] /\ xjob \in [Claims -> AskType]
BudgetType   == budget \in 0 .. MaxDisturbances

LEMMA TypeParts ==
  TypeOK <=> IaasType /\ ClaimsType /\ CreatorType /\ ExpanderType /\ BudgetType
  BY DEF TypeOK, IaasType, ClaimsType, CreatorType, ExpanderType, BudgetType,
         JobType, CallType, XCallType, PhaseType, AskType

LEMMA TypeValues ==
  /\ {"list", "snapshot", "backup", "sourceVolume", "create", "waitCreated"} \subseteq CallType
  /\ {"deleteCheck", "delete", "idle"} \subseteq CallType
  /\ {"get", "resize", "waitResized", "idle"} \subseteq XCallType
  /\ \A k \in Kinds : [kind |-> k, id |-> 0] \in JobType
  /\ \A k \in Kinds, i \in Ids : [kind |-> k, id |-> i] \in JobType
  /\ {"none", "snapshot", "backup", "volume"} = Kinds
  /\ NoJob \in JobType
  BY DEF CallType, XCallType, CreateCalls, DeleteCalls, ExpandCalls, JobType, Kinds, NoJob

LEMMA InitType == Init => TypeOK
  <1> SUFFICES ASSUME Init PROVE TypeOK
    OBVIOUS
  <1>1. Unused \in Volume
    BY DEF Unused, Volume, FromNothing, Origins, Kinds, Statuses
  <1>2. NoJob \in [kind : Kinds, id : Ids \cup {0}]
    BY DEF NoJob, Kinds
  <1>3. budget \in 0 .. MaxDisturbances
    BY ProvisionAssumption DEF Init
  <1> QED
    BY <1>1, <1>2, <1>3 DEF Init, TypeOK

\* The size asked for.
LEMMA RequestType ==
  ASSUME TypeOK, NEW c \in Claims
  PROVE  /\ request[c].bytes \in Nat /\ RoundUpSize(request[c].bytes) \in Nat
         /\ request[c].from \in Sources \cup {None} /\ request[c].zone \in Zones
  <1>1. request[c] \in Requests
    BY DEF TypeOK
  <1> QED
    BY <1>1, ProvisionAssumption, RoundUpHolds DEF Zones

LEMMA ExpansionType ==
  ASSUME NEW e \in Expansions
  PROVE  e.bytes \in Nat /\ RoundUpSize(e.bytes) \in Nat
  BY ProvisionAssumption, RoundUpHolds

\* New values for the fields of a volume.
LEMMA VolumeFields ==
  ASSUME NEW v \in Volume
  PROVE  /\ v.name \in Claims \cup {None} /\ v.size \in Nat /\ v.newSize \in Nat
         /\ v.status \in Statuses /\ v.attached \in BOOLEAN /\ v.origin \in Origins
         /\ v.zone \in Zones \cup {None}
         /\ \A s \in Statuses : [v EXCEPT !.status = s] \in Volume
         /\ \A s \in Statuses, n \in Nat :
               /\ [v EXCEPT !.status = s, !.newSize = n] \in Volume
               /\ [v EXCEPT !.size = n, !.status = s] \in Volume
         /\ \A s \in Statuses, b \in BOOLEAN :
               /\ [v EXCEPT !.status = s, !.attached = b] \in Volume
               /\ [v EXCEPT !.attached = b, !.status = s] \in Volume
  BY DEF Volume


-----------------------------------------------------------------------------
\* What a step does to a volume.

KeepsName(i) ==
    /\ vols'[i].name = vols[i].name /\ vols'[i].zone = vols[i].zone
    /\ vols'[i].origin = vols[i].origin
    /\ vols'[i].attached => vols[i].attached \/ \E d \in Claims : phase[d] = "bound" /\ handle[d] = i

\* The create call of a claim, in time or late.
Creates(c, kind, i) ==
    /\ (pc[c] = "create" /\ kind = job[c].kind) \/ (late[c] \in Kinds /\ kind = late[c])
    /\ vols[i].status = "UNUSED" /\ vols'[i].status = "CREATING" /\ ~vols'[i].attached
    /\ vols'[i].name = c /\ vols'[i].size = RoundUpSize(request[c].bytes)
    /\ vols'[i].zone = request[c].zone /\ vols'[i].origin.kind = kind
    /\ kind # "none" => vols'[i].origin.id = request[c].from /\ SourceInfo[request[c].from].kind = kind

\* The API finishes creating or resizing, and the attacher attaches and detaches.
Settles(i) ==
    /\ KeepsName(i)
    /\ \/ /\ vols[i].status = "CREATING" /\ vols'[i].status \in {"AVAILABLE", "ERROR"}
          /\ vols'[i].size = vols[i].size
       \/ /\ vols[i].status = "RESIZING" /\ vols'[i].status \in Settled
          /\ vols'[i].size = vols[i].newSize
       \/ /\ vols[i].status = "RESIZING" /\ vols'[i].status = "ERROR_RESIZING"
          /\ vols'[i].size = vols[i].size
       \/ /\ vols[i].status \in Settled /\ vols'[i].status \in Settled
          /\ vols'[i].size = vols[i].size
       \/ /\ vols[i].status = "ERROR_RESIZING" /\ vols'[i].status = "ERROR_RESIZING"
          /\ vols'[i].size = vols[i].size

Resizes(c, i) ==
    /\ KeepsName(i) /\ xpc[c] = "resize" /\ handle[c] = i
    /\ vols[i].status \in Settled /\ vols'[i].status = "RESIZING"
    /\ vols'[i].size = vols[i].size
    /\ vols'[i].newSize = RoundUpSize(xjob[c].bytes) /\ vols'[i].newSize > vols[i].size

Deletes(c, i) ==
    /\ KeepsName(i) /\ pc[c] = "delete" /\ handle[c] = i
    /\ vols[i].status \in Settled \cup {"ERROR", "ERROR_RESIZING"}
    /\ vols'[i].status = "GONE" /\ vols'[i].size = vols[i].size

Moves(i) ==
    \/ vols'[i] = vols[i]
    \/ \E c \in Claims, kind \in Kinds : Creates(c, kind, i)
    \/ Settles(i)
    \/ \E c \in Claims : Resizes(c, i) \/ Deletes(c, i)

LEMMA ApiCreateMoves ==
  ASSUME TypeOK, NEW c \in Claims, NEW kind \in Kinds, NEW i \in Ids, ApiCreate(c, kind, i),
         (pc[c] = "create" /\ kind = job[c].kind) \/ (late[c] \in Kinds /\ kind = late[c])
  PROVE  vols' \in [Ids -> Volume] /\ Creates(c, kind, i) /\ \A j \in Ids \ {i} : vols'[j] = vols[j]
  <1> DEFINE v == [name |-> c, size |-> RoundUpSize(request[c].bytes), newSize |-> 0,
                   zone |-> request[c].zone,
                   origin |-> [kind |-> kind, id |-> IF kind = "none" THEN None ELSE request[c].from],
                   status |-> "CREATING", attached |-> FALSE]
  <1>1. v \in Volume
    BY RequestType DEF Volume, Origins, Statuses
  <1>2. vols' = [vols EXCEPT ![i] = v]
    BY DEF ApiCreate
  <1>3. vols \in [Ids -> Volume]
    BY DEF TypeOK
  <1>4. vols' \in [Ids -> Volume] /\ vols'[i] = v /\ \A j \in Ids \ {i} : vols'[j] = vols[j]
    BY <1>1, <1>2, <1>3
  <1>5. vols[i].status = "UNUSED" /\ (kind # "none" => SourceInfo[request[c].from].kind = kind)
    BY DEF ApiCreate, Found
  <1> QED
    BY <1>4, <1>5 DEF Creates

\* One volume gets a new record.
LEMMA OneVolume ==
  ASSUME TypeOK, NEW i \in Ids, NEW w \in Volume, vols' = [vols EXCEPT ![i] = w]
  PROVE  vols' \in [Ids -> Volume] /\ vols'[i] = w /\ \A j \in Ids \ {i} : vols'[j] = vols[j]
  BY DEF TypeOK

LEMMA VolsStep ==
  ASSUME TypeOK, \A c \in Claims : phase[c] # "wanted" => handle[c] \in Ids,
         \A c \in Claims : xpc[c] # "idle" => phase[c] # "wanted" /\ xjob[c] \in Expansions,
         \A c \in Claims : pc[c] \in DeleteCalls => phase[c] # "wanted",
         [Next]_vars
  PROVE  vols' \in [Ids -> Volume] /\ \A i \in Ids : Moves(i)
  <1>t. /\ vols \in [Ids -> Volume]
        /\ \A i \in Ids : vols[i] \in Volume /\ vols[i].size \in Nat /\ vols[i].newSize \in Nat
    BY VolumeFields DEF TypeOK
  <1>s. {"AVAILABLE", "ATTACHED", "CREATING", "RESIZING", "ERROR", "ERROR_RESIZING", "GONE"} \subseteq Statuses
    BY DEF Statuses, Settled
  <1>u. ASSUME UNCHANGED vols PROVE vols' \in [Ids -> Volume] /\ \A i \in Ids : Moves(i)
    BY <1>u, <1>t DEF Moves
  <1>1. ASSUME NEW c \in Claims, Create(c)
        PROVE  vols' \in [Ids -> Volume] /\ \A i \in Ids : Moves(i)
    <2>1. CASE CreateVolume(c)
      <3>1. CASE vols' = vols
        BY <3>1, <1>u
      <3>2. ASSUME NEW i \in Ids, ApiCreate(c, job[c].kind, i)
            PROVE  vols' \in [Ids -> Volume] /\ \A j \in Ids : Moves(j)
        <4>1. job[c].kind \in Kinds /\ pc[c] = "create"
          BY <2>1 DEF TypeOK, CreateVolume
        <4> QED
          BY <3>2, <4>1, ApiCreateMoves DEF Moves
      <3> QED
        BY <2>1, <3>1, <3>2 DEF CreateVolume
    <2>2. CASE ~CreateVolume(c)
      <3>1. UNCHANGED vols
        BY <1>1, <2>2 DEF Create, StartCreate, GetVolumesByName, GetSnapshot, GetBackup,
                          GetSourceVolume, WaitCreated, iaas
      <3> QED
        BY <3>1, <1>u
    <2> QED
      BY <2>1, <2>2
  <1>2. ASSUME NEW c \in Claims, Delete(c)
        PROVE  vols' \in [Ids -> Volume] /\ \A i \in Ids : Moves(i)
    <2> DEFINE h == handle[c]
    <2>1. CASE UNCHANGED vols
      BY <2>1, <1>u
    <2>2. CASE ~UNCHANGED vols
      <3>1. /\ pc[c] = "delete" /\ vols[h].status \in Settled \cup {"ERROR", "ERROR_RESIZING"}
            /\ vols' = [vols EXCEPT ![h] = [@ EXCEPT !.status = "GONE"]]
        BY <1>2, <2>2 DEF Delete, StartDelete, DeleteCheck, DeleteVolume, iaas
      <3>2. h \in Ids
        BY <3>1 DEF DeleteCalls
      <3>3. [vols[h] EXCEPT !.status = "GONE"] \in Volume
        BY <3>2, <1>t, <1>s, VolumeFields
      <3>4. /\ vols' \in [Ids -> Volume] /\ vols'[h] = [vols[h] EXCEPT !.status = "GONE"]
            /\ \A j \in Ids \ {h} : vols'[j] = vols[j]
        BY <3>1, <3>2, <3>3, OneVolume
      <3>5. Deletes(c, h)
        BY <3>1, <3>2, <3>4, <1>t DEF Deletes, KeepsName, Volume
      <3> QED
        BY <3>4, <3>5 DEF Moves
    <2> QED
      BY <2>1, <2>2
  <1>3. ASSUME NEW c \in Claims, Expand(c)
        PROVE  vols' \in [Ids -> Volume] /\ \A i \in Ids : Moves(i)
    <2> DEFINE h == handle[c]
               size == RoundUpSize(xjob[c].bytes)
    <2>1. CASE UNCHANGED vols
      BY <2>1, <1>u
    <2>2. CASE ~UNCHANGED vols
      <3>1. /\ xpc[c] = "resize" /\ vols[h].status \in Settled /\ vols[h].size < size
            /\ vols' = [vols EXCEPT ![h] = [@ EXCEPT !.status = "RESIZING", !.newSize = size]]
        BY <1>3, <2>2 DEF Expand, StartExpand, ExpandGetVolume, ResizeVolume, WaitResized, iaas
      <3>2. h \in Ids /\ size \in Nat
        BY <3>1, ExpansionType
      <3> HIDE DEF size
      <3>3. [vols[h] EXCEPT !.status = "RESIZING", !.newSize = size] \in Volume
        BY <3>2, <1>t, <1>s, VolumeFields
      <3>4. /\ vols' \in [Ids -> Volume]
            /\ vols'[h] = [vols[h] EXCEPT !.status = "RESIZING", !.newSize = size]
            /\ \A j \in Ids \ {h} : vols'[j] = vols[j]
        BY <3>1, <3>2, <3>3, OneVolume
      <3>5. Resizes(c, h)
        BY <3>1, <3>2, <3>4, <1>t DEF Resizes, KeepsName, Volume, size
      <3> QED
        BY <3>4, <3>5 DEF Moves
    <2> QED
      BY <2>1, <2>2
  <1>4. ASSUME NEW c \in Claims, LateCreate(c)
        PROVE  vols' \in [Ids -> Volume] /\ \A i \in Ids : Moves(i)
    <2>1. CASE vols' = vols
      BY <2>1, <1>u
    <2>2. ASSUME NEW i \in Ids, ApiCreate(c, late[c], i)
          PROVE  vols' \in [Ids -> Volume] /\ \A j \in Ids : Moves(j)
      <3>1. late[c] \in Kinds
        BY <1>4 DEF LateCreate
      <3> QED
        BY <2>2, <3>1, ApiCreateMoves DEF Moves
    <2> QED
      BY <1>4, <2>1, <2>2 DEF LateCreate
  <1>5. ASSUME NEW c \in Claims, Attach(c)
        PROVE  vols' \in [Ids -> Volume] /\ \A i \in Ids : Moves(i)
    <2> DEFINE h == handle[c]
    <2>1. /\ h \in Ids /\ vols[h].status = "AVAILABLE" /\ phase[c] = "bound"
          /\ vols' = [vols EXCEPT ![h] = [@ EXCEPT !.status = "ATTACHED", !.attached = TRUE]]
      BY <1>5 DEF Attach
    <2>2. [vols[h] EXCEPT !.status = "ATTACHED", !.attached = TRUE] \in Volume
      BY <2>1, <1>t, <1>s, VolumeFields
    <2>3. /\ vols' \in [Ids -> Volume]
          /\ vols'[h] = [vols[h] EXCEPT !.status = "ATTACHED", !.attached = TRUE]
          /\ \A j \in Ids \ {h} : vols'[j] = vols[j]
      BY <2>1, <2>2, OneVolume
    <2>4. Settles(h)
      BY <2>1, <2>3, <1>t DEF Settles, KeepsName, Settled, Volume
    <2> QED
      BY <2>3, <2>4 DEF Moves
  <1>6. ASSUME NEW c \in Claims, Detach(c)
        PROVE  vols' \in [Ids -> Volume] /\ \A i \in Ids : Moves(i)
    <2> DEFINE h == handle[c]
               s == IF vols[h].status = "ATTACHED" THEN "AVAILABLE" ELSE "ERROR_RESIZING"
    <2>1. /\ h \in Ids /\ vols[h].status \in {"ATTACHED", "ERROR_RESIZING"}
          /\ vols' = [vols EXCEPT ![h] = [@ EXCEPT !.attached = FALSE, !.status = s]]
      BY <1>6 DEF Detach, TypeOK
    <2>2. s \in Statuses
      BY <2>1, <1>s
    <2> HIDE DEF s
    <2>3. [vols[h] EXCEPT !.attached = FALSE, !.status = s] \in Volume
      BY <2>1, <2>2, <1>t, VolumeFields
    <2>4. /\ vols' \in [Ids -> Volume]
          /\ vols'[h] = [vols[h] EXCEPT !.attached = FALSE, !.status = s]
          /\ \A j \in Ids \ {h} : vols'[j] = vols[j]
      BY <2>1, <2>3, OneVolume
    <2>5. Settles(h)
      BY <2>1, <2>4, <1>t DEF Settles, KeepsName, Settled, Volume, s
    <2> QED
      BY <2>4, <2>5 DEF Moves
  <1>7. ASSUME NEW i \in Ids, CreateDone(i)
        PROVE  vols' \in [Ids -> Volume] /\ \A j \in Ids : Moves(j)
    <2>1. PICK s \in {"AVAILABLE", "ERROR"} :
             vols[i].status = "CREATING" /\ vols' = [vols EXCEPT ![i] = [@ EXCEPT !.status = s]]
      BY <1>7 DEF CreateDone, SetStatus
    <2>2. [vols[i] EXCEPT !.status = s] \in Volume
      BY <1>t, <1>s, VolumeFields
    <2>3. /\ vols' \in [Ids -> Volume] /\ vols'[i] = [vols[i] EXCEPT !.status = s]
          /\ \A j \in Ids \ {i} : vols'[j] = vols[j]
      BY <2>1, <2>2, OneVolume
    <2>4. Settles(i)
      BY <2>1, <2>3, <1>t DEF Settles, KeepsName, Volume
    <2> QED
      BY <2>3, <2>4 DEF Moves
  <1>8. ASSUME NEW i \in Ids, ResizeDone(i)
        PROVE  vols' \in [Ids -> Volume] /\ \A j \in Ids : Moves(j)
    <2> DEFINE n == vols[i].newSize
    <2>1. PICK s \in {"ATTACHED", "AVAILABLE", "ERROR_RESIZING"} :
             /\ vols[i].status = "RESIZING"
             /\ \/ s \in Settled /\ vols' = [vols EXCEPT ![i] = [@ EXCEPT !.size = n, !.status = s]]
                \/ s = "ERROR_RESIZING" /\ vols' = [vols EXCEPT ![i] = [@ EXCEPT !.status = s]]
      BY <1>8 DEF ResizeDone, SetStatus, Settled
    <2>2. [vols[i] EXCEPT !.size = n, !.status = s] \in Volume /\ [vols[i] EXCEPT !.status = s] \in Volume
      BY <1>t, <1>s, VolumeFields
    <2>3. /\ vols' \in [Ids -> Volume] /\ \A j \in Ids \ {i} : vols'[j] = vols[j]
          /\ \/ s \in Settled /\ vols'[i] = [vols[i] EXCEPT !.size = n, !.status = s]
             \/ s = "ERROR_RESIZING" /\ vols'[i] = [vols[i] EXCEPT !.status = s]
      BY <2>1, <2>2, OneVolume
    <2>4. Settles(i)
      BY <2>1, <2>3, <1>t DEF Settles, KeepsName, Volume
    <2> QED
      BY <2>3, <2>4 DEF Moves
  <1>9. CASE \/ \E s \in Sources : SourceReady(s) \/ SourceDeleted(s)
             \/ \E c \in Claims : CallFails(c) \/ ExpandCallFails(c) \/ Release(c)
             \/ \E c \in Claims, e \in Expansions : AskExpansion(c, e)
             \/ UNCHANGED vars
    <2>1. UNCHANGED vols
      BY <1>9 DEF SourceReady, SourceDeleted, CallFails, ExpandCallFails, Release, AskExpansion, vars, iaas
    <2> QED
      BY <2>1, <1>u
  <1> QED
    BY <1>1, <1>2, <1>3, <1>4, <1>5, <1>6, <1>7, <1>8, <1>9 DEF Next, User


-----------------------------------------------------------------------------
\* The invariant.

\* A volume that was filled from a source that has a zone lies in it.
SameZone(c, kind) ==
    kind \in {"snapshot", "volume"} => SourceInfo[request[c].from].zone = request[c].zone

\* What holds of every volume the API has ever created.
VolumeInv(i) ==
    vols[i].status # "UNUSED" =>
       /\ vols[i].status = "RESIZING" => vols[i].newSize >= vols[i].size
       /\ vols[i].origin.kind # "none" =>
             /\ vols[i].origin.id = request[vols[i].name].from
             /\ SourceInfo[vols[i].origin.id].kind = vols[i].origin.kind
             /\ SourceInfo[vols[i].origin.id].kind # "backup"
                   => SourceInfo[vols[i].origin.id].zone = vols[i].zone

\* The handler of a claim runs for the phase it belongs to; one that goes on to create a volume
\* knows that none was answered yet, and has seen a source of the right zone.
CreatorInv(c) ==
    /\ pc[c] \in CreateCalls => phase[c] = "wanted"
    /\ pc[c] \in DeleteCalls => phase[c] = "released"
    /\ pc[c] \in CreateCalls \ {"list"} => answered[c] = {}
    /\ pc[c] = "create" => SameZone(c, job[c].kind)
    /\ pc[c] = "waitCreated" =>
          /\ job[c].id \in Ids /\ Exists(job[c].id) /\ vols[job[c].id].name = c
          /\ vols[job[c].id].size >= RoundUpSize(request[c].bytes)
    /\ late[c] \in Kinds => SameZone(c, late[c])

\* What was answered is one volume of that name, which is there until the claim is released,
\* and as large as anybody was told.
AnswerInv(c) ==
    /\ \A i, j \in answered[c] : i = j
    /\ phase[c] \in {"wanted", "bound"} => \A i \in answered[c] : Exists(i) /\ vols[i].name = c
    /\ phase[c] # "wanted" =>
          /\ handle[c] \in Ids /\ handle[c] \in answered[c] /\ vols[handle[c]].name = c
          /\ vols[handle[c]].size * Unit >= capacity[c] /\ capacity[c] >= request[c].bytes
          /\ vols[handle[c]].status \notin {"UNUSED", "CREATING", "ERROR"}

\* An expansion asks for more than the claim did, and the one that waits for its resize will see
\* the new size when the volume is settled again.
ExpanderInv(c) ==
    /\ phase[c] = "wanted" => xpc[c] = "idle"
    /\ ask[c] # None => ask[c].bytes >= request[c].bytes
    /\ xpc[c] # "idle" => xjob[c] \in Expansions /\ xjob[c].bytes >= request[c].bytes
    /\ xpc[c] = "waitResized" =>
          LET v == vols[handle[c]] IN
          /\ v.status = "RESIZING" => v.newSize >= RoundUpSize(xjob[c].bytes)
          /\ v.status \in Settled => v.size >= RoundUpSize(xjob[c].bytes)

ProvisionInv ==
    /\ TypeOK
    /\ \A i \in Ids : VolumeInv(i)
    /\ \A c \in Claims : CreatorInv(c) /\ AnswerInv(c) /\ ExpanderInv(c)

LEMMA InitInv == Init => ProvisionInv
  <1> SUFFICES ASSUME Init PROVE ProvisionInv
    OBVIOUS
  <1>1. ASSUME NEW i \in Ids PROVE VolumeInv(i)
    BY DEF Init, VolumeInv, Unused
  <1>2. ASSUME NEW c \in Claims PROVE CreatorInv(c) /\ AnswerInv(c) /\ ExpanderInv(c)
    BY DEF Init, CreatorInv, AnswerInv, ExpanderInv, CreateCalls, DeleteCalls, Kinds
  <1> QED
    BY <1>1, <1>2, InitType DEF ProvisionInv

LEMMA InvMoves ==
  ASSUME ProvisionInv, [Next]_vars
  PROVE  vols' \in [Ids -> Volume] /\ \A i \in Ids : Moves(i)
  <1>1. /\ TypeOK
        /\ \A c \in Claims : phase[c] # "wanted" => handle[c] \in Ids
        /\ \A c \in Claims : xpc[c] # "idle" => phase[c] # "wanted" /\ xjob[c] \in Expansions
        /\ \A c \in Claims : pc[c] \in DeleteCalls => phase[c] # "wanted"
    BY DEF ProvisionInv, CreatorInv, AnswerInv, ExpanderInv
  <1> QED
    BY <1>1, VolsStep

\* A volume, once created, keeps its name and never shrinks; it goes only when its claim is
\* released, and is resized only by the expansion of its claim.
LEMMA VolumeFrame ==
  ASSUME ProvisionInv, vols' \in [Ids -> Volume], NEW i \in Ids, Moves(i), vols[i].status # "UNUSED"
  PROVE  /\ vols'[i].name = vols[i].name
         /\ vols[i].size \in Nat /\ vols'[i].size \in Nat /\ vols'[i].size >= vols[i].size
         /\ vols'[i].status # "UNUSED"
         /\ vols'[i].status = "CREATING" => vols[i].status = "CREATING"
         /\ vols'[i].status = "ERROR" => vols[i].status \in {"CREATING", "ERROR"}
         /\ vols'[i].status = "GONE" /\ vols[i].status # "GONE" =>
               /\ phase[vols[i].name] = "released" /\ handle[vols[i].name] = i
         /\ vols'[i].status = "RESIZING" =>
               \/ vols[i].status = "RESIZING" /\ vols'[i].newSize = vols[i].newSize
               \/ xpc[vols[i].name] = "resize"
         /\ vols'[i].status \in Settled =>
               \/ vols[i].status \in Settled \cup {"CREATING"}
               \/ vols[i].status = "RESIZING" /\ vols'[i].size = vols[i].newSize
  <1>t. vols[i].size \in Nat /\ vols'[i].size \in Nat /\ vols[i].newSize \in Nat /\ VolumeInv(i)
    BY VolumeFields DEF ProvisionInv, TypeOK
  <1>1. CASE vols'[i] = vols[i]
    BY <1>1, <1>t
  <1>2. CASE Settles(i)
    BY <1>2, <1>t DEF Settles, KeepsName, Settled, VolumeInv
  <1>3. ASSUME NEW c \in Claims, Resizes(c, i)
        PROVE  xpc[vols[i].name] = "resize"
    <2>1. xpc[c] = "resize" /\ handle[c] = i
      BY <1>3 DEF Resizes
    <2>2. phase[c] # "wanted"
      BY <2>1 DEF ProvisionInv, ExpanderInv
    <2>3. vols[i].name = c
      BY <2>1, <2>2 DEF ProvisionInv, AnswerInv
    <2> QED
      BY <2>1, <2>3
  <1>4. ASSUME NEW c \in Claims, Deletes(c, i)
        PROVE  /\ phase[vols[i].name] = "released" /\ handle[vols[i].name] = i
    <2>1. /\ pc[c] = "delete" /\ handle[c] = i
      BY <1>4 DEF Deletes
    <2>2. phase[c] = "released"
      BY <2>1 DEF ProvisionInv, CreatorInv, DeleteCalls
    <2>3. vols[i].name = c
      BY <2>1, <2>2 DEF ProvisionInv, AnswerInv
    <2> QED
      BY <2>1, <2>2, <2>3
  <1>5. ASSUME NEW c \in Claims, NEW kind \in Kinds, Creates(c, kind, i)
        PROVE  FALSE
    BY <1>5 DEF Creates
  <1>6. ASSUME NEW c \in Claims, Resizes(c, i)
        PROVE  /\ vols'[i].name = vols[i].name /\ vols'[i].size = vols[i].size
               /\ vols'[i].status = "RESIZING"
    BY <1>6 DEF Resizes, KeepsName
  <1>7. ASSUME NEW c \in Claims, Deletes(c, i)
        PROVE  /\ vols'[i].name = vols[i].name /\ vols'[i].size = vols[i].size
               /\ vols'[i].status = "GONE"
    BY <1>7 DEF Deletes, KeepsName
  <1>8. CASE \E c \in Claims : Resizes(c, i)
    BY <1>3, <1>6, <1>8, <1>t DEF Settled
  <1>9. CASE \E c \in Claims : Deletes(c, i)
    BY <1>4, <1>7, <1>9, <1>t DEF Settled
  <1> QED
    BY <1>1, <1>2, <1>5, <1>8, <1>9 DEF Moves

\* What a claim asks for does not change; a step disturbs at most once.
LEMMA RequestStays == [Next]_vars => request' = request /\ (budget' = budget \/ Disturb)
  <1> SUFFICES ASSUME [Next]_vars PROVE request' = request /\ (budget' = budget \/ Disturb)
    OBVIOUS
  <1>1. ASSUME NEW c \in Claims, Create(c)
        PROVE  request' = request /\ (budget' = budget \/ Disturb)
    <2> USE DEF Continue, Fail, Provisioned, claims
    <2>1. CASE StartCreate(c)
      BY <2>1 DEF StartCreate
    <2>2. CASE GetVolumesByName(c)
      BY <2>2 DEF GetVolumesByName
    <2>3. CASE GetSnapshot(c)
      BY <2>3 DEF GetSnapshot
    <2>4. CASE GetBackup(c) \/ GetSourceVolume(c)
      BY <2>4 DEF GetBackup, GetSourceVolume
    <2>5. CASE CreateVolume(c)
      BY <2>5 DEF CreateVolume
    <2>6. CASE WaitCreated(c)
      BY <2>6 DEF WaitCreated
    <2> QED
      BY <1>1, <2>1, <2>2, <2>3, <2>4, <2>5, <2>6 DEF Create
  <1>2. ASSUME NEW c \in Claims, Delete(c)
        PROVE  request' = request /\ (budget' = budget \/ Disturb)
    BY <1>2 DEF Delete, StartDelete, DeleteCheck, DeleteVolume, Deleted, Fail, Continue, claims
  <1>3. ASSUME NEW c \in Claims, Expand(c)
        PROVE  request' = request /\ (budget' = budget \/ Disturb)
    BY <1>3 DEF Expand, StartExpand, ExpandGetVolume, ResizeVolume, WaitResized, Expanded,
                ExpandFails, ExpandContinue, claims
  <1>4. ASSUME NEW c \in Claims,
               CallFails(c) \/ ExpandCallFails(c) \/ User(c) \/ Detach(c) \/ LateCreate(c)
        PROVE  request' = request /\ (budget' = budget \/ Disturb)
    BY <1>4 DEF CallFails, Fail, Continue, ExpandCallFails, ExpandFails, User, Release, Attach,
                AskExpansion, Detach, LateCreate, claims
  <1>5. CASE \/ \E i \in Ids : CreateDone(i) \/ ResizeDone(i)
             \/ \E s \in Sources : SourceReady(s) \/ SourceDeleted(s)
             \/ UNCHANGED vars
    BY <1>5 DEF CreateDone, ResizeDone, SourceReady, SourceDeleted, claims, vars
  <1> QED
    BY <1>1, <1>2, <1>3, <1>4, <1>5 DEF Next

\* Volumes keep their own part of the invariant.
LEMMA NextVolumes ==
  ASSUME ProvisionInv, [Next]_vars, NEW i \in Ids
  PROVE  VolumeInv(i)'
  <1>1. vols' \in [Ids -> Volume] /\ Moves(i)
    BY InvMoves
  <1>2. request' = request
    BY RequestStays
  <1>t. /\ vols[i].size \in Nat /\ vols[i].newSize \in Nat /\ vols'[i].newSize \in Nat
        /\ vols'[i].size \in Nat /\ VolumeInv(i)
    BY <1>1, VolumeFields DEF ProvisionInv, TypeOK
  <1>3. ASSUME NEW c \in Claims, NEW kind \in Kinds, Creates(c, kind, i)
        PROVE  VolumeInv(i)'
    <2>1. SameZone(c, kind)
      BY <1>3 DEF Creates, ProvisionInv, CreatorInv
    <2> QED
      BY <1>2, <1>3, <2>1 DEF Creates, VolumeInv, SameZone, Kinds
  <1>4. CASE vols'[i] = vols[i]
    BY <1>2, <1>4, <1>t DEF VolumeInv
  <1>5. CASE Settles(i)
    BY <1>2, <1>5, <1>t DEF Settles, KeepsName, VolumeInv, Settled
  <1>6. ASSUME NEW c \in Claims, Resizes(c, i) \/ Deletes(c, i)
        PROVE  VolumeInv(i)'
    BY <1>2, <1>6, <1>t DEF Resizes, Deletes, KeepsName, VolumeInv, Settled
  <1> QED
    BY <1>1, <1>3, <1>4, <1>5, <1>6 DEF Moves


\* What each part of a claim's invariant reads of its claim, besides the volumes.
CreatorSame(c) ==
    /\ phase'[c] = phase[c] /\ answered'[c] = answered[c]
    /\ pc'[c] = pc[c] /\ job'[c] = job[c] /\ late'[c] = late[c]
Onward(c) ==
    phase'[c] = phase[c] \/ (phase[c] # "wanted" /\ phase'[c] \in {"released", "deleted"})
AnswerSame(c) ==
    /\ Onward(c) /\ answered'[c] = answered[c]
    /\ handle'[c] = handle[c] /\ capacity'[c] = capacity[c]
ExpanderSame(c) ==
    /\ Onward(c) /\ handle'[c] = handle[c]
    /\ ask'[c] = ask[c] /\ xpc'[c] = xpc[c] /\ xjob'[c] = xjob[c]

LEMMA CreatorFrame ==
  ASSUME ProvisionInv, [Next]_vars, NEW c \in Claims, CreatorSame(c)
  PROVE  CreatorInv(c)'
  <1>1. request' = request /\ CreatorInv(c) /\ TypeOK
    BY RequestStays DEF ProvisionInv
  <1>2. ASSUME pc[c] = "waitCreated"
        PROVE  /\ Exists(job[c].id)' /\ vols'[job[c].id].name = c
               /\ vols'[job[c].id].size >= RoundUpSize(request[c].bytes)
    <2> DEFINE i == job[c].id
    <2>1. /\ i \in Ids /\ vols[i].status \notin {"UNUSED", "GONE"} /\ vols[i].name = c
          /\ vols[i].size >= RoundUpSize(request[c].bytes) /\ phase[c] = "wanted"
      BY <1>1, <1>2 DEF CreatorInv, Exists, CreateCalls
    <2>2. vols' \in [Ids -> Volume] /\ Moves(i)
      BY <2>1, InvMoves
    <2>3. RoundUpSize(request[c].bytes) \in Nat
      BY <1>1, RequestType
    <2>4. /\ vols'[i].name = c /\ vols[i].size \in Nat /\ vols'[i].size \in Nat
          /\ vols'[i].size >= vols[i].size
          /\ vols'[i].status \notin {"UNUSED", "GONE"}
      BY <2>1, <2>2, VolumeFrame
    <2>5. vols'[i].size >= RoundUpSize(request[c].bytes)
      BY <2>1, <2>3, <2>4
    <2>6. Exists(job[c].id)'
      BY <2>4 DEF Exists, CreatorSame
    <2> QED
      BY <2>4, <2>5, <2>6
  <1> QED
    BY <1>1, <1>2 DEF CreatorInv, CreatorSame, SameZone, RoundUpSize, Ids

LEMMA AnswerFrame ==
  ASSUME ProvisionInv, [Next]_vars, NEW c \in Claims, AnswerSame(c)
  PROVE  AnswerInv(c)'
  <1>1. request' = request /\ AnswerInv(c) /\ TypeOK /\ answered[c] \subseteq Ids
    BY RequestStays DEF ProvisionInv, TypeOK
  <1>2. vols' \in [Ids -> Volume] /\ \A i \in Ids : Moves(i)
    BY InvMoves
  <1>3. ASSUME phase[c] \in {"wanted", "bound"}, NEW i \in answered[c]
        PROVE  Exists(i)' /\ vols'[i].name = c
    <2>1. i \in Ids /\ vols[i].status \notin {"UNUSED", "GONE"} /\ vols[i].name = c
      BY <1>1, <1>3 DEF AnswerInv, Exists
    <2>2. vols'[i].name = c /\ vols'[i].status \notin {"UNUSED", "GONE"}
      BY <1>2, <1>3, <2>1, VolumeFrame
    <2> QED
      BY <2>2 DEF Exists
  <1>4. ASSUME phase[c] # "wanted"
        PROVE  LET h == handle[c] IN
               /\ vols'[h].name = c /\ vols'[h].size * Unit >= capacity[c]
               /\ vols'[h].status \notin {"UNUSED", "CREATING", "ERROR"}
    <2> DEFINE h == handle[c]
    <2>1. /\ h \in Ids /\ vols[h].name = c /\ vols[h].size * Unit >= capacity[c]
          /\ vols[h].status \notin {"UNUSED", "CREATING", "ERROR"} /\ capacity[c] \in Nat
      BY <1>1, <1>4 DEF AnswerInv, TypeOK
    <2>2. /\ vols'[h].name = c /\ vols[h].size \in Nat /\ vols'[h].size \in Nat
          /\ vols'[h].size >= vols[h].size
          /\ vols'[h].status \notin {"UNUSED", "CREATING", "ERROR"}
      BY <1>2, <2>1, VolumeFrame
    <2>3. vols[h].size * Unit <= vols'[h].size * Unit
      BY <2>2, UnitMonotonic
    <2>4. vols[h].size * Unit \in Nat /\ vols'[h].size * Unit \in Nat
      BY <2>2, ProvisionAssumption
    <2>5. vols'[h].size * Unit >= capacity[c]
      BY <2>1, <2>3, <2>4
    <2> QED
      BY <2>2, <2>5
  <1> QED
    BY <1>1, <1>3, <1>4 DEF AnswerInv, AnswerSame, Onward, Ids

LEMMA ExpanderFrame ==
  ASSUME ProvisionInv, [Next]_vars, NEW c \in Claims, ExpanderSame(c)
  PROVE  ExpanderInv(c)'
  <1>1. request' = request /\ ExpanderInv(c) /\ AnswerInv(c) /\ TypeOK
    BY RequestStays DEF ProvisionInv
  <1>2. vols' \in [Ids -> Volume] /\ \A i \in Ids : Moves(i)
    BY InvMoves
  <1>3. ASSUME xpc[c] = "waitResized"
        PROVE  LET h == handle[c] IN
               /\ vols'[h].status = "RESIZING" => vols'[h].newSize >= RoundUpSize(xjob[c].bytes)
               /\ vols'[h].status \in Settled => vols'[h].size >= RoundUpSize(xjob[c].bytes)
    <2> DEFINE h == handle[c]
               n == RoundUpSize(xjob[c].bytes)
    <2>1. /\ h \in Ids /\ vols[h].name = c
          /\ vols[h].status \notin {"UNUSED", "CREATING", "ERROR"}
      BY <1>1, <1>3 DEF ExpanderInv, AnswerInv
    <2>2. n \in Nat
      BY <1>1, <1>3, ExpansionType DEF ExpanderInv
    <2>3. /\ vols[h].status = "RESIZING" => vols[h].newSize >= n
          /\ vols[h].status \in Settled => vols[h].size >= n
      BY <1>1, <1>3 DEF ExpanderInv
    <2>4. /\ vols[h].size \in Nat /\ vols'[h].size \in Nat /\ vols'[h].size >= vols[h].size
          /\ vols'[h].status = "RESIZING" =>
               \/ vols[h].status = "RESIZING" /\ vols'[h].newSize = vols[h].newSize
               \/ xpc[c] = "resize"
          /\ vols'[h].status \in Settled =>
               \/ vols[h].status \in Settled \cup {"CREATING"}
               \/ vols[h].status = "RESIZING" /\ vols'[h].size = vols[h].newSize
      BY <1>2, <2>1, VolumeFrame
    <2> HIDE DEF n, h
    <2>5. vols'[h].status = "RESIZING" => vols'[h].newSize >= n
      BY <1>3, <2>3, <2>4
    <2>6. vols'[h].status \in Settled => vols'[h].size >= n
      BY <2>1, <2>2, <2>3, <2>4
    <2> QED
      BY <2>5, <2>6 DEF n, h
  <1> QED
    BY <1>1, <1>3 DEF ExpanderInv, ExpanderSame, Onward, RoundUpSize


\* The claims' half of the invariant.
ClaimInv(c) == CreatorInv(c) /\ AnswerInv(c) /\ ExpanderInv(c)
TablesOK == ClaimsType /\ CreatorType /\ ExpanderType

\* The handler of c makes its next call: the other claims, and what c was answered, stay.
LEMMA ContinueInv ==
  ASSUME ProvisionInv, [Next]_vars, NEW c \in Claims, NEW next \in CallType, NEW j \in JobType,
         Continue(c, next, j),
         \A d \in Claims \ {c} : late'[d] = late[d],
         late'[c] \in Kinds => SameZone(c, late'[c]),
         next \in CreateCalls => phase[c] = "wanted",
         next \in DeleteCalls => phase[c] = "released",
         next \in CreateCalls \ {"list"} => answered[c] = {},
         next = "create" => SameZone(c, j.kind),
         next = "waitCreated" =>
            /\ j.id \in Ids /\ vols'[j.id].status \notin {"UNUSED", "GONE"} /\ vols'[j.id].name = c
            /\ vols'[j.id].size >= RoundUpSize(request[c].bytes)
  PROVE  TablesOK' /\ \A d \in Claims : ClaimInv(d)'
  <1>1. TypeOK /\ ClaimsType /\ CreatorType /\ ExpanderType /\ request' = request
    BY TypeParts, RequestStays DEF ProvisionInv
  <1>2. /\ UNCHANGED <<request, phase, handle, answered, capacity, ask, xpc, xjob>>
        /\ pc' = [pc EXCEPT ![c] = next] /\ job' = [job EXCEPT ![c] = j]
    BY DEF Continue, claims, expander
  <1>3. CreatorType' /\ pc'[c] = next /\ job'[c] = j
    BY <1>1, <1>2 DEF CreatorType
  <1>4. TablesOK'
    BY <1>1, <1>2, <1>3 DEF TablesOK, ClaimsType, ExpanderType
  <1>5. ASSUME NEW d \in Claims PROVE AnswerInv(d)' /\ ExpanderInv(d)'
    BY <1>2, AnswerFrame, ExpanderFrame DEF AnswerSame, ExpanderSame, Onward
  <1>6. ASSUME NEW d \in Claims \ {c} PROVE CreatorInv(d)'
    <2>1. CreatorSame(d)
      BY <1>1, <1>2, <1>6 DEF CreatorSame, CreatorType
    <2> QED
      BY <2>1, CreatorFrame
  <1>7. CreatorInv(c)'
    BY <1>2, <1>3 DEF CreatorInv, SameZone, Exists, RoundUpSize, Ids
  <1> QED
    BY <1>4, <1>5, <1>6, <1>7 DEF ClaimInv

\* An error: nothing is left of the request.
LEMMA FailInv ==
  ASSUME ProvisionInv, [Next]_vars, NEW c \in Claims, Fail(c),
         \A d \in Claims \ {c} : late'[d] = late[d],
         late'[c] \in Kinds => SameZone(c, late'[c])
  PROVE  TablesOK' /\ \A d \in Claims : ClaimInv(d)'
  <1>1. "idle" \notin CreateCalls /\ "idle" \notin DeleteCalls
    BY DEF CreateCalls, DeleteCalls
  <1> QED
    BY <1>1, ContinueInv, TypeValues DEF Fail

\* CreateVolume answers with a volume of the name that is large enough and the only answer.
LEMMA ProvisionedInv ==
  ASSUME ProvisionInv, [Next]_vars, NEW c \in Claims, NEW i \in Ids, Provisioned(c, i),
         UNCHANGED iaas, phase[c] = "wanted", answered[c] \subseteq {i},
         vols[i].status = "AVAILABLE", vols[i].name = c,
         vols[i].size >= RoundUpSize(request[c].bytes)
  PROVE  TablesOK' /\ \A d \in Claims : ClaimInv(d)'
  <1>1. TypeOK /\ ClaimsType /\ CreatorType /\ ExpanderType
    BY TypeParts DEF ProvisionInv
  <1>2. /\ vols[i].size \in Nat /\ vols[i].size * Unit \in Nat
        /\ request[c].bytes \in Nat /\ vols[i].size * Unit >= request[c].bytes
    <2>1. vols[i].size \in Nat /\ request[c].bytes \in Nat
      BY <1>1, VolumeFields, RequestType DEF TypeOK
    <2>2. /\ RoundUpSize(request[c].bytes) \in Nat
          /\ RoundUpSize(request[c].bytes) * Unit >= request[c].bytes
      BY <2>1, RoundUpHolds
    <2>3. RoundUpSize(request[c].bytes) * Unit <= vols[i].size * Unit
      BY <2>1, <2>2, UnitMonotonic
    <2>4. vols[i].size * Unit \in Nat /\ RoundUpSize(request[c].bytes) * Unit \in Nat
      BY <2>1, <2>2, ProvisionAssumption
    <2> QED
      BY <2>1, <2>2, <2>3, <2>4
  <1>3. /\ UNCHANGED <<vols, late, request, ask, xpc, xjob>>
        /\ pc' = [pc EXCEPT ![c] = "idle"] /\ job' = [job EXCEPT ![c] = NoJob]
        /\ answered' = [answered EXCEPT ![c] = @ \cup {i}]
        /\ \/ /\ handle' = [handle EXCEPT ![c] = i]
              /\ capacity' = [capacity EXCEPT ![c] = vols[i].size * Unit]
              /\ phase' = [phase EXCEPT ![c] = "bound"]
           \/ UNCHANGED <<handle, capacity, phase>>
    BY DEF Provisioned, iaas, expander
  <1>4. CreatorType' /\ pc'[c] = "idle"
    BY <1>1, <1>3, TypeValues DEF CreatorType
  <1>5. TablesOK'
    BY <1>1, <1>2, <1>3, <1>4 DEF TablesOK, ClaimsType, ExpanderType, PhaseType
  <1>6. ASSUME NEW d \in Claims \ {c} PROVE CreatorInv(d)' /\ AnswerInv(d)' /\ ExpanderInv(d)'
    <2>1. CreatorSame(d) /\ AnswerSame(d) /\ ExpanderSame(d)
      BY <1>1, <1>3, <1>6 DEF CreatorSame, AnswerSame, ExpanderSame, Onward, CreatorType, ClaimsType
    <2> QED
      BY <2>1, CreatorFrame, AnswerFrame, ExpanderFrame
  <1>7. CreatorInv(c)'
    BY <1>3, <1>4 DEF ProvisionInv, CreatorInv, SameZone, CreateCalls, DeleteCalls
  <1>8. answered'[c] = {i}
    BY <1>1, <1>3 DEF ClaimsType
  <1>9. AnswerInv(c)'
    <2>1. CASE /\ handle' = [handle EXCEPT ![c] = i]
               /\ capacity' = [capacity EXCEPT ![c] = vols[i].size * Unit]
               /\ phase' = [phase EXCEPT ![c] = "bound"]
      <3>1. handle'[c] = i /\ capacity'[c] = vols[i].size * Unit /\ phase'[c] = "bound"
        BY <1>1, <2>1 DEF ClaimsType
      <3> QED
        BY <1>2, <1>3, <1>8, <3>1 DEF AnswerInv, Exists, Ids
    <2>2. CASE UNCHANGED <<handle, capacity, phase>>
      BY <1>3, <1>8, <2>2 DEF AnswerInv, Exists
    <2> QED
      BY <1>3, <2>1, <2>2
  <1>10. ExpanderInv(c)'
    <2>1. xpc[c] = "idle" /\ (ask[c] # None => ask[c].bytes >= request[c].bytes)
      BY DEF ProvisionInv, ExpanderInv
    <2> QED
      BY <1>3, <2>1 DEF ExpanderInv
  <1> QED
    BY <1>5, <1>6, <1>7, <1>9, <1>10 DEF ClaimInv

LEMMA DeletedInv ==
  ASSUME ProvisionInv, [Next]_vars, NEW c \in Claims, Deleted(c), late' = late, phase[c] = "released"
  PROVE  TablesOK' /\ \A d \in Claims : ClaimInv(d)'
  <1>1. TypeOK /\ ClaimsType /\ CreatorType /\ ExpanderType /\ request' = request
    BY TypeParts, RequestStays DEF ProvisionInv
  <1>2. /\ UNCHANGED <<request, handle, answered, capacity, ask, xpc, xjob, job>>
        /\ pc' = [pc EXCEPT ![c] = "idle"] /\ phase' = [phase EXCEPT ![c] = "deleted"]
    BY DEF Deleted, expander
  <1>3. CreatorType' /\ pc'[c] = "idle"
    BY <1>1, <1>2, TypeValues DEF CreatorType
  <1>4. TablesOK' /\ phase'[c] = "deleted"
    BY <1>1, <1>2, <1>3 DEF TablesOK, ClaimsType, ExpanderType, PhaseType
  <1>5. ASSUME NEW d \in Claims PROVE AnswerInv(d)' /\ ExpanderInv(d)'
    <2>1. AnswerSame(d) /\ ExpanderSame(d)
      BY <1>1, <1>2, <1>4 DEF AnswerSame, ExpanderSame, Onward, ClaimsType
    <2> QED
      BY <2>1, AnswerFrame, ExpanderFrame
  <1>6. ASSUME NEW d \in Claims \ {c} PROVE CreatorInv(d)'
    <2>1. CreatorSame(d)
      BY <1>1, <1>2, <1>6 DEF CreatorSame, CreatorType, ClaimsType
    <2> QED
      BY <2>1, CreatorFrame
  <1>7. CreatorInv(c)'
    BY <1>2, <1>3 DEF ProvisionInv, CreatorInv, SameZone, CreateCalls, DeleteCalls
  <1> QED
    BY <1>4, <1>5, <1>6, <1>7 DEF ClaimInv


\* A step of ControllerExpandVolume: only the expansion, the capacity told and what is still
\* asked for change.
LEMMA ExpandInv ==
  ASSUME ProvisionInv, [Next]_vars, NEW c \in Claims, NEW next \in XCallType, NEW e \in AskType,
         xpc' = [xpc EXCEPT ![c] = next], xjob' = [xjob EXCEPT ![c] = e],
         UNCHANGED <<late, request, phase, handle, answered, creator>>,
         \/ UNCHANGED <<capacity, ask>>
         \/ /\ \E n \in Nat :
                  /\ capacity' = [capacity EXCEPT ![c] = n]
                  /\ vols' = vols /\ vols[handle[c]].size * Unit >= n /\ n >= request[c].bytes
            /\ ask' = [ask EXCEPT ![c] = IF @ = xjob[c] THEN None ELSE @],
         phase[c] # "wanted",
         next # "idle" => e \in Expansions /\ e.bytes >= request[c].bytes,
         next = "waitResized" =>
            vols'[handle[c]].status = "RESIZING" /\ vols'[handle[c]].newSize = RoundUpSize(e.bytes)
  PROVE  TablesOK' /\ \A d \in Claims : ClaimInv(d)'
  <1>1. TypeOK /\ ClaimsType /\ CreatorType /\ ExpanderType
    BY TypeParts DEF ProvisionInv
  <1>2. ExpanderType' /\ xpc'[c] = next /\ xjob'[c] = e
    BY <1>1 DEF ExpanderType
  <1>3. /\ \A d \in Claims \ {c} : capacity'[d] = capacity[d] /\ ask'[d] = ask[d]
        /\ \/ capacity'[c] = capacity[c] /\ ask'[c] = ask[c]
           \/ /\ ask'[c] \in {None, ask[c]}
              /\ vols' = vols /\ vols[handle[c]].size * Unit >= capacity'[c]
              /\ capacity'[c] >= request[c].bytes
        /\ capacity' \in [Claims -> Nat] /\ ask' \in [Claims -> AskType]
    BY <1>1 DEF ClaimsType, AskType
  <1>4. TablesOK'
    BY <1>1, <1>2, <1>3 DEF TablesOK, ClaimsType, CreatorType, creator
  <1>5. ASSUME NEW d \in Claims PROVE CreatorInv(d)'
    BY CreatorFrame DEF CreatorSame, creator
  <1>6. ASSUME NEW d \in Claims \ {c} PROVE AnswerInv(d)' /\ ExpanderInv(d)'
    <2>1. AnswerSame(d) /\ ExpanderSame(d)
      BY <1>1, <1>3, <1>6 DEF AnswerSame, ExpanderSame, Onward, ExpanderType
    <2> QED
      BY <2>1, AnswerFrame, ExpanderFrame
  <1>7. AnswerInv(c)'
    <2>1. CASE capacity'[c] = capacity[c]
      BY <2>1, AnswerFrame DEF AnswerSame, Onward
    <2>2. CASE /\ vols' = vols /\ vols[handle[c]].size * Unit >= capacity'[c]
               /\ capacity'[c] >= request[c].bytes
      BY <2>2 DEF ProvisionInv, AnswerInv, Exists
    <2> QED
      BY <1>3, <2>1, <2>2
  <1>8. ExpanderInv(c)'
    <2>1. ask[c] # None => ask[c].bytes >= request[c].bytes
      BY DEF ProvisionInv, ExpanderInv
    <2>2. e \in Expansions => RoundUpSize(e.bytes) \in Nat
      BY ExpansionType
    <2> HIDE DEF RoundUpSize
    <2>3. ask'[c] # None => ask'[c].bytes >= request'[c].bytes
      BY <1>3, <2>1
    <2>4. xpc'[c] = "waitResized" =>
             /\ vols'[handle'[c]].newSize >= RoundUpSize(xjob'[c].bytes)
             /\ vols'[handle'[c]].status \notin Settled
      BY <1>2, <2>2 DEF Settled
    <2> QED
      BY <1>2, <2>3, <2>4 DEF ExpanderInv, RoundUpSize
  <1> QED
    BY <1>4, <1>5, <1>6, <1>7, <1>8 DEF ClaimInv

\* Steps of the API and the users.
LEMMA OutsideInv ==
  ASSUME ProvisionInv, [Next]_vars, UNCHANGED <<late, claims, creator, expander>>
  PROVE  TablesOK' /\ \A d \in Claims : ClaimInv(d)'
  <1>1. ClaimsType /\ CreatorType /\ ExpanderType
    BY TypeParts DEF ProvisionInv
  <1>2. TablesOK'
    BY <1>1 DEF TablesOK, ClaimsType, CreatorType, ExpanderType, claims, creator, expander
  <1>3. ASSUME NEW d \in Claims PROVE ClaimInv(d)'
    <2>1. CreatorSame(d) /\ AnswerSame(d) /\ ExpanderSame(d)
      BY DEF CreatorSame, AnswerSame, ExpanderSame, Onward, claims, creator, expander
    <2> QED
      BY <2>1, CreatorFrame, AnswerFrame, ExpanderFrame DEF ClaimInv
  <1> QED
    BY <1>2, <1>3

LEMMA CreateInv ==
  ASSUME ProvisionInv, [Next]_vars, NEW c \in Claims, Create(c)
  PROVE  TablesOK' /\ \A d \in Claims : ClaimInv(d)'
  <1>t. TypeOK /\ CreatorInv(c) /\ AnswerInv(c)
    BY DEF ProvisionInv
  <1>l. late[c] \in Kinds => SameZone(c, late[c])
    BY <1>t DEF CreatorInv
  <1>n. SameZone(c, NoJob.kind)
    BY DEF SameZone, NoJob
  <1>1. CASE StartCreate(c)
    <2>1. /\ Continue(c, "list", NoJob) /\ late' = late /\ phase[c] = "wanted"
      BY <1>1 DEF StartCreate, iaas
    <2> QED
      BY <2>1, <1>l, ContinueInv, TypeValues DEF DeleteCalls
  <1>2. CASE GetVolumesByName(c)
    <2>1. late' = late /\ UNCHANGED iaas /\ pc[c] = "list" /\ phase[c] = "wanted"
      BY <1>2, <1>t DEF GetVolumesByName, iaas, CreatorInv, CreateCalls
    <2>2. answered[c] \subseteq Named(c)
      BY <2>1, <1>t DEF AnswerInv, Named, TypeOK
    <2>3. CASE Named(c) = {} /\ Continue(c, FirstRead(request[c].from), NoJob)
      <3>1. FirstRead(request[c].from) \in {"create", "sourceVolume", "snapshot"}
        BY DEF FirstRead
      <3>2. answered[c] = {}
        BY <2>2, <2>3
      <3>3. FirstRead(request[c].from) \in CallType /\ FirstRead(request[c].from) \notin DeleteCalls
        BY <3>1, TypeValues DEF DeleteCalls
      <3>4. FirstRead(request[c].from) # "waitCreated"
        BY <3>1
      <3> HIDE DEF FirstRead
      <3> QED
        BY <2>1, <2>3, <3>2, <3>3, <3>4, <1>l, <1>n, ContinueInv, TypeValues
    <2>4. ASSUME NEW i \in Ids, Named(c) = {i}, Provisioned(c, i),
                 vols[i].size = RoundUpSize(request[c].bytes), vols[i].status = "AVAILABLE"
          PROVE  TablesOK' /\ \A d \in Claims : ClaimInv(d)'
      <3>1. vols[i].name = c /\ answered[c] \subseteq {i}
        BY <2>2, <2>4 DEF Named
      <3>2. RoundUpSize(request[c].bytes) \in Nat
        BY <1>t, RequestType
      <3>3. vols[i].size >= RoundUpSize(request[c].bytes)
        BY <2>4, <3>2
      <3> QED
        BY <2>1, <2>4, <3>1, <3>3, ProvisionedInv
    <2>5. CASE Fail(c)
      BY <2>1, <2>5, <1>l, FailInv
    <2> QED
      BY <1>2, <2>3, <2>4, <2>5 DEF GetVolumesByName
  <1>3. CASE GetSnapshot(c) \/ GetBackup(c) \/ GetSourceVolume(c)
    <2>1. /\ late' = late /\ phase[c] = "wanted" /\ answered[c] = {}
      BY <1>3, <1>t DEF GetSnapshot, GetBackup, GetSourceVolume, iaas, CreatorInv, CreateCalls
    <2>2. \/ Continue(c, "backup", NoJob) \/ Fail(c)
          \/ \E kind \in Kinds : SameZone(c, kind) /\ Continue(c, "create", [kind |-> kind, id |-> 0])
      BY <1>3 DEF GetSnapshot, GetBackup, GetSourceVolume, Found, SameZone, Kinds
    <2>3. CASE Continue(c, "backup", NoJob)
      BY <2>1, <2>3, <1>l, ContinueInv, TypeValues DEF DeleteCalls
    <2>4. CASE Fail(c)
      BY <2>1, <2>4, <1>l, FailInv
    <2>5. ASSUME NEW kind \in Kinds, SameZone(c, kind),
                 Continue(c, "create", [kind |-> kind, id |-> 0])
          PROVE  TablesOK' /\ \A d \in Claims : ClaimInv(d)'
      <3>1. [kind |-> kind, id |-> 0] \in JobType /\ [kind |-> kind, id |-> 0].kind = kind
        BY TypeValues
      <3> QED
        BY <2>1, <2>5, <3>1, <1>l, ContinueInv, TypeValues DEF DeleteCalls
    <2> QED
      BY <2>2, <2>3, <2>4, <2>5
  <1>4. CASE CreateVolume(c)
    <2>1. /\ pc[c] = "create" /\ phase[c] = "wanted" /\ answered[c] = {}
          /\ SameZone(c, job[c].kind) /\ job[c].kind \in Kinds
      BY <1>4, <1>t DEF CreateVolume, CreatorInv, CreateCalls, TypeOK
    <2>2. CASE Fail(c) /\ late' = late
      BY <2>2, <1>l, FailInv
    <2>3. CASE Fail(c) /\ late' = [late EXCEPT ![c] = job[c].kind]
      <3>1. late'[c] = job[c].kind /\ \A d \in Claims \ {c} : late'[d] = late[d]
        BY <2>3, <1>t DEF TypeOK
      <3> QED
        BY <2>1, <2>3, <3>1, FailInv
    <2>4. ASSUME NEW i \in Ids, ApiCreate(c, job[c].kind, i), late' = late,
                 Continue(c, "waitCreated", [kind |-> job[c].kind, id |-> i])
          PROVE  TablesOK' /\ \A d \in Claims : ClaimInv(d)'
      <3> DEFINE j == [kind |-> job[c].kind, id |-> i]
      <3>1. j \in JobType /\ j.id = i
        BY <2>1, TypeValues
      <3>2. Creates(c, job[c].kind, i)
        BY <2>1, <2>4, <1>t, ApiCreateMoves
      <3>3. RoundUpSize(request[c].bytes) \in Nat
        BY <1>t, RequestType
      <3>4. /\ vols'[j.id].status \notin {"UNUSED", "GONE"} /\ vols'[j.id].name = c
            /\ vols'[j.id].size >= RoundUpSize(request[c].bytes)
        BY <3>1, <3>2, <3>3 DEF Creates
      <3>5. Continue(c, "waitCreated", j) /\ j.id \in Ids
        BY <2>4, <3>1
      <3> HIDE DEF j
      <3> QED
        BY <2>1, <2>4, <3>1, <3>4, <3>5, <1>l, ContinueInv, TypeValues DEF DeleteCalls
    <2> QED
      BY <1>4, <2>2, <2>3, <2>4 DEF CreateVolume
  <1>5. CASE WaitCreated(c)
    <2> DEFINE i == job[c].id
    <2>1. /\ pc[c] = "waitCreated" /\ phase[c] = "wanted" /\ answered[c] = {}
          /\ late' = late /\ UNCHANGED iaas
          /\ i \in Ids /\ vols[i].name = c /\ vols[i].size >= RoundUpSize(request[c].bytes)
      BY <1>5, <1>t DEF WaitCreated, CreatorInv, CreateCalls, iaas
    <2>2. CASE Fail(c)
      BY <2>1, <2>2, <1>l, FailInv
    <2>3. CASE vols[i].status = "AVAILABLE" /\ Provisioned(c, i)
      BY <2>1, <2>3, ProvisionedInv
    <2> QED
      BY <1>5, <2>2, <2>3 DEF WaitCreated
  <1> QED
    BY <1>1, <1>2, <1>3, <1>4, <1>5 DEF Create


LEMMA DeleteInv ==
  ASSUME ProvisionInv, [Next]_vars, NEW c \in Claims, Delete(c)
  PROVE  TablesOK' /\ \A d \in Claims : ClaimInv(d)'
  <1>t. CreatorInv(c) /\ (late[c] \in Kinds => SameZone(c, late[c]))
    BY DEF ProvisionInv, CreatorInv
  <1>1. late' = late /\ phase[c] = "released"
    BY <1>t DEF Delete, StartDelete, DeleteCheck, DeleteVolume, iaas, CreatorInv, DeleteCalls
  <1>2. \/ Continue(c, "deleteCheck", NoJob) \/ Continue(c, "delete", NoJob)
        \/ Fail(c) \/ Deleted(c)
    BY DEF Delete, StartDelete, DeleteCheck, DeleteVolume
  <1>3. CASE Continue(c, "deleteCheck", NoJob) \/ Continue(c, "delete", NoJob)
    BY <1>1, <1>3, <1>t, ContinueInv, TypeValues DEF CreateCalls
  <1>4. CASE Fail(c)
    BY <1>1, <1>4, <1>t, FailInv
  <1>5. CASE Deleted(c)
    BY <1>1, <1>5, DeletedInv
  <1> QED
    BY <1>2, <1>3, <1>4, <1>5

LEMMA ExpandStepInv ==
  ASSUME ProvisionInv, [Next]_vars, NEW c \in Claims, Expand(c) \/ ExpandCallFails(c)
  PROVE  TablesOK' /\ \A d \in Claims : ClaimInv(d)'
  <1> DEFINE h == handle[c]
  <1>t. TypeOK /\ ExpanderInv(c) /\ AnswerInv(c) /\ ExpanderType
    BY TypeParts DEF ProvisionInv
  <1>n. None \in AskType /\ "idle" \in XCallType /\ "get" \in XCallType
        /\ "resize" \in XCallType /\ "waitResized" \in XCallType
    BY TypeValues DEF AskType
  <1>1. CASE StartExpand(c)
    <2>1. /\ xpc' = [xpc EXCEPT ![c] = "get"] /\ xjob' = [xjob EXCEPT ![c] = ask[c]]
          /\ ask[c] # None /\ phase[c] # "wanted"
          /\ UNCHANGED <<late, request, phase, handle, answered, capacity, ask, creator>>
      BY <1>1 DEF StartExpand, iaas, claims
    <2>2. ask[c] \in AskType /\ ask[c] \in Expansions /\ ask[c].bytes >= request[c].bytes
      BY <2>1, <1>t DEF ExpanderInv, TypeOK, AskType
    <2> QED
      BY <2>1, <2>2, <1>n, ExpandInv
  <1>2. ASSUME xpc[c] # "idle" PROVE phase[c] # "wanted" /\ xjob[c] \in Expansions
                                     /\ xjob[c].bytes >= request[c].bytes /\ xjob[c] \in AskType
    BY <1>2, <1>t DEF ExpanderInv, AskType
  <1>3. CASE ExpandFails(c) /\ xpc[c] # "idle" /\ late' = late
    <2>1. /\ xpc' = [xpc EXCEPT ![c] = "idle"] /\ xjob' = [xjob EXCEPT ![c] = None]
          /\ UNCHANGED <<late, request, phase, handle, answered, capacity, ask, creator>>
      BY <1>3 DEF ExpandFails, claims
    <2> QED
      BY <2>1, <1>2, <1>3, <1>n, ExpandInv
  <1>4. CASE ExpandGetVolume(c) /\ ExpandContinue(c, "resize")
    <2>1. /\ xpc' = [xpc EXCEPT ![c] = "resize"] /\ xpc[c] # "idle"
          /\ UNCHANGED <<late, request, phase, handle, answered, capacity, ask, creator, xjob>>
      BY <1>4 DEF ExpandGetVolume, ExpandContinue, claims, iaas
    <2>2. xjob' = [xjob EXCEPT ![c] = xjob[c]]
      BY <2>1, <1>t DEF ExpanderType
    <2> QED
      BY <2>1, <2>2, <1>2, <1>n, ExpandInv
  <1>5. CASE ResizeVolume(c) /\ ExpandContinue(c, "waitResized")
    <2> DEFINE size == RoundUpSize(xjob[c].bytes)
    <2>1. /\ xpc' = [xpc EXCEPT ![c] = "waitResized"] /\ xpc[c] = "resize"
          /\ UNCHANGED <<late, request, phase, handle, answered, capacity, ask, creator, xjob>>
      BY <1>5 DEF ResizeVolume, ExpandContinue, claims
    <2>2. xjob' = [xjob EXCEPT ![c] = xjob[c]]
      BY <2>1, <1>t DEF ExpanderType
    <2>3. vols' = [vols EXCEPT ![h] = [@ EXCEPT !.status = "RESIZING", !.newSize = size]]
      <3>1. xpc'[c] = "waitResized"
        BY <2>1, <1>t DEF ExpanderType
      <3>2. ExpandFails(c) => xpc'[c] = "idle"
        BY <1>t DEF ExpandFails, ExpanderType
      <3> QED
        BY <1>5, <3>1, <3>2 DEF ResizeVolume
    <2>4. h \in Ids /\ vols \in [Ids -> Volume]
      BY <2>1, <1>2, <1>t DEF AnswerInv, TypeOK
    <2>5. vols'[h].status = "RESIZING" /\ vols'[h].newSize = size
      BY <2>3, <2>4 DEF Volume
    <2> QED
      BY <2>1, <2>2, <2>5, <1>2, <1>n, ExpandInv
  <1>6. ASSUME NEW n \in Nat, Expanded(c, n), UNCHANGED iaas, xpc[c] # "idle",
               vols[h].size * Unit >= n, n >= request[c].bytes
        PROVE  TablesOK' /\ \A d \in Claims : ClaimInv(d)'
    <2>1. /\ xpc' = [xpc EXCEPT ![c] = "idle"] /\ xjob' = [xjob EXCEPT ![c] = None]
          /\ UNCHANGED <<late, request, phase, handle, answered, creator>>
          /\ \/ UNCHANGED <<capacity, ask>>
             \/ /\ capacity' = [capacity EXCEPT ![c] = n]
                /\ ask' = [ask EXCEPT ![c] = IF @ = xjob[c] THEN None ELSE @]
      BY <1>6 DEF Expanded, iaas
    <2>2. vols' = vols
      BY <1>6 DEF iaas
    <2> QED
      BY <2>1, <2>2, <1>2, <1>6, <1>n, ExpandInv
  <1>7. ASSUME xpc[c] # "idle"
        PROVE  /\ h \in Ids /\ vols[h].size \in Nat /\ vols[h].size * Unit \in Nat
               /\ vols[h].size * Unit >= request[c].bytes
               /\ request[c].bytes \in Nat /\ xjob[c].bytes \in Nat
    <2>1. /\ h \in Ids /\ vols[h].size * Unit >= capacity[c] /\ capacity[c] >= request[c].bytes
          /\ capacity[c] \in Nat
      BY <1>2, <1>7, <1>t DEF AnswerInv, TypeOK
    <2>2. vols[h].size \in Nat /\ request[c].bytes \in Nat /\ xjob[c].bytes \in Nat
      BY <2>1, <1>2, <1>7, <1>t, VolumeFields, RequestType, ExpansionType DEF TypeOK
    <2>3. vols[h].size * Unit \in Nat
      BY <2>2, ProvisionAssumption
    <2> QED
      BY <2>1, <2>2, <2>3
  <1>8. CASE ExpandGetVolume(c) /\ Expanded(c, vols[h].size * Unit)
    <2>1. xpc[c] # "idle" /\ UNCHANGED iaas
      BY <1>8 DEF ExpandGetVolume
    <2>2. vols[h].size * Unit >= vols[h].size * Unit
      BY <2>1, <1>7
    <2> QED
      BY <2>1, <2>2, <1>6, <1>7, <1>8
  <1>9. CASE WaitResized(c) /\ vols[h].status \in Settled /\ Expanded(c, xjob[c].bytes)
    <2>1. xpc[c] = "waitResized" /\ UNCHANGED iaas
      BY <1>9 DEF WaitResized
    <2> DEFINE n == RoundUpSize(xjob[c].bytes)
    <2>2. vols[h].size >= n
      BY <2>1, <1>9, <1>t DEF ExpanderInv
    <2>3. n \in Nat /\ n * Unit >= xjob[c].bytes
      BY <2>1, <1>7, RoundUpHolds
    <2> HIDE DEF n
    <2>4. n * Unit <= vols[h].size * Unit
      BY <2>1, <2>2, <2>3, <1>7, UnitMonotonic
    <2>5. n * Unit \in Nat
      BY <2>3, ProvisionAssumption
    <2>6. vols[h].size * Unit >= xjob[c].bytes
      BY <2>1, <2>3, <2>4, <2>5, <1>7
    <2> QED
      BY <2>1, <2>6, <1>2, <1>6, <1>7, <1>9
  <1>10. CASE ExpandGetVolume(c)
    <2>1. late' = late /\ xpc[c] # "idle"
      BY <1>10 DEF ExpandGetVolume, iaas
    <2>2. \/ ExpandFails(c) \/ ExpandContinue(c, "resize") \/ Expanded(c, vols[h].size * Unit)
      BY <1>10 DEF ExpandGetVolume
    <2> QED
      BY <2>1, <2>2, <1>3, <1>4, <1>8, <1>10
  <1>11. CASE ResizeVolume(c)
    <2>1. late' = late /\ xpc[c] # "idle"
      BY <1>11 DEF ResizeVolume
    <2>2. ExpandFails(c) \/ ExpandContinue(c, "waitResized")
      BY <1>11 DEF ResizeVolume
    <2> QED
      BY <2>1, <2>2, <1>3, <1>5, <1>11
  <1>12. CASE WaitResized(c)
    <2>1. late' = late /\ xpc[c] # "idle"
      BY <1>12 DEF WaitResized, iaas
    <2>2. ExpandFails(c) \/ (vols[h].status \in Settled /\ Expanded(c, xjob[c].bytes))
      BY <1>12 DEF WaitResized
    <2> QED
      BY <2>1, <2>2, <1>3, <1>9, <1>12
  <1>13. CASE ExpandCallFails(c)
    BY <1>3, <1>13 DEF ExpandCallFails, iaas
  <1> QED
    BY <1>1, <1>10, <1>11, <1>12, <1>13 DEF Expand

\* Users let a claim go or ask for more; a late create call arrives.
LEMMA UserInv ==
  ASSUME ProvisionInv, [Next]_vars, NEW c \in Claims,
         Release(c) \/ (\E e \in Expansions : AskExpansion(c, e)) \/ LateCreate(c)
  PROVE  TablesOK' /\ \A d \in Claims : ClaimInv(d)'
  <1>t. /\ TypeOK /\ ClaimsType /\ CreatorType /\ ExpanderType /\ request' = request
        /\ CreatorInv(c) /\ ExpanderInv(c) /\ AnswerInv(c)
    BY TypeParts, RequestStays DEF ProvisionInv
  <1>1. CASE Release(c)
    <2>1. /\ phase[c] = "bound" /\ phase' = [phase EXCEPT ![c] = "released"]
          /\ UNCHANGED <<late, handle, answered, capacity, ask, pc, job, xpc, xjob>>
      BY <1>1 DEF Release, iaas, creator, expander
    <2>2. phase'[c] = "released" /\ phase' \in [Claims -> PhaseType]
      BY <2>1, <1>t DEF ClaimsType, PhaseType
    <2>3. TablesOK'
      BY <2>1, <2>2, <1>t DEF TablesOK, ClaimsType, CreatorType, ExpanderType
    <2>4. ASSUME NEW d \in Claims PROVE AnswerInv(d)' /\ ExpanderInv(d)'
      <3>1. AnswerSame(d) /\ ExpanderSame(d)
        BY <2>1, <2>2, <1>t DEF AnswerSame, ExpanderSame, Onward, ClaimsType
      <3> QED
        BY <3>1, AnswerFrame, ExpanderFrame
    <2>5. ASSUME NEW d \in Claims \ {c} PROVE CreatorInv(d)'
      <3>1. CreatorSame(d)
        BY <2>1, <2>5, <1>t DEF CreatorSame, ClaimsType
      <3> QED
        BY <3>1, CreatorFrame
    <2>6. CreatorInv(c)'
      <3>1. pc[c] \notin CreateCalls /\ pc[c] \notin DeleteCalls
        BY <2>1, <1>t DEF CreatorInv
      <3> QED
        BY <2>1, <3>1, <1>t DEF CreatorInv, SameZone, CreateCalls, DeleteCalls
    <2> QED
      BY <2>3, <2>4, <2>5, <2>6 DEF ClaimInv
  <1>2. ASSUME NEW e \in Expansions, AskExpansion(c, e)
        PROVE  TablesOK' /\ \A d \in Claims : ClaimInv(d)'
    <2>1. /\ phase[c] = "bound" /\ e.bytes > capacity[c] /\ ask' = [ask EXCEPT ![c] = e]
          /\ UNCHANGED <<late, phase, handle, answered, capacity, pc, job, xpc, xjob>>
      BY <1>2 DEF AskExpansion, iaas, creator, expander
    <2>2. ask'[c] = e /\ ask' \in [Claims -> AskType]
      BY <2>1, <1>t DEF ClaimsType, AskType
    <2>3. TablesOK'
      BY <2>1, <2>2, <1>t DEF TablesOK, ClaimsType, CreatorType, ExpanderType
    <2>4. ASSUME NEW d \in Claims PROVE CreatorInv(d)' /\ AnswerInv(d)'
      BY <2>1, CreatorFrame, AnswerFrame DEF CreatorSame, AnswerSame, Onward
    <2>5. ASSUME NEW d \in Claims \ {c} PROVE ExpanderInv(d)'
      <3>1. ExpanderSame(d)
        BY <2>1, <2>5, <1>t DEF ExpanderSame, Onward, ClaimsType
      <3> QED
        BY <3>1, ExpanderFrame
    <2>6. e.bytes >= request[c].bytes
      <3>1. capacity[c] >= request[c].bytes /\ capacity[c] \in Nat /\ request[c].bytes \in Nat
        BY <2>1, <1>t, RequestType DEF AnswerInv, TypeOK
      <3> QED
        BY <2>1, <3>1, ExpansionType
    <2>7. vols' = vols
      BY <1>2 DEF AskExpansion, iaas
    <2>8. ExpanderInv(c)'
      BY <2>1, <2>2, <2>6, <2>7, <1>t DEF ExpanderInv, RoundUpSize
    <2> QED
      BY <2>3, <2>4, <2>5, <2>8 DEF ClaimInv
  <1>3. CASE LateCreate(c)
    <2>1. /\ late' = [late EXCEPT ![c] = "done"]
          /\ UNCHANGED <<phase, handle, answered, capacity, ask, pc, job, xpc, xjob>>
      BY <1>3 DEF LateCreate, claims, creator, expander
    <2>2. late'[c] = "done" /\ \A d \in Claims \ {c} : late'[d] = late[d]
      BY <2>1, <1>t DEF TypeOK
    <2>3. TablesOK'
      BY <2>1, <1>t DEF TablesOK, ClaimsType, CreatorType, ExpanderType
    <2>4. ASSUME NEW d \in Claims PROVE AnswerInv(d)' /\ ExpanderInv(d)'
      BY <2>1, AnswerFrame, ExpanderFrame DEF AnswerSame, ExpanderSame, Onward
    <2>5. ASSUME NEW d \in Claims \ {c} PROVE CreatorInv(d)'
      BY <2>1, <2>2, <2>5, CreatorFrame DEF CreatorSame
    <2>6. CreatorInv(c)'
      <3>1. Continue(c, pc[c], job[c])
        BY <1>3, <2>1, <1>t DEF Continue, LateCreate, CreatorType
      <3>2. "done" \notin Kinds /\ pc[c] \in CallType /\ job[c] \in JobType
        BY <1>t DEF Kinds, CreatorType
      <3>3. ASSUME pc[c] = "waitCreated"
            PROVE  LET i == job[c].id IN
                   /\ i \in Ids /\ vols'[i].status \notin {"UNUSED", "GONE"} /\ vols'[i].name = c
                   /\ vols'[i].size >= RoundUpSize(request[c].bytes)
        <4> DEFINE i == job[c].id
        <4>1. i \in Ids /\ vols[i].status # "UNUSED" /\ vols[i].name = c
              /\ vols[i].size >= RoundUpSize(request[c].bytes)
              /\ vols[i].status # "GONE"
          BY <3>3, <1>t DEF CreatorInv, Exists
        <4>2. vols'[i] = vols[i]
          BY <1>3, <4>1, <1>t DEF LateCreate, ApiCreate, TypeOK
        <4> QED
          BY <4>1, <4>2
      <3> QED
        BY <2>2, <3>1, <3>2, <3>3, <1>t, ContinueInv DEF CreatorInv, ClaimInv
    <2> QED
      BY <2>3, <2>4, <2>5, <2>6 DEF ClaimInv
  <1> QED
    BY <1>1, <1>2, <1>3


LEMMA NextIaas ==
  ASSUME ProvisionInv, [Next]_vars
  PROVE  IaasType' /\ BudgetType'
  <1>t. TypeOK
    BY DEF ProvisionInv
  <1>1. vols' \in [Ids -> Volume]
    BY InvMoves
  <1>2. BudgetType'
    BY RequestStays, ProvisionAssumption, <1>t DEF TypeOK, BudgetType, Disturb
  <1>3. /\ late' \in [Claims -> Kinds \cup {"no", "done"}]
        /\ sourceState' \in [Sources -> {"CREATING", "AVAILABLE", "GONE"}]
    <2>1. ASSUME NEW c \in Claims, CreateVolume(c) \/ LateCreate(c)
          PROVE  /\ sourceState' = sourceState
                 /\ late' \in [Claims -> Kinds \cup {"no", "done"}]
      <3>1. job[c].kind \in Kinds
        BY <1>t DEF TypeOK
      <3> QED
        BY <2>1, <3>1, <1>t DEF CreateVolume, LateCreate, TypeOK
    <2>2. ASSUME NEW s \in Sources, SourceReady(s) \/ SourceDeleted(s)
          PROVE  /\ late' = late
                 /\ sourceState' \in [Sources -> {"CREATING", "AVAILABLE", "GONE"}]
      BY <2>2, <1>t DEF SourceReady, SourceDeleted, TypeOK
    <2>3. CASE UNCHANGED <<late, sourceState>>
      BY <2>3, <1>t DEF TypeOK
    <2>4. ASSUME NEW c \in Claims,
                 \/ Create(c) /\ ~CreateVolume(c)
                 \/ Delete(c) \/ Expand(c) \/ CallFails(c) \/ ExpandCallFails(c)
          PROVE  UNCHANGED <<late, sourceState>>
      BY <2>4 DEF Create, StartCreate, GetVolumesByName, GetSnapshot, GetBackup, GetSourceVolume,
                  WaitCreated, Delete, StartDelete, DeleteCheck, DeleteVolume, Expand, StartExpand,
                  ExpandGetVolume, ResizeVolume, WaitResized, CallFails, ExpandCallFails, iaas
    <2>5. CASE \/ \E c \in Claims : User(c) \/ Detach(c)
               \/ \E i \in Ids : CreateDone(i) \/ ResizeDone(i)
               \/ UNCHANGED vars
      <3>1. UNCHANGED <<late, sourceState>>
        BY <2>5 DEF User, Release, Attach, AskExpansion, Detach, CreateDone, ResizeDone, iaas, vars
      <3> QED
        BY <3>1, <2>3
    <2> QED
      BY <2>1, <2>2, <2>3, <2>4, <2>5, <1>t DEF Next, TypeOK
  <1> QED
    BY <1>1, <1>2, <1>3 DEF IaasType

\* Every step keeps the invariant.
LEMMA NextInv == ProvisionInv /\ [Next]_vars => ProvisionInv'
  <1> SUFFICES ASSUME ProvisionInv, [Next]_vars PROVE ProvisionInv'
    OBVIOUS
  <1>1. TablesOK' /\ \A c \in Claims : ClaimInv(c)'
    <2>1. ASSUME NEW c \in Claims, CallFails(c)
          PROVE  TablesOK' /\ \A d \in Claims : ClaimInv(d)'
      <3>1. late[c] \in Kinds => SameZone(c, late[c])
        BY DEF ProvisionInv, CreatorInv
      <3> QED
        BY <2>1, <3>1, FailInv DEF CallFails, iaas
    <2>2. CASE \/ \E c \in Claims : Attach(c) \/ Detach(c)
               \/ \E i \in Ids : CreateDone(i) \/ ResizeDone(i)
               \/ \E s \in Sources : SourceReady(s) \/ SourceDeleted(s)
               \/ UNCHANGED vars
      <3>1. UNCHANGED <<late, claims, creator, expander>>
        BY <2>2 DEF Attach, Detach, CreateDone, ResizeDone, SourceReady, SourceDeleted, vars, iaas
      <3> QED
        BY <3>1, OutsideInv
    <2> QED
      BY <2>1, <2>2, CreateInv, DeleteInv, ExpandStepInv, UserInv DEF Next, User
  <1>2. TypeOK'
    BY <1>1, NextIaas, TypeParts DEF TablesOK, TypeOK, IaasType, ClaimsType, CreatorType,
       ExpanderType, BudgetType, JobType, CallType, XCallType, PhaseType, AskType
  <1>3. \A i \in Ids : VolumeInv(i)'
    BY NextVolumes
  <1> QED
    BY <1>1, <1>2, <1>3 DEF ProvisionInv, ClaimInv, Ids

-----------------------------------------------------------------------------
\* Theorems.

\* Whatever fails, is lost or arrives late, between the calls of CreateVolume,
\* ControllerExpandVolume and DeleteVolume: the invariant of volumes and claims holds.
THEOREM ProvisionInvariant == Spec => []ProvisionInv
  BY InitInv, NextInv, PTL DEF Spec

\* CreateVolume never answers two volumes for one name.
THEOREM HandlesStable == Spec => []StableHandle
  <1>1. ProvisionInv => StableHandle
    <2> SUFFICES ASSUME ProvisionInv, NEW c \in Claims
                 PROVE  Cardinality(answered[c]) <= 1
      BY DEF StableHandle
    <2>1. CASE answered[c] = {}
      BY <2>1, FS_EmptySet
    <2>2. ASSUME NEW i \in answered[c] PROVE Cardinality(answered[c]) <= 1
      <3>1. answered[c] = {i}
        BY <2>2 DEF ProvisionInv, AnswerInv
      <3> QED
        BY <3>1, FS_Singleton
    <2> QED
      BY <2>1, <2>2
  <1> QED
    BY <1>1, ProvisionInvariant, PTL

\* The volume of a bound claim is there under its name, usable, and holds the bytes that
\* CreateVolume and ControllerExpandVolume answered and the claim asked for.
THEOREM CapacityIsReal == Spec => []CapacityReal
  <1>1. ProvisionInv => CapacityReal
    <2> SUFFICES ASSUME ProvisionInv, NEW c \in Claims, phase[c] = "bound"
                 PROVE  LET v == vols[handle[c]] IN
                        /\ v.name = c /\ Exists(handle[c])
                        /\ v.size * Unit >= capacity[c] /\ capacity[c] >= request[c].bytes
                        /\ v.status # "CREATING" /\ v.status # "ERROR"
      BY DEF CapacityReal
    <2>1. AnswerInv(c)
      BY DEF ProvisionInv
    <2> QED
      BY <2>1 DEF AnswerInv, Exists
  <1> QED
    BY <1>1, ProvisionInvariant, PTL

\* CreateVolume from a snapshot, a backup or a volume uses the source the claim names, with the
\* call for its kind, and in its zone where it has to.
THEOREM SourceIsRight == Spec => []RightSource
  <1>1. ProvisionInv => RightSource
    BY DEF ProvisionInv, VolumeInv, RightSource, Exists
  <1> QED
    BY <1>1, ProvisionInvariant, PTL

\* The handler that is about to delete a volume has seen it detached, and nobody attaches the
\* volume of a released claim.
DetachedInv == \A c \in Claims : pc[c] = "delete" => ~vols[handle[c]].attached

\* How a handler comes to delete.
LEMMA DeleteCall ==
  ASSUME ProvisionInv, [Next]_vars, NEW c \in Claims, pc'[c] = "delete"
  PROVE  handle'[c] = handle[c] /\ (pc[c] = "delete" \/ (vols' = vols /\ ~vols[handle[c]].attached))
  <1>t. /\ pc \in [Claims -> CallType] /\ handle \in [Claims -> Ids \cup {None}]
    BY TypeParts DEF ProvisionInv, CreatorType, ClaimsType
  <1>1. ASSUME NEW d \in Claims, NEW call, call # "delete", pc' = [pc EXCEPT ![d] = call],
               \A e \in Claims \ {d} : handle'[e] = handle[e]
        PROVE  handle'[c] = handle[c] /\ pc[c] = "delete"
    BY <1>1, <1>t
  <1>2. ASSUME NEW d \in Claims, Create(d)
        PROVE  handle'[c] = handle[c] /\ pc[c] = "delete"
    <2>1. FirstRead(request[d].from) # "delete"
      BY DEF FirstRead
    <2>2. /\ \E call : call # "delete" /\ pc' = [pc EXCEPT ![d] = call]
          /\ \A e \in Claims \ {d} : handle'[e] = handle[e]
      <3> USE DEF Continue, Fail, Provisioned, claims
      <3>1. CASE StartCreate(d)
        BY <3>1 DEF StartCreate
      <3>2. CASE GetVolumesByName(d)
        BY <3>2, <2>1, <1>t DEF GetVolumesByName
      <3>3. CASE GetSnapshot(d)
        BY <3>3 DEF GetSnapshot
      <3>4. CASE GetBackup(d) \/ GetSourceVolume(d)
        BY <3>4 DEF GetBackup, GetSourceVolume
      <3>5. CASE CreateVolume(d)
        BY <3>5 DEF CreateVolume
      <3>6. CASE WaitCreated(d)
        BY <3>6, <1>t DEF WaitCreated
      <3> QED
        BY <1>2, <3>1, <3>2, <3>3, <3>4, <3>5, <3>6 DEF Create
    <2> QED
      BY <2>2, <1>1
  <1>3. ASSUME NEW d \in Claims, Delete(d)
        PROVE  handle'[c] = handle[c] /\ (pc[c] = "delete" \/ (vols' = vols /\ ~vols[handle[c]].attached))
    <2>1. handle' = handle
      BY <1>3 DEF Delete, StartDelete, DeleteCheck, DeleteVolume, Deleted, Fail, Continue, claims
    <2>2. CASE DeleteCheck(d) /\ pc' = [pc EXCEPT ![d] = "delete"]
      <3>1. Exists(handle[d]) /\ ~vols[handle[d]].attached /\ vols' = vols
        BY <2>2, <1>t DEF DeleteCheck, Deleted, Fail, Continue, iaas
      <3> QED
        BY <2>1, <2>2, <3>1, <1>t
    <2>3. CASE ~(DeleteCheck(d) /\ pc' = [pc EXCEPT ![d] = "delete"])
      <3>1. \E call : call # "delete" /\ pc' = [pc EXCEPT ![d] = call]
        BY <1>3, <2>3 DEF Delete, StartDelete, DeleteCheck, DeleteVolume, Deleted, Fail, Continue
      <3> QED
        BY <2>1, <3>1, <1>1
    <2> QED
      BY <2>2, <2>3
  <1>4. ASSUME NEW d \in Claims, CallFails(d)
        PROVE  handle'[c] = handle[c] /\ pc[c] = "delete"
    BY <1>4, <1>1 DEF CallFails, Fail, Continue, claims
  <1>5. CASE \/ \E d \in Claims : Expand(d) \/ ExpandCallFails(d) \/ User(d) \/ Detach(d) \/ LateCreate(d)
             \/ \E i \in Ids : CreateDone(i) \/ ResizeDone(i)
             \/ \E s \in Sources : SourceReady(s) \/ SourceDeleted(s)
             \/ UNCHANGED vars
    <2>1. pc' = pc /\ handle' = handle
      BY <1>5 DEF Expand, StartExpand, ExpandGetVolume, ResizeVolume, WaitResized, Expanded, ExpandFails,
                  ExpandContinue, ExpandCallFails, User, Release, Attach, AskExpansion, Detach, LateCreate,
                  CreateDone, ResizeDone, SourceReady, SourceDeleted, claims, creator, vars
    <2> QED
      BY <2>1
  <1> QED
    BY <1>2, <1>3, <1>4, <1>5 DEF Next

LEMMA DetachedStep ==
  ASSUME ProvisionInv, DetachedInv, [Next]_vars
  PROVE  DetachedInv'
  <1> SUFFICES ASSUME NEW c \in Claims, pc'[c] = "delete" PROVE ~vols'[handle'[c]].attached
    BY DEF DetachedInv
  <1>1. handle'[c] = handle[c] /\ (pc[c] = "delete" \/ (vols' = vols /\ ~vols[handle[c]].attached))
    BY DeleteCall
  <1>2. CASE pc[c] = "delete"
    <2>1. /\ phase[c] = "released" /\ handle[c] \in Ids /\ vols[handle[c]].name = c
          /\ vols[handle[c]].status # "UNUSED"
      BY <1>2 DEF ProvisionInv, CreatorInv, AnswerInv, DeleteCalls
    <2>2. ~vols[handle[c]].attached
      BY <1>2 DEF DetachedInv
    <2>3. \A d \in Claims : ~(phase[d] = "bound" /\ handle[d] = handle[c])
      BY <2>1 DEF ProvisionInv, AnswerInv
    <2>4. Moves(handle[c])
      BY <2>1, InvMoves
    <2> QED
      BY <1>1, <2>1, <2>2, <2>3, <2>4 DEF Moves, Creates, Settles, Resizes, Deletes, KeepsName
  <1> QED
    BY <1>1, <1>2

\* DeleteVolume removes only the volume of a released claim, by its handle, and only detached:
\* what diskIsUsed saw is still so when the volume is deleted.
THEOREM DeletionSafe == Spec => DeletesOnlyReleased
  <1>1. ProvisionInv /\ DetachedInv /\ [Next]_vars =>
          [\A i \in Ids :
             vols[i].status # "GONE" /\ vols'[i].status = "GONE" =>
                /\ ~vols[i].attached
                /\ phase[vols[i].name] = "released" /\ handle[vols[i].name] = i]_vars
    <2> SUFFICES ASSUME ProvisionInv, DetachedInv, [Next]_vars, NEW i \in Ids,
                        vols[i].status # "GONE", vols'[i].status = "GONE"
                 PROVE  /\ ~vols[i].attached
                        /\ phase[vols[i].name] = "released" /\ handle[vols[i].name] = i
      OBVIOUS
    <2>1. vols' \in [Ids -> Volume] /\ Moves(i)
      BY InvMoves
    <2>2. vols[i].status # "UNUSED"
      BY <2>1 DEF Moves, Settles, Settled, Resizes, Deletes, Creates
    <2>3. phase[vols[i].name] = "released" /\ handle[vols[i].name] = i
      BY <2>1, <2>2, VolumeFrame
    <2>4. \E c \in Claims : pc[c] = "delete" /\ handle[c] = i
      BY <2>1 DEF Moves, Settles, Settled, Resizes, Deletes, Creates
    <2> QED
      BY <2>3, <2>4 DEF DetachedInv
  <1>2. Init => DetachedInv
    BY DEF Init, DetachedInv
  <1>3. ProvisionInv /\ DetachedInv /\ [Next]_vars => DetachedInv'
    <2>1. ASSUME ProvisionInv, DetachedInv, [Next]_vars PROVE DetachedInv'
      BY <2>1, DetachedStep
    <2> QED
      BY <2>1
  <1> QED
    BY <1>1, <1>2, <1>3, ProvisionInvariant, PTL DEF Spec, DeletesOnlyReleased


=============================================================================
