-------------------------- MODULE SnapshotController --------------------------
(***************************************************************************)
(* CreateSnapshot and DeleteSnapshot of the CSI controller server          *)
(* (pkg/csi/blockstorage/controllerserver.go) over the snapshot and backup *)
(* calls of pkg/stackit/client/iaas.go.                                    *)
(*                                                                         *)
(* A request of type "backup" takes a snapshot, backs it up and deletes the *)
(* snapshot.  The driver remembers nothing between requests: each repeated *)
(* request lists backups and snapshots by name to find out how far an      *)
(* earlier one came.  Every IaaS call is a step.  External are the sidecar,*)
(* which repeats a request that failed, one at a time per snapshot, and the*)
(* IaaS API: snapshots and backups become available, or fail, some time    *)
(* after the call that creates them, a backup needs an available snapshot, *)
(* and a create call that timed out may still take effect at any time.     *)
(***************************************************************************)
EXTENDS Integers, FiniteSets

CONSTANTS
    Names,             \* the VolumeSnapshots, by the name the sidecar gives them
    None,
    MaxObjects,        \* snapshots, and backups, of one name that may ever be created
    MaxDisturbances    \* bound on failed calls, lost answers, failures and deletions

ASSUME SnapshotAssumption ==
    /\ MaxObjects \in Nat /\ MaxDisturbances \in Nat
    /\ None \notin Nat

VARIABLES
    kind,       \* kind[n]: the type parameter of the request
    snaps,      \* snaps[n][i]: the i-th snapshot of that name
    backups,    \* backups[n][i]: the i-th backup of that name
    phase,      \* phase[n]: where the VolumeSnapshot stands
    handle,     \* handle[n]: the id the sidecar was told, or None
    answered,   \* answered[n]: every id CreateSnapshot answered
    pc,         \* pc[n]: next call of the handler working on n
    job,        \* job[n]: the snapshot and the backup it holds, 0 for none
    budget      \* disturbances left

objects == <<snaps, backups>>
content == <<kind, phase, handle, answered>>
vars    == <<objects, content, pc, job, budget>>

Ids       == 1 .. MaxObjects
ObjectIds == Ids \cup {0}

\* What is "SENT" has been asked for in a call that timed out and may appear yet.
Statuses == {"UNUSED", "SENT", "CREATING", "AVAILABLE", "ERROR", "GONE"}

\* `volume` tells the volume of the request from any other one; `of` is the snapshot
\* that a backup was made from; what is `late` was asked for in a call that timed out.
Object == [status : Statuses, volume : {"own", "other"}, of : ObjectIds, late : BOOLEAN]
Unused == [status |-> "UNUSED", volume |-> "own", of |-> 0, late |-> FALSE]
NoJob  == [snap |-> 0, backup |-> 0]

CreateCalls == {"listBackups", "listSnapshots", "createSnapshot", "waitSnapshot",
                "createBackup", "waitBackup", "getBackup", "dropSnapshot"}
DeleteCalls == {"checkBackup", "deleteBackup", "deleteSnapshot"}

TypeOK ==
    /\ kind \in [Names -> {"snapshot", "backup"}]
    /\ snaps \in [Names -> [Ids -> Object]]
    /\ backups \in [Names -> [Ids -> Object]]
    /\ phase \in [Names -> {"wanted", "ready", "released", "deleted"}]
    /\ handle \in [Names -> Ids \cup {None}]
    /\ answered \in [Names -> SUBSET Ids]
    /\ pc \in [Names -> CreateCalls \cup DeleteCalls \cup {"idle"}]
    /\ job \in [Names -> [snap : ObjectIds, backup : ObjectIds]]
    /\ budget \in 0 .. MaxDisturbances

\* At the start a snapshot or a backup of another volume may have the name already.
Foreign ==
    {[i \in Ids |-> Unused],
     [i \in Ids |-> IF i = 1
                    THEN [status |-> "AVAILABLE", volume |-> "other", of |-> 1, late |-> FALSE]
                    ELSE Unused]}

Init ==
    /\ kind \in [Names -> {"snapshot", "backup"}]
    /\ snaps \in [Names -> Foreign]
    /\ backups \in [Names -> Foreign]
    /\ phase = [n \in Names |-> "wanted"]
    /\ handle = [n \in Names |-> None]
    /\ answered = [n \in Names |-> {}]
    /\ pc = [n \in Names |-> "idle"]
    /\ job = [n \in Names |-> NoJob]
    /\ budget = MaxDisturbances

-----------------------------------------------------------------------------

Exists(o) == o.status \notin {"UNUSED", "SENT", "GONE"}

\* ListSnapshots and ListBackups, filtered by name.
Listed(objs, n) == {i \in Ids : Exists(objs[n][i])}

Disturb == budget > 0 /\ budget' = budget - 1

\* The handler of n makes `next` its next call, holding j.
Continue(n, next, j) ==
    /\ pc' = [pc EXCEPT ![n] = next]
    /\ job' = [job EXCEPT ![n] = j]
    /\ UNCHANGED content

\* The handler answers an error, or its answer is lost; the sidecar asks again.
Fail(n) == Continue(n, "idle", NoJob)

\* A call fails without effect, or the request times out.  The reading of the backup
\* in DeleteSnapshot is the exception: its error is not looked at.
CallFails(n) ==
    /\ pc[n] \notin {"idle", "checkBackup"}
    /\ Disturb
    /\ Fail(n)
    /\ UNCHANGED objects

\* The answer to CreateSnapshot: object i is ready.
Ready(n, i) ==
    /\ answered' = [answered EXCEPT ![n] = @ \cup {i}]
    /\ pc' = [pc EXCEPT ![n] = "idle"]
    /\ job' = [job EXCEPT ![n] = NoJob]
    /\ \/ /\ handle' = [handle EXCEPT ![n] = i]
          /\ phase' = [phase EXCEPT ![n] = "ready"]
          /\ UNCHANGED budget
       \/ Disturb /\ UNCHANGED <<handle, phase>>
    /\ UNCHANGED kind

-----------------------------------------------------------------------------
\* CreateSnapshot.

StartCreate(n) ==
    /\ pc[n] = "idle" /\ phase[n] = "wanted"
    /\ Continue(n, IF kind[n] = "backup" THEN "listBackups" ELSE "listSnapshots", NoJob)
    /\ UNCHANGED <<objects, budget>>

\* Mutant: a backup that exists is not looked for.
ListNoBackups(n) ==
    /\ pc[n] = "listBackups"
    /\ Continue(n, "listSnapshots", NoJob)
    /\ UNCHANGED <<objects, budget>>

\* A backup of the name and the volume takes the place of everything up to its
\* creation.
ListBackups(n) ==
    /\ pc[n] = "listBackups"
    /\ \/ Listed(backups, n) = {} /\ Continue(n, "listSnapshots", NoJob)
       \/ \E i \in Ids :
             /\ Listed(backups, n) = {i}
             /\ IF backups[n][i].volume = "own"
                THEN Continue(n, "waitBackup", [snap |-> 0, backup |-> i])
                ELSE Fail(n)
       \/ Cardinality(Listed(backups, n)) > 1 /\ Fail(n)
    /\ UNCHANGED <<objects, budget>>

\* createSnapshot, first half: a snapshot of the name and the volume is used again.
ListSnapshots(n) ==
    /\ pc[n] = "listSnapshots"
    /\ \/ Listed(snaps, n) = {} /\ Continue(n, "createSnapshot", NoJob)
       \/ \E i \in Ids :
             /\ Listed(snaps, n) = {i}
             /\ IF snaps[n][i].volume = "own"
                THEN Continue(n, "waitSnapshot", [snap |-> i, backup |-> 0])
                ELSE Fail(n)
       \/ Cardinality(Listed(snaps, n)) > 1 /\ Fail(n)
    /\ UNCHANGED <<objects, budget>>

\* The id that the API gives to the next object of the name.
NextId(objs, n, i) ==
    /\ objs[n][i].status = "UNUSED"
    /\ \A j \in Ids : objs[n][j].status = "UNUSED" => i <= j

Exhausted(objs, n) == \A i \in Ids : objs[n][i].status # "UNUSED"

\* The API begins to create what the call asks for; or the call times out and the object
\* appears later, if ever.  Bound: the last id is left to a call that does not time out.
Created(of) == [status |-> "CREATING", volume |-> "own", of |-> of, late |-> FALSE]
Sent(of)    == [status |-> "SENT", volume |-> "own", of |-> of, late |-> TRUE]

\* createSnapshot, second half.
CreateSnapshot(n) ==
    /\ pc[n] = "createSnapshot"
    /\ \/ \E i \in Ids :
             /\ NextId(snaps, n, i)
             /\ \/ /\ snaps' = [snaps EXCEPT ![n][i] = Created(0)]
                   /\ \/ /\ Continue(n, "waitSnapshot", [snap |-> i, backup |-> 0])
                         /\ UNCHANGED budget
                      \/ Fail(n) /\ Disturb
                \/ /\ i < MaxObjects
                   /\ snaps' = [snaps EXCEPT ![n][i] = Sent(0)]
                   /\ Fail(n) /\ Disturb
       \/ Exhausted(snaps, n) /\ Fail(n) /\ UNCHANGED <<snaps, budget>>
    /\ UNCHANGED backups

\* WaitSnapshotReady; a snapshot in an error state is waited for until time is up.
WaitSnapshotReady(n) ==
    /\ pc[n] = "waitSnapshot"
    /\ CASE snaps[n][job[n].snap].status # "AVAILABLE" -> Fail(n) /\ UNCHANGED budget
         [] snaps[n][job[n].snap].status = "AVAILABLE" /\ kind[n] = "snapshot" ->
              Ready(n, job[n].snap)
         [] OTHER -> Continue(n, "createBackup", job[n]) /\ UNCHANGED budget
    /\ UNCHANGED objects

\* createBackup.  The backup is made from the snapshot.
CreateBackup(n) ==
    /\ pc[n] = "createBackup"
    /\ LET s == job[n].snap IN
       \/ \E i \in Ids :
             /\ NextId(backups, n, i)
             /\ snaps[n][s].status = "AVAILABLE"
             /\ \/ /\ backups' = [backups EXCEPT ![n][i] = Created(s)]
                   /\ \/ /\ Continue(n, "waitBackup", [snap |-> s, backup |-> i])
                         /\ UNCHANGED budget
                      \/ Fail(n) /\ Disturb
                \/ /\ i < MaxObjects
                   /\ backups' = [backups EXCEPT ![n][i] = Sent(s)]
                   /\ Fail(n) /\ Disturb
       \/ /\ Exhausted(backups, n) \/ snaps[n][s].status # "AVAILABLE"
          /\ Fail(n)
          /\ UNCHANGED <<backups, budget>>
    /\ UNCHANGED snaps

\* Mutant: the snapshot is deleted without waiting for the backup.
WaitBackupNever(n) ==
    /\ pc[n] = "waitBackup"
    /\ Continue(n, "getBackup", job[n])
    /\ UNCHANGED <<objects, budget>>

\* WaitBackupReady.
WaitBackupReady(n) ==
    /\ pc[n] = "waitBackup"
    /\ IF backups[n][job[n].backup].status = "AVAILABLE"
       THEN Continue(n, "getBackup", job[n])
       ELSE Fail(n)
    /\ UNCHANGED <<objects, budget>>

\* GetBackup tells which snapshot the backup was made from.
GetBackup(n) ==
    /\ pc[n] = "getBackup"
    /\ LET b == job[n].backup IN
       IF Exists(backups[n][b])
       THEN Continue(n, "dropSnapshot", [snap |-> backups[n][b].of, backup |-> b])
       ELSE Fail(n)
    /\ UNCHANGED <<objects, budget>>

\* Mutant: a snapshot that is gone is an error.
DropSnapshotStrict(n) ==
    /\ pc[n] = "dropSnapshot"
    /\ LET s == job[n].snap IN
       IF Exists(snaps[n][s])
       THEN /\ snaps' = [snaps EXCEPT ![n][s] = [@ EXCEPT !.status = "GONE"]]
            /\ Ready(n, job[n].backup) \/ (Fail(n) /\ Disturb)
       ELSE Fail(n) /\ UNCHANGED <<snaps, budget>>
    /\ UNCHANGED backups

\* Mutant: the snapshot is left behind.
DropNoSnapshot(n) ==
    /\ pc[n] = "dropSnapshot"
    /\ Ready(n, job[n].backup)
    /\ UNCHANGED objects

\* The snapshot is deleted; one that is gone already will do.
DropSnapshot(n) ==
    /\ pc[n] = "dropSnapshot"
    /\ LET s == job[n].snap IN
       IF Exists(snaps[n][s])
       THEN /\ snaps' = [snaps EXCEPT ![n][s] = [@ EXCEPT !.status = "GONE"]]
            /\ Ready(n, job[n].backup) \/ (Fail(n) /\ Disturb)
       ELSE Ready(n, job[n].backup) /\ UNCHANGED snaps
    /\ UNCHANGED backups

-----------------------------------------------------------------------------
\* DeleteSnapshot.  The handle alone does not tell a snapshot from a backup.

StartDelete(n) ==
    /\ pc[n] = "idle" /\ phase[n] = "released"
    /\ Continue(n, "checkBackup", NoJob)
    /\ UNCHANGED <<objects, budget>>

\* Only a backup that could be read is deleted: any error counts as "no backup".
CheckBackup(n) ==
    /\ pc[n] = "checkBackup"
    /\ \/ /\ IF kind[n] = "backup" /\ Exists(backups[n][handle[n]])
             THEN Continue(n, "deleteBackup", NoJob)
             ELSE Continue(n, "deleteSnapshot", NoJob)
          /\ UNCHANGED budget
       \/ Disturb /\ Continue(n, "deleteSnapshot", NoJob)
    /\ UNCHANGED objects

DeleteBackup(n) ==
    /\ pc[n] = "deleteBackup"
    /\ IF Exists(backups[n][handle[n]])
       THEN /\ backups' = [backups EXCEPT ![n][handle[n]] = [@ EXCEPT !.status = "GONE"]]
            /\ \/ Continue(n, "deleteSnapshot", NoJob) /\ UNCHANGED budget
               \/ Fail(n) /\ Disturb
       ELSE Fail(n) /\ UNCHANGED <<backups, budget>>
    /\ UNCHANGED snaps

Deleted(n) ==
    /\ phase' = [phase EXCEPT ![n] = "deleted"]
    /\ pc' = [pc EXCEPT ![n] = "idle"]
    /\ UNCHANGED <<kind, handle, answered, job>>

\* No snapshot has the id of a backup, and "not found" is success.
DeleteSnapshot(n) ==
    /\ pc[n] = "deleteSnapshot"
    /\ IF kind[n] = "snapshot" /\ Exists(snaps[n][handle[n]])
       THEN /\ snaps' = [snaps EXCEPT ![n][handle[n]] = [@ EXCEPT !.status = "GONE"]]
            /\ (Deleted(n) /\ UNCHANGED budget) \/ (Fail(n) /\ Disturb)
       ELSE Deleted(n) /\ UNCHANGED <<snaps, budget>>
    /\ UNCHANGED backups

-----------------------------------------------------------------------------
\* The API finishes what it began; users let snapshots go.

Settle(objs, n, i) ==
    /\ objs[n][i].status = "CREATING"
    /\ \/ objs' = [objs EXCEPT ![n][i] = [@ EXCEPT !.status = "AVAILABLE"]] /\ UNCHANGED budget
       \/ objs' = [objs EXCEPT ![n][i] = [@ EXCEPT !.status = "ERROR"]] /\ Disturb
    /\ UNCHANGED <<content, pc, job>>

SnapshotDone(n, i) == Settle(snaps, n, i) /\ UNCHANGED backups
BackupDone(n, i)   == Settle(backups, n, i) /\ UNCHANGED snaps

\* A call that timed out takes effect, a backup only while its snapshot can be backed up.
Appear(objs, n, i) ==
    /\ objs[n][i].status = "SENT"
    /\ objs' = [objs EXCEPT ![n][i] = [@ EXCEPT !.status = "CREATING"]]
    /\ UNCHANGED <<content, pc, job, budget>>

SnapshotAppears(n, i) == Appear(snaps, n, i) /\ UNCHANGED backups
BackupAppears(n, i) ==
    /\ Appear(backups, n, i)
    /\ snaps[n][backups[n][i].of].status = "AVAILABLE"
    /\ UNCHANGED snaps

Release(n) ==
    /\ Disturb
    /\ phase[n] = "ready"
    /\ phase' = [phase EXCEPT ![n] = "released"]
    /\ UNCHANGED <<objects, kind, handle, answered, pc, job>>

-----------------------------------------------------------------------------

Create(n) ==
    \/ StartCreate(n) \/ ListBackups(n) \/ ListSnapshots(n) \/ CreateSnapshot(n)
    \/ WaitSnapshotReady(n) \/ CreateBackup(n) \/ WaitBackupReady(n) \/ GetBackup(n)
    \/ DropSnapshot(n)

Delete(n) == StartDelete(n) \/ CheckBackup(n) \/ DeleteBackup(n) \/ DeleteSnapshot(n)

Next ==
    \E n \in Names :
       \/ Create(n) \/ Delete(n) \/ CallFails(n) \/ Release(n)
       \/ \E i \in Ids : \/ SnapshotDone(n, i) \/ BackupDone(n, i)
                        \/ SnapshotAppears(n, i) \/ BackupAppears(n, i)

Spec == Init /\ [][Next]_vars

\* The sidecar repeats what failed, handlers make their next call, the API finishes what it
\* began; a call that timed out need not take effect.
Fairness ==
    \A n \in Names :
       /\ WF_vars(Create(n)) /\ WF_vars(Delete(n))
       /\ \A i \in Ids : WF_vars(SnapshotDone(n, i)) /\ WF_vars(BackupDone(n, i))

FairSpec == Spec /\ Fairness

-----------------------------------------------------------------------------
\* Properties.

\* A snapshot that CreateSnapshot reported ready is an available snapshot, or backup,
\* of the requested volume, and stays so until it is released; a backup has left no
\* snapshot of its name behind, wherever earlier requests broke off, but one that a call
\* that timed out made and that it was not made from.
ReadyIsReady ==
    \A n \in Names : phase[n] = "ready" =>
       LET objs == IF kind[n] = "backup" THEN backups ELSE snaps IN
       /\ objs[n][handle[n]].status = "AVAILABLE" /\ objs[n][handle[n]].volume = "own"
       /\ kind[n] = "backup" =>
             \A i \in Listed(snaps, n) : snaps[n][i].late /\ i # backups[n][handle[n]].of

\* What there is of a name, but for what calls that timed out made.
InTime(objs, n) == {i \in Listed(objs, n) : ~objs[n][i].late}

\* Repeating CreateSnapshot never takes a second snapshot or backup of the name, unless
\* the call for the first one timed out and took effect later; and even then it never
\* answers with two different ids.
OneOfEach ==
    \A n \in Names :
       /\ Cardinality(InTime(snaps, n)) <= 1 /\ Cardinality(InTime(backups, n)) <= 1
       /\ Cardinality(answered[n]) <= 1

\* What a step may do away with: a snapshot that is released or has an available backup,
\* a backup that is released, both of the own volume.
LosesRightly(n, i) ==
    /\ Exists(snaps[n][i]) /\ ~Exists(snaps'[n][i]) =>
          /\ snaps[n][i].volume = "own"
          /\ \/ phase[n] = "released"
             \/ \E b \in Ids : /\ backups[n][b].of = i /\ backups[n][b].volume = "own"
                              /\ backups[n][b].status = "AVAILABLE"
    /\ Exists(backups[n][i]) /\ ~Exists(backups'[n][i]) =>
          backups[n][i].volume = "own" /\ phase[n] = "released"

\* The data is always somewhere: the snapshot behind a backup goes only once the
\* backup is available, and nothing of another volume is ever deleted.
NothingLost == [][\A n \in Names, i \in Ids : LosesRightly(n, i)]_vars

\* DeleteSnapshot deletes what the handle names: "If volumeSnapshot object was linked
\* to a cinder backup, delete the backup."
DeletedIsGone ==
    \A n \in Names : phase[n] = "deleted" =>
       ~Exists((IF kind[n] = "backup" THEN backups ELSE snaps)[n][handle[n]])

\* What keeps a snapshot from becoming ready for good: the name is taken, the API failed to
\* make the snapshot or the backup, or a call that timed out has made a second one, which
\* CreateSnapshot takes for an error.
CannotBeReady(n) ==
    \/ \E i \in Ids : snaps[n][i].status = "ERROR" \/ backups[n][i].status = "ERROR"
    \/ \E i \in Listed(snaps, n) : snaps[n][i].volume = "other"
    \/ kind[n] = "backup" /\ \E i \in Listed(backups, n) : backups[n][i].volume = "other"
    \/ Cardinality(Listed(IF kind[n] = "backup" /\ Listed(backups, n) # {}
                          THEN backups ELSE snaps, n)) > 1

\* Every VolumeSnapshot becomes ready in the end, however often the request broke off
\* half-way, unless the API cannot make it ready; and the deletion of one that is
\* released is answered in the end.
SnapshotsServed ==
    \A n \in Names : /\ <>[](phase[n] = "wanted" => CannotBeReady(n))
                     /\ <>[](phase[n] # "released")

==============================================================================
