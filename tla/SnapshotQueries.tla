---------------------------- MODULE SnapshotQueries ----------------------------
(***************************************************************************)
(* ListSnapshots of the CSI controller server                              *)
(* (pkg/csi/blockstorage/controllerserver.go) beside the handlers of       *)
(* SnapshotController.  A client (external) asks for everything that is    *)
(* ready, perhaps of one volume, or for one handle.  Either takes two calls*)
(* of the IaaS API, snapshots before backups, while CreateSnapshot turns   *)
(* snapshots into backups and DeleteSnapshot removes both.                 *)
(***************************************************************************)
EXTENDS SnapshotController

VARIABLES
    asking,   \* next call of the query, "idle", or "done" when it has answered
    about,    \* the names it asks about: all, or the one whose handle is given
    volumes,  \* the volumes its filter lets through
    entries,  \* the entries so far
    steady    \* the names that have been ready ever since it was asked

query     == <<asking, about, volumes, entries, steady>>
queryVars == <<vars, query>>

-----------------------------------------------------------------------------

Ask(call, ns, vs) ==
    /\ asking \in {"idle", "done"}
    /\ asking' = call
    /\ about' = ns
    /\ volumes' = vs
    /\ entries' = {}
    /\ steady' = {n \in Names : phase[n] = "ready"}
    /\ UNCHANGED vars

AskAll == \E vs \in {{"own"}, {"own", "other"}} : Ask("listSnapshots", Names, vs)

\* By id, for any handle that CreateSnapshot has ever answered.
AskOne(n) == handle[n] # None /\ Ask("getSnapshot", {n}, {"own", "other"})

Found(type, n, i) == [type |-> type, name |-> n, id |-> i]

\* The filters Status and VolumeID.
Filtered(type, objs) ==
    {Found(type, p[1], p[2]) :
        p \in {p \in Names \X Ids :
                  objs[p[1]][p[2]].status = "AVAILABLE" /\ objs[p[1]][p[2]].volume \in volumes}}

Proceed(call, next, found) ==
    /\ asking = call
    /\ asking' = next
    /\ entries' = found
    /\ UNCHANGED <<vars, about, volumes, steady>>

QuerySnapshots == Proceed("listSnapshots", "listBackups", Filtered("snapshot", snaps))

\* Mutant: the backups take the place of the snapshots.
QueryBackupsInstead == Proceed("listBackups", "done", Filtered("backup", backups))

QueryBackups == Proceed("listBackups", "done", entries \cup Filtered("backup", backups))

\* Whatever has the id is called ready.  Only "not found" leads to the backups.
QuerySnapshot(n) ==
    /\ asking = "getSnapshot" /\ about = {n}
    /\ IF kind[n] = "snapshot" /\ Exists(snaps[n][handle[n]])
       THEN Proceed("getSnapshot", "done", {Found("snapshot", n, handle[n])})
       ELSE Proceed("getSnapshot", "getBackup", {})

QueryBackup(n) ==
    /\ asking = "getBackup" /\ about = {n}
    /\ Proceed("getBackup", "done",
               IF kind[n] = "backup" /\ Exists(backups[n][handle[n]])
               THEN {Found("backup", n, handle[n])} ELSE {})

\* Any other error ends the query without an answer.
QueryFails ==
    /\ Disturb
    /\ asking \notin {"idle", "done"}
    /\ asking' = "idle" /\ entries' = {}
    /\ UNCHANGED <<objects, content, pc, job, about, volumes, steady>>

-----------------------------------------------------------------------------

QueryInit ==
    /\ Init
    /\ asking = "idle" /\ about = {} /\ volumes = {} /\ entries = {} /\ steady = {}

\* A step of a handler; a name that is no longer ready leaves `steady`.
Handler ==
    /\ Next
    /\ steady' = {n \in steady : phase'[n] = "ready"}
    /\ UNCHANGED <<asking, about, volumes, entries>>

QueryNext ==
    \/ Handler
    \/ AskAll \/ QuerySnapshots \/ QueryBackups \/ QueryFails
    \/ \E n \in Names : AskOne(n) \/ QuerySnapshot(n) \/ QueryBackup(n)

\* Queries are asked or not; the handlers go on as in SnapshotController.
QuerySpec == QueryInit /\ [][QueryNext]_queryVars /\ Fairness

-----------------------------------------------------------------------------
\* Properties.

\* ListSnapshots misses nothing: what was ready when it was asked and still is when it
\* answers is in the answer under its handle, though its two calls see different states.
ListsWhatIsReady ==
    asking = "done" =>
       \A n \in steady \cap about : Found(kind[n], n, handle[n]) \in entries

\* ListSnapshots calls every entry ready to use.  It is: the object is available, or it
\* was the snapshot behind a backup that has become available, or its user has let it
\* go in the meantime.
ListedIsUsable ==
    \A e \in entries :
       \/ (IF e.type = "backup" THEN backups ELSE snaps)[e.name][e.id].status = "AVAILABLE"
       \/ /\ e.type = "snapshot"
          /\ \E b \in Ids : LET o == backups[e.name][b] IN
                o.of = e.id /\ o.volume = "own" /\ o.status = "AVAILABLE"
       \/ phase[e.name] \in {"released", "deleted"}

\* An answer of ListSnapshots, put together from several calls while CreateSnapshot and
\* DeleteSnapshot go on, is true in both directions: complete, and usable.
ListingTrue == ListsWhatIsReady /\ ListedIsUsable

==============================================================================
