------------------------------- MODULE Metadata -------------------------------
(***************************************************************************)
(* The metadata of the instance a node runs on: Get and its two sources of *)
(* pkg/stackit/metadata/metadata.go.                                       *)
(*                                                                         *)
(* Requests (NodeGetInfo) run concurrently and share the cache without a   *)
(* lock.  To read the config drive each one mounts it on os.TempDir(): not *)
(* a new directory, the one of the whole process.  Every access to the     *)
(* cache, the service and the file system is a step.  External are the     *)
(* metadata service, the drive, the kernel (mounts on a directory pile up, *)
(* one that is in use cannot be unmounted, a directory that is mounted on  *)
(* or not empty cannot be removed) and kubelet, which asks again.          *)
(***************************************************************************)
EXTENDS Naturals, FiniteSets, Sequences

CONSTANTS
    Requests,
    SearchOrder,      \* of "metadataService" and "configDrive"
    TmpEmpty,         \* nothing else is kept in the temporary directory
    Absent,
    MaxDisturbances   \* bound on changes of the sources and on restarts

ASSUME MetadataAssumption ==
    /\ SearchOrder \in Seq({"metadataService", "configDrive"}) \ {<<>>}
    /\ Absent \notin {"metadataService", "configDrive"}
    /\ TmpEmpty \in BOOLEAN
    /\ MaxDisturbances \in Nat

VARIABLES
    cache,        \* metadataCache: the source it came from, or Absent
    service,      \* the metadata service answers
    drive,        \* what happens to one who reads the config drive
    tmp,          \* the temporary directory exists
    mounts,       \* how many mounts of the drive lie on it
    pc,           \* pc[r]: next step of request r
    pos,          \* pos[r]: the source it tries
    got,          \* got[r]: what that source gave, or Absent
    open,         \* open[r]: the mount, counted from below, on which r has a file open, or 0
    answer,       \* answer[r]: the last answer
    overlapped,   \* history: two requests were at the config drive at a time
    disturbances

host == <<service, drive, tmp, mounts>>
locals == <<pos, got, open>>
vars == <<cache, host, pc, locals, answer, overlapped, disturbances>>

Drive == {"missing", "unmountable", "unreadable", "good"}
Steps == {"idle", "try", "mount", "open", "close", "unmount", "remove", "store", "return"}

TypeOK ==
    /\ cache \in {Absent, "metadataService", "configDrive"}
    /\ service \in BOOLEAN /\ drive \in Drive /\ tmp \in BOOLEAN /\ mounts \in Nat
    /\ pc \in [Requests -> Steps]
    /\ pos \in [Requests -> 1..Len(SearchOrder)]
    /\ got \in [Requests -> {Absent, "metadataService", "configDrive"}]
    /\ open \in [Requests -> 0..mounts]
    /\ answer \in [Requests -> {"none", "known", "error"}]
    /\ overlapped \in BOOLEAN
    /\ disturbances \in 0..MaxDisturbances

Fresh ==
    /\ cache' = Absent /\ tmp' = TRUE /\ mounts' = 0
    /\ pc' = [r \in Requests |-> "idle"]
    /\ pos' = [r \in Requests |-> 1]
    /\ got' = [r \in Requests |-> Absent]
    /\ open' = [r \in Requests |-> 0]
    /\ answer' = [r \in Requests |-> "none"]
    /\ overlapped' = FALSE

Init ==
    /\ cache = Absent /\ tmp = TRUE /\ mounts = 0
    /\ service \in BOOLEAN /\ drive \in Drive
    /\ pc = [r \in Requests |-> "idle"]
    /\ pos = [r \in Requests |-> 1]
    /\ got = [r \in Requests |-> Absent]
    /\ open = [r \in Requests |-> 0]
    /\ answer = [r \in Requests |-> "none"]
    /\ overlapped = FALSE
    /\ disturbances = MaxDisturbances

-----------------------------------------------------------------------------

Goto(r, step) == pc' = [pc EXCEPT ![r] = step]

\* Mutant: the cache is not looked at.
GetAnew(r) ==
    /\ pc[r] = "idle"
    /\ Goto(r, "try")
    /\ answer' = [answer EXCEPT ![r] = "none"]
    /\ UNCHANGED <<cache, host, locals, disturbances>>

Get(r) ==
    /\ pc[r] = "idle"
    /\ Goto(r, IF cache = Absent THEN "try" ELSE "return")
    /\ answer' = [answer EXCEPT ![r] = "none"]
    /\ UNCHANGED <<cache, host, locals, disturbances>>

\* Mutant: the loop goes on after a success.
LastSourceDecides(r) ==
    /\ CASE pos[r] < Len(SearchOrder) ->
              Goto(r, "try") /\ pos' = [pos EXCEPT ![r] = @ + 1] /\ UNCHANGED answer
         [] pos[r] = Len(SearchOrder) /\ got'[r] # Absent -> Goto(r, "store") /\ UNCHANGED <<pos, answer>>
         [] OTHER ->
              Goto(r, "idle") /\ answer' = [answer EXCEPT ![r] = "error"] /\ pos' = [pos EXCEPT ![r] = 1]
    /\ UNCHANGED <<cache, service, drive, mounts, open, disturbances>>

\* The source at pos[r] is through: the loop of Get ends at the first one without error.
SourceDone(r) ==
    /\ CASE got'[r] # Absent -> Goto(r, "store") /\ UNCHANGED <<pos, answer>>
         [] got'[r] = Absent /\ pos[r] < Len(SearchOrder) ->
              Goto(r, "try") /\ pos' = [pos EXCEPT ![r] = @ + 1] /\ UNCHANGED answer
         [] OTHER ->
              Goto(r, "idle") /\ answer' = [answer EXCEPT ![r] = "error"] /\ pos' = [pos EXCEPT ![r] = 1]
    /\ UNCHANGED <<cache, service, drive, mounts, open, disturbances>>

getFromMetadataService(r) ==
    /\ pc[r] = "try" /\ SearchOrder[pos[r]] = "metadataService"
    /\ got' = [got EXCEPT ![r] = IF service THEN "metadataService" ELSE Absent]
    /\ SourceDone(r)
    /\ UNCHANGED tmp

\* os.Stat of the device, or blkid; an error returns before anything is deferred.
getFromConfigDrive(r) ==
    /\ pc[r] = "try" /\ SearchOrder[pos[r]] = "configDrive"
    /\ IF drive = "missing"
       THEN got' = [got EXCEPT ![r] = Absent] /\ SourceDone(r) /\ UNCHANGED tmp
       ELSE Goto(r, "mount") /\ UNCHANGED <<cache, host, locals, answer, disturbances>>

\* As iso9660, then as vfat.
MountDrive(r) ==
    /\ pc[r] = "mount"
    /\ IF tmp /\ drive \in {"unreadable", "good"}
       THEN mounts' = mounts + 1 /\ Goto(r, "open")
       ELSE Goto(r, "remove") /\ UNCHANGED mounts
    /\ UNCHANGED <<cache, service, drive, tmp, locals, answer, disturbances>>

\* Mutant: the deferred unmount is registered after the file was opened.
OpenThenDefer(r) ==
    /\ pc[r] = "open"
    /\ IF drive = "good" /\ mounts > 0
       THEN /\ open' = [open EXCEPT ![r] = mounts]
            /\ got' = [got EXCEPT ![r] = "configDrive"]
            /\ Goto(r, "close")
       ELSE Goto(r, "remove") /\ UNCHANGED <<open, got>>
    /\ UNCHANGED <<cache, host, pos, answer, disturbances>>

\* The file is opened on the uppermost mount; it may be missing or have no uuid.
OpenMetadata(r) ==
    /\ pc[r] = "open"
    /\ IF drive = "good" /\ mounts > 0
       THEN /\ open' = [open EXCEPT ![r] = mounts]
            /\ got' = [got EXCEPT ![r] = "configDrive"]
            /\ Goto(r, "close")
       ELSE Goto(r, "unmount") /\ UNCHANGED <<open, got>>
    /\ UNCHANGED <<cache, host, pos, answer, disturbances>>

CloseMetadata(r) ==
    /\ pc[r] = "close"
    /\ open' = [open EXCEPT ![r] = 0]
    /\ Goto(r, "unmount")
    /\ UNCHANGED <<cache, host, pos, got, answer, disturbances>>

\* Takes the uppermost mount, whose ever it is, unless a file is open on it; the error is
\* ignored.
Unmount(r) ==
    /\ pc[r] = "unmount"
    /\ mounts' = IF mounts > 0 /\ \A q \in Requests : open[q] # mounts THEN mounts - 1 ELSE mounts
    /\ Goto(r, "remove")
    /\ UNCHANGED <<cache, service, drive, tmp, locals, answer, disturbances>>

\* os.Remove of the directory, as after os.MkdirTemp.
RemoveDir(r) ==
    /\ pc[r] = "remove"
    /\ tmp' = (tmp /\ ~(TmpEmpty /\ mounts = 0))
    /\ UNCHANGED got
    /\ SourceDone(r)

Store(r) ==
    /\ pc[r] = "store"
    /\ cache' = got[r]
    /\ Goto(r, "return")
    /\ UNCHANGED <<host, locals, answer, disturbances>>

\* The cache is read again, another request may have written it since.
Return(r) ==
    /\ pc[r] = "return"
    /\ answer' = [answer EXCEPT ![r] = IF cache = Absent THEN "error" ELSE "known"]
    /\ Goto(r, "idle")
    /\ pos' = [pos EXCEPT ![r] = 1]
    /\ got' = [got EXCEPT ![r] = Absent]
    /\ UNCHANGED <<cache, host, open, disturbances>>

-----------------------------------------------------------------------------

SourcesChange ==
    /\ disturbances > 0 /\ disturbances' = disturbances - 1
    /\ \/ service' = ~service /\ UNCHANGED drive
       \/ drive' \in Drive \ {drive} /\ UNCHANGED service
    /\ UNCHANGED <<cache, tmp, mounts, pc, locals, answer, overlapped>>

\* The container is restarted, with a new file system and mount table.
Restart ==
    /\ disturbances > 0 /\ disturbances' = disturbances - 1
    /\ Fresh
    /\ UNCHANGED <<service, drive>>

AtDrive == {r \in Requests : pc[r] \in {"mount", "open", "close", "unmount", "remove"}}

Request(r) ==
    /\ \/ Get(r) \/ getFromMetadataService(r) \/ getFromConfigDrive(r)
       \/ MountDrive(r) \/ OpenMetadata(r) \/ CloseMetadata(r) \/ Unmount(r) \/ RemoveDir(r)
       \/ Store(r) \/ Return(r)
    /\ overlapped' = (overlapped \/ Cardinality(AtDrive') > 1)

Next ==
    \/ \E r \in Requests : Request(r)
    \/ SourcesChange \/ Restart

Spec == Init /\ [][Next]_vars

-----------------------------------------------------------------------------
\* Properties.

\* When no request is reading the config drive it is not mounted, however the reading
\* went, as long as no two requests have been at the drive at a time.
NothingMounted ==
    ~overlapped /\ AtDrive = {} => mounts = 0

\* When the metadata service answers for good, every request is answered in the end, again
\* and again, and no longer with an error, whatever becomes of the config drive and however
\* earlier requests ended.
KnownByService ==
    \A r \in Requests :
       (<>[]service) => /\ []<>(answer[r] = "known")
                        /\ <>[](answer[r] # "error")

==============================================================================
