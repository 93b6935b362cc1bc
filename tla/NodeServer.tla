------------------------------ MODULE NodeServer ------------------------------
(***************************************************************************)
(* One volume on one node: NodeStageVolume, NodePublishVolume,             *)
(* NodeUnpublishVolume, NodeUnstageVolume and NodeExpandVolume of          *)
(* pkg/csi/blockstorage/nodeserver.go with pkg/csi/util/mount and          *)
(* pkg/csi/util/blockdevice.                                               *)
(*                                                                         *)
(* Every system call or command a handler makes is a step.  The handlers   *)
(* hold no lock and keep no state: everything is in the mount table, the   *)
(* paths and the disk.  External are                                       *)
(*  - kubelet: it mounts for one pod at a time, unmounts for several pods  *)
(*    at once, and when a call times out it forgets it and asks again while *)
(*    the handler still runs (slot Late), or turns to the opposite: then    *)
(*    the two handlers meet on one path, which crossed remembers;          *)
(*  - the kernel and k8s.io/mount-utils: a device that is mounted cannot   *)
(*    be formatted, a file system is not mounted twice on one path, and    *)
(*    CleanupMountPoint undoes one mount and removes the path;             *)
(*  - the attach/detach controller, which detaches what is not in use.     *)
(***************************************************************************)
EXTENDS Naturals, Sequences

CONSTANTS
    Pods,              \* pods on the node that may use the volume
    Staging,           \* the staging path; a pod stands for its target path
    Late,              \* slot of a handler kubelet no longer waits for
    Gib,               \* bytes of one GiB, the unit volumes come in
    VolumeSizes,       \* sizes in bytes a volume can have
    Claims,            \* sizes in bytes users ask for
    RescanOnResize,    \* option of the driver
    MaxDisturbances    \* bound on user changes, failures, restarts and reboots

Paths == Pods \cup {Staging}
Slots == Paths \cup {Late}

ASSUME NodeAssumption ==
    /\ Staging \notin Pods /\ Late \notin Paths
    /\ Gib \in Nat \ {0}
    /\ \A size \in VolumeSizes : size \in Nat \ {0} /\ size % Gib = 0
    /\ \A size \in Claims : size \in Nat \ {0}
    /\ RescanOnResize \in BOOLEAN
    /\ MaxDisturbances \in Nat

VARIABLES
    mode,       \* volume mode, "Filesystem" or "Block"
    restored,   \* the volume has a source: its context says ResizeRequired
    disk,       \* the volume: its size, file system, that one's size, data on it
    attached,   \* the volume is attached to this server
    dev,        \* size of the device the kernel shows, 0 while there is none
    mounts,     \* mounts[p]: what is mounted on path p, the latest first
    exists,     \* exists[p]: the path is there
    worker,     \* worker[s]: the handler that runs in slot s
    told,       \* told[p]: kubelet's last answer about p: "yes", "no", "maybe"
    want,       \* want[p]: pod p is to run here
    claim,      \* size of the claim, 0 while nobody asked to expand it
    grown,      \* the size NodeExpandVolume reported done
    crossed,    \* history: opposite handlers have met on one path, see Begin
    budget      \* disturbances left

node == <<mounts, exists, disk, dev>>
user == <<want, claim, attached>>
vars == <<mode, restored, node, worker, told, user, grown, crossed, budget>>

Steps == {"find", "metadata", "check", "format", "mkfs", "mount", "rescan", "resize",
          "make", "bind", "clean", "unmount", "recheck",
          "findfs", "geometry", "grow"}

Ops == {"stage", "publish", "unpublish", "unstage", "expand"}

Idle == [op |-> "none", path |-> Staging, step |-> "none", try |-> 0, size |-> 0, fs |-> "none"]

TypeOK ==
    /\ mode \in {"Filesystem", "Block"} /\ restored \in BOOLEAN
    /\ disk \in [size : VolumeSizes, fs : {"none", "ext4"}, fsSize : VolumeSizes \cup {0},
                 data : BOOLEAN]
    /\ attached \in BOOLEAN
    /\ dev \in VolumeSizes \cup {0}
    /\ mounts \in [Paths -> Seq({"vol", "dir"})]
    /\ exists \in [Paths -> BOOLEAN]
    /\ worker \in [Slots -> {Idle} \cup
          [op : Ops, path : Paths, step : Steps, try : {1, 2}, size : Claims \cup {0},
           fs : {"none", "vol", "root"}]]
    /\ told \in [Paths -> {"yes", "no", "maybe"}]
    /\ want \in [Pods -> BOOLEAN]
    /\ claim \in Claims \cup {0} /\ grown \in Claims \cup {0}
    /\ crossed \in BOOLEAN
    /\ budget \in Nat

\* A new volume is blank; one made from a snapshot, backup or volume carries the file
\* system of its source, which may be smaller than the volume.
Init ==
    /\ mode \in {"Filesystem", "Block"}
    /\ \/ /\ restored = FALSE
          /\ disk \in [size : VolumeSizes, fs : {"none"}, fsSize : {0}, data : {FALSE}]
       \/ /\ restored = TRUE
          /\ mode = "Filesystem"
          /\ disk \in [size : VolumeSizes, fs : {"ext4"}, fsSize : VolumeSizes, data : {TRUE}]
          /\ disk.fsSize <= disk.size
    /\ attached = FALSE
    /\ dev = 0
    /\ mounts = [p \in Paths |-> <<>>]
    /\ exists = [p \in Paths |-> FALSE]
    /\ worker = [s \in Slots |-> Idle]
    /\ told = [p \in Paths |-> "no"]
    /\ want = [p \in Pods |-> FALSE]
    /\ claim = 0 /\ grown = 0
    /\ crossed = FALSE
    /\ budget = MaxDisturbances

-----------------------------------------------------------------------------

Disturb == budget > 0 /\ budget' = budget - 1

RoundUpSize(bytes) == (bytes + Gib - 1) \div Gib

Mounted(p) == mounts[p] # <<>>
Shows(p) == IF Mounted(p) THEN Head(mounts[p]) ELSE "dir"
VolumeOn(p) == \E i \in DOMAIN mounts[p] : mounts[p][i] = "vol"
VolumeMounted == \E p \in Paths : VolumeOn(p)

\* checkBlockDeviceSize compares whole GiB.
LargeEnough(size, bytes) == RoundUpSize(size) >= RoundUpSize(bytes)

\* triggerRescan: the kernel reads the size of the device again.
Rescan == dev # 0 /\ dev' = disk.size

At(s, step) == worker[s].step = step
Path(s) == worker[s].path
Op(s) == worker[s].op

\* The handler in slot s goes on to another step.
Goto(s, step) ==
    /\ worker' = [worker EXCEPT ![s].step = step]
    /\ UNCHANGED <<told, grown>>

\* The handler in slot s is done and answers; nobody hears a late one.
Answer(s, answer) ==
    /\ worker' = [worker EXCEPT ![s] = Idle]
    /\ told' = IF s = Late \/ Op(s) = "expand" THEN told
               ELSE [told EXCEPT ![Path(s)] = answer]
    /\ grown' = IF s # Late /\ Op(s) = "expand" /\ answer = "yes" THEN worker[s].size ELSE grown

\* Mutant: the error of UnmountPath is dropped.
UnmountErrorDropped(s) == Answer(s, IF Op(s) \in {"unpublish", "unstage"} THEN "no" ELSE "maybe")

Fail(s) == Answer(s, "maybe")

\* Mutant: the error of the second attempt is dropped.
MountErrorDropped(s) == IF worker[s].try = 1 THEN Goto(s, "rescan") ELSE Answer(s, "yes")

\* An error of FormatAndMount: the device is rescanned and the attempt repeated once.
MountFailed(s) == IF worker[s].try = 1 THEN Goto(s, "rescan") ELSE Fail(s)

\* A call fails for a reason the model does not know.  Mounting is tried again, and
\* publishing a block device removes the file it made.
CallFails(s) ==
    /\ worker[s] # Idle
    /\ Disturb
    /\ IF worker[s].step \in {"format", "mkfs", "mount"} THEN MountFailed(s) ELSE Fail(s)
    /\ exists' = IF At(s, "bind") /\ mode = "Block"
                 THEN [exists EXCEPT ![Path(s)] = Mounted(Path(s))] ELSE exists
    /\ UNCHANGED <<mode, restored, crossed, mounts, disk, dev, user>>

-----------------------------------------------------------------------------
\* NodeStageVolume, and finding the device for NodePublishVolume of a block volume.

\* The handler in slot s knows the device.  Staging a block volume ends here.
DeviceFound(s) ==
    CASE Op(s) = "publish" -> Goto(s, "make")
      [] Op(s) = "stage" /\ mode = "Block" -> Answer(s, "yes")
      [] OTHER -> Goto(s, "check")

\* getDevicePath first looks for the link by serial number, until the backoff ends.
GetDevicePath(s) ==
    /\ At(s, "find")
    /\ IF dev # 0 THEN DeviceFound(s) ELSE Goto(s, "metadata")
    /\ UNCHANGED <<mode, restored, crossed, node, user, budget>>

\* Then it asks the metadata service, which may not list the volume.
GetDevicePathFromMetadata(s) ==
    /\ At(s, "metadata")
    /\ (dev # 0 /\ DeviceFound(s)) \/ Fail(s)
    /\ UNCHANGED <<mode, restored, crossed, node, user, budget>>

\* Mutant: what is mounted already is not noticed.
NeverMounted(s) ==
    /\ At(s, "check")
    /\ exists' = [exists EXCEPT ![Path(s)] = TRUE]
    /\ Goto(s, IF Op(s) = "stage" THEN "format" ELSE "bind")
    /\ UNCHANGED <<mode, restored, crossed, mounts, disk, dev, user, budget>>

\* IsLikelyNotMountPointAttach makes the path where it is missing.
IsLikelyNotMountPointAttach(s) ==
    /\ At(s, "check")
    /\ exists' = [exists EXCEPT ![Path(s)] = TRUE]
    /\ IF Op(s) = "stage" THEN Goto(s, IF Mounted(Path(s)) THEN "resize" ELSE "format")
       ELSE IF Mounted(Path(s)) THEN Answer(s, "yes") ELSE Goto(s, "bind")
    /\ UNCHANGED <<mode, restored, crossed, mounts, disk, dev, user, budget>>

\* FormatAndMount asks for the format of the device, formats a blank one and mounts it.
GetDiskFormat(s) ==
    /\ At(s, "format")
    /\ CASE dev = 0 -> MountFailed(s)
         [] dev # 0 /\ disk.fs = "none" -> Goto(s, "mkfs")
         [] OTHER -> Goto(s, "mount")
    /\ UNCHANGED <<mode, restored, crossed, node, user, budget>>

Mkfs(s) ==
    /\ At(s, "mkfs")
    /\ IF dev # 0 /\ ~VolumeMounted
       THEN /\ disk' = [disk EXCEPT !.fs = "ext4", !.fsSize = dev, !.data = FALSE]
            /\ Goto(s, "mount")
       ELSE UNCHANGED disk /\ MountFailed(s)
    /\ UNCHANGED <<mode, restored, crossed, mounts, exists, dev, user, budget>>

MountDevice(s) ==
    /\ At(s, "mount")
    /\ IF dev # 0 /\ disk.fs = "ext4" /\ exists[Path(s)] /\ Shows(Path(s)) # "vol"
       THEN /\ mounts' = [mounts EXCEPT ![Path(s)] = <<"vol">> \o @]
            /\ Goto(s, "resize")
       ELSE UNCHANGED mounts /\ MountFailed(s)
    /\ UNCHANGED <<mode, restored, crossed, exists, disk, dev, user, budget>>

\* Mutant: the second attempt formats without asking for the format.
RescanAndFormat(s) ==
    /\ At(s, "rescan")
    /\ \/ Fail(s) /\ UNCHANGED dev
       \/ /\ Rescan
          /\ worker' = [worker EXCEPT ![s].step = "mkfs", ![s].try = @ + 1]
          /\ UNCHANGED <<told, grown>>
    /\ UNCHANGED <<mode, restored, crossed, mounts, exists, disk, user, budget>>

\* formatAndMountRetry: not every device can be rescanned; then the first error counts.
RescanDevice(s) ==
    /\ At(s, "rescan")
    /\ \/ Fail(s) /\ UNCHANGED dev
       \/ /\ Rescan
          /\ worker' = [worker EXCEPT ![s].step = "format", ![s].try = @ + 1]
          /\ UNCHANGED <<told, grown>>
    /\ UNCHANGED <<mode, restored, crossed, mounts, exists, disk, user, budget>>

\* Mutant: the mount found on the path is taken for a resized one.
StageWithoutResize(s) ==
    /\ At(s, "resize")
    /\ Answer(s, "yes")
    /\ UNCHANGED <<mode, restored, crossed, node, user, budget>>

\* NeedResize and Resize of a volume whose context says so.
StageResize(s) ==
    /\ At(s, "resize")
    /\ CASE ~restored -> Answer(s, "yes") /\ UNCHANGED disk
         [] restored /\ dev # 0 /\ VolumeOn(Path(s)) ->
              Answer(s, "yes") /\ disk' = [disk EXCEPT !.fsSize = dev]
         [] OTHER -> Fail(s) /\ UNCHANGED disk
    /\ UNCHANGED <<mode, restored, crossed, mounts, exists, dev, user, budget>>

-----------------------------------------------------------------------------
\* NodePublishVolume.

\* MakeDir and MakeFile for the device node of a block volume.
MakeFile(s) ==
    /\ At(s, "make")
    /\ exists' = [exists EXCEPT ![Path(s)] = TRUE]
    /\ Goto(s, "bind")
    /\ UNCHANGED <<mode, restored, crossed, mounts, disk, dev, user, budget>>

\* The bind mount shows whatever the staging path shows now.
BindMount(s) ==
    /\ At(s, "bind") /\ mode = "Filesystem"
    /\ IF exists[Path(s)] /\ exists[Staging]
       THEN /\ mounts' = [mounts EXCEPT ![Path(s)] = <<Shows(Staging)>> \o @]
            /\ Answer(s, "yes")
       ELSE UNCHANGED mounts /\ Fail(s)
    /\ UNCHANGED <<mode, restored, crossed, exists, disk, dev, user, budget>>

\* Where the device cannot be mounted the file is removed, unless a mount keeps it.
\* Nothing is asked about mounts that are there already.
BindDevice(s) ==
    /\ At(s, "bind") /\ mode = "Block"
    /\ IF exists[Path(s)] /\ dev # 0
       THEN /\ mounts' = [mounts EXCEPT ![Path(s)] = <<"vol">> \o @]
            /\ Answer(s, "yes")
            /\ UNCHANGED exists
       ELSE /\ exists' = [exists EXCEPT ![Path(s)] = Mounted(Path(s))]
            /\ Fail(s)
            /\ UNCHANGED mounts
    /\ UNCHANGED <<mode, restored, crossed, disk, dev, user, budget>>

-----------------------------------------------------------------------------
\* NodeUnpublishVolume and NodeUnstageVolume: UnmountPath, i.e. CleanupMountPoint.

CleanupMountPoint(s) ==
    /\ At(s, "clean")
    /\ IF Mounted(Path(s)) THEN Goto(s, "unmount") /\ UNCHANGED exists
       ELSE Answer(s, "no") /\ exists' = [exists EXCEPT ![Path(s)] = FALSE]
    /\ UNCHANGED <<mode, restored, crossed, mounts, disk, dev, user, budget>>

Unmount(s) ==
    /\ At(s, "unmount")
    /\ IF Mounted(Path(s)) THEN mounts' = [mounts EXCEPT ![Path(s)] = Tail(@)] /\ Goto(s, "recheck")
       ELSE UNCHANGED mounts /\ Fail(s)
    /\ UNCHANGED <<mode, restored, crossed, exists, disk, dev, user, budget>>

\* A path that is a mount point still is an error: kubelet asks again.
RemoveIfNotMounted(s) ==
    /\ At(s, "recheck")
    /\ IF Mounted(Path(s)) THEN Fail(s) /\ UNCHANGED exists
       ELSE Answer(s, "no") /\ exists' = [exists EXCEPT ![Path(s)] = FALSE]
    /\ UNCHANGED <<mode, restored, crossed, mounts, disk, dev, user, budget>>

-----------------------------------------------------------------------------
\* NodeExpandVolume.

\* GetMountFs: findmnt --target names the file system that holds the path, the one of
\* the node's root where nothing is mounted.  For a block volume there is nothing to do.
GetMountFs(s) ==
    /\ At(s, "findfs")
    /\ CASE mode = "Block" -> Answer(s, "yes")
         [] mode # "Block" /\ ~exists[Path(s)] -> Fail(s)
         [] OTHER ->
              /\ worker' = [worker EXCEPT
                     ![s].step = IF RescanOnResize THEN "geometry" ELSE "grow",
                     ![s].fs = IF Shows(Path(s)) = "vol" THEN "vol" ELSE "root"]
              /\ UNCHANGED <<told, grown>>
    /\ UNCHANGED <<mode, restored, crossed, node, user, budget>>

\* RescanBlockDeviceGeometry: check the size of the device, rescan, check again.  The
\* root device is taken to be large enough.
RescanBlockDeviceGeometry(s) ==
    /\ At(s, "geometry")
    /\ IF worker[s].fs = "root" \/ LargeEnough(dev, worker[s].size)
       THEN Goto(s, "grow") /\ UNCHANGED dev
       ELSE \/ Fail(s) /\ UNCHANGED dev
            \/ /\ Rescan
               /\ IF LargeEnough(dev', worker[s].size) THEN Goto(s, "grow") ELSE Fail(s)
    /\ UNCHANGED <<mode, restored, crossed, mounts, exists, disk, user, budget>>

\* Resize grows the file system to the device as the kernel knows it.
ResizeFs(s) ==
    /\ At(s, "grow")
    /\ CASE worker[s].fs = "root" -> Answer(s, "yes") /\ UNCHANGED disk
         [] worker[s].fs = "vol" /\ dev # 0 /\ VolumeMounted ->
              Answer(s, "yes") /\ disk' = [disk EXCEPT !.fsSize = dev]
         [] OTHER -> Fail(s) /\ UNCHANGED disk
    /\ UNCHANGED <<mode, restored, crossed, mounts, exists, dev, user, budget>>

-----------------------------------------------------------------------------
\* kubelet.

Undoes(op) == op \in {"unpublish", "unstage"}

\* Mounting and expanding wait for every other operation on the volume, unmounting
\* for a pod waits for everything but the same for other pods.  Nobody waits for a handler
\* that kubelet gave up.
Clear(op) == \A s \in Paths : worker[s] = Idle \/ (op = "unpublish" /\ Op(s) = "unpublish")

\* One of two handlers on a path mounts there and the other one unmounts.
Opposite(op, other) ==
    \/ op \in {"stage", "publish"} /\ Undoes(other)
    \/ other \in {"stage", "publish"} /\ Undoes(op)

Begin(op, p, step, size) ==
    /\ Clear(op)
    /\ worker[p] = Idle
    /\ worker' = [worker EXCEPT ![p] = [op |-> op, path |-> p, step |-> step, try |-> 1,
                                        size |-> size, fs |-> "none"]]
    /\ told' = IF op = "expand" THEN told ELSE [told EXCEPT ![p] = "maybe"]
    /\ crossed' = (crossed \/ (Path(Late) = p /\ Opposite(op, Op(Late))))
    /\ UNCHANGED <<mode, restored, node, user, grown, budget>>

StartStage ==
    /\ attached
    /\ \E p \in Pods : want[p]
    /\ told[Staging] # "yes"
    /\ Begin("stage", Staging, "find", 0)

StartPublish(p) ==
    /\ want[p]
    /\ told[Staging] = "yes"
    /\ told[p] # "yes"
    /\ Begin("publish", p, IF mode = "Block" THEN "find" ELSE "check", 0)

StartUnpublish(p) ==
    /\ ~want[p]
    /\ told[p] # "no"
    /\ Begin("unpublish", p, "clean", 0)

StartUnstage ==
    /\ \A p \in Pods : ~want[p] /\ told[p] = "no"
    /\ told[Staging] # "no"
    /\ Begin("unstage", Staging, "clean", 0)

\* Of the paths that are mounted kubelet names the staging path or a target path.
StartExpand(p) ==
    /\ claim > grown
    /\ told[Staging] = "yes" /\ told[p] = "yes"
    /\ Begin("expand", p, "findfs", claim)

\* A call times out: kubelet gives up, the handler does not.
GiveUp(p) ==
    /\ Disturb
    /\ worker[p] # Idle /\ worker[Late] = Idle
    /\ worker' = [worker EXCEPT ![Late] = worker[p], ![p] = Idle]
    /\ UNCHANGED <<mode, restored, crossed, node, user, told, grown>>

\* The driver's pod restarts: mounts and paths stay, handlers are gone.
Restart ==
    /\ Disturb
    /\ worker' = [s \in Slots |-> Idle]
    /\ UNCHANGED <<mode, restored, crossed, node, user, told, grown>>

\* The node reboots: paths stay, mounts are gone, kubelet is sure only of what it had
\* undone.
Reboot ==
    /\ Disturb
    /\ worker' = [s \in Slots |-> Idle]
    /\ mounts' = [p \in Paths |-> <<>>]
    /\ dev' = 0
    /\ told' = [p \in Paths |-> IF told[p] = "no" THEN "no" ELSE "maybe"]
    /\ UNCHANGED <<mode, restored, crossed, exists, disk, user, grown>>

-----------------------------------------------------------------------------
\* Users, the attach/detach controller and the kernel.

ChangePod(p) ==
    /\ Disturb
    /\ want' = [want EXCEPT ![p] = ~@]
    /\ UNCHANGED <<mode, restored, crossed, node, worker, told, claim, attached, grown>>

\* The claim grows and ControllerExpandVolume has made the volume large enough.
ExpandClaim(size) ==
    /\ Disturb
    /\ size > claim
    /\ claim' = size
    /\ \E larger \in VolumeSizes :
          /\ larger >= disk.size /\ larger >= size
          /\ disk' = [disk EXCEPT !.size = larger]
    /\ UNCHANGED <<mode, restored, crossed, mounts, exists, dev, worker, told, want, attached, grown>>

Attach ==
    /\ ~attached
    /\ \E p \in Pods : want[p]
    /\ attached' = TRUE
    /\ UNCHANGED <<mode, restored, crossed, node, worker, told, want, claim, grown, budget>>

Detach ==
    /\ attached
    /\ told[Staging] = "no"
    /\ \A p \in Pods : ~want[p]
    /\ attached' = FALSE
    /\ dev' = 0
    /\ UNCHANGED <<mode, restored, crossed, mounts, exists, disk, worker, told, want, claim, grown>>
    /\ UNCHANGED budget

\* The device shows up, or the kernel notices that it has grown.
DeviceAppears ==
    /\ attached
    /\ dev # disk.size
    /\ dev' = disk.size
    /\ UNCHANGED <<mode, restored, crossed, mounts, exists, disk, worker, told, user, grown, budget>>

PodWrites ==
    /\ ~disk.data
    /\ \E p \in Pods : want[p] /\ told[p] = "yes" /\ Shows(p) = "vol"
    /\ disk' = [disk EXCEPT !.data = TRUE]
    /\ UNCHANGED <<mode, restored, crossed, mounts, exists, dev, worker, told, user, grown, budget>>

-----------------------------------------------------------------------------

Handler(s) ==
    \/ GetDevicePath(s) \/ GetDevicePathFromMetadata(s) \/ IsLikelyNotMountPointAttach(s)
    \/ GetDiskFormat(s) \/ Mkfs(s) \/ MountDevice(s) \/ RescanDevice(s) \/ StageResize(s)
    \/ MakeFile(s) \/ BindMount(s) \/ BindDevice(s)
    \/ CleanupMountPoint(s) \/ Unmount(s) \/ RemoveIfNotMounted(s)
    \/ GetMountFs(s) \/ RescanBlockDeviceGeometry(s) \/ ResizeFs(s)

Kubelet(p) ==
    \/ p = Staging /\ (StartStage \/ StartUnstage)
    \/ p \in Pods /\ (StartPublish(p) \/ StartUnpublish(p))

Environment == Attach \/ Detach \/ DeviceAppears

Next ==
    \/ \E s \in Slots : Handler(s) \/ CallFails(s)
    \/ \E p \in Paths : Kubelet(p) \/ StartExpand(p) \/ GiveUp(p)
    \/ \E p \in Pods : ChangePod(p)
    \/ \E size \in Claims : ExpandClaim(size)
    \/ Restart \/ Reboot \/ PodWrites \/ Environment

Spec == Init /\ [][Next]_vars

\* Handlers go on, kubelet repeats what is not done, the device shows up.
Fairness ==
    /\ \A s \in Slots : WF_vars(Handler(s))
    /\ \A p \in Paths : WF_vars(Kubelet(p)) /\ SF_vars(StartExpand(p))
    /\ WF_vars(Attach) /\ WF_vars(DeviceAppears)

FairSpec == Spec /\ Fairness

-----------------------------------------------------------------------------
\* Properties.

\* What NodeStageVolume and NodePublishVolume reported done is there: the staging path
\* and the pod's path show the volume, also after kubelet repeated a call whose first
\* handler was still at work, and the staging path has one mount only.
ReadyIsMounted ==
    \A p \in Paths :
       told[p] = "yes" /\ (mode = "Filesystem" \/ p # Staging)
          => Shows(p) = "vol" /\ (p = Staging => Len(mounts[p]) = 1)

\* What NodeUnpublishVolume and NodeUnstageVolume reported undone is gone, however many
\* mounts repeated calls had piled up there: the volume may be detached.
GoneIsGone ==
    \A p \in Paths : told[p] = "no" => ~VolumeOn(p)

\* A size that NodeExpandVolume reported is the size of the file system at least.
ExpandedIsLarge ==
    RescanOnResize /\ mode = "Filesystem" => disk.fsSize >= grown

\* An answer of the node server is true, and stays true until the next request: what it
\* mounted is mounted, what it gave back is gone, what it grew is large.  Handlers take no
\* lock: the answers are true until a handler that kubelet gave up meets the opposite
\* handler on its own path.  On other paths it may meet any handler.
AnswersTrue == ~crossed => ReadyIsMounted /\ GoneIsGone /\ ExpandedIsLarge

Exclusive == INSTANCE ExclusiveVolume WITH
    Servers <- {Staging}, Nobody <- Late,
    holder <- (IF attached THEN Staging ELSE Late),
    users <- (IF VolumeMounted THEN {Staging} ELSE {}),
    written <- disk.data, deleted <- FALSE

\* Seen from outside the node behaves like one server of an ExclusiveVolume: it mounts
\* the volume only while it is attached and gives it back only when no path shows it,
\* until opposite handlers have met on one path.
ImplementsExclusive ==
    Exclusive!Init /\ [][crossed' \/ [Exclusive!Next]_(Exclusive!vars)]_vars

\* No retry, restart or reboot makes NodeStageVolume format a volume with data on it, be
\* its handler given up or not, unless it still runs when the volume is unstaged.
DataSurvives == [][disk.data /\ ~crossed' => disk'.data]_vars

\* A restored volume that is staged offers the room of the device it was staged with:
\* the file system of its source has been grown.
RestoredIsResized ==
    [][restored /\ told[Staging] # "yes" /\ told'[Staging] = "yes" => disk'.fsSize = dev]_vars

\* For all the handlers that failed or were given up, a pod gets its volume in the end, a
\* volume nobody wants leaves the node's mount table, and an expansion is answered while a
\* pod uses the volume.  Once opposite handlers have met on one path, kubelet may believe
\* in a mount that is gone, or a mount may outlive it; unstaging is answered even then.
PodsServed ==
    /\ \A p \in Pods : <>[](want[p] => told[p] = "yes" \/ crossed)
    /\ <>[]((\A p \in Pods : ~want[p]) => told[Staging] = "no" /\ (~VolumeMounted \/ crossed))
    /\ <>[]((\E p \in Pods : want[p]) => grown = claim \/ crossed)

==============================================================================
