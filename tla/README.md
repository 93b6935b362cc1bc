# TLA+ models of cloud-provider-stackit

This directory models the two programs of the repository: the *cloud controller
manager* (CCM), which turns Kubernetes services of type LoadBalancer into STACKIT
load balancers, and the *block storage CSI driver*, which turns claims, attachments
and snapshots into IaaS volumes, attachments, snapshots and backups.

Neither program keeps a database. Each request reads the remote API, decides, and
makes a few further calls; anything may break off between two of them, and the next
request has to find out from the API how far the previous one came. That is what the
models are about: **every remote call is a step of its own**, and between two steps
come other requests, failures, lost answers, restarts and the API's own progress.

## Inventory

| Part | State it keeps or changes | Operations | Interacts with | Model |
|---|---|---|---|---|
| load balancer handlers, `pkg/ccm/loadbalancer.go` | load balancers and observability credentials in the API; `metricsRemoteWrite` per process | GetLoadBalancer, EnsureLoadBalancer, UpdateLoadBalancer, EnsureLoadBalancerDeleted | called by the service controller of k8s.io/cloud-provider; calls the load balancer API | `LoadBalancer`, `LoadBalancerProofs` |
| load balancer client, `pkg/stackit/client/loadbalancer.go` | the external service | one call per method | load balancer API | `LBApi` |
| load balancer specification, `pkg/ccm/loadbalancer_spec.go` | none | lbSpecFromService, compareLBwithSpec | handlers | `LBSpec`, `LBSpecProofs`; abstracted in `LoadBalancer` |
| volumes, `controllerserver.go` | IaaS volumes, found by name | CreateVolume, DeleteVolume, ControllerExpandVolume | external-provisioner, external-resizer; IaaS API | `VolumeProvision`, `VolumeProvisionProofs` |
| attachments, `controllerserver.go` | IaaS attachments | ControllerPublishVolume, ControllerUnpublishVolume | external-attacher; IaaS API | `VolumeAttach`, `VolumeLife`, `VolumeAttachProofs` |
| queries, `controllerserver.go` | none | ListVolumes, ControllerGetVolume, ListSnapshots | external-attacher, external-snapshotter; IaaS API | `VolumeReconcile`, `SnapshotQueries` |
| snapshots, `controllerserver.go` | IaaS snapshots and backups, found by name | CreateSnapshot, DeleteSnapshot | external-snapshotter; IaaS API | `SnapshotController`, `SnapshotProofs` |
| IaaS client, `pkg/stackit/client/iaas.go` | the external service | one call per method, waiting loops | IaaS API | in the modules of the CSI controller and in `Instances` |
| rounding, `pkg/csi/util/util.go` | none | RoundUpSize | volumes | `VolumeProvision` |
| instances, `pkg/ccm/instances.go` | none; the node objects written from its answers | InstanceExists, InstanceShutdown, InstanceMetadata | node and node lifecycle controllers; IaaS API | `Instances`, `InstancesProofs` |
| node server, `nodeserver.go`, `pkg/csi/util/mount`, `pkg/csi/util/blockdevice` | mounts, paths and file systems of a node | stage, publish, unpublish, unstage, expand; NodeGetInfo | kubelet; `mount`, `mkfs`, `resize2fs`, sysfs | `NodeServer`, `NodeServerProofs`, `NodeInfo`, `VolumeLife` |
| metadata, `pkg/stackit/metadata` | process-wide cache; a mount | Get | config drive, metadata service | `Metadata`, used by `NodeInfo`; `NodeInfoProofs` |
| comparison helpers, `pkg/cmp` | none | SliceEqualUnordered, PtrValEqual, ... | specification | `LBSpec` |
| identity server, driver, mains, configuration, labels, metrics, mocks | none | wiring, formatting | | not modelled |

What is hard here: handlers that break off half-way and are repeated (every write);
decisions on a value read some calls ago (the load balancer's version, the volume that
ControllerPublishVolume read before it looked for the server); two workers on one
object (node sync and service sync, provisioner and resizer, attach on one node and
detach on another); objects found by name in a list of the whole project;
credentials that can be deleted only after the load balancer has let go of them; and
handlers on the node that hold no lock, whose every system call may be the last before a
time-out, a restart or a reboot.
`PROJECT.json` lists these hazards one by one with the property that would catch each.

## Modules

### LBApi
The load balancer API, external, as the handlers rely on it: `lb[s]` (status, version,
payload), `owner[c]` (whose display name credentials `c` carry) and `secret[c]`. A change
moves the version and an update must carry the current one; updating a target pool moves
it only when the targets differ; credentials that are referenced cannot be deleted. The
service does **not** check that a reference names live credentials, so no property holds
because the API is careful.

### LoadBalancer
The handlers. `pc[s]` is the next call of the handler of service `s`; `job`, `got`, `obs`,
`todo` are its local variables (arguments, the load balancer it read, the observability
options it will write, the credentials still to delete). `EnsureLoadBalancer` is

    get -> [list -> purge -> createCredentials | updateCredentials]
        -> compare -> createLB | updateLB -> [dropCredentials]

and removal is `lookup -> getToDelete -> [unreference -> dropCredentials] -> list ->
purge -> deleteLB`. `compare` stands for the local decisions (lbSpecFromService and
compareLBwithSpec) between two calls. Every call may be refused, may fail before it has an
effect, or may have its effect and lose its answer (`AnswerLost`). UpdateLoadBalancer runs
beside the handlers, pool by pool. A service is abstracted to whether its specification is
valid, its immutable part (`net`) and its ports (`pools`).

The service controller is external: at most one Ensure or Delete per service at a time,
failed ones are queued again, and EnsureLoadBalancerDeleted is called only if
GetLoadBalancer found something. Node sync has workers of its own: a host update starts at any
moment of a handler. After a restart every service is queued and no host update is.

Two writers of the target pools need the version to keep the older list of nodes from lasting.
There are two changes of the nodes that it cannot see: one that falls between the handler's list
of nodes and its reading of the load balancer, and one back to a list that the handler read, since
setting a pool to what it already holds does not move the version. The history variable `raced[s]`
remembers that the last change was one of these; then, and only then, `TargetsFollowNodes` and
`Converges` let older targets stay, until the next event of the service or the nodes.

### VolumeAttach
`status`, `server`, `target` per volume and `servers` are the IaaS side; `want` are the
VolumeAttachments; `pc[v][n]` the handler of volume `v` and node `n`, `seen` the volume it
read. The handlers of different nodes and DeleteVolume run concurrently on one volume. The
waiting loops either see what they wait for or give up; a server may be deleted at any
time, which frees its volumes. The attacher keeps a VolumeAttachment until its unpublish has
succeeded. (Without that, a publish that finds a volume being detached from the very node
is answered with success: line 376 looks only at the ServerId. `VolumeReconcile` has that
case.)

### VolumeProvision
`vols[i]` is the i-th volume ever created. CreateVolume is `list -> [snapshot -> backup |
sourceVolume] -> create -> waitCreated`; ControllerExpandVolume is `get -> resize ->
waitResized`, in a process of its own; DeleteVolume is `deleteCheck -> delete`. Sizes are bytes
with `Unit` bytes per GiB, so rounding, limits and answered capacities are the code's. With
`LateDelivery = TRUE` a create call that timed out may take effect after the retry has listed
the volumes. The API deletes a volume that is attached if it is asked to: that none is, is for
diskIsUsed to see to, one call earlier. A volume is attached only while its claim is bound, and
may be attached still when the claim is released. Request validation that precedes the first
call has no effect and is left out; validation of encryption parameters, just before the create
call, is a failing create call.

### SnapshotController
`snaps[n]` and `backups[n]` are the objects of a name, those of another client with the same
name and another volume included. A request of type backup is `listBackups -> listSnapshots
-> createSnapshot -> waitSnapshot -> createBackup -> waitBackup -> getBackup ->
dropSnapshot`, entered at `waitBackup` when the backup exists; DeleteSnapshot is
`checkBackup -> [deleteBackup] -> deleteSnapshot`.

A call that creates a snapshot or a backup may time out and take effect at any later time: the
object is `SENT` until it appears, and stays marked `late`. Then a name may have two snapshots
or two backups, which no check of the driver can prevent: CreateSnapshot answers errors from
then on, or the duplicate appears after the answer and stays. The properties excuse late
objects, and only them. Deleting is one step: an object is gone when the call returns.

The wait for a backup runs on a background context, so a handler may outlive its caller;
what it does afterwards uses the caller's cancelled context and has no effect. It is not
modelled.

### SnapshotQueries
ListSnapshots beside the handlers of `SnapshotController`: by filter (snapshots, then
backups) or by handle (GetSnapshot, then GetBackup). `steady` are the names that have been
ready since the query was asked.

### VolumeReconcile
`VolumeAttach` with an operator who detaches volumes behind the driver, the listings the
attacher makes because the driver advertises LIST_VOLUMES_PUBLISHED_NODES, and
ControllerGetVolume, which may crash the driver: `Crash` ends every handler without an answer.

### NodeServer
One volume on one node. `mounts[p]` is the stack of mounts on a path, `exists[p]` the path,
`disk` the volume with its file system and `dev` the size the kernel shows. `worker[s]` is the
handler in a slot: kubelet runs one operation per path and, when a call times out, forgets it
and asks again while the old handler goes on in the slot `Late`. Each `mount`, `umount`,
`blkid`, `mkfs`, rescan, resize and removal is a step. Stage is `find -> [metadata] -> check ->
format -> [mkfs] -> mount -> [rescan -> format ...] -> [resize]`, publish is `check -> bind` or,
for block volumes, `find -> make -> bind`, and the two reverse operations are
CleanupMountPoint of mount-utils; its single unmount, the check after it and the removal are
separate steps. Expansion is `findfs -> geometry -> grow`.

Kubelet does not wait for a handler that it gave up, and the driver has no lock per volume, so
an abandoned handler runs beside every later request. On its own path it may meet its opposite:
an abandoned NodeStageVolume mounts after NodeUnstageVolume has answered, an abandoned
NodeUnpublishVolume takes away what the next NodePublishVolume mounted. `crossed` remembers that
this has happened. From then on `AnswersTrue`, `DataSurvives`, the refinement and parts of
`PodsServed` are no longer claimed: without that excuse TLC finds the first three violated. All
other meetings, of repeated handlers on one path and of any handlers on different paths, are
covered; `RestoredIsResized` holds whatever meets. `RescanOnResize = TRUE` is the option that
compares the size of the device with the claim before the file system is resized; without it
`ExpandedIsLarge` fails, and the run has it on.

### ExclusiveVolume and VolumeLife
`ExclusiveVolume` is the abstract specification of one volume: on one server at a time, used
only there, not taken from a server that uses it unless the server is deleted, its data kept.
Two modules implement it. `NodeServer` is one server of it: `holder` is the node while the
volume is attached, `users` the node while anything of the volume is mounted, and `written` is
that there is data (`ImplementsExclusive`). `VolumeLife` composes `VolumeAttach` with every
node's use of the volume, reduced to the steps that `NodeServer` has been shown to take, as long
as opposite handlers do not meet (`EveryVolumeExclusive`, one instance per volume). Kubelet and the attach/detach controller
stand between the two: a node uses a volume after ControllerPublishVolume succeeded, and
a VolumeAttachment is deleted when the node does not use the volume.

### NodeInfo
NodeGetInfo: GetInstanceID, then MaxVolumesPerNode, which adds three counts (free slots,
directories of file system volumes, directories of block volumes), one step each, then
GetAvailabilityZone. The first and the last run Get of `Metadata`, so two requests meet at the
cache and at the config drive, while volumes move between away, attached and staged. Volumes of
another driver, or with unreadable data, are among them.

### LBSpec
lbSpecFromService and compareLBwithSpec as operators over a record of annotations, ports, nodes
and options; values are absent, unparsable or members of small sets. The machine around them
edits one field at a time and reconciles; the API (external) fills in an ephemeral address and
no other default, may keep the targets of each pool in any order and refuses immutable changes.
Health checks, which lbSpecFromService never asks for and compareLBwithSpec compares, are set at
the API behind the controller. The assignment of security groups is disabled in every new load
balancer and taken over unchanged by every update (loadbalancer.go:158); Init has load balancers
of a controller that did not disable it yet. `MCLBSpec` has 23 fields with two to five values
each. SliceEqualUnordered of pkg/cmp, which takes matches out of the second list one by one, is
the existence of `match`, the function its loop computes.

### Instances
Servers, node objects and the two controllers of k8s.io/cloud-provider, each of which asks and
later writes what it was told. Answers list servers and interfaces in any order; calls fail;
servers are stopped, deleted and replaced under their name. Provider ids come in all the forms
that instanceIDFromProviderID tells apart. Servers of a project bear different names: the API
does not enforce it, and getServerByName takes the first of a name.

What the node controller was told outlives the node: it is applied to whatever node bears the
name by then, which may run on a newer server. So a node may carry the provider id of a server
that is gone. `BoundToHost` says that it is never that of another *living* server,
`NeverEvicted` that a node is deleted only if its server or the one its provider id names is
gone, and `EventuallySettled` excuses the addresses of such a node. The lifecycle controller
looks at nodes that are not ready, so a ready node with a stale provider id keeps it. A kubelet
registers a node only where there is none: that a new server adopts the node object of an old
one is not modelled.

### Metadata
Get: the cache, read and written without a lock by concurrent requests, and per source the
steps it takes; for the config drive `mount -> open -> [close] -> unmount -> remove`, all on
os.TempDir(). Mounts pile up, a mount with an open file cannot be unmounted, and a directory that
is mounted on cannot be removed. `TmpEmpty` says that nothing else lies in that directory,
as in the driver's image. `overlapped` remembers that two requests have been at the drive at a
time.

## Runs

| Run | Instance | Shows |
|---|---|---|
| `lb_safety` | 1 service, 4 specifications (one port, two ports, another network, invalid), 2 metrics configurations or none, 2 credential references, 2 lists of nodes, 3 disturbances | `AtMostOneCredential`, `NoDanglingReference`, `DeletesOnlyUnreferenced`, `DeletedLeavesNothing`, `ReadyInSync`, `TargetsFollowNodes`, the inductive invariant `CredentialInv`, `TypeOK` |
| `lb_live` | 1 service, 2 specifications, 1 metrics configuration or none, 2 lists of nodes, 3 disturbances, fair | `Converges`: load balancers and target pools |
| `attach_safety` | `VolumeLife` with 2 volumes, 2 nodes of one lane, 4 disturbances | `PublishedIsAttached`, `UnpublishedIsDetached`, `EveryVolumeExclusive` (refinement) |
| `attach_live` | `VolumeReconcile` with 1 volume, 2 nodes, 4 disturbances, fair | `Repaired`, `EventuallyDetached` |
| `provision` | 1 claim, 8 requests over 3 sources, 3 expansions, 3 volumes, 5 disturbances, late delivery, fair | `StableHandle`, `CapacityReal`, `RightSource`, `DeletesOnlyReleased`, `ClaimsServed` (bound, expanded, deleted in the end) |
| `snapshot` | `SnapshotQueries` with 1 name of either type, 3 objects of each kind, late creations, 5 disturbances, fair | `ReadyIsReady`, `OneOfEach`, `NothingLost`, `ListingTrue` (`ListsWhatIsReady`, `ListedIsUsable`), `SnapshotsServed` |
| `node` | 2 pods, either mode, sizes 1 and 2 GiB, claim 1.5 GiB, 5 disturbances, fair | `AnswersTrue` (`ReadyIsMounted`, `GoneIsGone`, `ExpandedIsLarge`), `DataSurvives`, `RestoredIsResized`, `ImplementsExclusive` (refinement), `PodsServed` |
| `spec` | 23 fields and health checks, 3 edits with reconciliations anywhere between, new load balancer or an old one | `ImmutableIsExact`, `NoUpdateLoop`, `NoHistory` |
| `instances` | 2 names, 2 servers, no or three interfaces, provider ids absent or of openstack's form in any region, 2 disturbances, fair | `BoundToHost`, `NeverEvicted`, `AddressesStable`, `EventuallySettled` |
| `info` | `NodeInfo` with 2 requests, 3 volumes of different kinds, 2 slots, 2 disturbances, fair | `NothingMounted`, `ZoneFollowsId`, `KnownByService`, `CountIsHonest` |
| `snapshot_delete` | 1 name, 3 disturbances | **violated**: `DeletedIsGone` |
| `query_get` | 1 volume, 2 nodes, 2 disturbances | **violated**: `GetVolumeAnswers` |

Bounds. A *disturbance* is a user's change, a failed call, a lost answer, an API failure, a
restart, a reboot, a server that changes or disappears, or (in `info`) a volume that moves;
`MaxDisturbances` bounds them and everything else is
unbounded. Three cover the known difficult histories, such as "answer lost, restart with
other configuration, service removed"; the runs with five cover breaking off at every stage
of a multi-stage request in turn. Two credential references are enough to see a second set;
the theorems hold for any number. The quotas `MaxVolumes` and `MaxObjects` leave room for a
duplicate. In `spec` the comparison looks at one field after another and two at most
interact, so three edits reach every pair with a change back; `NodeServer` has one volume because
handlers of different volumes share no path. Claims and snapshot names meet only in the lists of
the project, where each looks for its own name; `provision` and `snapshot` therefore have one
and give their disturbances to it. `lb_safety` and `attach_safety` reduce by symmetry
(services, references, node lists, volumes and nodes are model values that no definition chooses
between); the runs with liveness do not. Deadlock is not checked: once requests are served and the
disturbances are used up, the system rests.

Fairness. Weak fairness of a running handler (a Go routine makes its next call, and calls
return), of the API finishing what it began, and of the callers repeating what failed (work
queues with back-off, CSI sidecars). A create call that timed out need not take effect.
`NodeServer` asks strong fairness of starting an expansion, which kubelet repeats but which
staging and unstaging switch off now and then. In `Instances` the node controller asks and
writes periodically, and the lifecycle controller is sure to look at a node whose server is
gone, which is not ready, and to finish what it began; in `VolumeReconcile` the attacher lists
periodically; in `NodeInfo` kubelet asks again and requests take their next step.

`NothingMounted` excludes requests that overlap at the drive: two concurrent ones stack their
mounts on the same directory, and the unmount that finds a file of the other request open fails
unnoticed, so a mount may stay.

### Disagreements with the code's own words
Two are shown by runs:

* `snapshot_delete`: DeleteSnapshot takes any error of GetBackup for "no backup" (line 748).
  One transient error makes it answer success for a backup that stays, against the comment
  "If volumeSnapshot object was linked to a cinder backup, delete the backup." (line 746).
* `query_get`: ControllerGetVolume dereferences the ServerId of a volume attached nowhere (line
  951) and the driver crashes, although driver.go:94 advertises GET_VOLUME.

Others were met while modelling and are left out of the properties:

* ControllerExpandVolume compares the limit with the bytes *before* rounding (line 975), while
  its error says "After round-up, volume size exceeds the limit specified" (line 976): with bytes
  7, limit 7 and a unit of 2, as in `provision`, the resize goes to 8.
* Extra labels are part of the specification (loadbalancer_spec.go:292-295) and
  compareLBwithSpec, which "checks whether the load balancer fulfills the specification" (line
  607), never compares them: changed labels reach only new load balancers. `NoHistory` leaves
  labels out.
* An unparsable yawol annotation is to be ignored "for backwards-compatibility" (lines 388, 413,
  438); beside its successor annotation it makes the service invalid (line 393).
* Interfaces are sorted "so that every time we use the same order for node addresses"
  (instances.go:165-166), by name of network only: of two networks with one name the order is the
  API's. The interfaces of `MCInstances` lie in networks of different names.
* "SHUTOFF is the only state where we can detach volumes immediately" (instances.go:87); the
  code answers "shut down" for a server that is STOPPING and for no other.
* A failed mount of the config drive removes os.TempDir() (metadata.go:183), on which every later
  attempt would mount, so "Get retrieves metadata from either config drive or metadata service"
  (line 309) no longer holds for the drive. `KnownByService` speaks of the service only.

## Proofs

TLC checks each property on the instance of its run. The eight `*Proofs` modules prove the
safety properties, action properties and refinements of the runs **for every value of the
constants**: any number of services, volumes, nodes, claims, names, servers, requests and
disturbances. Each has the same shape: an inductive invariant, a lemma per action (or group of
actions) that keeps it, and theorems that read the properties off it. The invariants were
checked by TLC on the instance of the run before they were proved. Types come first in each
module: TLA+ is untyped, and a step that writes one cell of a table needs to know that it is one.

| Property | Theorem | Module |
|---|---|---|
| `TypeOK`, `CredentialInv` | `TypeCorrect`, `CredentialsSafe` | `LoadBalancerProofs` |
| `AtMostOneCredential`, `NoDanglingReference` | `NeverTwoCredentials`, `ReferencesAlive` | |
| `DeletedLeavesNothing`, `DeletesOnlyUnreferenced` | `DeletionComplete`, `DeletionNeverRefused` | |
| `ReadyInSync`, `TargetsFollowNodes` | `ReadyMeansInSync`, `TargetsCurrentAtRest` | |
| `NoForeignDeletion` (two services at least; no run) | `ForeignUntouched` | |
| `PublishedIsAttached`, `UnpublishedIsDetached` | `PublishSafe`, `UnpublishSafe` | `VolumeAttachProofs` |
| `EveryVolumeExclusive` (refinement) | `Exclusivity` | |
| `UnpublishedIsDetached`, `DetachesOnlyUnwanted` (no run) in `VolumeReconcile` | `UnpublishSafeReconciled`, `NeverDetachedInUse` | |
| `StableHandle`, `CapacityReal` | `HandlesStable`, `CapacityIsReal` | `VolumeProvisionProofs` |
| `RightSource`, `DeletesOnlyReleased` | `SourceIsRight`, `DeletionSafe` | |
| `ReadyIsReady`, `OneOfEach` | `ReadySafe`, `Idempotent` | `SnapshotProofs` |
| `NothingLost`, `ListingTrue` | `DataKept`, `ListingsTrue` | |
| `BoundToHost`, `NeverEvicted`, `AddressesStable` | `NodesBound`, `NoEviction`, `AddressesKept` | `InstancesProofs` |
| `NothingMounted`, `CountIsHonest`, `ZoneFollowsId` | `InfoDriveReleased`, `CountHonest`, `ZoneKnown` | `NodeInfoProofs` |
| `ImmutableIsExact`, `NoUpdateLoop`, `NoHistory` | `ImmutableExact`, `UpdatesSettle`, `HistoryForgotten` | `LBSpecProofs` |
| SliceEqualUnordered is equality up to order | `SliceEqualUnorderedCorrect` | |
| `AnswersTrue`, `DataSurvives`, `RestoredIsResized` | `AnswersStayTrue`, `DataIsKept`, `ResizedWhenStaged` | `NodeServerProofs` |
| `ImplementsExclusive` (refinement), `TypeOK` (no run) | `NodeIsExclusive`, `TypeCorrect` | |

### What they assume
Nothing but the named assumptions of the modules, which TLC evaluates in every run: that the
values that stand for "none" are none of the others, that counts and bounds are natural numbers,
and that constants which describe data have the right shape. Those that say something about the
system are: `Unit` and `Gib` are not 0; the sizes of volumes are whole GiB; the volumes of a
node are finitely many; the search order of the metadata names a source, and sources it knows;
the API's ephemeral address is an address; the nodes and the ports of a service are finite lists
(not that they differ in name).

Some theorems have a hypothesis of their own. `AddressesKept` assumes `OwnNetworks`, that no two
interfaces of a server lie in networks of one name (otherwise the order of the API shows through,
see above), and that a server has finitely many. The theorems of `NodeServerProofs` have none;
`AnswersTrue` includes the size of the file system only with `RescanOnResize`.

### Why the invariants are needed
None of the properties is inductive as it stands, because a handler acts on what it learned some
calls ago; the strengthening says, per call, what it learned that is still true.

* **`LoadBalancerProofs`**. That a service has at most one set of credentials after
  `CreateCredentials` needs that the clean-up before it was complete; that no reference dangles
  after `UpdateLB` needs that the reference the handler holds is alive *now*. `HandlerInv` of
  `LoadBalancer` states what has been established before each call, `ControlInv` ties the local
  variables to the position. Actions of one service leave the invariant of another alone because
  credentials are created under, and deleted by, the service's own name, and a reference that is
  handed out is new (`Fresh`). For `ReadyInSync`, `SyncInv` adds that nobody but the handler
  ends the load balancer it read or changes more than its targets (host updates do), and that
  the credentials it will refer to hold the configured secret. For `TargetsFollowNodes`,
  `TargetInv` says that what was read is what is there while the version is the same
  (`VersionInv`), that a handler with an older list of nodes was noticed by `raced` or can no
  longer write (`OutdatedInv`), and that the pools it saw up to date still are, unless a host
  update is due (`ServedInv`). `ForeignUntouched` rests on `OwnerSteps`: three calls change
  whose credentials are whose.
* **`VolumeAttachProofs`**. `ShapeInv` is what the API keeps (a volume being attached has no
  server yet, a volume being detached still has). `HandlerInv` is what the handlers know: one
  that works has no answer out, one that unpublishes excludes publishing on that node, what the
  publisher read of its own server is still so, and the detacher has seen that no attachment to
  its node is under way. That last one is why an attachment that timed out cannot complete after
  a successful unpublish. `LifeInv` adds that a volume in use is wanted and published there,
  which gives the step simulation of `ExclusiveVolume`, one case per action. In
  `VolumeReconcile` an operator makes `PublishedIsAttached` false, and with it what publishers
  know; `DetachInv` is the rest, which needs none of it.
* **`VolumeProvisionProofs`**. `RoundUpSize` is first shown to be the least number of units that
  suffices. Then: the volumes of a name (`VolumeInv`), what a creating handler knows
  (`CreatorInv`: one that has gone past the list knows that no volume was answered yet, because
  an answered volume stays in the list, alone or, after a late creation, beside a duplicate,
  which is an error), what was answered (`AnswerInv`) and what an expansion waits for
  (`ExpanderInv`). For `DeletesOnlyReleased`, `DetachedInv`: what diskIsUsed saw is still so
  when the volume is deleted, because nobody attaches the volume of a released claim.
* **`SnapshotProofs`**. `NameInv`: one snapshot and one backup of a name that were made in time
  (`InTime`), and every backup that was asked for, whether it has appeared or not (`Made`), is
  of one snapshot, which is there until a backup can be found (`Behind`). `HandlerInv` lists
  what each call relies on (what was not found, what is held, that the backup is available
  before the snapshot is dropped); `AnsweredInv` ties answers to objects. `ListInv` carries this
  through the two calls of a listing.
* **`InstancesProofs`**. `NamesInv`: living servers differ in name. `NodeInv`: the server behind
  a node, the one its provider id names and the one an answer on its way is about have all borne
  the node's name, and bear it if they live (`Bears`), so that two of them that live are one;
  and a node that is about to be deleted is `Orphaned`, which no step undoes. `AddressesStable`
  needs that sorting by network forgets the order in which the API listed the interfaces: the
  place of an interface is the number of networks before its own (`Rank`).
* **`NodeInfoProofs`**. `DriveInv`: the one request at the drive made the only mount. `CacheInv`
  and `StageInv`: the cache is filled once the id is known. `CountInv`: the counts taken so far
  differ from what they would give now by at most the volumes that moved, each of which changes
  one cardinality by one.
* **`LBSpecProofs`**. `AddressInv`: how the address of a load balancer follows from being
  private or ephemeral. Then `ImmutableChanged` and the API's refusal are the same predicate,
  and a reconciliation leaves each field as new. `ListInv`: the pools of a load balancer and
  their targets are lists, an earlier controller's load balancer included. What
  SliceEqualUnordered computes would be an induction over the loop; the proof gives the outcome
  instead. If every element occurs equally often in both lists, the k-th occurrence of an
  element takes the k-th one (`Rank` counts the occurrences up to a place), which is what the
  loop does (`MatchingComplete`); if the loop succeeds, its matches are a bijection
  (`MatchingSound`). `OutcomeInv`: what the last reconciliation found is so until the next edit.
* **`NodeServerProofs`**. The invariant is `MeetInv`: until opposite handlers have met,
  `NodeInv`. Of its parts, `ApartInv`: handlers that mount and handlers that unmount are not on
  one path. `KubeletInv`: what kubelet was told while a handler runs, abandoned ones included.
  `HandlerInv`: at `mkfs` a device with data on it is mounted somewhere, so that `mkfs` refuses
  it; this is what `DataSurvives` needs when a time-out leaves two handlers of NodeStageVolume
  between `blkid` and `mkfs`. `HostInv`: only the volume is mounted, once on the staging path,
  and only while there is a device. `CrossInv`, types and the places where handlers are, is what
  stays when opposite handlers meet.

### Only model-checked
* Liveness, outside the prover's reach: `Converges`, `Repaired`, `EventuallyDetached`,
  `ClaimsServed`, `SnapshotsServed`, `PodsServed`, `EventuallySettled`, `KnownByService`.
* The two properties that are violated.

## What is not modelled

Late delivery of load balancer calls; a handler of CreateSnapshot that outlives its caller; two
CCM instances at the same time (leader election excludes it but for its lease); load balancers
that were never created (the code documents that their credentials are left, lines 317-320); a
service that is brought back and removed again while its old load balancer is terminating, for
which EnsureLoadBalancerDeleted returns early and credentials made in between stay; a claim
deleted while CreateVolume is still being repeated; an AddVolumeToServer that takes effect after
its time-out (an attachment that began and completes late is modelled), and volumes that the
attach/detach controller detaches by force; snapshots and backups that take time to be deleted;
defaults that the load balancer API may fill in; a node object that a new server takes over;
directories of volumes that are left after a reboot when NodeGetInfo counts; encryption
parameters, volume parameters and labels of payloads; servers of one name; mount options and
file system types; ValidateVolumeCapabilities, NodeGetVolumeStats, the capabilities and the
identity server, GetFlavor and GetDevicePath of the metadata, which read and format; that
Kubernetes takes a MaxVolumesPerNode of 0 for "no limit"; start-up, configuration, metrics and
mocks.

## Plan

The parts listed above are modelled and checked, and every safety property, action property and
refinement that a passing run checks is proved. What remains:

1. `NodeServer` after opposite handlers have met on one path: what can still be said, and which
   of these meetings do no harm. The resize of restored volumes and the types hold; a lock per
   volume in the driver would rule the meetings out.
2. `VolumeReconcile`: `Repaired` is checked for one volume and two nodes only.
