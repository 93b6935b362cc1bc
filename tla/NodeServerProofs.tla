--------------------------- MODULE NodeServerProofs ---------------------------
(***************************************************************************)
(* Proofs about NodeServer, for any number of pods, any sizes and any      *)
(* number of disturbances: what the node server answers is true and stays  *)
(* true, data survives every retry, and the node is one server of an       *)
(* ExclusiveVolume, as long as no handler that kubelet gave up has met the *)
(* opposite handler on its own path (~crossed).  What follows from         *)
(* CrossInv holds after that too.                                          *)
(***************************************************************************)
EXTENDS NodeServer, SequenceTheorems, TLAPS

Busy(s) == worker[s] # Idle

\* Where a handler can be, and on which path.
ControlInv(s) ==
    \/ worker[s] = Idle
    \/ /\ s \in Paths => Path(s) = s
       /\ \/ /\ Op(s) = "stage" /\ Path(s) = Staging
             /\ \/ worker[s].step \in {"find", "metadata"}
                \/ /\ worker[s].step \in {"check", "format", "mkfs", "mount", "rescan", "resize"}
                   /\ mode = "Filesystem"
                   /\ At(s, "rescan") => worker[s].try = 1
          \/ /\ Op(s) = "publish" /\ Path(s) \in Pods
             /\ worker[s].step \in (IF mode = "Block" THEN {"find", "metadata", "make", "bind"}
                                                      ELSE {"check", "bind"})
          \/ /\ Op(s) = "unpublish" /\ Path(s) \in Pods
             /\ worker[s].step \in {"clean", "unmount", "recheck"}
          \/ /\ Op(s) = "unstage" /\ Path(s) = Staging
             /\ worker[s].step \in {"clean", "unmount", "recheck"}
          \/ /\ Op(s) = "expand" /\ Path(s) \in Paths
             /\ At(s, "findfs") \/ (worker[s].step \in {"geometry", "grow"} /\ mode = "Filesystem")

\* A handler that mounts and one that unmounts do not meet on one path.
ApartInv ==
    \A s, t \in Slots : Busy(s) /\ Busy(t) /\ Path(s) = Path(t) => ~Opposite(Op(s), Op(t))

\* What kubelet remembers while a handler runs.  A handler that kubelet gave up counts too,
\* but for an expansion: what it finds no longer matters.
KubeletInv(s) ==
    Busy(s) =>
       /\ Op(s) \in {"stage", "publish"} => told[Path(s)] # "no"
       /\ Op(s) = "publish" => told[Staging] = "yes"
       /\ Op(s) = "expand" /\ s # Late => told[Staging] = "yes" /\ told[Path(s)] = "yes"
       /\ Undoes(Op(s)) => told[Path(s)] # "yes"
       /\ Op(s) = "unstage" => \A p \in Pods : told[p] = "no"
       /\ s \in Paths /\ Op(s) # "expand" => told[s] = "maybe"

\* What a handler has seen and still holds: one that is about to format would find a device
\* with data on it mounted, one that resizes has its mount, one that grows the device.
HandlerInv(s) ==
    /\ At(s, "mkfs") /\ (disk.data \/ grown > 0) => Mounted(Staging)
    /\ At(s, "resize") => Mounted(Staging)
    /\ worker[s].step \in {"geometry", "grow"} /\ s # Late => worker[s].fs = "vol"
    /\ At(s, "grow") /\ s # Late /\ RescanOnResize => LargeEnough(dev, worker[s].size)

\* Nothing but the volume is ever mounted, at most once on the staging path, and only while
\* there is a device; sizes follow each other; a volume in use has a file system.
HostInv ==
    /\ mounts \in [Paths -> Seq({"vol"})] /\ Len(mounts[Staging]) <= 1
    /\ \A p \in Paths : Mounted(p) => dev # 0
    /\ disk.fsSize <= disk.size /\ dev <= disk.size
    /\ dev # 0 => attached /\ disk.fsSize <= dev
    /\ restored => mode = "Filesystem"
    /\ mode = "Filesystem" /\ (VolumeMounted \/ disk.data) => disk.fs = "ext4"

\* What kubelet was told is true.
ToldInv ==
    /\ \A p \in Paths :
          /\ told[p] = "no" => ~Mounted(p)
          /\ told[p] = "yes" /\ (mode = "Filesystem" \/ p # Staging) => Mounted(p)
    /\ told[Staging] = "no" => \A p \in Pods : told[p] = "no"
    /\ \A p \in Pods : told[p] = "yes" => told[Staging] = "yes"

GrownInv ==
    /\ ExpandedIsLarge
    /\ mode = "Filesystem" /\ grown > 0 => disk.fs = "ext4"

SlotInv(s) == ControlInv(s) /\ KubeletInv(s) /\ HandlerInv(s)

NodeInv ==
    /\ TypeOK /\ HostInv /\ ToldInv /\ GrownInv /\ ApartInv
    /\ \A s \in Slots : SlotInv(s)

-----------------------------------------------------------------------------
\* Types and sizes.

Jobs == [op : Ops, path : Paths, step : Steps, try : {1, 2}, size : Claims \cup {0},
         fs : {"none", "vol", "root"}]

DiskType == [size : VolumeSizes, fs : {"none", "ext4"}, fsSize : VolumeSizes \cup {0},
             data : BOOLEAN]

Answers == {"yes", "no", "maybe"}

\* TypeOK with its sets named.
Typed ==
    /\ mode \in {"Filesystem", "Block"} /\ restored \in BOOLEAN
    /\ disk \in DiskType /\ attached \in BOOLEAN /\ dev \in VolumeSizes \cup {0}
    /\ exists \in [Paths -> BOOLEAN]
    /\ worker \in [Slots -> {Idle} \cup Jobs]
    /\ told \in [Paths -> Answers]
    /\ want \in [Pods -> BOOLEAN]
    /\ claim \in Claims \cup {0} /\ grown \in Claims \cup {0}
    /\ crossed \in BOOLEAN /\ budget \in Nat

LEMMA TypeParts == (TypeOK => Typed) /\ (Typed /\ HostInv => TypeOK)
  <1>1. ASSUME HostInv PROVE mounts \in [Paths -> Seq({"vol", "dir"})]
    <2>1. Seq({"vol"}) \subseteq Seq({"vol", "dir"})
      OBVIOUS
    <2> QED
      BY <1>1, <2>1 DEF HostInv
  <1> QED
    BY <1>1 DEF TypeOK, Typed, Jobs, DiskType, Answers

\* The same after a step.
LEMMA TypePartsNext == (Typed' /\ HostInv' => TypeOK')
  BY TypeParts, PTL

LEMMA IdleValues ==
  /\ Idle.op = "none" /\ Idle.step = "none" /\ Idle.path = Staging /\ Idle.fs = "none"
  /\ Idle \notin Jobs
  /\ \A s : ~Busy(s) => Op(s) = "none" /\ worker[s].step = "none"
  BY DEF Idle, Jobs, Ops, Busy, Op

LEMMA SizeTypes ==
  /\ VolumeSizes \subseteq Nat \ {0} /\ Claims \subseteq Nat
  /\ Staging \in Paths /\ Pods \subseteq Paths /\ Paths \subseteq Slots /\ Late \in Slots
  /\ Staging \notin Pods /\ Late \notin Paths
  BY NodeAssumption DEF Paths, Slots

LEMMA DiskSizes ==
  ASSUME NEW d \in DiskType
  PROVE  d.size \in Nat \ {0} /\ d.fsSize \in Nat /\ d.data \in BOOLEAN
  <1>1. d.size \in VolumeSizes /\ d.fsSize \in VolumeSizes \cup {0} /\ d.data \in BOOLEAN
    BY DEF DiskType
  <1> QED
    BY <1>1, NodeAssumption

LEMMA Sizes ==
  ASSUME Typed
  PROVE  /\ dev \in Nat /\ grown \in Nat /\ claim \in Nat
         /\ disk.size \in Nat \ {0} /\ disk.fsSize \in Nat
         /\ \A s \in Slots : worker[s].size \in Nat /\ (Busy(s) => worker[s] \in Jobs)
  <1>1. ASSUME NEW s \in Slots PROVE worker[s].size \in Nat
    <2>1. CASE worker[s] = Idle
      BY <2>1 DEF Idle
    <2>2. CASE worker[s] \in Jobs
      <3>1. worker[s].size \in Claims \cup {0}
        BY <2>2 DEF Jobs
      <3> QED
        BY <3>1, NodeAssumption
    <2> QED
      BY <2>1, <2>2 DEF Typed
  <1> QED
    BY <1>1, DiskSizes, NodeAssumption DEF Typed, Busy

\* What is mounted is the volume.
OnlyVolumes ==
    /\ \A p \in Paths : (VolumeOn(p) <=> Mounted(p)) /\ (Mounted(p) => Shows(p) = "vol")
    /\ VolumeMounted <=> \E p \in Paths : Mounted(p)

LEMMA MountsAreVolumes == HostInv => OnlyVolumes
  <1> SUFFICES ASSUME HostInv PROVE OnlyVolumes
    OBVIOUS
  <1>1. ASSUME NEW p \in Paths
        PROVE  (VolumeOn(p) <=> Mounted(p)) /\ (Mounted(p) => Shows(p) = "vol")
    <2>1. mounts[p] \in Seq({"vol"})
      BY DEF HostInv
    <2>2. CASE mounts[p] = <<>>
      BY <2>2 DEF VolumeOn, Mounted
    <2>3. CASE mounts[p] # <<>>
      <3>1. 1 \in DOMAIN mounts[p] /\ mounts[p][1] = "vol" /\ Head(mounts[p]) = "vol"
        BY <2>1, <2>3
      <3> QED
        BY <3>1, <2>3 DEF VolumeOn, Mounted, Shows
    <2> QED
      BY <2>2, <2>3
  <1> QED
    BY <1>1 DEF VolumeMounted, OnlyVolumes

\* The same after a step.
LEMMA MountsAreVolumesNext == HostInv' => OnlyVolumes'
  BY MountsAreVolumes, PTL

\* checkBlockDeviceSize: whole GiB, so a device that passes holds the bytes.
LEMMA LargeEnoughHolds ==
  ASSUME NEW d \in VolumeSizes, NEW b \in Nat, LargeEnough(d, b)
  PROVE  d >= b
  <1>1. Gib \in Nat /\ Gib > 0 /\ d \in Nat /\ d % Gib = 0
    BY NodeAssumption
  <1> DEFINE q == d \div Gib
             r == (b + Gib - 1) \div Gib
             rest == (b + Gib - 1) % Gib
  <1>2. q \in Nat /\ d = Gib * q
    BY <1>1
  <1>3. r \in Nat /\ rest \in Nat /\ rest < Gib /\ b + Gib - 1 = Gib * r + rest
    BY <1>1
  <1>4. RoundUpSize(d) = q
    <2>1. d + Gib - 1 = Gib * q + (Gib - 1)
      BY <1>1, <1>2
    <2> HIDE DEF q
    <2>2. (Gib * q + (Gib - 1)) \div Gib = q
      BY <1>1, <1>2
    <2> QED
      BY <2>1, <2>2 DEF RoundUpSize
  <1>5. q >= r
    BY <1>4 DEF LargeEnough, RoundUpSize
  <1> HIDE DEF q, r, rest
  <1>6. Gib * q >= Gib * r
    BY <1>1, <1>2, <1>3, <1>5
  <1> QED
    BY <1>1, <1>2, <1>3, <1>6

\* A device that grows stays large enough.
LEMMA LargeEnoughGrows ==
  ASSUME NEW d \in Nat, NEW e \in Nat, d <= e, NEW b \in Nat, LargeEnough(d, b)
  PROVE  LargeEnough(e, b)
  <1>1. Gib \in Nat /\ Gib > 0
    BY NodeAssumption
  <1> DEFINE q == (d + Gib - 1) \div Gib
             r == (e + Gib - 1) \div Gib
             x == (d + Gib - 1) % Gib
             y == (e + Gib - 1) % Gib
  <1>2. q \in Nat /\ x \in Nat /\ x < Gib /\ d + Gib - 1 = Gib * q + x
    BY <1>1
  <1>3. r \in Nat /\ y \in Nat /\ y < Gib /\ e + Gib - 1 = Gib * r + y
    BY <1>1
  <1>b. (b + Gib - 1) \div Gib \in Nat
    BY <1>1
  <1>r. RoundUpSize(d) = q /\ RoundUpSize(e) = r
    BY DEF RoundUpSize
  <1> HIDE DEF q, r, x, y
  <1>4. q <= r
    <2> SUFFICES ASSUME r + 1 <= q PROVE FALSE
      BY <1>2, <1>3
    <2>1. Gib * (r + 1) <= Gib * q
      BY <1>1, <1>2, <1>3
    <2>2. Gib * (r + 1) = Gib * r + Gib
      BY <1>1, <1>3
    <2> QED
      BY <1>1, <1>2, <1>3, <2>1, <2>2
  <1> QED
    BY <1>2, <1>3, <1>4, <1>b, <1>r DEF LargeEnough, RoundUpSize

-----------------------------------------------------------------------------
\* What a handler does to the host: one that unmounts touches its own path only, one that
\* mounts adds a mount to its own path; devices and file systems grow, and nobody formats a
\* volume that holds data or was expanded.
HostStep(s) ==
    /\ UNCHANGED <<mode, restored, crossed, user>>
    /\ HostInv'
    /\ disk' \in DiskType /\ dev' \in VolumeSizes \cup {0} /\ exists' \in [Paths -> BOOLEAN]
    /\ \A p \in Paths :
          /\ Mounted(p) /\ ~(Undoes(Op(s)) /\ p = Path(s)) => Mounted(p)'
          /\ Mounted(p)' => Mounted(p) \/ (Op(s) \in {"stage", "publish"} /\ p = Path(s))
    /\ dev <= dev'
    /\ disk'.data => disk.data
    /\ disk.fs = "ext4" => disk'.fs = "ext4"
    /\ disk.fsSize <= disk'.fsSize \/ grown = 0

\* Handlers of other slots keep what they have seen.
LEMMA OtherHandlers ==
  ASSUME NodeInv, HostInv', NEW s \in Slots, Busy(s), HostStep(s), NEW t \in Slots, t # s,
         worker'[t] = worker[t],
         grown' = grown \/ Mounted(Staging) \/ mode = "Block"
  PROVE  ControlInv(t)' /\ HandlerInv(t)'
  <1>1. /\ ControlInv(t) /\ HandlerInv(t)
        /\ Busy(t) /\ Path(s) = Path(t) => ~Opposite(Op(s), Op(t))
    BY DEF NodeInv, SlotInv, ApartInv
  <1>2. ControlInv(t)'
    BY <1>1 DEF ControlInv, At, Op, Path, HostStep
  <1> SUFFICES HandlerInv(t)'
    BY <1>2
  <1>3. CASE worker[t] = Idle
    BY <1>3, IdleValues DEF HandlerInv, At
  <1>4. CASE Busy(t) /\ Undoes(Op(t))
    <2>1. worker[t].step \in {"clean", "unmount", "recheck"}
      BY <1>1, <1>4 DEF ControlInv, Busy, Undoes
    <2> QED
      BY <2>1 DEF HandlerInv, At
  <1>5. CASE Busy(t) /\ ~Undoes(Op(t))
    <2>1. Op(t) = "stage" /\ Mounted(Staging) => Mounted(Staging)'
      <3>1. Op(t) = "stage" => Path(t) = Staging
        BY <1>1, <1>5 DEF ControlInv, Busy
      <3> QED
        BY <1>1, <1>5, <3>1, SizeTypes DEF HostStep, Opposite
    <2>2. worker[t].step \in {"mkfs", "resize"} => mode = "Filesystem" /\ Op(t) = "stage"
      BY <1>1, <1>5 DEF ControlInv, Busy, At
    <2>3. At(t, "mkfs")' /\ (disk'.data \/ grown' > 0) => Mounted(Staging)'
      BY <1>1, <2>1, <2>2 DEF HandlerInv, HostStep, At
    <2>4. At(t, "resize")' => Mounted(Staging)'
      BY <1>1, <2>1, <2>2 DEF HandlerInv, At
    <2>5. At(t, "grow")' /\ t # Late /\ RescanOnResize => LargeEnough(dev', worker'[t].size)
      <3>1. dev \in Nat /\ worker[t].size \in Nat
        BY TypeParts, Sizes DEF NodeInv
      <3>2. dev <= dev'
        BY DEF HostStep
      <3>3. dev' \in Nat
        <4>1. dev' \in VolumeSizes \cup {0}
          BY DEF HostStep
        <4>2. \A size \in VolumeSizes \cup {0} : size \in Nat
          BY NodeAssumption
        <4> QED
          BY <4>1, <4>2, Zenon
      <3> QED
        BY <1>1, <3>1, <3>2, <3>3, LargeEnoughGrows DEF HandlerInv, At
    <2> QED
      BY <1>1, <2>3, <2>4, <2>5 DEF HandlerInv, At
  <1> QED
    BY <1>3, <1>4, <1>5 DEF Busy

\* The handler in slot s goes on.
LEMMA GoesOn ==
  ASSUME NodeInv, NEW s \in Slots, Busy(s), HostStep(s), NEW w \in Jobs,
         w.op = Op(s), w.path = Path(s), worker' = [worker EXCEPT ![s] = w],
         UNCHANGED <<told, grown>>, budget' \in Nat,
         ControlInv(s)', HandlerInv(s)'
  PROVE  NodeInv'
  <1>t. /\ TypeOK /\ HostInv /\ ToldInv /\ GrownInv /\ ApartInv
        /\ worker \in [Slots -> {Idle} \cup Jobs]
    BY TypeParts DEF NodeInv, Typed
  <1>h. HostInv'
    BY DEF HostStep
  <1>w. /\ worker' \in [Slots -> {Idle} \cup Jobs] /\ worker'[s] = w
        /\ \A t \in Slots : t # s => worker'[t] = worker[t]
        /\ \A t \in Slots : Op(t)' = Op(t) /\ Path(t)' = Path(t) /\ Busy(t)' = Busy(t)
    BY <1>t, IdleValues DEF Op, Path, Busy
  <1>1. TypeOK'
    BY <1>t, <1>h, <1>w, TypeParts, TypePartsNext DEF HostStep, user, Typed
  <1>2. ToldInv'
    BY <1>t, SizeTypes DEF ToldInv, HostStep, NodeInv, SlotInv, KubeletInv
  <1>3. GrownInv'
    <2>1. disk.fsSize \in Nat /\ disk'.fsSize \in Nat /\ grown \in Nat
      BY <1>t, TypeParts, Sizes, DiskSizes DEF HostStep
    <2> QED
      BY <1>t, <2>1 DEF GrownInv, ExpandedIsLarge, HostStep
  <1>4. ApartInv'
    BY <1>t, <1>w DEF ApartInv, Opposite, Undoes
  <1>5. ASSUME NEW t \in Slots PROVE SlotInv(t)'
    <2>1. KubeletInv(t)'
      BY <1>w DEF NodeInv, SlotInv, KubeletInv, Undoes
    <2>2. CASE t = s
      BY <2>1, <2>2 DEF SlotInv
    <2>3. CASE t # s
      BY <2>1, <2>3, <1>h, <1>w, OtherHandlers DEF SlotInv
    <2> QED
      BY <2>2, <2>3
  <1> QED
    BY <1>1, <1>h, <1>2, <1>3, <1>4, <1>5 DEF NodeInv

\* The handler in slot s ends with a true answer.
LEMMA AnswersTruly ==
  ASSUME NodeInv, NEW s \in Slots, Busy(s), HostStep(s), NEW a \in Answers, Answer(s, a),
         budget' \in Nat, NEW own \in Paths, own = Path(s),
         Undoes(Op(s)) => a # "yes" /\ (a = "no" => ~Mounted(own)'),
         ~Undoes(Op(s)) => a # "no",
         a = "yes" /\ Op(s) \in {"stage", "publish"} /\ (mode = "Filesystem" \/ own # Staging)
            => Mounted(own)',
         a = "yes" /\ Op(s) = "expand" /\ mode = "Filesystem" /\ s # Late =>
            /\ Mounted(Staging)
            /\ RescanOnResize => worker[s].size <= disk'.fsSize
  PROVE  NodeInv'
  <1>t. /\ TypeOK /\ HostInv /\ ToldInv /\ GrownInv /\ ApartInv /\ SlotInv(s)
        /\ worker \in [Slots -> {Idle} \cup Jobs] /\ told \in [Paths -> Answers]
        /\ worker[s] \in Jobs
    BY TypeParts DEF NodeInv, Typed, Busy
  <1>h. HostInv'
    BY DEF HostStep
  <1>w. /\ worker' \in [Slots -> {Idle} \cup Jobs] /\ worker'[s] = Idle
        /\ \A t \in Slots : t # s => worker'[t] = worker[t]
    BY <1>t DEF Answer
  <1>c. /\ Op(s) \in Ops /\ Path(s) \in Paths /\ (s \in Paths => Path(s) = s)
        /\ Op(s) \in {"stage", "unstage"} => Path(s) = Staging
        /\ Op(s) \in {"publish", "unpublish"} => Path(s) \in Pods
        /\ s # Late => s \in Paths
    BY <1>t, SizeTypes DEF Jobs, SlotInv, ControlInv, Busy, Op, Path, Ops, Slots
  <1>k. \/ told' = told
        \/ /\ s \in Paths /\ Path(s) = s /\ told[s] = "maybe" /\ Op(s) # "expand"
           /\ told' = [told EXCEPT ![s] = a]
    BY <1>t, <1>c DEF Answer, SlotInv, KubeletInv
  <1>g. \/ grown' = grown
        \/ a = "yes" /\ Op(s) = "expand" /\ s # Late /\ grown' = worker[s].size
    BY DEF Answer
  <1>1. TypeOK'
    <2>1. told' \in [Paths -> Answers]
      BY <1>t, <1>k
    <2>2. grown' \in Claims \cup {0}
      BY <1>t, <1>g DEF TypeOK, Jobs
    <2> QED
      BY <1>t, <1>h, <1>w, <2>1, <2>2, TypeParts, TypePartsNext DEF HostStep, user, Typed
  <1>2. ToldInv'
    <2>1. CASE told' = told
      BY <1>t, <2>1, SizeTypes DEF ToldInv, HostStep, SlotInv, KubeletInv
    <2>2. CASE s \in Paths /\ Path(s) = s /\ told[s] = "maybe" /\ Op(s) # "expand"
               /\ told' = [told EXCEPT ![s] = a]
      <3>1. \A p \in Paths : told'[p] = IF p = s THEN a ELSE told[p]
        BY <2>2, <1>t
      <3>2. ASSUME NEW p \in Paths
            PROVE  /\ told'[p] = "no" => ~Mounted(p)'
                   /\ told'[p] = "yes" /\ (mode' = "Filesystem" \/ p # Staging) => Mounted(p)'
        <4>1. CASE p = s
          <5>1. told'[p] = a /\ Path(s) = p /\ mode' = mode
            BY <2>2, <3>1, <4>1 DEF HostStep
          <5>2. Undoes(Op(s)) \/ Op(s) \in {"stage", "publish"}
            BY <1>c, <2>2 DEF Ops, Undoes
          <5> QED
            BY <5>1, <5>2
        <4>2. CASE p # s
          BY <1>t, <2>2, <3>1, <4>2 DEF ToldInv, HostStep
        <4> QED
          BY <4>1, <4>2
      <3>3. told'[Staging] = "no" => \A p \in Pods : told'[p] = "no"
        <4>1. CASE s = Staging
          <5>1. a = "no" => Op(s) = "unstage"
            BY <1>c, <4>1, <2>2, SizeTypes DEF Ops, Undoes
          <5> QED
            BY <4>1, <5>1, <3>1, <1>t, SizeTypes DEF SlotInv, KubeletInv
        <4>2. CASE s # Staging
          BY <4>2, <3>1, <2>2, <1>t, SizeTypes DEF ToldInv, Paths
        <4> QED
          BY <4>1, <4>2
      <3>4. ASSUME NEW p \in Pods, told'[p] = "yes"
            PROVE  told'[Staging] = "yes"
        <4>1. CASE p = s
          <5>1. Op(s) = "publish"
            BY <1>c, <2>2, <3>1, <3>4, <4>1, SizeTypes DEF Ops, Undoes
          <5> QED
            BY <1>t, <3>1, <4>1, <5>1, SizeTypes DEF SlotInv, KubeletInv
        <4>2. CASE p # s
          BY <1>t, <2>2, <3>1, <3>4, <4>2, SizeTypes DEF ToldInv
        <4> QED
          BY <4>1, <4>2
      <3> QED
        BY <3>2, <3>3, <3>4 DEF ToldInv
    <2> QED
      BY <1>k, <2>1, <2>2
  <1>3. GrownInv'
    <2>1. disk.fsSize \in Nat /\ disk'.fsSize \in Nat /\ grown \in Nat /\ grown' \in Nat
      BY <1>t, <1>g, TypeParts, Sizes, DiskSizes DEF HostStep
    <2>2. CASE grown' = grown
      BY <1>t, <2>1, <2>2 DEF GrownInv, ExpandedIsLarge, HostStep
    <2>3. CASE a = "yes" /\ Op(s) = "expand" /\ s # Late /\ grown' = worker[s].size
      <3>1. mode = "Filesystem" => VolumeMounted
        BY <1>t, <2>3, MountsAreVolumes, SizeTypes DEF OnlyVolumes
      <3> QED
        BY <1>t, <2>1, <2>3, <3>1 DEF GrownInv, ExpandedIsLarge, HostStep, HostInv
    <2> QED
      BY <1>g, <2>2, <2>3
  <1>4. ApartInv'
    BY <1>t, <1>w DEF ApartInv, Opposite, Undoes, Busy, Op, Path
  <1>5. ASSUME NEW t \in Slots PROVE SlotInv(t)'
    <2>1. CASE t = s
      BY <2>1, <1>w, IdleValues DEF SlotInv, ControlInv, KubeletInv, HandlerInv, Busy, At
    <2>2. CASE t # s
      <3>1. ControlInv(t)' /\ HandlerInv(t)'
        BY <2>2, <1>h, <1>w, <1>g, OtherHandlers DEF TypeOK, NodeInv
      <3>2. KubeletInv(t)'
        <4>1. SUFFICES ASSUME Busy(t) PROVE KubeletInv(t)'
          BY <2>2, <1>w DEF KubeletInv, Busy
        <4>2. /\ KubeletInv(t) /\ ControlInv(t) /\ worker'[t] = worker[t]
              /\ Path(s) = Path(t) => ~Opposite(Op(s), Op(t))
          BY <4>1, <2>2, <1>w DEF NodeInv, SlotInv, ApartInv
        <4>3. /\ Op(t) \in Ops /\ Path(t) \in Paths
              /\ Op(t) \in {"stage", "unstage"} => Path(t) = Staging
              /\ Op(t) \in {"publish", "unpublish"} => Path(t) \in Pods
              /\ (t \in Paths => Path(t) = t)
          BY <4>1, <4>2, SizeTypes DEF ControlInv, Busy, Ops
        <4>4. CASE told' = told
          BY <4>1, <4>2, <4>4 DEF KubeletInv, Busy, Op, Path
        <4>5. CASE s \in Paths /\ Path(s) = s /\ told[s] = "maybe" /\ Op(s) # "expand"
                   /\ told' = [told EXCEPT ![s] = a]
          <5>1. \A p \in Paths : told'[p] = IF p = s THEN a ELSE told[p]
            BY <4>5, <1>t
          <5>2. Op(t)' = Op(t) /\ Path(t)' = Path(t)
            BY <4>2 DEF Op, Path
          <5>3. Op(t) \in {"stage", "publish"} => told'[Path(t)] # "no"
            BY <4>1, <4>2, <4>3, <4>5, <5>1 DEF KubeletInv, Opposite
          <5>4. Op(t) = "publish" => told'[Staging] = "yes"
            BY <4>1, <4>2, <4>3, <4>5, <5>1, SizeTypes DEF KubeletInv
          <5>5. Op(t) = "expand" /\ t # Late => told'[Staging] = "yes" /\ told'[Path(t)] = "yes"
            BY <4>1, <4>2, <4>3, <4>5, <5>1, SizeTypes DEF KubeletInv
          <5>6. Undoes(Op(t)) => told'[Path(t)] # "yes"
            BY <1>c, <4>1, <4>2, <4>3, <4>5, <5>1 DEF KubeletInv, Opposite, Ops, Undoes
          <5>7. Op(t) = "unstage" => \A p \in Pods : told'[p] = "no"
            BY <4>1, <4>2, <4>3, <4>5, <5>1, SizeTypes DEF KubeletInv
          <5>8. t \in Paths /\ Op(t) # "expand" => told'[t] = "maybe"
            BY <4>1, <4>2, <2>2, <5>1 DEF KubeletInv
          <5> QED
            BY <5>2, <5>3, <5>4, <5>5, <5>6, <5>7, <5>8 DEF KubeletInv, Undoes
        <4> QED
          BY <1>k, <4>4, <4>5
      <3> QED
        BY <3>1, <3>2 DEF SlotInv
    <2> QED
      BY <2>1, <2>2
  <1> QED
    BY <1>1, <1>h, <1>2, <1>3, <1>4, <1>5 DEF NodeInv

-----------------------------------------------------------------------------
\* The calls that change the host.

Rest == UNCHANGED <<mode, restored, crossed, user>> /\ exists' \in [Paths -> BOOLEAN]

LEMMA HostSame ==
  ASSUME NodeInv, NEW s \in Slots, Rest, mounts' = mounts, disk' = disk, dev' = dev
  PROVE  HostStep(s)
  <1>1. Typed /\ HostInv
    BY TypeParts DEF NodeInv
  <1>2. HostInv'
    BY <1>1 DEF HostInv, Mounted, VolumeMounted, VolumeOn, Rest, user
  <1>3. dev \in Nat /\ disk.fsSize \in Nat
    BY <1>1, Sizes
  <1> QED
    BY <1>1, <1>2, <1>3 DEF HostStep, Rest, Typed, Mounted

\* FormatAndMount and the bind mounts.
LEMMA HostMount ==
  ASSUME NodeInv, NEW s \in Slots, Rest, disk' = disk, dev' = dev,
         NEW own \in Paths, own = Path(s), Op(s) \in {"stage", "publish"},
         mounts' = [mounts EXCEPT ![own] = <<"vol">> \o @],
         dev # 0, own = Staging => ~Mounted(Staging), mode = "Filesystem" => disk.fs = "ext4"
  PROVE  HostStep(s) /\ Mounted(own)'
  <1>1. Typed /\ HostInv
    BY TypeParts DEF NodeInv
  <1>2. dev \in Nat /\ disk.fsSize \in Nat
    BY <1>1, Sizes
  <1>3. /\ mounts \in [Paths -> Seq({"vol"})] /\ mounts[own] \in Seq({"vol"})
        /\ Staging \in Paths
    BY <1>1, SizeTypes DEF HostInv
  <1>4. /\ <<"vol">> \o mounts[own] \in Seq({"vol"}) /\ <<"vol">> \o mounts[own] # <<>>
        /\ mounts[own] = <<>> => Len(<<"vol">> \o mounts[own]) = 1
    BY <1>3
  <1>5. /\ mounts' \in [Paths -> Seq({"vol"})]
        /\ \A p \in Paths : mounts'[p] = IF p = own THEN <<"vol">> \o mounts[own] ELSE mounts[p]
    BY <1>3, <1>4
  <1>6. Len(mounts'[Staging]) <= 1
    BY <1>1, <1>3, <1>4, <1>5 DEF HostInv, Mounted
  <1>7. HostInv'
    BY <1>1, <1>5, <1>6 DEF HostInv, Rest, user
  <1>8. Mounted(own)' /\ \A p \in Paths : (Mounted(p) => Mounted(p)') /\ (Mounted(p)' => Mounted(p) \/ p = own)
    BY <1>4, <1>5 DEF Mounted
  <1> QED
    BY <1>1, <1>2, <1>7, <1>8 DEF HostStep, Rest, Typed

LEMMA HostUnmount ==
  ASSUME NodeInv, NEW s \in Slots, Rest, disk' = disk, dev' = dev,
         NEW own \in Paths, own = Path(s), Undoes(Op(s)), Mounted(own),
         mounts' = [mounts EXCEPT ![own] = Tail(@)]
  PROVE  HostStep(s)
  <1>1. Typed /\ HostInv
    BY TypeParts DEF NodeInv
  <1>2. dev \in Nat /\ disk.fsSize \in Nat
    BY <1>1, Sizes
  <1>3. /\ mounts \in [Paths -> Seq({"vol"})] /\ mounts[own] \in Seq({"vol"})
        /\ Staging \in Paths /\ mounts[own] # <<>>
    BY <1>1, SizeTypes DEF HostInv, Mounted
  <1>4. Tail(mounts[own]) \in Seq({"vol"}) /\ Len(Tail(mounts[own])) = Len(mounts[own]) - 1
    BY <1>3
  <1>5. /\ mounts' \in [Paths -> Seq({"vol"})]
        /\ \A p \in Paths : mounts'[p] = IF p = own THEN Tail(mounts[own]) ELSE mounts[p]
    BY <1>3, <1>4
  <1>6. Len(mounts'[Staging]) <= 1
    <2>1. Len(mounts[Staging]) <= 1 /\ Len(mounts[Staging]) \in Nat
      BY <1>1, <1>3 DEF HostInv
    <2> QED
      BY <1>3, <1>4, <1>5, <2>1
  <1>7. \A p \in Paths : Mounted(p)' => Mounted(p)
    BY <1>3, <1>5 DEF Mounted
  <1>8. \A p \in Paths : p # own /\ Mounted(p) => Mounted(p)'
    BY <1>5 DEF Mounted
  <1>9. VolumeMounted' => VolumeMounted
    <2>1. ASSUME NEW p \in Paths, VolumeOn(p)' PROVE Mounted(p)'
      BY <1>5, <2>1 DEF VolumeOn, Mounted
    <2> QED
      BY <1>1, <1>7, <2>1, MountsAreVolumes DEF VolumeMounted, OnlyVolumes
  <1>10. HostInv'
    BY <1>1, <1>5, <1>6, <1>7, <1>9 DEF HostInv, Rest, user
  <1> QED
    BY <1>1, <1>2, <1>7, <1>8, <1>10 DEF HostStep, Rest, Typed

\* mkfs, of a device that holds no data and is not mounted.
LEMMA HostFormat ==
  ASSUME NodeInv, NEW s \in Slots, Rest, mounts' = mounts, dev' = dev, dev # 0,
         ~disk.data, grown = 0,
         disk' = [disk EXCEPT !.fs = "ext4", !.fsSize = dev, !.data = FALSE]
  PROVE  HostStep(s)
  <1>1. Typed /\ HostInv
    BY TypeParts DEF NodeInv
  <1>2. dev \in Nat /\ dev \in VolumeSizes
    BY <1>1, Sizes DEF Typed
  <1>3. /\ disk' \in DiskType /\ disk'.fsSize = dev /\ disk'.size = disk.size
        /\ disk'.fs = "ext4" /\ disk'.data = FALSE
    BY <1>1, <1>2 DEF Typed, DiskType
  <1>4. HostInv'
    BY <1>1, <1>2, <1>3 DEF HostInv, Mounted, Rest, user
  <1> QED
    BY <1>1, <1>2, <1>3, <1>4 DEF HostStep, Rest, Typed, Mounted

\* resize2fs.
LEMMA HostResize ==
  ASSUME NodeInv, NEW s \in Slots, Rest, mounts' = mounts, dev' = dev, dev # 0,
         disk' = [disk EXCEPT !.fsSize = dev]
  PROVE  HostStep(s) /\ disk'.fsSize = dev
  <1>1. Typed /\ HostInv
    BY TypeParts DEF NodeInv
  <1>2. dev \in Nat /\ dev \in VolumeSizes
    BY <1>1, Sizes DEF Typed
  <1>3. /\ disk' \in DiskType /\ disk'.fsSize = dev /\ disk'.size = disk.size
        /\ disk'.fs = disk.fs /\ disk'.data = disk.data
    BY <1>1, <1>2 DEF Typed, DiskType
  <1>4. HostInv'
    BY <1>1, <1>2, <1>3 DEF HostInv, Mounted, VolumeMounted, VolumeOn, Rest, user
  <1>5. disk.fsSize <= dev
    BY <1>1 DEF HostInv
  <1> QED
    BY <1>1, <1>2, <1>3, <1>4, <1>5 DEF HostStep, Rest, Typed, Mounted

\* triggerRescan.
LEMMA HostRescan ==
  ASSUME NodeInv, NEW s \in Slots, Rest, mounts' = mounts, disk' = disk, Rescan
  PROVE  HostStep(s) /\ dev' \in VolumeSizes /\ dev <= dev'
  <1>1. Typed /\ HostInv
    BY TypeParts DEF NodeInv
  <1>2. dev \in Nat /\ dev # 0 /\ dev' = disk.size /\ disk.size \in Nat \ {0} /\ disk.fsSize \in Nat
    BY <1>1, Sizes DEF Rescan
  <1>3. disk.size \in VolumeSizes
    BY <1>1 DEF Typed, DiskType
  <1>4. HostInv'
    BY <1>1, <1>2 DEF HostInv, Mounted, VolumeMounted, VolumeOn, Rest, user
  <1>5. dev <= dev'
    BY <1>1, <1>2 DEF HostInv
  <1> QED
    BY <1>1, <1>2, <1>3, <1>4, <1>5 DEF HostStep, Rest, Typed, Mounted

-----------------------------------------------------------------------------
\* The steps of the handlers.

\* What the position of a handler says about it.
Place(s) ==
    /\ worker[s].step # "none" => Busy(s) /\ worker[s] \in Jobs /\ Path(s) \in Paths
    /\ s \in Paths /\ Busy(s) => Path(s) = s
    /\ worker[s].step \in {"find", "metadata"} =>
          \/ Op(s) = "stage" /\ Path(s) = Staging
          \/ Op(s) = "publish" /\ Path(s) \in Pods /\ mode = "Block"
    /\ At(s, "check") =>
          /\ mode = "Filesystem"
          /\ \/ Op(s) = "stage" /\ Path(s) = Staging
             \/ Op(s) = "publish" /\ Path(s) \in Pods
    /\ worker[s].step \in {"format", "mkfs", "mount", "rescan", "resize"} =>
          Op(s) = "stage" /\ Path(s) = Staging /\ mode = "Filesystem"
    /\ At(s, "rescan") => worker[s].try = 1
    /\ worker[s].step \in {"make", "bind"} => Op(s) = "publish" /\ Path(s) \in Pods
    /\ At(s, "make") => mode = "Block"
    /\ worker[s].step \in {"clean", "unmount", "recheck"} =>
          /\ Undoes(Op(s))
          /\ \/ Op(s) = "unpublish" /\ Path(s) \in Pods
             \/ Op(s) = "unstage" /\ Path(s) = Staging
    /\ worker[s].step \in {"findfs", "geometry", "grow"} => Op(s) = "expand"
    /\ worker[s].step \in {"geometry", "grow"} => mode = "Filesystem"

LEMMA Position ==
  ASSUME Typed, NEW s \in Slots, ControlInv(s)
  PROVE  Place(s)
  <1>1. ControlInv(s) /\ Typed
    OBVIOUS
  <1>2. worker[s].step # "none" => Busy(s) /\ worker[s] \in Jobs /\ Path(s) \in Paths
    BY <1>1, IdleValues DEF Typed, Jobs, Busy, Path
  <1>3. CASE worker[s] = Idle
    BY <1>2, <1>3, IdleValues DEF At, Busy, Place
  <1>4. ASSUME worker[s] # Idle PROVE s \in Paths => Path(s) = s
    BY <1>1, <1>4 DEF ControlInv
  <1>5. CASE worker[s] # Idle /\ Op(s) = "stage"
    BY <1>1, <1>2, <1>4, <1>5 DEF ControlInv, At, Undoes, Place
  <1>6. CASE worker[s] # Idle /\ Op(s) = "publish"
    BY <1>1, <1>2, <1>4, <1>6 DEF ControlInv, At, Undoes, Typed, Place
  <1>7. CASE worker[s] # Idle /\ Op(s) \in {"unpublish", "unstage"}
    BY <1>1, <1>2, <1>4, <1>7 DEF ControlInv, At, Undoes, Place
  <1>8. CASE worker[s] # Idle /\ Op(s) = "expand"
    BY <1>1, <1>2, <1>4, <1>8 DEF ControlInv, At, Undoes, Place
  <1> QED
    BY <1>1, <1>3, <1>5, <1>6, <1>7, <1>8 DEF ControlInv, Place

LEMMA Where ==
  ASSUME NodeInv, NEW s \in Slots
  PROVE  Place(s)
  BY Position, TypeParts DEF NodeInv, SlotInv

LEMMA Moved ==
  ASSUME Typed, NEW s \in Slots, Busy(s), NEW step \in Steps, Goto(s, step)
  PROVE  \E w \in Jobs :
            /\ worker' = [worker EXCEPT ![s] = w] /\ worker'[s] = w
            /\ w.op = Op(s) /\ w.path = Path(s) /\ w.step = step /\ w.try = worker[s].try
            /\ w.size = worker[s].size /\ w.fs = worker[s].fs
            /\ UNCHANGED <<told, grown>>
  <1> DEFINE w == [worker[s] EXCEPT !.step = step]
  <1>1. worker \in [Slots -> {Idle} \cup Jobs] /\ worker[s] \in Jobs
    BY DEF Typed, Busy
  <1>2. /\ w \in Jobs /\ w.op = Op(s) /\ w.path = Path(s) /\ w.step = step
        /\ w.try = worker[s].try /\ w.size = worker[s].size /\ w.fs = worker[s].fs
    BY <1>1 DEF Jobs, Op, Path
  <1>3. worker' = [worker EXCEPT ![s] = w] /\ worker'[s] = w /\ UNCHANGED <<told, grown>>
    BY <1>1 DEF Goto
  <1> HIDE DEF w
  <1> QED
    BY <1>2, <1>3

\* A handler that goes on where its operation leads it.
LEMMA Proceeds ==
  ASSUME NodeInv, NEW s \in Slots, Busy(s), HostStep(s), NEW step \in Steps, Goto(s, step),
         budget' \in Nat,
         \/ /\ Op(s) = "stage" /\ mode = "Filesystem"
            /\ step \in {"check", "format", "mkfs", "mount", "rescan", "resize"}
            /\ step = "rescan" => worker[s].try = 1
            /\ step = "mkfs" => ~disk.data /\ grown = 0
            /\ step = "resize" => Mounted(Staging)'
         \/ Op(s) = "stage" /\ step = "metadata"
         \/ Op(s) = "publish" /\ mode = "Block" /\ step \in {"metadata", "make", "bind"}
         \/ Op(s) = "publish" /\ mode = "Filesystem" /\ step = "bind"
         \/ Undoes(Op(s)) /\ step \in {"unmount", "recheck"}
         \/ /\ Op(s) = "expand" /\ mode = "Filesystem" /\ step = "grow"
            /\ s # Late => worker[s].fs = "vol" /\ LargeEnough(dev', worker[s].size)
  PROVE  NodeInv'
  <1>1. PICK w \in Jobs :
            /\ worker' = [worker EXCEPT ![s] = w] /\ worker'[s] = w
            /\ w.op = Op(s) /\ w.path = Path(s) /\ w.step = step /\ w.try = worker[s].try
            /\ w.size = worker[s].size /\ w.fs = worker[s].fs
            /\ UNCHANGED <<told, grown>>
    BY Moved, TypeParts DEF NodeInv
  <1>2. ControlInv(s) /\ mode' = mode
    BY DEF NodeInv, SlotInv, HostStep
  <1>3. ControlInv(s)'
    BY <1>1, <1>2 DEF ControlInv, Busy, At, Op, Path, Undoes
  <1>4. HandlerInv(s)'
    <2>1. disk'.data => disk.data
      BY DEF HostStep
    <2> QED
      BY <1>1, <2>1 DEF HandlerInv, At, Undoes
  <1> QED
    BY <1>1, <1>3, <1>4, GoesOn

LEMMA FailsTruly ==
  ASSUME NodeInv, NEW s \in Slots, Busy(s), HostStep(s), Fail(s), budget' \in Nat
  PROVE  NodeInv'
  <1>1. "maybe" \in Answers /\ Answer(s, "maybe")
    BY DEF Answers, Fail
  <1>2. Path(s) \in Paths
    BY TypeParts, Sizes DEF NodeInv, Jobs, Path
  <1> QED
    BY <1>1, <1>2, AnswersTruly

LEMMA MountFails ==
  ASSUME NodeInv, NEW s \in Slots, HostStep(s), MountFailed(s), budget' \in Nat,
         worker[s].step \in {"format", "mkfs", "mount"}
  PROVE  NodeInv'
  <1>1. Busy(s) /\ Op(s) = "stage" /\ mode = "Filesystem"
    BY Where DEF Place
  <1>2. CASE worker[s].try = 1 /\ Goto(s, "rescan")
    BY <1>1, <1>2, Proceeds DEF Steps
  <1>3. CASE Fail(s)
    BY <1>1, <1>3, FailsTruly
  <1> QED
    BY <1>2, <1>3 DEF MountFailed

LEMMA BudgetStays ==
  ASSUME NodeInv
  PROVE  /\ UNCHANGED budget => budget' \in Nat
         /\ Disturb => budget' \in Nat
  BY TypeParts DEF NodeInv, Typed, Disturb

LEMMA CallFailsInv ==
  ASSUME NodeInv, NEW s \in Slots, CallFails(s)
  PROVE  NodeInv'
  <1>1. Busy(s) /\ budget' \in Nat
    BY BudgetStays DEF CallFails, Busy
  <1>2. Path(s) \in Paths /\ exists \in [Paths -> BOOLEAN]
    BY <1>1, TypeParts, Sizes DEF NodeInv, Jobs, Path, Typed
  <1>3. Rest
    BY <1>2 DEF CallFails, Rest, Mounted
  <1>4. HostStep(s)
    BY <1>3, HostSame DEF CallFails
  <1>5. CASE worker[s].step \in {"format", "mkfs", "mount"}
    BY <1>1, <1>4, <1>5, MountFails DEF CallFails
  <1>6. CASE worker[s].step \notin {"format", "mkfs", "mount"}
    BY <1>1, <1>4, <1>6, FailsTruly DEF CallFails
  <1> QED
    BY <1>5, <1>6

LEMMA DeviceFoundInv ==
  ASSUME NodeInv, NEW s \in Slots, worker[s].step \in {"find", "metadata"}, HostStep(s),
         budget' \in Nat, DeviceFound(s)
  PROVE  NodeInv'
  <1>1. /\ Busy(s) /\ Path(s) \in Paths
        /\ \/ Op(s) = "stage" /\ Path(s) = Staging
           \/ Op(s) = "publish" /\ Path(s) \in Pods /\ mode = "Block"
        /\ mode \in {"Filesystem", "Block"}
    BY Where, TypeParts DEF NodeInv, Typed, Place
  <1>2. CASE Op(s) = "publish"
    <2>1. Goto(s, "make")
      BY <1>2 DEF DeviceFound
    <2> QED
      BY <1>1, <1>2, <2>1, Proceeds DEF Steps
  <1>3. CASE Op(s) = "stage" /\ mode = "Block"
    <2>1. Answer(s, "yes") /\ "yes" \in Answers /\ ~Undoes(Op(s))
      BY <1>3 DEF DeviceFound, Answers, Undoes
    <2> QED
      BY <1>1, <1>3, <2>1, AnswersTruly
  <1>4. CASE Op(s) = "stage" /\ mode = "Filesystem"
    <2>1. Goto(s, "check")
      BY <1>4 DEF DeviceFound
    <2> QED
      BY <1>1, <1>4, <2>1, Proceeds DEF Steps
  <1> QED
    BY <1>1, <1>2, <1>3, <1>4

LEMMA FindInv ==
  ASSUME NodeInv, NEW s \in Slots, GetDevicePath(s) \/ GetDevicePathFromMetadata(s)
  PROVE  NodeInv'
  <1>1. /\ Rest /\ mounts' = mounts /\ disk' = disk /\ dev' = dev /\ budget' \in Nat
        /\ worker[s].step \in {"find", "metadata"}
    BY BudgetStays, TypeParts DEF NodeInv, Typed, GetDevicePath, GetDevicePathFromMetadata, Rest, node, At
  <1>2. HostStep(s) /\ Busy(s) /\ (Op(s) = "stage" \/ (Op(s) = "publish" /\ mode = "Block"))
    <2>1. HostStep(s)
      BY <1>1, HostSame
    <2> QED
      BY <1>1, <2>1, Where DEF Place
  <1>3. DeviceFound(s) \/ Goto(s, "metadata") \/ Fail(s)
    BY DEF GetDevicePath, GetDevicePathFromMetadata
  <1>4. CASE Goto(s, "metadata")
    BY <1>1, <1>2, <1>4, Proceeds DEF Steps
  <1> QED
    BY <1>1, <1>2, <1>3, <1>4, DeviceFoundInv, FailsTruly

\* What the steps below start from.
LEMMA Facts ==
  ASSUME NodeInv, NEW s \in Slots
  PROVE  /\ Typed /\ HostInv /\ ToldInv /\ GrownInv /\ OnlyVolumes /\ KubeletInv(s) /\ HandlerInv(s)
         /\ dev \in Nat /\ grown \in Nat /\ exists \in [Paths -> BOOLEAN]
         /\ \A p \in Paths, b \in BOOLEAN : [exists EXCEPT ![p] = b] \in [Paths -> BOOLEAN]
  <1>1. Typed /\ HostInv /\ ToldInv /\ GrownInv /\ KubeletInv(s) /\ HandlerInv(s)
    BY TypeParts DEF NodeInv, SlotInv
  <1>2. dev \in Nat /\ grown \in Nat
    BY <1>1, Sizes
  <1>3. OnlyVolumes
    BY <1>1, MountsAreVolumes
  <1>4. exists \in [Paths -> BOOLEAN]
    BY <1>1 DEF Typed
  <1> QED
    BY <1>1, <1>2, <1>3, <1>4

LEMMA CheckInv ==
  ASSUME NodeInv, NEW s \in Slots, IsLikelyNotMountPointAttach(s)
  PROVE  NodeInv'
  <1>1. /\ Busy(s) /\ mode = "Filesystem" /\ Path(s) \in Paths /\ At(s, "check")
        /\ \/ Op(s) = "stage" /\ Path(s) = Staging
           \/ Op(s) = "publish" /\ Path(s) \in Pods
    BY Where DEF IsLikelyNotMountPointAttach, At, Place
  <1>2. Rest /\ mounts' = mounts /\ disk' = disk /\ dev' = dev /\ budget' \in Nat
    BY <1>1, BudgetStays, Facts DEF IsLikelyNotMountPointAttach, Rest
  <1>3. HostStep(s)
    BY <1>2, HostSame
  <1>4. CASE Op(s) = "stage" /\ Mounted(Path(s))
    <2>1. Goto(s, "resize") /\ Mounted(Staging)'
      BY <1>1, <1>2, <1>4 DEF IsLikelyNotMountPointAttach, Mounted
    <2> QED
      BY <1>1, <1>2, <1>3, <1>4, <2>1, Proceeds DEF Steps
  <1>5. CASE Op(s) = "stage" /\ ~Mounted(Path(s))
    <2>1. Goto(s, "format")
      BY <1>5 DEF IsLikelyNotMountPointAttach
    <2> QED
      BY <1>1, <1>2, <1>3, <1>5, <2>1, Proceeds DEF Steps
  <1>6. CASE Op(s) = "publish" /\ Mounted(Path(s))
    <2>1. Answer(s, "yes") /\ "yes" \in Answers /\ ~Undoes(Op(s))
      BY <1>6 DEF IsLikelyNotMountPointAttach, Answers, Undoes
    <2>2. PICK own \in Paths : own = Path(s) /\ Mounted(own)'
      BY <1>1, <1>2, <1>6 DEF Mounted
    <2> QED
      BY <1>1, <1>2, <1>3, <1>6, <2>1, <2>2, AnswersTruly
  <1>7. CASE Op(s) = "publish" /\ ~Mounted(Path(s))
    <2>1. Goto(s, "bind")
      BY <1>7 DEF IsLikelyNotMountPointAttach
    <2> QED
      BY <1>1, <1>2, <1>3, <1>7, <2>1, Proceeds DEF Steps
  <1> QED
    BY <1>1, <1>4, <1>5, <1>6, <1>7

LEMMA FormatInv ==
  ASSUME NodeInv, NEW s \in Slots, GetDiskFormat(s)
  PROVE  NodeInv'
  <1>1. Busy(s) /\ mode = "Filesystem" /\ Op(s) = "stage" /\ worker[s].step = "format"
    BY Where DEF GetDiskFormat, At, Place
  <1>2. Rest /\ mounts' = mounts /\ disk' = disk /\ dev' = dev /\ budget' \in Nat
    BY <1>1, BudgetStays, Facts DEF GetDiskFormat, Rest, node
  <1>3. HostStep(s)
    BY <1>2, HostSame
  <1>4. CASE MountFailed(s)
    BY <1>1, <1>2, <1>3, <1>4, MountFails
  <1>5. CASE disk.fs = "none" /\ Goto(s, "mkfs")
    <2>1. ~disk.data /\ grown = 0
      BY <1>1, <1>5, Facts DEF HostInv, GrownInv
    <2> QED
      BY <1>1, <1>2, <1>3, <1>5, <2>1, Proceeds DEF Steps
  <1>6. CASE Goto(s, "mount")
    BY <1>1, <1>2, <1>3, <1>6, Proceeds DEF Steps
  <1> QED
    BY <1>4, <1>5, <1>6 DEF GetDiskFormat

\* The device is blank, or mounted: HandlerInv.
LEMMA MkfsInv ==
  ASSUME NodeInv, NEW s \in Slots, Mkfs(s)
  PROVE  NodeInv'
  <1>1. /\ Busy(s) /\ mode = "Filesystem" /\ Op(s) = "stage"
        /\ worker[s].step = "mkfs" /\ At(s, "mkfs")
    BY Where DEF Mkfs, At, Place
  <1>2. Rest /\ mounts' = mounts /\ dev' = dev /\ budget' \in Nat
    BY <1>1, BudgetStays, Facts DEF Mkfs, Rest
  <1>3. CASE dev # 0 /\ ~VolumeMounted
    <2>1. ~disk.data /\ grown = 0
      BY <1>1, <1>3, Facts, SizeTypes DEF HandlerInv, OnlyVolumes
    <2>2. Goto(s, "mount") /\ HostStep(s)
      BY <1>2, <1>3, <2>1, HostFormat DEF Mkfs
    <2> QED
      BY <1>1, <1>2, <2>2, Proceeds DEF Steps
  <1>4. CASE ~(dev # 0 /\ ~VolumeMounted)
    <2>1. MountFailed(s) /\ HostStep(s)
      BY <1>2, <1>4, HostSame DEF Mkfs
    <2> QED
      BY <1>1, <1>2, <2>1, MountFails
  <1> QED
    BY <1>3, <1>4

LEMMA MountInv ==
  ASSUME NodeInv, NEW s \in Slots, MountDevice(s)
  PROVE  NodeInv'
  <1>1. /\ Busy(s) /\ mode = "Filesystem" /\ Op(s) = "stage" /\ Path(s) = Staging
        /\ worker[s].step = "mount" /\ Staging \in Paths
    BY Where, SizeTypes DEF MountDevice, At, Place
  <1>2. Rest /\ disk' = disk /\ dev' = dev /\ budget' \in Nat
    BY <1>1, BudgetStays, Facts DEF MountDevice, Rest
  <1>3. CASE dev # 0 /\ disk.fs = "ext4" /\ exists[Path(s)] /\ Shows(Path(s)) # "vol"
    <2>1. ~Mounted(Staging)
      BY <1>1, <1>3, Facts DEF OnlyVolumes
    <2>2. Goto(s, "resize") /\ mounts' = [mounts EXCEPT ![Staging] = <<"vol">> \o @]
      BY <1>1, <1>3 DEF MountDevice
    <2>3. HostStep(s) /\ Mounted(Staging)'
      BY <1>1, <1>2, <1>3, <2>1, <2>2, HostMount
    <2> QED
      BY <1>1, <1>2, <2>2, <2>3, Proceeds DEF Steps
  <1>4. CASE ~(dev # 0 /\ disk.fs = "ext4" /\ exists[Path(s)] /\ Shows(Path(s)) # "vol")
    <2>1. MountFailed(s) /\ mounts' = mounts
      BY <1>4 DEF MountDevice
    <2>2. HostStep(s)
      BY <1>2, <2>1, HostSame
    <2> QED
      BY <1>1, <1>2, <2>1, <2>2, MountFails
  <1> QED
    BY <1>3, <1>4

LEMMA RescanInv ==
  ASSUME NodeInv, NEW s \in Slots, RescanDevice(s)
  PROVE  NodeInv'
  <1>1. /\ Busy(s) /\ mode = "Filesystem" /\ Op(s) = "stage" /\ worker[s].try = 1
        /\ worker[s] \in Jobs /\ Path(s) = Staging /\ worker[s].step = "rescan"
    BY Where DEF RescanDevice, At, Place
  <1>2. Rest /\ mounts' = mounts /\ disk' = disk /\ budget' \in Nat
    BY <1>1, BudgetStays, Facts DEF RescanDevice, Rest
  <1>3. CASE Fail(s) /\ dev' = dev
    <2>1. HostStep(s)
      BY <1>2, <1>3, HostSame
    <2> QED
      BY <1>1, <1>2, <1>3, <2>1, FailsTruly
  <1>4. CASE /\ Rescan
             /\ worker' = [worker EXCEPT ![s].step = "format", ![s].try = @ + 1]
             /\ UNCHANGED <<told, grown>>
    <2>1. HostStep(s)
      BY <1>2, <1>4, HostRescan
    <2> DEFINE w == [worker[s] EXCEPT !.step = "format", !.try = 2]
    <2>2. w \in Jobs /\ w.op = Op(s) /\ w.path = Path(s) /\ w.step = "format"
      BY <1>1 DEF Jobs, Steps, Op, Path
    <2>3. worker' = [worker EXCEPT ![s] = w] /\ worker'[s] = w
      <3>1. worker \in [Slots -> {Idle} \cup Jobs]
        BY Facts DEF Typed
      <3>2. worker' = [worker EXCEPT ![s] = [worker[s] EXCEPT !.step = "format",
                                                              !.try = worker[s].try + 1]]
        BY <1>4, <3>1
      <3>3. worker[s].try + 1 = 2
        BY <1>1
      <3> QED
        BY <3>1, <3>2, <3>3
    <2> HIDE DEF w
    <2>4. mode' = mode /\ (s \in Paths => Path(s) = s)
      BY <1>1, <1>2, Where DEF Rest, Place
    <2>5. ControlInv(s)' /\ HandlerInv(s)'
      BY <1>1, <2>2, <2>3, <2>4 DEF ControlInv, HandlerInv, At, Op, Path
    <2> QED
      BY <1>1, <1>2, <1>4, <2>1, <2>2, <2>3, <2>5, GoesOn
  <1> QED
    BY <1>3, <1>4 DEF RescanDevice

LEMMA StageResizeInv ==
  ASSUME NodeInv, NEW s \in Slots, StageResize(s)
  PROVE  NodeInv'
  <1>1. /\ Busy(s) /\ mode = "Filesystem" /\ Op(s) = "stage" /\ Path(s) = Staging
        /\ Staging \in Paths /\ At(s, "resize") /\ ~Undoes(Op(s)) /\ "yes" \in Answers
    BY Where, SizeTypes DEF StageResize, At, Undoes, Answers, Place
  <1>2. Rest /\ mounts' = mounts /\ dev' = dev /\ budget' \in Nat
    BY <1>1, BudgetStays, Facts DEF StageResize, Rest
  <1>3. Mounted(Staging)'
    BY <1>1, <1>2, Facts DEF HandlerInv, Mounted
  <1>4. HostStep(s)
    <2>1. disk' = disk \/ (dev # 0 /\ disk' = [disk EXCEPT !.fsSize = dev])
      BY DEF StageResize
    <2> QED
      BY <1>2, <2>1, HostSame, HostResize
  <1>5. Answer(s, "yes") \/ Fail(s)
    BY DEF StageResize
  <1>6. CASE Answer(s, "yes")
    BY <1>1, <1>2, <1>3, <1>4, <1>6, AnswersTruly
  <1> QED
    BY <1>1, <1>2, <1>4, <1>5, <1>6, FailsTruly

LEMMA MakeInv ==
  ASSUME NodeInv, NEW s \in Slots, MakeFile(s)
  PROVE  NodeInv'
  <1>1. Busy(s) /\ mode = "Block" /\ Op(s) = "publish" /\ Path(s) \in Paths
    BY Where DEF MakeFile, At, Place
  <1>2. /\ Rest /\ mounts' = mounts /\ disk' = disk /\ dev' = dev /\ budget' \in Nat
        /\ Goto(s, "bind")
    BY <1>1, BudgetStays, Facts DEF MakeFile, Rest
  <1>3. HostStep(s)
    BY <1>2, HostSame
  <1> QED
    BY <1>1, <1>2, <1>3, Proceeds DEF Steps

\* The staging path shows the volume, because kubelet was told so and nobody unstages.
LEMMA BindMountInv ==
  ASSUME NodeInv, NEW s \in Slots, BindMount(s)
  PROVE  NodeInv'
  <1>1. /\ Busy(s) /\ mode = "Filesystem" /\ Op(s) = "publish"
        /\ Path(s) \in Pods /\ ~Undoes(Op(s)) /\ "yes" \in Answers
    BY Where DEF BindMount, At, Undoes, Answers, Place
  <1>p. PICK own \in Paths : own = Path(s) /\ own # Staging
    BY <1>1, SizeTypes
  <1>2. Rest /\ disk' = disk /\ dev' = dev /\ budget' \in Nat
    BY <1>1, BudgetStays, Facts DEF BindMount, Rest
  <1>3. CASE exists[Path(s)] /\ exists[Staging]
    <2>1. Mounted(Staging) /\ Staging \in Paths
      BY <1>1, Facts, SizeTypes DEF KubeletInv, ToldInv
    <2>2. Shows(Staging) = "vol" /\ VolumeMounted /\ dev # 0
      BY <2>1, Facts DEF OnlyVolumes, HostInv
    <2>3. disk.fs = "ext4"
      BY <1>1, <2>2, Facts DEF HostInv
    <2>4. Answer(s, "yes") /\ mounts' = [mounts EXCEPT ![own] = <<"vol">> \o @]
      BY <1>3, <1>p, <2>2 DEF BindMount
    <2>5. HostStep(s) /\ Mounted(own)'
      BY <1>1, <1>p, <1>2, <2>2, <2>3, <2>4, HostMount
    <2> QED
      BY <1>1, <1>p, <1>2, <2>4, <2>5, AnswersTruly
  <1>4. CASE ~(exists[Path(s)] /\ exists[Staging])
    <2>1. Fail(s) /\ mounts' = mounts
      BY <1>4 DEF BindMount
    <2>2. HostStep(s)
      BY <1>2, <2>1, HostSame
    <2> QED
      BY <1>1, <1>2, <2>1, <2>2, FailsTruly
  <1> QED
    BY <1>3, <1>4

LEMMA BindDeviceInv ==
  ASSUME NodeInv, NEW s \in Slots, BindDevice(s)
  PROVE  NodeInv'
  <1>1. /\ Busy(s) /\ mode = "Block" /\ Op(s) = "publish"
        /\ Path(s) \in Pods /\ ~Undoes(Op(s)) /\ "yes" \in Answers
    BY Where DEF BindDevice, At, Undoes, Answers, Place
  <1>p. PICK own \in Paths : own = Path(s) /\ own # Staging
    BY <1>1, SizeTypes
  <1>2. Rest /\ disk' = disk /\ dev' = dev /\ budget' \in Nat
    <2>1. Mounted(own) \in BOOLEAN
      BY DEF Mounted
    <2>2. exists' = exists \/ exists' = [exists EXCEPT ![own] = Mounted(own)]
      BY <1>p DEF BindDevice
    <2> QED
      BY <2>1, <2>2, BudgetStays, Facts DEF BindDevice, Rest
  <1>3. CASE exists[Path(s)] /\ dev # 0
    <2>4. Answer(s, "yes") /\ mounts' = [mounts EXCEPT ![own] = <<"vol">> \o @]
      BY <1>3, <1>p DEF BindDevice
    <2>5. HostStep(s) /\ Mounted(own)'
      BY <1>1, <1>p, <1>2, <1>3, <2>4, HostMount
    <2> QED
      BY <1>1, <1>p, <1>2, <2>4, <2>5, AnswersTruly
  <1>4. CASE ~(exists[Path(s)] /\ dev # 0)
    <2>1. Fail(s) /\ mounts' = mounts
      BY <1>4 DEF BindDevice
    <2>2. HostStep(s)
      BY <1>2, <2>1, HostSame
    <2> QED
      BY <1>1, <1>2, <2>1, <2>2, FailsTruly
  <1> QED
    BY <1>3, <1>4

\* CleanupMountPoint answers only what it has seen: no mount is left on the path.
LEMMA CleanInv ==
  ASSUME NodeInv, NEW s \in Slots, CleanupMountPoint(s) \/ RemoveIfNotMounted(s)
  PROVE  NodeInv'
  <1>1. /\ Busy(s) /\ Undoes(Op(s)) /\ Path(s) \in Paths /\ "no" \in Answers
        /\ Op(s) \notin {"stage", "publish", "expand"}
    BY Where DEF CleanupMountPoint, RemoveIfNotMounted, At, Answers, Undoes, Place
  <1>2. Rest /\ mounts' = mounts /\ disk' = disk /\ dev' = dev /\ budget' \in Nat
    BY <1>1, BudgetStays, Facts DEF CleanupMountPoint, RemoveIfNotMounted, Rest
  <1>3. HostStep(s)
    BY <1>2, HostSame
  <1>4. CASE Goto(s, "unmount")
    BY <1>1, <1>2, <1>3, <1>4, Proceeds DEF Steps
  <1>5. CASE Answer(s, "no") /\ ~Mounted(Path(s))
    <2>1. PICK own \in Paths : own = Path(s) /\ ~Mounted(own)'
      BY <1>1, <1>2, <1>5 DEF Mounted
    <2> QED
      BY <1>1, <1>2, <1>3, <1>5, <2>1, AnswersTruly
  <1>6. CASE Fail(s)
    BY <1>1, <1>2, <1>3, <1>6, FailsTruly
  <1> QED
    BY <1>4, <1>5, <1>6 DEF CleanupMountPoint, RemoveIfNotMounted

LEMMA UnmountInv ==
  ASSUME NodeInv, NEW s \in Slots, Unmount(s)
  PROVE  NodeInv'
  <1>1. Busy(s) /\ Undoes(Op(s)) /\ Path(s) \in Paths
    BY Where DEF Unmount, At, Place
  <1>2. Rest /\ disk' = disk /\ dev' = dev /\ budget' \in Nat
    BY <1>1, BudgetStays, Facts DEF Unmount, Rest
  <1>3. CASE Mounted(Path(s))
    <2>1. Goto(s, "recheck") /\ mounts' = [mounts EXCEPT ![Path(s)] = Tail(@)]
      BY <1>3 DEF Unmount
    <2>2. HostStep(s)
      BY <1>1, <1>2, <1>3, <2>1, HostUnmount
    <2> QED
      BY <1>1, <1>2, <2>1, <2>2, Proceeds DEF Steps
  <1>4. CASE ~Mounted(Path(s))
    <2>1. Fail(s) /\ mounts' = mounts
      BY <1>4 DEF Unmount
    <2>2. HostStep(s)
      BY <1>2, <2>1, HostSame
    <2> QED
      BY <1>1, <1>2, <2>1, <2>2, FailsTruly
  <1> QED
    BY <1>3, <1>4

\* findmnt names the volume while kubelet waits, because it was told that the path is mounted.
LEMMA MountFsInv ==
  ASSUME NodeInv, NEW s \in Slots, GetMountFs(s)
  PROVE  NodeInv'
  <1>1. /\ Busy(s) /\ Op(s) = "expand" /\ Path(s) \in Paths /\ worker[s] \in Jobs
        /\ "yes" \in Answers /\ ~Undoes(Op(s)) /\ (s \in Paths => Path(s) = s)
    BY Where DEF GetMountFs, At, Answers, Undoes, Place
  <1>2. Rest /\ mounts' = mounts /\ disk' = disk /\ dev' = dev /\ budget' \in Nat
    BY <1>1, BudgetStays, Facts DEF GetMountFs, Rest, node
  <1>3. HostStep(s)
    BY <1>2, HostSame
  <1>4. CASE mode = "Block"
    <2>1. Answer(s, "yes")
      BY <1>4 DEF GetMountFs
    <2> QED
      BY <1>1, <1>2, <1>3, <1>4, <2>1, AnswersTruly
  <1>5. CASE mode # "Block" /\ ~exists[Path(s)]
    <2>1. Fail(s)
      BY <1>5 DEF GetMountFs
    <2> QED
      BY <1>1, <1>2, <1>3, <2>1, FailsTruly
  <1>6. CASE mode # "Block" /\ exists[Path(s)]
    <2>m. mode = "Filesystem"
      BY <1>6, Facts DEF Typed
    <2> DEFINE next == IF RescanOnResize THEN "geometry" ELSE "grow"
               fs == IF Shows(Path(s)) = "vol" THEN "vol" ELSE "root"
               w == [worker[s] EXCEPT !.step = next, !.fs = fs]
    <2>1. s # Late => fs = "vol"
      BY <1>1, <2>m, Facts DEF KubeletInv, ToldInv, OnlyVolumes
    <2>2. /\ w \in Jobs /\ w.op = "expand" /\ w.path = Path(s) /\ w.fs = fs
          /\ w.step = next
      BY <1>1 DEF Jobs, Steps, Op, Path
    <2>3. worker' = [worker EXCEPT ![s] = w] /\ worker'[s] = w /\ UNCHANGED <<told, grown>>
      <3>1. worker \in [Slots -> {Idle} \cup Jobs]
        BY Facts DEF Typed
      <3>2. /\ worker' = [worker EXCEPT ![s].step = next, ![s].fs = fs]
            /\ UNCHANGED <<told, grown>>
        BY <1>6 DEF GetMountFs
      <3> QED
        BY <3>1, <3>2
    <2> HIDE DEF w, fs
    <2>4. ControlInv(s)' /\ HandlerInv(s)'
      BY <1>1, <1>2, <2>m, <2>1, <2>2, <2>3 DEF ControlInv, HandlerInv, At, Op, Path, Rest
    <2> QED
      BY <1>1, <1>2, <1>3, <2>2, <2>3, <2>4, GoesOn
  <1> QED
    BY <1>4, <1>5, <1>6

LEMMA GeometryInv ==
  ASSUME NodeInv, NEW s \in Slots, RescanBlockDeviceGeometry(s)
  PROVE  NodeInv'
  <1>1. /\ Busy(s) /\ Op(s) = "expand" /\ mode = "Filesystem"
        /\ s # Late => worker[s].fs = "vol"
    BY Where, Facts DEF RescanBlockDeviceGeometry, At, HandlerInv, Place
  <1>2. Rest /\ mounts' = mounts /\ disk' = disk /\ budget' \in Nat
    BY <1>1, BudgetStays, Facts DEF RescanBlockDeviceGeometry, Rest
  <1>3. /\ dev' = dev \/ Rescan
        /\ Fail(s) \/ (Goto(s, "grow") /\ (s # Late => LargeEnough(dev', worker[s].size)))
    BY <1>1 DEF RescanBlockDeviceGeometry
  <1>4. HostStep(s)
    BY <1>2, <1>3, HostSame, HostRescan
  <1>5. CASE Goto(s, "grow") /\ (s # Late => LargeEnough(dev', worker[s].size))
    BY <1>1, <1>2, <1>4, <1>5, Proceeds DEF Steps
  <1> QED
    BY <1>1, <1>2, <1>3, <1>4, <1>5, FailsTruly

\* The file system is as large as the device, which passed the comparison.
LEMMA ResizeFsInv ==
  ASSUME NodeInv, NEW s \in Slots, ResizeFs(s)
  PROVE  NodeInv'
  <1>1. /\ Busy(s) /\ Op(s) = "expand" /\ mode = "Filesystem"
        /\ s # Late => worker[s].fs = "vol"
        /\ ~Undoes(Op(s)) /\ "yes" \in Answers /\ Path(s) \in Paths /\ At(s, "grow")
    BY Where, Facts DEF ResizeFs, At, HandlerInv, Undoes, Answers, Place
  <1>2. Rest /\ mounts' = mounts /\ dev' = dev /\ budget' \in Nat
    BY <1>1, BudgetStays, Facts DEF ResizeFs, Rest
  <1>3. CASE s = Late
    <2>1. HostStep(s)
      <3>1. disk' = disk \/ (dev # 0 /\ disk' = [disk EXCEPT !.fsSize = dev])
        BY DEF ResizeFs
      <3> QED
        BY <1>2, <3>1, HostSame, HostResize
    <2>2. Answer(s, "yes") \/ Fail(s)
      BY DEF ResizeFs
    <2>3. CASE Answer(s, "yes")
      BY <1>1, <1>2, <1>3, <2>1, <2>3, AnswersTruly
    <2> QED
      BY <1>1, <1>2, <2>1, <2>2, <2>3, FailsTruly
  <1>4. CASE s # Late
    <2>1. Mounted(Staging) /\ Staging \in Paths
      BY <1>1, <1>4, Facts, SizeTypes DEF KubeletInv, ToldInv
    <2>2. VolumeMounted /\ dev # 0 /\ dev \in VolumeSizes
      BY <2>1, Facts DEF OnlyVolumes, HostInv, Typed
    <2>3. Answer(s, "yes") /\ disk' = [disk EXCEPT !.fsSize = dev]
      BY <1>1, <1>4, <2>2 DEF ResizeFs
    <2>4. HostStep(s) /\ disk'.fsSize = dev
      BY <1>2, <2>2, <2>3, HostResize
    <2>5. RescanOnResize => worker[s].size <= disk'.fsSize
      <3>1. RescanOnResize => LargeEnough(dev, worker[s].size)
        BY <1>1, <1>4, Facts DEF HandlerInv
      <3>2. worker[s].size \in Nat /\ dev \in Nat
        BY Facts, Sizes
      <3> QED
        BY <2>2, <2>4, <3>1, <3>2, LargeEnoughHolds
    <2> QED
      BY <1>1, <1>2, <2>1, <2>3, <2>4, <2>5, AnswersTruly
  <1> QED
    BY <1>3, <1>4

LEMMA HandlerKeeps ==
  ASSUME NodeInv, NEW s \in Slots, Handler(s)
  PROVE  NodeInv'
  BY FindInv, CheckInv, FormatInv, MkfsInv, MountInv, RescanInv, StageResizeInv, MakeInv,
     BindMountInv, BindDeviceInv, CleanInv, UnmountInv, MountFsInv, GeometryInv, ResizeFsInv
  DEF Handler

-----------------------------------------------------------------------------
\* kubelet.

\* Nothing on the host changes.
LEMMA HostKept ==
  ASSUME HostInv, mounts' = mounts, disk' = disk, dev' = dev, attached' = attached,
         mode' = mode, restored' = restored
  PROVE  HostInv'
  BY DEF HostInv, Mounted, VolumeMounted, VolumeOn

\* kubelet asks, when nothing on the path that undoes the new work, or that it would undo, is
\* under way.
LEMMA BeginInv ==
  ASSUME NodeInv, ~crossed', NEW op \in Ops, NEW p \in Paths, NEW step \in Steps,
         NEW size \in Claims \cup {0}, Begin(op, p, step, size),
         \/ op = "stage" /\ p = Staging /\ step = "find" /\ told[Staging] # "yes"
         \/ /\ op = "publish" /\ p \in Pods /\ step = (IF mode = "Block" THEN "find" ELSE "check")
            /\ told[Staging] = "yes" /\ told[p] # "yes"
         \/ op = "unpublish" /\ p \in Pods /\ step = "clean" /\ told[p] # "no"
         \/ /\ op = "unstage" /\ p = Staging /\ step = "clean"
            /\ told[Staging] # "no" /\ \A q \in Pods : told[q] = "no"
         \/ op = "expand" /\ step = "findfs" /\ told[Staging] = "yes" /\ told[p] = "yes"
  PROVE  NodeInv'
  <1>t. /\ Typed /\ HostInv /\ ToldInv /\ GrownInv /\ ApartInv
        /\ worker \in [Slots -> {Idle} \cup Jobs] /\ told \in [Paths -> Answers]
    BY TypeParts DEF NodeInv, Typed
  <1>u. /\ UNCHANGED <<mode, restored, mounts, exists, disk, dev>>
        /\ UNCHANGED <<want, claim, attached, grown, budget>> /\ crossed' \in BOOLEAN
    BY DEF Begin, node, user
  <1>h. HostInv'
    BY <1>t, <1>u, HostKept
  <1>s. p \in Slots /\ ~Busy(p) /\ Staging \in Paths /\ Staging \notin Pods /\ Late \notin Paths
    BY SizeTypes DEF Begin, Busy
  <1> DEFINE w == [op |-> op, path |-> p, step |-> step, try |-> 1, size |-> size, fs |-> "none"]
  <1>w. /\ w \in Jobs /\ w # Idle /\ w.op = op /\ w.path = p /\ w.step = step
        /\ worker' = [worker EXCEPT ![p] = w]
    BY IdleValues DEF Jobs, Begin
  <1> HIDE DEF w
  <1>x. /\ worker' \in [Slots -> {Idle} \cup Jobs] /\ worker'[p] = w
        /\ \A t \in Slots : t # p => worker'[t] = worker[t]
    BY <1>t, <1>s, <1>w
  <1>k. /\ told' \in [Paths -> Answers]
        /\ \A q \in Paths : told'[q] = IF op # "expand" /\ q = p THEN "maybe" ELSE told[q]
    BY <1>t DEF Begin, Answers
  <1>c. ASSUME NEW t \in Slots, t # p, Busy(t)
        PROVE  /\ Path(t) = p => ~Opposite(op, Op(t))
               /\ t \in Paths => op = "unpublish" /\ Op(t) = "unpublish"
    <2>1. CASE t \in Paths
      <3>1. Path(t) = t
        BY <1>c, <2>1 DEF NodeInv, SlotInv, ControlInv, Busy
      <3> QED
        BY <1>c, <2>1, <3>1 DEF Begin, Clear, Busy
    <2>2. CASE t = Late
      BY <1>c, <1>s, <2>2 DEF Begin
    <2> QED
      BY <2>1, <2>2 DEF Slots
  <1>1. TypeOK'
    <2>1. Typed'
      BY <1>t, <1>u, <1>x, <1>k DEF Typed
    <2> QED
      BY <2>1, <1>h, TypePartsNext
  <1>2. ToldInv'
    <2>1. \A q \in Paths : Mounted(q)' <=> Mounted(q)
      BY <1>u DEF Mounted
    <2>2. told'[Staging] = "no" => \A q \in Pods : told'[q] = "no"
      BY <1>t, <1>k, <1>s, SizeTypes DEF ToldInv
    <2>3. \A q \in Pods : told'[q] = "yes" => told'[Staging] = "yes"
      BY <1>t, <1>k, <1>s, SizeTypes DEF ToldInv
    <2> QED
      BY <1>t, <1>u, <1>k, <2>1, <2>2, <2>3 DEF ToldInv
  <1>3. GrownInv'
    BY <1>t, <1>u DEF GrownInv, ExpandedIsLarge
  <1>4. ApartInv'
    <2> SUFFICES ASSUME NEW s \in Slots, NEW t \in Slots, Busy(s)', Busy(t)',
                        worker'[s].path = worker'[t].path
                 PROVE  ~Opposite(worker'[s].op, worker'[t].op)
      BY DEF ApartInv, Op, Path, Opposite, Undoes
    <2>1. CASE s = p /\ t = p
      BY <1>w, <1>x, <2>1 DEF Opposite, Undoes
    <2>2. CASE s = p /\ t # p
      BY <1>c, <1>w, <1>x, <2>2 DEF Busy, Op, Path
    <2>3. CASE s # p /\ t = p
      BY <1>c, <1>w, <1>x, <2>3 DEF Busy, Op, Path, Opposite
    <2>4. CASE s # p /\ t # p
      BY <1>t, <1>x, <2>4 DEF ApartInv, Busy, Op, Path
    <2> QED
      BY <2>1, <2>2, <2>3, <2>4
  <1>5. ASSUME NEW t \in Slots PROVE SlotInv(t)'
    <2>1. CASE t = p
      <3>1. ControlInv(t)'
        BY <1>u, <1>w, <1>x, <2>1, SizeTypes DEF ControlInv, Op, Path, At
      <3>2. KubeletInv(t)'
        BY <1>w, <1>x, <1>k, <1>s, <2>1, SizeTypes DEF KubeletInv, Op, Path, Undoes
      <3>3. HandlerInv(t)'
        BY <1>w, <1>x, <2>1 DEF HandlerInv, At
      <3> QED
        BY <3>1, <3>2, <3>3 DEF SlotInv
    <2>2. CASE t # p
      <3>1. ControlInv(t) /\ KubeletInv(t) /\ HandlerInv(t) /\ worker'[t] = worker[t]
        BY <1>x, <2>2 DEF NodeInv, SlotInv
      <3>2. ControlInv(t)' /\ HandlerInv(t)'
        BY <3>1, <1>u DEF ControlInv, HandlerInv, Op, Path, At, Mounted, VolumeMounted, VolumeOn
      <3>3. KubeletInv(t)'
        <4> SUFFICES ASSUME Busy(t) PROVE KubeletInv(t)'
          BY <3>1 DEF KubeletInv, Busy
        <4>1. /\ Op(t)' = Op(t) /\ Path(t)' = Path(t) /\ Path(t) \in Paths
              /\ Op(t) \in {"stage", "unstage"} => Path(t) = Staging
              /\ Op(t) \in {"publish", "unpublish"} => Path(t) \in Pods
          BY <3>1, SizeTypes DEF ControlInv, Op, Path, Busy
        <4>2. (t \in Paths => op = "unpublish" /\ Op(t) = "unpublish") /\ (t \notin Paths => t = Late)
          BY <1>c, <2>2 DEF Slots
        <4>3. Op(t) \in {"stage", "publish"} => told'[Path(t)] # "no"
          BY <3>1, <4>1, <1>k DEF KubeletInv
        <4>4. Op(t) = "publish" => told'[Staging] = "yes"
          BY <3>1, <4>1, <1>k, <1>s DEF KubeletInv
        <4>5. ~(Op(t) = "expand" /\ t # Late)
          BY <4>2
        <4>6. Undoes(Op(t)) => told'[Path(t)] # "yes"
          BY <3>1, <4>1, <1>k DEF KubeletInv
        <4>7. Op(t) = "unstage" => \A q \in Pods : told'[q] = "no"
          BY <3>1, <4>1, <1>k, <1>s, SizeTypes DEF KubeletInv, Undoes
        <4>8. t \in Paths /\ Op(t) # "expand" => told'[t] = "maybe"
          BY <3>1, <2>2, <1>k DEF KubeletInv
        <4> QED
          BY <4>1, <4>3, <4>4, <4>5, <4>6, <4>7, <4>8 DEF KubeletInv, Undoes
      <3> QED
        BY <3>2, <3>3 DEF SlotInv
    <2> QED
      BY <2>1, <2>2
  <1> QED
    BY <1>1, <1>h, <1>2, <1>3, <1>4, <1>5 DEF NodeInv

LEMMA KubeletKeeps ==
  ASSUME NodeInv, ~crossed', NEW p \in Paths, Kubelet(p) \/ StartExpand(p)
  PROVE  NodeInv'
  <1>1. claim \in Claims \cup {0} /\ 0 \in Claims \cup {0}
    BY TypeParts DEF NodeInv, Typed
  <1>2. CASE p = Staging /\ StartStage
    <2>1. /\ "stage" \in Ops /\ "find" \in Steps /\ told[Staging] # "yes"
          /\ Begin("stage", p, "find", 0)
      BY <1>2 DEF StartStage, Ops, Steps
    <2> QED
      BY <1>1, <1>2, <2>1, BeginInv
  <1>3. CASE p = Staging /\ StartUnstage
    <2>1. /\ "unstage" \in Ops /\ "clean" \in Steps /\ told[Staging] # "no"
          /\ \A q \in Pods : told[q] = "no"
          /\ Begin("unstage", p, "clean", 0)
      BY <1>3 DEF StartUnstage, Ops, Steps
    <2> QED
      BY <1>1, <1>3, <2>1, BeginInv
  <1>4. CASE p \in Pods /\ StartPublish(p)
    <2> DEFINE step == IF mode = "Block" THEN "find" ELSE "check"
    <2>1. /\ "publish" \in Ops /\ step \in Steps /\ told[Staging] = "yes" /\ told[p] # "yes"
          /\ Begin("publish", p, step, 0)
      BY <1>4 DEF StartPublish, Ops, Steps
    <2> QED
      BY <1>1, <1>4, <2>1, BeginInv
  <1>5. CASE p \in Pods /\ StartUnpublish(p)
    <2>1. /\ "unpublish" \in Ops /\ "clean" \in Steps /\ told[p] # "no"
          /\ Begin("unpublish", p, "clean", 0)
      BY <1>5 DEF StartUnpublish, Ops, Steps
    <2> QED
      BY <1>1, <1>5, <2>1, BeginInv
  <1>6. CASE StartExpand(p)
    <2>1. /\ "expand" \in Ops /\ "findfs" \in Steps /\ told[Staging] = "yes" /\ told[p] = "yes"
          /\ Begin("expand", p, "findfs", claim)
      BY <1>6 DEF StartExpand, Ops, Steps
    <2> QED
      BY <1>1, <2>1, BeginInv
  <1> QED
    BY <1>2, <1>3, <1>4, <1>5, <1>6 DEF Kubelet

LEMMA GiveUpInv ==
  ASSUME NodeInv, NEW p \in Paths, GiveUp(p)
  PROVE  NodeInv'
  <1>t. /\ Typed /\ HostInv /\ ToldInv /\ GrownInv /\ ApartInv
        /\ worker \in [Slots -> {Idle} \cup Jobs]
    BY TypeParts DEF NodeInv, Typed
  <1>u. /\ UNCHANGED <<mode, restored, crossed, mounts, exists, disk, dev>>
        /\ UNCHANGED <<want, claim, attached, grown, told>> /\ budget' \in Nat
    BY BudgetStays DEF GiveUp, node, user
  <1>h. HostInv'
    BY <1>t, <1>u, HostKept
  <1>s. p \in Slots /\ Late \in Slots /\ Late # p /\ Late \notin Paths
    BY SizeTypes
  <1>w. /\ worker' \in [Slots -> {Idle} \cup Jobs] /\ worker'[p] = Idle /\ worker'[Late] = worker[p]
        /\ \A t \in Slots : t \notin {p, Late} => worker'[t] = worker[t]
    BY <1>t, <1>s DEF GiveUp
  <1>1. TypeOK'
    <2>1. Typed'
      BY <1>t, <1>u, <1>w DEF Typed
    <2> QED
      BY <2>1, <1>h, TypePartsNext
  <1>2. ToldInv' /\ GrownInv'
    BY <1>t, <1>u DEF ToldInv, GrownInv, ExpandedIsLarge, Mounted
  <1>3. ApartInv'
    <2> DEFINE from(t) == IF t = Late THEN p ELSE t
    <2>1. \A t \in Slots : from(t) \in Slots /\ (Busy(t)' => worker'[t] = worker[from(t)])
      BY <1>s, <1>w DEF Busy
    <2> QED
      BY <1>t, <2>1 DEF ApartInv, Busy, Op, Path, Opposite, Undoes
  <1>4. ASSUME NEW t \in Slots PROVE SlotInv(t)'
    <2>1. CASE t = p
      BY <1>w, <2>1, IdleValues DEF SlotInv, ControlInv, KubeletInv, HandlerInv, Busy, At
    <2>2. CASE t = Late
      <3>1. SlotInv(p)
        BY <1>s DEF NodeInv
      <3>2. ControlInv(t)'
        BY <3>1, <1>s, <1>u, <1>w, <2>2 DEF SlotInv, ControlInv, Op, Path, At
      <3>3. KubeletInv(t)'
        BY <3>1, <1>s, <1>u, <1>w, <2>2 DEF SlotInv, KubeletInv, Op, Path, Busy, Undoes
      <3>4. HandlerInv(t)'
        BY <3>1, <1>u, <1>w, <2>2 DEF SlotInv, HandlerInv, At, Mounted, VolumeMounted, VolumeOn
      <3> QED
        BY <3>2, <3>3, <3>4 DEF SlotInv
    <2>3. CASE t \notin {p, Late}
      <3>1. SlotInv(t) /\ worker'[t] = worker[t]
        BY <1>w, <2>3 DEF NodeInv
      <3>2. ControlInv(t)' /\ KubeletInv(t)'
        BY <3>1, <1>u DEF SlotInv, ControlInv, KubeletInv, Op, Path, At, Busy, Undoes
      <3>3. HandlerInv(t)'
        BY <3>1, <1>u DEF SlotInv, HandlerInv, At, Mounted, VolumeMounted, VolumeOn
      <3> QED
        BY <3>2, <3>3 DEF SlotInv
    <2> QED
      BY <2>1, <2>2, <2>3
  <1> QED
    BY <1>1, <1>h, <1>2, <1>3, <1>4 DEF NodeInv

-----------------------------------------------------------------------------
\* Restarts, users, the attach/detach controller and the kernel.

LEMMA AllEnd ==
  ASSUME worker' = [s \in Slots |-> Idle], Typed', HostInv', ToldInv', GrownInv'
  PROVE  NodeInv'
  <1>1. ApartInv'
    BY DEF ApartInv, Busy
  <1>2. ASSUME NEW t \in Slots PROVE SlotInv(t)'
    BY IdleValues DEF SlotInv, ControlInv, KubeletInv, HandlerInv, Busy, At
  <1> QED
    BY <1>1, <1>2, TypePartsNext DEF NodeInv

LEMMA RestartInv ==
  ASSUME NodeInv, Restart
  PROVE  NodeInv'
  <1>t. Typed /\ HostInv /\ ToldInv /\ GrownInv
    BY TypeParts DEF NodeInv
  <1>u. /\ UNCHANGED <<mode, restored, crossed, mounts, exists, disk, dev>>
        /\ UNCHANGED <<want, claim, attached, grown, told>> /\ budget' \in Nat
        /\ worker' = [s \in Slots |-> Idle]
    BY BudgetStays DEF Restart, node, user
  <1>1. HostInv'
    BY <1>t, <1>u, HostKept
  <1>2. ToldInv' /\ GrownInv'
    BY <1>t, <1>u DEF ToldInv, GrownInv, ExpandedIsLarge, Mounted
  <1>3. Typed'
    BY <1>t, <1>u DEF Typed
  <1> QED
    BY <1>u, <1>1, <1>2, <1>3, AllEnd

LEMMA RebootInv ==
  ASSUME NodeInv, Reboot
  PROVE  NodeInv'
  <1>t. Typed /\ HostInv /\ ToldInv /\ GrownInv /\ disk.size \in Nat /\ Staging \in Paths
    BY TypeParts, Sizes, SizeTypes DEF NodeInv
  <1>u. /\ UNCHANGED <<mode, restored, crossed, exists, disk>>
        /\ UNCHANGED <<want, claim, attached, grown>> /\ budget' \in Nat
        /\ worker' = [s \in Slots |-> Idle] /\ mounts' = [p \in Paths |-> <<>>] /\ dev' = 0
        /\ told' = [p \in Paths |-> IF told[p] = "no" THEN "no" ELSE "maybe"]
    BY BudgetStays DEF Reboot, user
  <1>m. \A p \in Paths : ~Mounted(p)'
    BY <1>u DEF Mounted
  <1>v. ~VolumeMounted'
    BY <1>u DEF VolumeMounted, VolumeOn
  <1>1. HostInv'
    <2>1. mounts' \in [Paths -> Seq({"vol"})] /\ Len(mounts'[Staging]) <= 1
      BY <1>t, <1>u
    <2> QED
      BY <1>t, <1>u, <1>m, <1>v, <2>1 DEF HostInv
  <1>2. ToldInv' /\ GrownInv'
    BY <1>t, <1>u, <1>m, SizeTypes DEF ToldInv, GrownInv, ExpandedIsLarge
  <1>3. Typed'
    BY <1>t, <1>u DEF Typed, Answers
  <1> QED
    BY <1>u, <1>1, <1>2, <1>3, AllEnd

\* Handlers and kubelet's memory stay as they are.
LEMMA WorkersStay ==
  ASSUME NodeInv, UNCHANGED <<mode, worker, told>>, Typed', HostInv', ToldInv', GrownInv',
         \A s \in Slots : HandlerInv(s)'
  PROVE  NodeInv'
  <1>1. ApartInv'
    BY DEF NodeInv, ApartInv, Busy, Op, Path, Opposite, Undoes
  <1>2. ASSUME NEW t \in Slots PROVE ControlInv(t)' /\ KubeletInv(t)'
    BY DEF NodeInv, SlotInv, ControlInv, KubeletInv, Busy, At, Op, Path, Undoes
  <1> QED
    BY <1>1, <1>2, TypePartsNext DEF NodeInv, SlotInv

LEMMA UsersInv ==
  ASSUME NodeInv,
         \/ \E p \in Pods : ChangePod(p)
         \/ Attach \/ UNCHANGED vars
  PROVE  NodeInv'
  <1>t. Typed /\ HostInv /\ ToldInv /\ GrownInv
    BY TypeParts DEF NodeInv
  <1>u. /\ UNCHANGED <<mode, restored, crossed, mounts, exists, disk, dev, worker, told, claim, grown>>
        /\ budget' \in Nat /\ want' \in [Pods -> BOOLEAN]
        /\ attached' \in BOOLEAN /\ (attached => attached')
    <2>1. ASSUME NEW p \in Pods, ChangePod(p)
          PROVE  want' \in [Pods -> BOOLEAN]
      BY <1>t, <2>1 DEF ChangePod, Typed
    <2> QED
      BY <1>t, <2>1, BudgetStays DEF Typed, ChangePod, Attach, vars, node, user
  <1>1. HostInv'
    BY <1>t, <1>u DEF HostInv, Mounted, VolumeMounted, VolumeOn
  <1>2. ToldInv' /\ GrownInv'
    BY <1>t, <1>u DEF ToldInv, GrownInv, ExpandedIsLarge, Mounted
  <1>3. Typed'
    BY <1>t, <1>u DEF Typed
  <1>4. ASSUME NEW s \in Slots PROVE HandlerInv(s)'
    BY <1>u DEF NodeInv, SlotInv, HandlerInv, At, Mounted, VolumeMounted, VolumeOn
  <1> QED
    BY <1>u, <1>1, <1>2, <1>3, <1>4, WorkersStay

LEMMA ExpandClaimInv ==
  ASSUME NodeInv, NEW size \in Claims, ExpandClaim(size)
  PROVE  NodeInv'
  <1>t. /\ Typed /\ HostInv /\ ToldInv /\ GrownInv
        /\ disk.size \in Nat /\ disk.fsSize \in Nat /\ dev \in Nat
    BY TypeParts, Sizes DEF NodeInv
  <1>p. PICK larger \in VolumeSizes :
           larger >= disk.size /\ disk' = [disk EXCEPT !.size = larger]
    BY DEF ExpandClaim
  <1>u. /\ UNCHANGED <<mode, restored, crossed, mounts, exists, dev, worker, told, want, attached, grown>>
        /\ budget' \in Nat /\ claim' = size
    BY BudgetStays DEF ExpandClaim
  <1>d. /\ disk' \in DiskType /\ disk'.size = larger /\ disk'.fs = disk.fs
        /\ disk'.fsSize = disk.fsSize /\ disk'.data = disk.data /\ larger \in Nat
    BY <1>t, <1>p, SizeTypes DEF Typed, DiskType
  <1>1. HostInv'
    BY <1>t, <1>p, <1>u, <1>d DEF HostInv, Mounted, VolumeMounted, VolumeOn
  <1>2. ToldInv' /\ GrownInv'
    BY <1>t, <1>u, <1>d DEF ToldInv, GrownInv, ExpandedIsLarge, Mounted
  <1>3. Typed'
    BY <1>t, <1>u, <1>d DEF Typed
  <1>4. ASSUME NEW s \in Slots PROVE HandlerInv(s)'
    BY <1>u, <1>d DEF NodeInv, SlotInv, HandlerInv, At, Mounted, VolumeMounted, VolumeOn
  <1> QED
    BY <1>u, <1>1, <1>2, <1>3, <1>4, WorkersStay

\* Nothing is mounted any more when the volume is detached.
LEMMA NothingLeft ==
  ASSUME NodeInv, told[Staging] = "no"
  PROVE  /\ \A p \in Paths : ~Mounted(p)
         /\ ~VolumeMounted
         /\ \A s \in Slots \ {Late} : ~At(s, "grow")
  <1>t. HostInv /\ ToldInv /\ OnlyVolumes /\ Staging \in Slots
    BY MountsAreVolumes, SizeTypes DEF NodeInv
  <1>1. \A p \in Paths : ~Mounted(p)
    BY <1>t DEF ToldInv, Paths
  <1>2. ASSUME NEW s \in Slots \ {Late} PROVE ~At(s, "grow")
    <2>1. At(s, "grow") => Busy(s) /\ Op(s) = "expand"
      BY Where DEF At, Place
    <2> QED
      BY <2>1, Facts DEF KubeletInv
  <1> QED
    BY <1>t, <1>1, <1>2 DEF OnlyVolumes

LEMMA DetachInv ==
  ASSUME NodeInv, Detach
  PROVE  NodeInv'
  <1>t. Typed /\ HostInv /\ ToldInv /\ GrownInv /\ disk.size \in Nat
    BY TypeParts, Sizes DEF NodeInv
  <1>u. /\ UNCHANGED <<mode, restored, crossed, mounts, exists, disk, worker, told, want, claim, grown, budget>>
        /\ dev' = 0 /\ attached' = FALSE /\ told[Staging] = "no"
    BY DEF Detach
  <1>n. (\A p \in Paths : ~Mounted(p)) /\ \A s \in Slots \ {Late} : ~At(s, "grow")
    BY <1>u, NothingLeft
  <1>1. HostInv'
    BY <1>t, <1>u, <1>n DEF HostInv, Mounted, VolumeMounted, VolumeOn
  <1>2. ToldInv' /\ GrownInv'
    BY <1>t, <1>u DEF ToldInv, GrownInv, ExpandedIsLarge, Mounted
  <1>3. Typed'
    BY <1>t, <1>u DEF Typed
  <1>4. ASSUME NEW s \in Slots PROVE HandlerInv(s)'
    BY <1>u, <1>n DEF NodeInv, SlotInv, HandlerInv, At, Mounted, VolumeMounted, VolumeOn
  <1> QED
    BY <1>u, <1>1, <1>2, <1>3, <1>4, WorkersStay

LEMMA DeviceAppearsInv ==
  ASSUME NodeInv, DeviceAppears
  PROVE  NodeInv'
  <1>t. /\ Typed /\ HostInv /\ ToldInv /\ GrownInv
        /\ disk.size \in Nat \ {0} /\ disk.fsSize \in Nat /\ dev \in Nat
        /\ \A s \in Slots : worker[s].size \in Nat
    BY TypeParts, Sizes DEF NodeInv
  <1>u. /\ UNCHANGED <<mode, restored, crossed, mounts, exists, disk, worker, told>>
        /\ UNCHANGED <<want, claim, attached, grown, budget>>
        /\ dev' = disk.size /\ attached
    BY DEF DeviceAppears, user
  <1>d. disk.size \in VolumeSizes /\ dev <= dev'
    BY <1>t, <1>u DEF HostInv, Typed, DiskType
  <1>1. HostInv'
    BY <1>t, <1>u DEF HostInv, Mounted, VolumeMounted, VolumeOn
  <1>2. ToldInv' /\ GrownInv'
    BY <1>t, <1>u DEF ToldInv, GrownInv, ExpandedIsLarge, Mounted
  <1>3. Typed'
    BY <1>t, <1>u, <1>d DEF Typed
  <1>4. ASSUME NEW s \in Slots PROVE HandlerInv(s)'
    <2>1. HandlerInv(s)
      BY DEF NodeInv, SlotInv
    <2>2. LargeEnough(dev, worker[s].size) => LargeEnough(dev', worker[s].size)
      BY <1>t, <1>u, <1>d, LargeEnoughGrows
    <2> QED
      BY <2>1, <2>2, <1>u DEF HandlerInv, At, Mounted, VolumeMounted, VolumeOn
  <1> QED
    BY <1>u, <1>1, <1>2, <1>3, <1>4, WorkersStay

LEMMA WriterSees ==
  ASSUME NodeInv, PodWrites
  PROVE  VolumeMounted /\ (mode = "Filesystem" => Mounted(Staging))
  <1>1. PICK p \in Pods : Shows(p) = "vol" /\ told[p] = "yes"
    BY DEF PodWrites
  <1>2. p \in Paths /\ Mounted(p)
    BY <1>1, SizeTypes DEF Shows
  <1> QED
    BY <1>1, <1>2, MountsAreVolumes, SizeTypes DEF NodeInv, OnlyVolumes, ToldInv

LEMMA PodWritesInv ==
  ASSUME NodeInv, PodWrites
  PROVE  NodeInv'
  <1>t. /\ Typed /\ HostInv /\ ToldInv /\ GrownInv
        /\ VolumeMounted /\ (mode = "Filesystem" => Mounted(Staging))
    BY TypeParts, WriterSees DEF NodeInv
  <1>u. /\ UNCHANGED <<mode, restored, crossed, mounts, exists, dev, worker, told>>
        /\ UNCHANGED <<want, claim, attached, grown, budget>>
        /\ disk' = [disk EXCEPT !.data = TRUE]
    BY DEF PodWrites, user
  <1>d. /\ disk' \in DiskType /\ disk'.size = disk.size /\ disk'.fs = disk.fs
        /\ disk'.fsSize = disk.fsSize
    BY <1>t, <1>u DEF Typed, DiskType
  <1>v. VolumeMounted'
    BY <1>t, <1>u DEF VolumeMounted, VolumeOn
  <1>1. HostInv'
    BY <1>t, <1>u, <1>d DEF HostInv, Mounted
  <1>2. ToldInv' /\ GrownInv'
    BY <1>t, <1>u, <1>d DEF ToldInv, GrownInv, ExpandedIsLarge, Mounted
  <1>3. Typed'
    BY <1>t, <1>u, <1>d DEF Typed
  <1>4. ASSUME NEW s \in Slots PROVE HandlerInv(s)'
    <2>1. At(s, "mkfs") => mode = "Filesystem"
      BY Where DEF Place, At
    <2> QED
      BY <1>t, <1>u, <2>1 DEF NodeInv, SlotInv, HandlerInv, At, Mounted
  <1> QED
    BY <1>u, <1>1, <1>2, <1>3, <1>4, WorkersStay

LEMMA InitInv == Init => NodeInv
  <1> SUFFICES ASSUME Init PROVE NodeInv
    OBVIOUS
  <1>s. Staging \in Paths
    BY SizeTypes
  <1>d. disk \in DiskType /\ disk.size \in Nat /\ disk.fsSize <= disk.size /\ (disk.data => disk.fs = "ext4")
    <2>1. disk \in DiskType
      BY DEF Init, DiskType
    <2>2. disk.size \in Nat
      BY <2>1, DiskSizes
    <2>3. disk.fsSize = 0 \/ disk.fsSize <= disk.size
      BY DEF Init
    <2>4. disk.data => disk.fs = "ext4"
      BY DEF Init
    <2> QED
      BY <2>1, <2>2, <2>3, <2>4
  <1>1. HostInv
    <2>1. mounts \in [Paths -> Seq({"vol"})] /\ Len(mounts[Staging]) <= 1
      BY <1>s DEF Init
    <2>2. ~VolumeMounted /\ \A p \in Paths : ~Mounted(p)
      BY DEF Init, VolumeMounted, VolumeOn, Mounted
    <2>3. dev = 0 /\ (restored => mode = "Filesystem")
      BY DEF Init
    <2> QED
      BY <1>d, <2>1, <2>2, <2>3 DEF HostInv
  <1>2. ToldInv
    BY <1>s, SizeTypes DEF Init, ToldInv, Mounted
  <1>3. GrownInv
    BY <1>d, DiskSizes DEF Init, GrownInv, ExpandedIsLarge
  <1>4. Typed
    BY <1>d, NodeAssumption DEF Init, Typed, Answers
  <1>5. ApartInv
    BY DEF Init, ApartInv, Busy
  <1>6. ASSUME NEW t \in Slots PROVE SlotInv(t)
    BY IdleValues DEF Init, SlotInv, ControlInv, KubeletInv, HandlerInv, Busy, At
  <1> QED
    BY <1>1, <1>2, <1>3, <1>4, <1>5, <1>6, TypeParts DEF NodeInv

LEMMA NextInv ==
  ASSUME NodeInv, [Next]_vars, ~crossed'
  PROVE  NodeInv'
  BY HandlerKeeps, CallFailsInv, KubeletKeeps, GiveUpInv, RestartInv, RebootInv, UsersInv,
     ExpandClaimInv, DetachInv, DeviceAppearsInv, PodWritesInv
  DEF Next, Environment

\* Handlers that have met have met.
LEMMA CrossedStays ==
  ASSUME crossed, [Next]_vars
  PROVE  crossed'
  <1>1. ASSUME NEW s \in Slots, Handler(s) \/ CallFails(s)
        PROVE  crossed' = crossed
    BY <1>1 DEF Handler, GetDevicePath, GetDevicePathFromMetadata, IsLikelyNotMountPointAttach,
       GetDiskFormat, Mkfs, MountDevice, RescanDevice, StageResize, MakeFile, BindMount, BindDevice,
       CleanupMountPoint, Unmount, RemoveIfNotMounted, GetMountFs, RescanBlockDeviceGeometry,
       ResizeFs, CallFails
  <1>2. ASSUME NEW p \in Paths, Kubelet(p) \/ StartExpand(p) \/ GiveUp(p)
        PROVE  crossed'
    BY <1>2 DEF Kubelet, StartExpand, GiveUp, StartStage, StartUnstage, StartPublish,
       StartUnpublish, Begin
  <1>3. ASSUME \/ \E p \in Pods : ChangePod(p)
               \/ \E size \in Claims : ExpandClaim(size)
               \/ Restart \/ Reboot \/ PodWrites \/ Environment \/ UNCHANGED vars
        PROVE  crossed' = crossed
    BY <1>3 DEF ChangePod, ExpandClaim, Restart, Reboot, PodWrites, Environment, Attach, Detach,
       DeviceAppears, vars
  <1> QED
    BY <1>1, <1>2, <1>3 DEF Next

-----------------------------------------------------------------------------
\* Theorems.

\* The invariant of mounts, disk, handlers and kubelet's memory holds until opposite handlers
\* have met on one path.
MeetInv == ~crossed => NodeInv

\* Whatever times out, fails or restarts between the system calls of the handlers, and
\* however kubelet repeats them, also while a handler it gave up is still at work: the
\* invariant of mounts, disk and handlers holds until that handler meets its opposite on
\* its own path.
THEOREM NodeInvariant == Spec => []MeetInv
  <1>1. Init => MeetInv
    BY InitInv DEF MeetInv
  <1>2. MeetInv /\ [Next]_vars => MeetInv'
    BY NextInv, CrossedStays DEF MeetInv
  <1> QED
    BY <1>1, <1>2, PTL DEF Spec

\* A stack of mounts that is not empty and at most one high holds exactly one.
LEMMA OneMount ==
  ASSUME NEW stack \in Seq({"vol"}), stack # <<>>, Len(stack) <= 1
  PROVE  Len(stack) = 1
  <1>1. \A seq \in Seq({"vol"}) : seq # <<>> => Len(seq) \in Nat \ {0}
    BY EmptySeq, Zenon
  <1>2. Len(stack) \in Nat \ {0}
    BY <1>1, Zenon
  <1>3. \A n \in Nat \ {0} : n <= 1 => n = 1
    OBVIOUS
  <1> QED
    BY <1>2, <1>3, Zenon

\* What the node server answered is true and stays true until the next request: what
\* NodeStageVolume and NodePublishVolume mounted is mounted, what NodeUnpublishVolume and
\* NodeUnstageVolume gave back is gone, what NodeExpandVolume grew is large enough, as long
\* as no opposite handlers have met on one path.
THEOREM AnswersStayTrue == Spec => []AnswersTrue
  <1>1. MeetInv => AnswersTrue
    <2> SUFFICES ASSUME NodeInv PROVE AnswersTrue
      BY DEF MeetInv, AnswersTrue
    <2>t. HostInv /\ ToldInv /\ GrownInv /\ OnlyVolumes /\ Staging \in Paths
      BY MountsAreVolumes, SizeTypes DEF NodeInv
    <2>1. Mounted(Staging) => Len(mounts[Staging]) = 1
      <3>1. mounts[Staging] \in Seq({"vol"}) /\ Len(mounts[Staging]) <= 1
        BY <2>t DEF HostInv
      <3> QED
        BY <3>1, OneMount DEF Mounted
    <2>2. ReadyIsMounted
      BY <2>t, <2>1 DEF ReadyIsMounted, ToldInv, OnlyVolumes
    <2>3. GoneIsGone
      BY <2>t DEF GoneIsGone, ToldInv, OnlyVolumes
    <2> QED
      BY <2>t, <2>2, <2>3 DEF AnswersTrue, GrownInv
  <1> QED
    BY <1>1, NodeInvariant, PTL

\* Only mkfs could destroy data, and it refuses: the device is mounted.
LEMMA HandlersKeepData ==
  ASSUME NodeInv, NEW s \in Slots, Handler(s) \/ CallFails(s)
  PROVE  disk'.data = disk.data
  <1>1. /\ disk.data \in BOOLEAN /\ disk \in DiskType
    BY TypeParts, DiskSizes DEF NodeInv, Typed
  <1>2. CASE Mkfs(s)
    <2>1. HandlerInv(s) /\ At(s, "mkfs")
      BY <1>2, Facts DEF Mkfs
    <2> QED
      BY <1>1, <1>2, <2>1, Facts, SizeTypes DEF Mkfs, HandlerInv, DiskType, OnlyVolumes
  <1>3. CASE StageResize(s) \/ ResizeFs(s)
    BY <1>1, <1>3 DEF StageResize, ResizeFs, DiskType
  <1>4. CASE ~Mkfs(s) /\ ~StageResize(s) /\ ~ResizeFs(s)
    <2>1. disk' = disk
      BY <1>4 DEF Handler, CallFails, GetDevicePath, GetDevicePathFromMetadata,
         IsLikelyNotMountPointAttach, GetDiskFormat, MountDevice, RescanDevice, MakeFile, BindMount,
         BindDevice, CleanupMountPoint, Unmount, RemoveIfNotMounted, GetMountFs,
         RescanBlockDeviceGeometry, node
    <2> QED
      BY <2>1
  <1> QED
    BY <1>2, <1>3, <1>4

LEMMA OthersKeepData ==
  ASSUME NodeInv, [Next]_vars, ~\E s \in Slots : Handler(s) \/ CallFails(s)
  PROVE  disk'.data = disk.data \/ PodWrites
  <1>1. disk \in DiskType
    BY TypeParts DEF NodeInv, Typed
  <1>2. ASSUME NEW p \in Paths, Kubelet(p) \/ StartExpand(p) \/ GiveUp(p)
        PROVE  disk' = disk
    BY <1>2 DEF Kubelet, StartExpand, GiveUp, StartStage, StartUnstage, StartPublish,
       StartUnpublish, Begin, node
  <1>3. ASSUME NEW size \in Claims, ExpandClaim(size)
        PROVE  disk'.data = disk.data
    BY <1>1, <1>3 DEF ExpandClaim, DiskType
  <1>4. ASSUME \/ \E p \in Pods : ChangePod(p)
               \/ Restart \/ Reboot \/ Environment \/ UNCHANGED vars
        PROVE  disk' = disk
    BY <1>4 DEF ChangePod, Restart, Reboot, Environment, Attach, Detach, DeviceAppears, vars, node
  <1> QED
    BY <1>2, <1>3, <1>4 DEF Next

\* No retry of NodeStageVolume, restart or reboot makes FormatAndMount format a volume with
\* data on it, as long as no opposite handlers have met on one path.
THEOREM DataIsKept == Spec => DataSurvives
  <1>1. MeetInv /\ [Next]_vars => [disk.data /\ ~crossed' => disk'.data]_vars
    <2> SUFFICES ASSUME NodeInv, [Next]_vars, disk.data PROVE disk'.data
      BY CrossedStays DEF MeetInv
    <2>1. ~PodWrites
      BY DEF PodWrites
    <2> QED
      BY <2>1, HandlersKeepData, OthersKeepData
  <1> QED
    BY <1>1, NodeInvariant, PTL DEF Spec, DataSurvives

-----------------------------------------------------------------------------
\* What holds whichever handlers have met.

\* Types, and where handlers are.
CrossInv ==
    /\ TypeOK
    /\ restored => mode = "Filesystem"
    /\ \A s \in Slots : ControlInv(s)

Stacks == [Paths -> Seq({"vol", "dir"})]

HostTyped ==
    /\ disk \in DiskType /\ dev \in VolumeSizes \cup {0}
    /\ mounts \in Stacks /\ exists \in [Paths -> BOOLEAN]

LEMMA CrossTypes == TypeOK <=> Typed /\ HostTyped
  BY DEF TypeOK, Typed, HostTyped, Jobs, DiskType, Answers, Stacks

LEMMA CrossTypesNext == Typed' /\ HostTyped' => TypeOK'
  BY CrossTypes, PTL

\* Mounting on a path, and undoing the latest mount.
LEMMA StackTypes ==
  ASSUME NEW m \in Stacks, NEW p \in Paths
  PROVE  /\ \A x \in {"vol", "dir"} : [m EXCEPT ![p] = <<x>> \o @] \in Stacks
         /\ m[p] # <<>> => Head(m[p]) \in {"vol", "dir"} /\ [m EXCEPT ![p] = Tail(@)] \in Stacks
  <1>1. m[p] \in Seq({"vol", "dir"})
    BY DEF Stacks
  <1>2. ASSUME NEW x \in {"vol", "dir"} PROVE <<x>> \o m[p] \in Seq({"vol", "dir"})
    <2>1. <<x>> \in Seq({"vol", "dir"})
      OBVIOUS
    <2> QED
      BY <1>1, <2>1, ConcatProperties
  <1>3. m[p] # <<>> => Head(m[p]) \in {"vol", "dir"} /\ Tail(m[p]) \in Seq({"vol", "dir"})
    BY <1>1, HeadTailProperties
  <1>4. \A stack \in Seq({"vol", "dir"}) : [m EXCEPT ![p] = stack] \in Stacks
    BY DEF Stacks
  <1> QED
    BY <1>2, <1>3, <1>4

\* What a handler may do to the host.
HostMoves(p) ==
    /\ \/ disk' = disk
       \/ dev # 0 /\ disk' = [disk EXCEPT !.fs = "ext4", !.fsSize = dev, !.data = FALSE]
       \/ dev # 0 /\ disk' = [disk EXCEPT !.fsSize = dev]
    /\ dev' = dev \/ dev' = disk.size
    /\ \/ mounts' = mounts
       \/ \E x \in {"vol", "dir"} : mounts' = [mounts EXCEPT ![p] = <<x>> \o @]
       \/ mounts[p] # <<>> /\ mounts' = [mounts EXCEPT ![p] = Tail(@)]
    /\ exists' = exists \/ \E b \in BOOLEAN : exists' = [exists EXCEPT ![p] = b]

LEMMA HostMovesTyped ==
  ASSUME HostTyped, NEW p \in Paths, HostMoves(p)
  PROVE  HostTyped'
  <1>1. disk' \in DiskType
    BY DEF HostTyped, HostMoves, DiskType
  <1>2. dev' \in VolumeSizes \cup {0}
    BY DEF HostTyped, HostMoves, DiskType
  <1>3. mounts' \in Stacks
    <2>1. mounts \in Stacks
      BY DEF HostTyped
    <2>2. ASSUME NEW x \in {"vol", "dir"}, mounts' = [mounts EXCEPT ![p] = <<x>> \o @]
          PROVE  mounts' \in Stacks
      BY <2>1, <2>2, StackTypes, Zenon
    <2>3. ASSUME mounts[p] # <<>>, mounts' = [mounts EXCEPT ![p] = Tail(@)]
          PROVE  mounts' \in Stacks
      BY <2>1, <2>3, StackTypes, Zenon
    <2> QED
      BY <2>1, <2>2, <2>3, Zenon DEF HostMoves
  <1>4. exists' \in [Paths -> BOOLEAN]
    BY DEF HostTyped, HostMoves
  <1> QED
    BY <1>1, <1>2, <1>3, <1>4 DEF HostTyped

\* What a handler may do to itself: it ends with an answer, or goes on to a place it can be at.
JobMoves(s) ==
    \/ \E a \in Answers : Answer(s, a)
    \/ /\ UNCHANGED <<told, grown>>
       /\ \E w \in Jobs : worker' = [worker EXCEPT ![s] = w] /\ ControlInv(s)'

\* A handler that goes on where its operation leads it.
LEMMA Steers ==
  ASSUME Typed, NEW s \in Slots, Busy(s), ControlInv(s), mode' = mode, NEW step \in Steps,
         Goto(s, step),
         \/ /\ Op(s) = "stage" /\ mode = "Filesystem"
            /\ step \in {"check", "format", "mkfs", "mount", "rescan", "resize"}
            /\ step = "rescan" => worker[s].try = 1
         \/ Op(s) = "stage" /\ step = "metadata"
         \/ Op(s) = "publish" /\ mode = "Block" /\ step \in {"metadata", "make", "bind"}
         \/ Op(s) = "publish" /\ mode = "Filesystem" /\ step = "bind"
         \/ Undoes(Op(s)) /\ step \in {"unmount", "recheck"}
         \/ Op(s) = "expand" /\ mode = "Filesystem" /\ step = "grow"
  PROVE  JobMoves(s)
  <1>1. PICK w \in Jobs :
            /\ worker' = [worker EXCEPT ![s] = w] /\ worker'[s] = w
            /\ w.op = Op(s) /\ w.path = Path(s) /\ w.step = step /\ w.try = worker[s].try
            /\ UNCHANGED <<told, grown>>
    BY Moved
  <1>2. ControlInv(s)'
    BY <1>1 DEF ControlInv, Busy, At, Op, Path, Undoes
  <1> QED
    BY <1>1, <1>2 DEF JobMoves

LEMMA AnswerMoves ==
  ASSUME NEW s
  PROVE  /\ Fail(s) => JobMoves(s)
         /\ \A a \in {"yes", "no", "maybe"} : Answer(s, a) => JobMoves(s)
  BY DEF JobMoves, Fail, Answers

LEMMA MountFailedMoves ==
  ASSUME Typed, NEW s \in Slots, ControlInv(s), mode' = mode,
         worker[s].step \in {"format", "mkfs", "mount"}, MountFailed(s)
  PROVE  JobMoves(s)
  <1>1. Busy(s) /\ Op(s) = "stage" /\ mode = "Filesystem"
    BY Position DEF Place
  <1>2. CASE worker[s].try = 1 /\ Goto(s, "rescan")
    BY <1>1, <1>2, Steers DEF Steps
  <1>3. CASE Fail(s)
    BY <1>3, AnswerMoves
  <1> QED
    BY <1>2, <1>3 DEF MountFailed

LEMMA HandlerMoves ==
  ASSUME Typed, NEW s \in Slots, ControlInv(s), Handler(s) \/ CallFails(s)
  PROVE  JobMoves(s)
  <1>m. mode' = mode /\ Place(s) /\ mode \in {"Filesystem", "Block"}
    BY Position DEF Handler, GetDevicePath, GetDevicePathFromMetadata, IsLikelyNotMountPointAttach,
       GetDiskFormat, Mkfs, MountDevice, RescanDevice, StageResize, MakeFile, BindMount, BindDevice,
       CleanupMountPoint, Unmount, RemoveIfNotMounted, GetMountFs, RescanBlockDeviceGeometry,
       ResizeFs, CallFails, Typed
  <1>1. CASE GetDevicePath(s) \/ GetDevicePathFromMetadata(s)
    <2>1. /\ Busy(s)
          /\ \/ Op(s) = "stage" /\ Path(s) = Staging
             \/ Op(s) = "publish" /\ Path(s) \in Pods /\ mode = "Block"
      BY <1>1, <1>m DEF GetDevicePath, GetDevicePathFromMetadata, At, Place
    <2>2. DeviceFound(s) \/ Goto(s, "metadata") \/ Fail(s)
      BY <1>1 DEF GetDevicePath, GetDevicePathFromMetadata
    <2>3. CASE DeviceFound(s)
      <3>1. CASE Op(s) = "publish" /\ Goto(s, "make")
        BY <1>m, <2>1, <3>1, Steers DEF Steps
      <3>2. CASE Answer(s, "yes")
        BY <3>2, AnswerMoves
      <3>3. CASE Op(s) = "stage" /\ mode = "Filesystem" /\ Goto(s, "check")
        BY <1>m, <2>1, <3>3, Steers DEF Steps
      <3> QED
        BY <1>m, <2>1, <2>3, <3>1, <3>2, <3>3 DEF DeviceFound
    <2>4. CASE Goto(s, "metadata")
      BY <1>m, <2>1, <2>4, Steers DEF Steps
    <2> QED
      BY <2>2, <2>3, <2>4, AnswerMoves
  <1>2. CASE IsLikelyNotMountPointAttach(s)
    <2>1. Busy(s) /\ mode = "Filesystem" /\ Op(s) \in {"stage", "publish"}
      BY <1>2, <1>m DEF IsLikelyNotMountPointAttach, At, Place
    <2>2. CASE Op(s) = "stage"
      <3>1. Goto(s, "resize") \/ Goto(s, "format")
        BY <1>2, <2>2 DEF IsLikelyNotMountPointAttach
      <3> QED
        BY <1>m, <2>1, <2>2, <3>1, Steers DEF Steps
    <2>3. CASE Op(s) = "publish"
      <3>1. Answer(s, "yes") \/ Goto(s, "bind")
        BY <1>2, <2>3 DEF IsLikelyNotMountPointAttach
      <3> QED
        BY <1>m, <2>1, <2>3, <3>1, Steers, AnswerMoves DEF Steps
    <2> QED
      BY <2>1, <2>2, <2>3
  <1>3. CASE GetDiskFormat(s) \/ Mkfs(s) \/ MountDevice(s)
    <2>1. worker[s].step \in {"format", "mkfs", "mount"}
      BY <1>3 DEF GetDiskFormat, Mkfs, MountDevice, At
    <2>2. Busy(s) /\ Op(s) = "stage" /\ mode = "Filesystem"
      BY <1>m, <2>1 DEF Place
    <2>3. MountFailed(s) \/ \E step \in {"mkfs", "mount", "resize"} : Goto(s, step)
      BY <1>3 DEF GetDiskFormat, Mkfs, MountDevice
    <2>4. ASSUME NEW step \in {"mkfs", "mount", "resize"}, Goto(s, step) PROVE JobMoves(s)
      BY <1>m, <2>2, <2>4, Steers DEF Steps
    <2> QED
      BY <1>m, <2>1, <2>3, <2>4, MountFailedMoves
  <1>4. CASE RescanDevice(s)
    <2>1. /\ Busy(s) /\ Op(s) = "stage" /\ mode = "Filesystem" /\ Path(s) = Staging
          /\ worker[s].try = 1 /\ worker[s] \in Jobs
      BY <1>4, <1>m DEF RescanDevice, At, Place
    <2>2. CASE Fail(s)
      BY <2>2, AnswerMoves
    <2>3. CASE /\ worker' = [worker EXCEPT ![s].step = "format", ![s].try = @ + 1]
               /\ UNCHANGED <<told, grown>>
      <3> DEFINE w == [worker[s] EXCEPT !.step = "format", !.try = @ + 1]
      <3>a. \A try \in {1, 2} :
               LET x == [worker[s] EXCEPT !.step = "format", !.try = try]
               IN  x \in Jobs /\ x.op = Op(s) /\ x.path = Path(s) /\ x.step = "format"
        BY <2>1 DEF Jobs, Op, Path, Steps
      <3>b. worker[s].try + 1 = 2
        BY <2>1
      <3>1. w \in Jobs /\ w.op = Op(s) /\ w.path = Path(s) /\ w.step = "format"
        BY <3>a, <3>b
      <3>2. worker' = [worker EXCEPT ![s] = w] /\ worker'[s] = w
        BY <2>3 DEF Typed
      <3> HIDE DEF w
      <3>3. ControlInv(s)'
        BY <1>m, <2>1, <3>1, <3>2 DEF ControlInv, At, Op, Path, Busy
      <3> QED
        BY <2>3, <3>1, <3>2, <3>3 DEF JobMoves
    <2> QED
      BY <1>4, <2>2, <2>3 DEF RescanDevice
  <1>5. CASE StageResize(s) \/ BindMount(s) \/ BindDevice(s) \/ RemoveIfNotMounted(s) \/ ResizeFs(s)
    <2>1. Fail(s) \/ Answer(s, "yes") \/ Answer(s, "no")
      BY <1>5 DEF StageResize, BindMount, BindDevice, RemoveIfNotMounted, ResizeFs
    <2> QED
      BY <2>1, AnswerMoves
  <1>6. CASE MakeFile(s)
    <2>1. Busy(s) /\ Op(s) = "publish" /\ mode = "Block" /\ Goto(s, "bind")
      BY <1>6, <1>m DEF MakeFile, At, Place
    <2> QED
      BY <1>m, <2>1, Steers DEF Steps
  <1>7. CASE CleanupMountPoint(s) \/ Unmount(s)
    <2>1. Busy(s) /\ Undoes(Op(s))
      BY <1>7, <1>m DEF CleanupMountPoint, Unmount, At, Place
    <2>2. Goto(s, "unmount") \/ Goto(s, "recheck") \/ Fail(s) \/ Answer(s, "no")
      BY <1>7 DEF CleanupMountPoint, Unmount
    <2> QED
      BY <1>m, <2>1, <2>2, Steers, AnswerMoves DEF Steps
  <1>8. CASE GetMountFs(s)
    <2>1. Busy(s) /\ Op(s) = "expand" /\ worker[s] \in Jobs /\ Path(s) \in Paths
      BY <1>8, <1>m DEF GetMountFs, At, Place
    <2>2. CASE Answer(s, "yes") \/ Fail(s)
      BY <2>2, AnswerMoves
    <2>3. CASE /\ mode = "Filesystem"
               /\ worker' = [worker EXCEPT
                      ![s].step = IF RescanOnResize THEN "geometry" ELSE "grow",
                      ![s].fs = IF Shows(Path(s)) = "vol" THEN "vol" ELSE "root"]
               /\ UNCHANGED <<told, grown>>
      <3>1. PICK next \in {"geometry", "grow"}, fs \in {"vol", "root"} :
               worker' = [worker EXCEPT ![s].step = next, ![s].fs = fs]
        BY <2>3
      <3> DEFINE w == [worker[s] EXCEPT !.step = next, !.fs = fs]
      <3>2. w \in Jobs /\ w.op = Op(s) /\ w.path = Path(s) /\ w.step = next
        BY <2>1 DEF Jobs, Op, Path, Steps
      <3>3. worker' = [worker EXCEPT ![s] = w] /\ worker'[s] = w
        BY <3>1 DEF Typed
      <3> HIDE DEF w
      <3>4. ControlInv(s)'
        BY <1>m, <2>1, <2>3, <3>2, <3>3 DEF ControlInv, At, Op, Path, Busy
      <3> QED
        BY <2>3, <3>2, <3>3, <3>4 DEF JobMoves
    <2> QED
      BY <1>8, <1>m, <2>2, <2>3 DEF GetMountFs
  <1>9. CASE RescanBlockDeviceGeometry(s)
    <2>1. Busy(s) /\ Op(s) = "expand" /\ mode = "Filesystem"
      BY <1>9, <1>m DEF RescanBlockDeviceGeometry, At, Place
    <2>2. Goto(s, "grow") \/ Fail(s)
      BY <1>9 DEF RescanBlockDeviceGeometry
    <2> QED
      BY <1>m, <2>1, <2>2, Steers, AnswerMoves DEF Steps
  <1>10. CASE CallFails(s)
    BY <1>10, <1>m, MountFailedMoves, AnswerMoves DEF CallFails
  <1> QED
    BY <1>1, <1>2, <1>3, <1>4, <1>5, <1>6, <1>7, <1>8, <1>9, <1>10 DEF Handler

LEMMA HandlerHost ==
  ASSUME Typed, NEW s \in Slots, Handler(s) \/ CallFails(s), mounts \in Stacks
  PROVE  HostMoves(Path(s)) /\ UNCHANGED <<mode, restored, crossed, user>> /\ budget' \in Nat
  <1>p. Staging \in Paths /\ budget \in Nat
    BY SizeTypes DEF Typed
  <1>1. CASE \/ GetDevicePath(s) \/ GetDevicePathFromMetadata(s) \/ GetDiskFormat(s) \/ GetMountFs(s)
    BY <1>1, <1>p DEF GetDevicePath, GetDevicePathFromMetadata, GetDiskFormat, GetMountFs, node, HostMoves
  <1>2. CASE IsLikelyNotMountPointAttach(s) \/ MakeFile(s)
    BY <1>2, <1>p DEF IsLikelyNotMountPointAttach, MakeFile, HostMoves
  <1>3. CASE Mkfs(s) \/ StageResize(s) \/ ResizeFs(s)
    BY <1>3, <1>p DEF Mkfs, StageResize, ResizeFs, HostMoves
  <1>4. CASE MountDevice(s)
    BY <1>4, <1>p DEF MountDevice, HostMoves
  <1>5. CASE RescanDevice(s) \/ RescanBlockDeviceGeometry(s)
    BY <1>5, <1>p DEF RescanDevice, RescanBlockDeviceGeometry, Rescan, HostMoves
  <1>6. CASE BindMount(s)
    <2>1. Shows(Staging) \in {"vol", "dir"}
      BY <1>p, StackTypes DEF Shows, Mounted
    <2> QED
      BY <1>6, <1>p, <2>1 DEF BindMount, HostMoves
  <1>7. CASE BindDevice(s)
    BY <1>7, <1>p DEF BindDevice, HostMoves, Mounted
  <1>8. CASE CleanupMountPoint(s) \/ Unmount(s) \/ RemoveIfNotMounted(s)
    BY <1>8, <1>p DEF CleanupMountPoint, Unmount, RemoveIfNotMounted, Mounted, HostMoves
  <1>9. CASE CallFails(s)
    <2>1. budget' \in Nat
      BY <1>9, <1>p DEF CallFails, Disturb
    <2>2. exists' = exists \/ \E b \in BOOLEAN : exists' = [exists EXCEPT ![Path(s)] = b]
      BY <1>9, Zenon DEF CallFails, Mounted
    <2>3. disk' = disk /\ dev' = dev /\ mounts' = mounts /\ UNCHANGED <<mode, restored, crossed, user>>
      BY <1>9 DEF CallFails
    <2> QED
      BY <2>1, <2>2, <2>3 DEF HostMoves
  <1> QED
    BY <1>1, <1>2, <1>3, <1>4, <1>5, <1>6, <1>7, <1>8, <1>9 DEF Handler

\* The handlers keep types and places, whoever else is at work.
LEMMA HandlerCross ==
  ASSUME CrossInv, NEW s \in Slots, Handler(s) \/ CallFails(s)
  PROVE  CrossInv'
  <1>t. Typed /\ HostTyped /\ mounts \in Stacks /\ ControlInv(s)
    BY CrossTypes DEF CrossInv, HostTyped
  <1>1. HostMoves(Path(s)) /\ UNCHANGED <<mode, restored, crossed, user>> /\ budget' \in Nat /\ JobMoves(s)
    BY <1>t, HandlerHost, HandlerMoves
  <1>2. Path(s) \in Paths
    <2>1. CASE worker[s] = Idle
      BY <2>1, IdleValues, SizeTypes DEF Path
    <2>2. CASE worker[s] \in Jobs
      BY <2>2 DEF Jobs, Path
    <2> QED
      BY <1>t, <2>1, <2>2 DEF Typed
  <1>3. HostTyped'
    BY <1>t, <1>1, <1>2, HostMovesTyped
  <1>4. /\ worker' \in [Slots -> {Idle} \cup Jobs]
        /\ told' \in [Paths -> Answers] /\ grown' \in Claims \cup {0}
        /\ \A t \in Slots \ {s} : worker'[t] = worker[t]
        /\ ControlInv(s)'
    <2>1. ASSUME NEW a \in Answers, Answer(s, a)
          PROVE  /\ worker' \in [Slots -> {Idle} \cup Jobs] /\ worker'[s] = Idle
                 /\ told' \in [Paths -> Answers] /\ grown' \in Claims \cup {0}
                 /\ \A t \in Slots \ {s} : worker'[t] = worker[t]
      <3>1. told' = told \/ told' = [told EXCEPT ![Path(s)] = a]
        BY <2>1 DEF Answer
      <3>2. worker[s].size \in Claims \cup {0}
        <4>1. CASE worker[s] = Idle
          BY <4>1 DEF Idle
        <4>2. CASE worker[s] \in Jobs
          BY <4>2 DEF Jobs
        <4> QED
          BY <1>t, <4>1, <4>2 DEF Typed
      <3>3. grown' = grown \/ grown' = worker[s].size
        BY <2>1 DEF Answer
      <3>4. worker' = [worker EXCEPT ![s] = Idle]
        BY <2>1 DEF Answer
      <3> QED
        BY <1>t, <1>2, <2>1, <3>1, <3>2, <3>3, <3>4 DEF Typed
    <2>2. CASE \E a \in Answers : Answer(s, a)
      BY <2>1, <2>2 DEF ControlInv
    <2>3. CASE /\ UNCHANGED <<told, grown>>
               /\ \E w \in Jobs : worker' = [worker EXCEPT ![s] = w] /\ ControlInv(s)'
      BY <1>t, <2>3 DEF Typed
    <2> QED
      BY <1>1, <2>2, <2>3 DEF JobMoves
  <1>5. ASSUME NEW t \in Slots PROVE ControlInv(t)'
    <2>1. CASE t = s
      BY <2>1, <1>4
    <2>2. CASE t # s
      BY <2>2, <1>1, <1>4 DEF CrossInv, ControlInv, At, Op, Path
    <2> QED
      BY <2>1, <2>2
  <1>6. Typed'
    BY <1>t, <1>1, <1>3, <1>4 DEF Typed, HostTyped, user
  <1> QED
    BY <1>1, <1>3, <1>5, <1>6, CrossTypesNext DEF CrossInv

\* Workers that stay keep their places.
LEMMA WorkersCross ==
  ASSUME CrossInv, UNCHANGED <<mode, restored, crossed, worker>>, Typed', HostTyped'
  PROVE  CrossInv'
  <1>1. ASSUME NEW t \in Slots PROVE ControlInv(t)'
    BY DEF CrossInv, ControlInv, At, Op, Path
  <1> QED
    BY <1>1, CrossTypesNext DEF CrossInv

\* Workers that are gone have none.
LEMMA AllGoneCross ==
  ASSUME CrossInv, UNCHANGED <<mode, restored, crossed>>, worker' = [s \in Slots |-> Idle], Typed', HostTyped'
  PROVE  CrossInv'
  <1>1. ASSUME NEW t \in Slots PROVE ControlInv(t)'
    BY DEF ControlInv
  <1> QED
    BY <1>1, CrossTypesNext DEF CrossInv

\* A request begins at the place its operation begins at.
LEMMA BeginCross ==
  ASSUME CrossInv, NEW op \in Ops, NEW p \in Paths, NEW step \in Steps, NEW size \in Claims \cup {0},
         Begin(op, p, step, size),
         \/ op = "stage" /\ p = Staging /\ step = "find"
         \/ op = "publish" /\ p \in Pods /\ mode = "Block" /\ step = "find"
         \/ op = "publish" /\ p \in Pods /\ mode # "Block" /\ step = "check"
         \/ op = "unpublish" /\ p \in Pods /\ step = "clean"
         \/ op = "unstage" /\ p = Staging /\ step = "clean"
         \/ op = "expand" /\ step = "findfs"
  PROVE  CrossInv'
  <1> DEFINE w == [op |-> op, path |-> p, step |-> step, try |-> 1, size |-> size, fs |-> "none"]
  <1>t. Typed /\ HostTyped /\ p \in Slots
    BY CrossTypes, SizeTypes DEF CrossInv
  <1>1. w \in Jobs /\ w.op = op /\ w.path = p /\ w.step = step
    BY DEF Jobs
  <1>2. /\ worker' = [worker EXCEPT ![p] = w]
        /\ told' = told \/ told' = [told EXCEPT ![p] = "maybe"]
        /\ UNCHANGED <<mode, restored, mounts, exists, disk, dev, want, claim, attached, grown, budget>>
        /\ crossed' \in BOOLEAN
    BY DEF Begin, node, user
  <1> HIDE DEF w
  <1>3. Typed'
    BY <1>t, <1>1, <1>2 DEF Typed, Answers
  <1>4. HostTyped'
    BY <1>t, <1>2 DEF HostTyped
  <1>5. worker'[p] = w /\ \A t \in Slots \ {p} : worker'[t] = worker[t]
    BY <1>t, <1>2 DEF Typed
  <1>6. ControlInv(p)'
    BY <1>1, <1>2, <1>5 DEF ControlInv, At, Op, Path
  <1>7. ASSUME NEW t \in Slots \ {p} PROVE ControlInv(t)'
    BY <1>2, <1>5 DEF CrossInv, ControlInv, At, Op, Path
  <1> QED
    BY <1>2, <1>3, <1>4, <1>6, <1>7, CrossTypesNext DEF CrossInv

LEMMA KubeletCross ==
  ASSUME CrossInv, NEW p \in Paths, Kubelet(p) \/ StartExpand(p)
  PROVE  CrossInv'
  <1>t. Staging \in Paths /\ Pods \subseteq Paths /\ claim \in Claims \cup {0}
    BY CrossTypes, SizeTypes DEF CrossInv, Typed
  <1>o. Ops = {"stage", "publish", "unpublish", "unstage", "expand"}
    BY DEF Ops
  <1>s. {"find", "check", "clean", "findfs"} \subseteq Steps
    BY DEF Steps
  <1>1. CASE StartStage
    BY <1>1, <1>t, <1>o, <1>s, BeginCross DEF StartStage
  <1>2. CASE StartUnstage
    BY <1>2, <1>t, <1>o, <1>s, BeginCross DEF StartUnstage
  <1>3. CASE p \in Pods /\ StartPublish(p)
    BY <1>3, <1>t, <1>o, <1>s, BeginCross DEF StartPublish
  <1>4. CASE p \in Pods /\ StartUnpublish(p)
    BY <1>4, <1>t, <1>o, <1>s, BeginCross DEF StartUnpublish
  <1>5. CASE StartExpand(p)
    BY <1>5, <1>t, <1>o, <1>s, BeginCross DEF StartExpand
  <1> QED
    BY <1>1, <1>2, <1>3, <1>4, <1>5 DEF Kubelet

LEMMA GiveUpCross ==
  ASSUME CrossInv, NEW p \in Paths, GiveUp(p)
  PROVE  CrossInv'
  <1>t. Typed /\ HostTyped /\ p \in Slots /\ Late \in Slots /\ p # Late
    BY CrossTypes, SizeTypes DEF CrossInv
  <1>1. /\ UNCHANGED <<mode, restored, crossed, mounts, exists, disk, dev, want, claim, attached, told, grown>>
        /\ budget' \in Nat
        /\ worker' = [worker EXCEPT ![Late] = worker[p], ![p] = Idle]
    BY <1>t DEF GiveUp, node, user, Disturb, Typed
  <1>2. /\ worker'[Late] = worker[p] /\ worker'[p] = Idle
        /\ \A t \in Slots \ {p, Late} : worker'[t] = worker[t]
        /\ worker' \in [Slots -> {Idle} \cup Jobs]
    BY <1>t, <1>1 DEF Typed
  <1>3. Typed' /\ HostTyped'
    BY <1>t, <1>1, <1>2 DEF Typed, HostTyped
  <1>4. ControlInv(p)'
    BY <1>2 DEF ControlInv
  <1>5. ControlInv(Late)'
    <2>1. ControlInv(p) /\ Late \notin Paths
      BY <1>t, SizeTypes DEF CrossInv
    <2> QED
      BY <1>1, <1>2, <2>1 DEF ControlInv, At, Op, Path
  <1>6. ASSUME NEW t \in Slots \ {p, Late} PROVE ControlInv(t)'
    BY <1>1, <1>2 DEF CrossInv, ControlInv, At, Op, Path
  <1> QED
    BY <1>1, <1>3, <1>4, <1>5, <1>6, CrossTypesNext DEF CrossInv

LEMMA RestartCross ==
  ASSUME CrossInv, Restart \/ Reboot
  PROVE  CrossInv'
  <1>t. Typed /\ HostTyped
    BY CrossTypes DEF CrossInv
  <1>1. /\ UNCHANGED <<mode, restored, crossed, exists, disk, want, claim, attached, grown>>
        /\ dev' = dev \/ dev' = 0
        /\ mounts' = mounts \/ mounts' = [p \in Paths |-> <<>>]
        /\ told' = told \/ told' = [p \in Paths |-> IF told[p] = "no" THEN "no" ELSE "maybe"]
        /\ worker' = [s \in Slots |-> Idle]
    BY DEF Restart, Reboot, node, user
  <1>2. budget' \in Nat
    BY <1>t DEF Restart, Reboot, Disturb, Typed
  <1>3. [p \in Paths |-> <<>>] \in Stacks
    BY DEF Stacks
  <1>4. HostTyped'
    BY <1>t, <1>1, <1>3 DEF HostTyped
  <1>5. told' \in [Paths -> Answers]
    BY <1>t, <1>1 DEF Typed, Answers
  <1>6. Typed'
    BY <1>t, <1>1, <1>2, <1>4, <1>5 DEF Typed, HostTyped
  <1> QED
    BY <1>1, <1>4, <1>6, AllGoneCross

LEMMA EnvironmentCross ==
  ASSUME CrossInv,
         \/ \E p \in Pods : ChangePod(p)
         \/ \E size \in Claims : ExpandClaim(size)
         \/ PodWrites \/ Environment \/ UNCHANGED vars
  PROVE  CrossInv'
  <1>t. Typed /\ HostTyped
    BY CrossTypes DEF CrossInv
  <1>1. UNCHANGED <<mode, restored, crossed, mounts, exists, worker, told, grown>>
    BY DEF ChangePod, ExpandClaim, PodWrites, Environment, Attach, Detach, DeviceAppears, node, user, vars
  <1>2. disk' \in DiskType
    <2>1. \/ disk' = disk \/ disk' = [disk EXCEPT !.data = TRUE]
          \/ \E larger \in VolumeSizes : disk' = [disk EXCEPT !.size = larger]
      BY DEF ChangePod, ExpandClaim, PodWrites, Environment, Attach, Detach, DeviceAppears, node, vars
    <2> QED
      BY <1>t, <2>1 DEF HostTyped, DiskType
  <1>3. dev' \in VolumeSizes \cup {0}
    <2>1. dev' = dev \/ dev' = 0 \/ dev' = disk.size
      BY DEF ChangePod, ExpandClaim, PodWrites, Environment, Attach, Detach, DeviceAppears, node, vars
    <2> QED
      BY <1>t, <2>1 DEF HostTyped, DiskType
  <1>4. want' \in [Pods -> BOOLEAN] /\ claim' \in Claims \cup {0} /\ attached' \in BOOLEAN
    <2>1. want' = want \/ \E p \in Pods : want' = [want EXCEPT ![p] = ~@]
      BY DEF ChangePod, ExpandClaim, PodWrites, Environment, Attach, Detach, DeviceAppears, user, vars
    <2>2. claim' = claim \/ claim' \in Claims
      BY DEF ChangePod, ExpandClaim, PodWrites, Environment, Attach, Detach, DeviceAppears, user, vars
    <2>3. attached' = attached \/ attached' \in BOOLEAN
      BY DEF ChangePod, ExpandClaim, PodWrites, Environment, Attach, Detach, DeviceAppears, user, vars
    <2> QED
      BY <1>t, <2>1, <2>2, <2>3 DEF Typed
  <1>5. budget' \in Nat
    <2>1. Disturb \/ budget' = budget
      BY DEF ChangePod, ExpandClaim, PodWrites, Environment, Attach, Detach, DeviceAppears, vars
    <2> QED
      BY <1>t, <2>1 DEF Disturb, Typed
  <1>6. HostTyped'
    BY <1>t, <1>1, <1>2, <1>3 DEF HostTyped
  <1>7. Typed'
    BY <1>t, <1>1, <1>2, <1>3, <1>4, <1>5 DEF Typed
  <1> QED
    BY <1>1, <1>6, <1>7, WorkersCross

LEMMA CrossNextInv == CrossInv /\ [Next]_vars => CrossInv'
  BY HandlerCross, KubeletCross, GiveUpCross, RestartCross, EnvironmentCross DEF Next

LEMMA CrossInitInv == Init => CrossInv
  BY InitInv DEF NodeInv, SlotInv, HostInv, CrossInv

\* Types, and the places of handlers, hold whichever handlers meet.
THEOREM CrossInvariant == Spec => []CrossInv
  BY CrossInitInv, CrossNextInv, PTL DEF Spec

\* The mount table, the disk, the handlers and what kubelet was told keep their types,
\* whichever handlers meet.
THEOREM TypeCorrect == Spec => []TypeOK
  <1>1. CrossInv => TypeOK
    BY DEF CrossInv
  <1> QED
    BY <1>1, CrossInvariant, PTL

\* The only answer that stages a restored volume is the one after its resize.
LEMMA StagedIsResized ==
  ASSUME CrossInv, [Next]_vars, restored, told[Staging] # "yes", told'[Staging] = "yes"
  PROVE  disk'.fsSize = dev
  <1>t. /\ Typed /\ mode = "Filesystem" /\ told \in [Paths -> Answers] /\ Staging \in Paths
        /\ Staging \notin Pods
    BY CrossTypes, SizeTypes DEF CrossInv, Typed
  <1>p. \A s \in Slots : Place(s)
    BY <1>t, Position DEF CrossInv
  <1>1. ASSUME NEW s \in Slots, Answer(s, "yes"), Op(s) \in {"publish", "expand"} PROVE FALSE
    <2>1. told' = told \/ (Op(s) # "expand" /\ told' = [told EXCEPT ![Path(s)] = "yes"])
      BY <1>1 DEF Answer
    <2>2. Op(s) = "publish" /\ told' = [told EXCEPT ![Path(s)] = "yes"]
      BY <1>1, <2>1
    <2>3. ControlInv(s) /\ worker[s] # Idle
      BY <2>2 DEF CrossInv, Op, Idle
    <2>4. Path(s) \in Pods
      BY <2>2, <2>3 DEF ControlInv
    <2> QED
      BY <1>t, <2>2, <2>4
  <1>2. ASSUME NEW s \in Slots, Fail(s) PROVE FALSE
    BY <1>t, <1>2 DEF Fail, Answer
  <1>3. ASSUME NEW s \in Slots, NEW step, Goto(s, step) PROVE FALSE
    BY <1>3 DEF Goto
  <1>4. ASSUME NEW s \in Slots, MountFailed(s) PROVE FALSE
    BY <1>2, <1>3, <1>4 DEF MountFailed
  <1>5. ASSUME NEW s \in Slots, GetDevicePath(s) \/ GetDevicePathFromMetadata(s) PROVE FALSE
    BY <1>t, <1>2, <1>3, <1>5 DEF GetDevicePath, GetDevicePathFromMetadata, DeviceFound
  <1>6. ASSUME NEW s \in Slots, IsLikelyNotMountPointAttach(s) PROVE FALSE
    <2>1. Op(s) \in {"stage", "publish"}
      BY <1>6, <1>p DEF IsLikelyNotMountPointAttach, Place
    <2> QED
      BY <1>1, <1>3, <1>6, <2>1 DEF IsLikelyNotMountPointAttach
  <1>7. ASSUME NEW s \in Slots, GetDiskFormat(s) \/ Mkfs(s) \/ MountDevice(s) PROVE FALSE
    BY <1>3, <1>4, <1>7 DEF GetDiskFormat, Mkfs, MountDevice
  <1>8. ASSUME NEW s \in Slots, RescanDevice(s) \/ MakeFile(s) PROVE FALSE
    BY <1>2, <1>3, <1>8 DEF RescanDevice, MakeFile
  <1>9. ASSUME NEW s \in Slots, BindMount(s) \/ BindDevice(s) PROVE FALSE
    <2>1. Op(s) = "publish"
      BY <1>9, <1>p DEF BindMount, BindDevice, At, Place
    <2> QED
      BY <1>1, <1>2, <1>9, <2>1 DEF BindMount, BindDevice
  <1>10. ASSUME NEW s \in Slots, CleanupMountPoint(s) \/ Unmount(s) \/ RemoveIfNotMounted(s)
         PROVE  FALSE
    <2>1. Goto(s, "unmount") \/ Goto(s, "recheck") \/ Fail(s) \/ Answer(s, "no")
      BY <1>10 DEF CleanupMountPoint, Unmount, RemoveIfNotMounted
    <2>2. ~Answer(s, "no")
      BY <1>t DEF Answer
    <2> QED
      BY <1>2, <1>3, <2>1, <2>2
  <1>11. ASSUME NEW s \in Slots, GetMountFs(s) \/ RescanBlockDeviceGeometry(s) \/ ResizeFs(s)
         PROVE  FALSE
    <2>1. Op(s) = "expand"
      BY <1>11, <1>p DEF GetMountFs, RescanBlockDeviceGeometry, ResizeFs, At, Place
    <2>2. \/ told' = told \/ Fail(s) \/ Answer(s, "yes")
      BY <1>11 DEF GetMountFs, RescanBlockDeviceGeometry, ResizeFs, Goto
    <2> QED
      BY <1>1, <1>2, <2>1, <2>2
  <1>12. ASSUME NEW s \in Slots, CallFails(s) PROVE FALSE
    BY <1>2, <1>4, <1>12 DEF CallFails
  <1>13. ASSUME NEW s \in Slots, StageResize(s) PROVE disk'.fsSize = dev
    <2>1. Answer(s, "yes") /\ disk' = [disk EXCEPT !.fsSize = dev]
      BY <1>2, <1>13 DEF StageResize
    <2> QED
      BY <1>t, <2>1 DEF Typed, DiskType
  <1>14. ASSUME NEW op, NEW p \in Paths, NEW step, NEW size, Begin(op, p, step, size) PROVE FALSE
    BY <1>t, <1>14 DEF Begin
  <1>15. ASSUME NEW p \in Paths, Kubelet(p) \/ StartExpand(p) \/ GiveUp(p) PROVE FALSE
    BY <1>14, <1>15, SizeTypes DEF Kubelet, StartExpand, GiveUp, StartStage, StartUnstage, StartPublish,
       StartUnpublish
  <1>16. ASSUME \/ \E p \in Pods : ChangePod(p)
                \/ \E size \in Claims : ExpandClaim(size)
                \/ Restart \/ PodWrites \/ Environment \/ UNCHANGED vars
         PROVE  FALSE
    BY <1>16 DEF ChangePod, ExpandClaim, Restart, PodWrites, Environment, Attach, Detach,
       DeviceAppears, vars
  <1>17. ~Reboot
    BY <1>t DEF Reboot
  <1> QED
    BY <1>5, <1>6, <1>7, <1>8, <1>9, <1>10, <1>11, <1>12, <1>13, <1>15, <1>16, <1>17
    DEF Next, Handler

\* When NodeStageVolume answers for a volume made from a snapshot, backup or volume, the file
\* system fills the device, whichever handlers meet.
THEOREM ResizedWhenStaged == Spec => RestoredIsResized
  <1>1. CrossInv /\ [Next]_vars =>
          [restored /\ told[Staging] # "yes" /\ told'[Staging] = "yes" => disk'.fsSize = dev]_vars
    BY StagedIsResized
  <1> QED
    BY <1>1, CrossInvariant, PTL DEF Spec, RestoredIsResized

-----------------------------------------------------------------------------
\* The refinement.

\* A step that neither attaches, detaches nor writes is a use, a release or none at all: a
\* volume that is mounted now is attached.
LEMMA MountsExclusively ==
  ASSUME NodeInv, HostInv', attached' = attached, disk'.data = disk.data
  PROVE  [Exclusive!Next]_(Exclusive!vars)
  <1>t. attached \in BOOLEAN /\ Staging # Late
    BY TypeParts, SizeTypes DEF NodeInv, Typed
  <1>1. CASE VolumeMounted' = VolumeMounted
    BY <1>1 DEF Exclusive!vars
  <1>2. CASE VolumeMounted /\ ~VolumeMounted'
    <2>1. Exclusive!Release
      BY <1>2 DEF Exclusive!Release
    <2> QED
      BY <2>1 DEF Exclusive!Next
  <1>3. CASE ~VolumeMounted /\ VolumeMounted'
    <2>1. attached
      BY <1>3, MountsAreVolumesNext DEF OnlyVolumes, HostInv
    <2>2. Exclusive!Use(Staging)
      BY <1>3, <2>1 DEF Exclusive!Use
    <2> QED
      BY <2>2 DEF Exclusive!Next
  <1>4. VolumeMounted \in BOOLEAN /\ VolumeMounted' \in BOOLEAN
    BY DEF VolumeMounted
  <1> QED
    BY <1>1, <1>2, <1>3, <1>4

LEMMA StepExclusive ==
  ASSUME NodeInv, [Next]_vars, ~crossed'
  PROVE  [Exclusive!Next]_(Exclusive!vars)
  <1>t. /\ Typed /\ HostInv /\ attached \in BOOLEAN /\ disk.data \in BOOLEAN /\ HostInv'
        /\ Staging # Late
    BY TypeParts, NextInv, SizeTypes, DiskSizes DEF NodeInv, Typed
  <1>1. CASE \E s \in Slots : Handler(s) \/ CallFails(s)
    <2>1. PICK s \in Slots : Handler(s) \/ CallFails(s)
      BY <1>1
    <2>2. disk'.data = disk.data
      BY <2>1, HandlersKeepData
    <2>3. attached' = attached
      BY <2>1 DEF Handler, CallFails, GetDevicePath, GetDevicePathFromMetadata,
         IsLikelyNotMountPointAttach, GetDiskFormat, Mkfs, MountDevice, RescanDevice, StageResize,
         MakeFile, BindMount, BindDevice, CleanupMountPoint, Unmount, RemoveIfNotMounted,
         GetMountFs, RescanBlockDeviceGeometry, ResizeFs, user
    <2> QED
      BY <1>t, <2>2, <2>3, MountsExclusively
  <1>2. CASE Attach
    <2>1. /\ ~attached /\ attached' = TRUE /\ VolumeMounted' = VolumeMounted
          /\ disk'.data = disk.data
      BY <1>2 DEF Attach, node, VolumeMounted, VolumeOn
    <2>2. Exclusive!Attach(Staging)
      BY <2>1 DEF Exclusive!Attach
    <2> QED
      BY <2>2 DEF Exclusive!Next
  <1>3. CASE Detach
    <2>1. /\ attached /\ attached' = FALSE /\ ~VolumeMounted /\ ~VolumeMounted'
          /\ disk'.data = disk.data
      BY <1>3, NothingLeft DEF Detach, VolumeMounted, VolumeOn
    <2>2. Exclusive!Detach
      BY <1>t, <2>1 DEF Exclusive!Detach
    <2> QED
      BY <2>2 DEF Exclusive!Next
  <1>4. CASE PodWrites
    <2>1. /\ attached' = attached /\ VolumeMounted /\ VolumeMounted' = VolumeMounted
          /\ disk'.data = TRUE
      BY <1>t, <1>4, WriterSees DEF PodWrites, user, VolumeMounted, VolumeOn, Typed, DiskType
    <2>2. Exclusive!Write
      BY <2>1 DEF Exclusive!Write
    <2> QED
      BY <2>2 DEF Exclusive!Next
  <1>5. CASE /\ ~\E s \in Slots : Handler(s) \/ CallFails(s)
             /\ ~Attach /\ ~Detach /\ ~PodWrites
    <2>1. disk'.data = disk.data
      BY <1>5, OthersKeepData
    <2>2. ASSUME NEW p \in Paths, Kubelet(p) \/ StartExpand(p) \/ GiveUp(p)
          PROVE  attached' = attached
      BY <2>2 DEF Kubelet, StartExpand, GiveUp, StartStage, StartUnstage, StartPublish,
         StartUnpublish, Begin, user
    <2>3. ASSUME \/ \E p \in Pods : ChangePod(p)
                 \/ \E size \in Claims : ExpandClaim(size)
                 \/ Restart \/ Reboot \/ DeviceAppears \/ UNCHANGED vars
          PROVE  attached' = attached
      BY <2>3 DEF ChangePod, ExpandClaim, Restart, Reboot, DeviceAppears, vars, user
    <2>4. attached' = attached
      BY <1>5, <2>2, <2>3 DEF Next, Environment
    <2> QED
      BY <1>t, <2>1, <2>4, MountsExclusively
  <1> QED
    BY <1>1, <1>2, <1>3, <1>4, <1>5

\* Staging, publishing, unpublishing and unstaging on one node are one server of an
\* ExclusiveVolume: the volume is mounted only while it is attached and given back only
\* when no path shows it, and what was written stays, until opposite handlers have met on one
\* path.
THEOREM NodeIsExclusive == Spec => ImplementsExclusive
  <1>1. Init => Exclusive!Init
    <2> SUFFICES ASSUME Init PROVE Exclusive!Init
      OBVIOUS
    <2>1. ~VolumeMounted
      BY DEF Init, VolumeMounted, VolumeOn
    <2>2. disk.data \in BOOLEAN
      BY DEF Init
    <2> QED
      BY <2>1, <2>2 DEF Init, Exclusive!Init
  <1>2. MeetInv /\ [Next]_vars => [crossed' \/ [Exclusive!Next]_(Exclusive!vars)]_vars
    BY StepExclusive, CrossedStays DEF MeetInv
  <1> QED
    BY <1>1, <1>2, NodeInvariant, PTL DEF Spec, ImplementsExclusive

==============================================================================
