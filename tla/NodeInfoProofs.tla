---------------------------- MODULE NodeInfoProofs ----------------------------
(***************************************************************************)
(* Proofs about Metadata and NodeInfo, for any requests, volumes, slots and *)
(* disturbances: the config drive does not stay mounted, NodeGetInfo counts *)
(* honestly, and it answers once it has learned the id of the instance.    *)
(***************************************************************************)
EXTENDS NodeInfo, FiniteSetTheorems, TLAPS

Sources == {"metadataService", "configDrive"}

\* The mounts that a request at this step has made, and not undone.
MountsAt(step) == IF step \in {"open", "close", "unmount"} THEN 1 ELSE 0

\* While no two requests have been at the drive at a time, the one that is made the only
\* mount; and files are open only between opening and closing.
DriveInv ==
    /\ \A r \in Requests : open[r] # 0 => pc[r] = "close"
    /\ ~overlapped =>
          /\ \A r, q \in AtDrive : r = q
          /\ \A r \in AtDrive : mounts = MountsAt(pc[r])
          /\ AtDrive = {} => mounts = 0

\* What Get is about to store or to return is there, and a request that runs has not
\* been answered.
CacheInv ==
    \A r \in Requests :
       /\ pc[r] = "store" => got[r] # Absent
       /\ pc[r] = "return" => cache # Absent
       /\ pc[r] # "idle" => answer[r] = "none"

MetadataInv == TypeOK /\ DriveInv /\ CacheInv

-----------------------------------------------------------------------------
\* Metadata.

LEMMA StepValues ==
  /\ {"idle", "try", "mount", "open", "close", "unmount", "remove", "store", "return"} = Steps
  /\ Sources \cup {Absent} = {Absent, "metadataService", "configDrive"}
  /\ Len(SearchOrder) \in Nat \ {0}
  BY MetadataAssumption DEF Steps, Sources

\* One request moves; the others stay where they are.
LEMMA DriveStep ==
  ASSUME TypeOK, DriveInv, NEW r \in Requests, NEW step \in Steps,
         pc' = [pc EXCEPT ![r] = step], overlapped' = (overlapped \/ Cardinality(AtDrive') > 1),
         \A q \in Requests \ {r} : open'[q] = open[q],
         open'[r] # 0 => step = "close",
         (\A q \in AtDrive : q = r) /\ mounts = MountsAt(pc[r]) => mounts' = MountsAt(step),
         r \notin AtDrive /\ r \notin AtDrive' => mounts' = mounts
  PROVE  DriveInv'
  <1>1. /\ pc'[r] = step /\ \A q \in Requests \ {r} : pc'[q] = pc[q]
        /\ \A q \in Requests \ {r} : q \in AtDrive' <=> q \in AtDrive
    BY DEF TypeOK, AtDrive
  <1>2. \A q \in Requests : open'[q] # 0 => pc'[q] = "close"
    BY <1>1 DEF DriveInv
  <1>3. ASSUME ~overlapped'
        PROVE  /\ \A p, q \in AtDrive' : p = q
               /\ \A q \in AtDrive' : mounts' = MountsAt(pc'[q])
               /\ AtDrive' = {} => mounts' = 0
    <2>0. /\ ~overlapped /\ ~(Cardinality(AtDrive') > 1)
          /\ \A p, q \in AtDrive : p = q
          /\ \A q \in AtDrive : mounts = MountsAt(pc[q])
          /\ AtDrive = {} => mounts = 0
          /\ AtDrive \subseteq Requests /\ AtDrive' \subseteq Requests
      BY <1>3 DEF DriveInv, AtDrive
    <2>1. CASE \A q \in AtDrive : q = r
      <3>1. mounts = MountsAt(pc[r])
        <4>1. CASE r \in AtDrive
          BY <2>0, <4>1
        <4>2. CASE r \notin AtDrive
          BY <2>0, <2>1, <4>2 DEF AtDrive, MountsAt
        <4> QED
          BY <4>1, <4>2
      <3>2. mounts' = MountsAt(step) /\ \A q \in AtDrive' : q = r
        BY <1>1, <2>0, <2>1, <3>1
      <3>3. r \notin AtDrive' => MountsAt(step) = 0
        BY <1>1 DEF AtDrive, MountsAt
      <3> QED
        BY <1>1, <3>2, <3>3
    <2>2. ASSUME NEW q \in AtDrive, q # r
          PROVE  /\ \A x, y \in AtDrive' : x = y
                 /\ \A x \in AtDrive' : mounts' = MountsAt(pc'[x])
                 /\ AtDrive' = {} => mounts' = 0
      <3>1. r \notin AtDrive /\ q \in AtDrive'
        BY <1>1, <2>0, <2>2
      <3>2. r \notin AtDrive'
        <4> SUFFICES ASSUME r \in AtDrive' PROVE FALSE
          OBVIOUS
        <4>1. AtDrive' = {q} \cup {r}
          BY <1>1, <2>0, <2>2, <3>1
        <4>2. Cardinality({q} \cup {r}) = 2
          <5>1. IsFiniteSet({q}) /\ Cardinality({q}) = 1
            BY FS_Singleton
          <5>2. Cardinality({q} \cup {r}) = IF r \in {q} THEN Cardinality({q}) ELSE Cardinality({q}) + 1
            BY <5>1, FS_AddElement
          <5> QED
            BY <2>2, <5>1, <5>2
        <4> QED
          BY <2>0, <4>1, <4>2
      <3>3. AtDrive' = {q} /\ mounts' = mounts /\ pc'[q] = pc[q]
        BY <1>1, <2>0, <2>2, <3>1, <3>2
      <3> QED
        BY <2>0, <3>3
    <2> QED
      BY <2>1, <2>2
  <1> QED
    BY <1>2, <1>3 DEF DriveInv

\* The loop of Get goes on to the next source, or ends.
LEMMA SourceDoneStep ==
  ASSUME TypeOK, NEW r \in Requests, SourceDone(r)
  PROVE  /\ \E step \in {"store", "try", "idle"} :
               pc' = [pc EXCEPT ![r] = step] /\ (step = "store" => got'[r] # Absent)
         /\ pos' \in [Requests -> 1..Len(SearchOrder)]
         /\ answer' \in [Requests -> {"none", "known", "error"}]
         /\ pc'[r] # "idle" => answer'[r] = answer[r]
         /\ pc'[r] = "idle" => answer'[r] = "error"
         /\ \A q \in Requests \ {r} : answer'[q] = answer[q]
         /\ UNCHANGED <<cache, service, drive, mounts, open, disturbances>>
  <1>0. Len(SearchOrder) \in Nat \ {0}
    BY StepValues
  <1>1. CASE got'[r] # Absent
    BY <1>1 DEF SourceDone, Goto, TypeOK
  <1>2. CASE got'[r] = Absent /\ pos[r] < Len(SearchOrder)
    <2>1. pos[r] + 1 \in 1..Len(SearchOrder)
      BY <1>0, <1>2 DEF TypeOK
    <2>2. /\ pc' = [pc EXCEPT ![r] = "try"] /\ pos' = [pos EXCEPT ![r] = @ + 1] /\ UNCHANGED answer
          /\ UNCHANGED <<cache, service, drive, mounts, open, disturbances>>
      BY <1>2 DEF SourceDone, Goto
    <2> QED
      BY <2>1, <2>2 DEF TypeOK
  <1>3. CASE got'[r] = Absent /\ ~(pos[r] < Len(SearchOrder))
    <2>1. /\ pc' = [pc EXCEPT ![r] = "idle"] /\ pos' = [pos EXCEPT ![r] = 1]
          /\ answer' = [answer EXCEPT ![r] = "error"]
          /\ UNCHANGED <<cache, service, drive, mounts, open, disturbances>>
      BY <1>3 DEF SourceDone, Goto
    <2> QED
      BY <1>0, <2>1 DEF TypeOK
  <1> QED
    BY <1>1, <1>2, <1>3

\* The part of the type invariant that the steps of a request find in different ways.
Cells ==
    /\ cache \in Sources \cup {Absent} /\ service \in BOOLEAN /\ drive \in Drive /\ tmp \in BOOLEAN
    /\ mounts \in Nat /\ pos \in [Requests -> 1..Len(SearchOrder)]
    /\ got \in [Requests -> Sources \cup {Absent}] /\ open \in [Requests -> 0..mounts]
    /\ answer \in [Requests -> {"none", "known", "error"}]

\* What every step of request r does that takes it to the given step.
Moves(r, step) ==
    /\ pc' = [pc EXCEPT ![r] = step]
    /\ Cells' /\ disturbances' = disturbances
    /\ \A q \in Requests \ {r} : open'[q] = open[q] /\ got'[q] = got[q] /\ answer'[q] = answer[q]
    /\ cache # Absent => cache' # Absent
    /\ open'[r] # 0 => step = "close"
    /\ step = "store" => got'[r] # Absent
    /\ step = "return" => cache' # Absent
    /\ step # "idle" => answer'[r] = "none"

\* What it does to the mounts, when it is alone and when it is not at the drive.
MovesMounts(r, step) ==
    /\ (\A q \in AtDrive : q = r) /\ mounts = MountsAt(pc[r]) => mounts' = MountsAt(step)
    /\ r \notin AtDrive /\ r \notin AtDrive' => mounts' = mounts

\* What NodeGetInfo, which is built on these steps, relies on.
Frame(r) ==
    /\ \A q \in Requests \ {r} : pc'[q] = pc[q] /\ answer'[q] = answer[q]
    /\ cache # Absent => cache' # Absent
    /\ pc[r] = "idle" /\ cache # Absent => pc'[r] = "return"
    /\ pc[r] = "return" => pc'[r] = "idle" /\ answer'[r] = "known"
    /\ pc[r] # "idle" /\ answer'[r] = "known" => cache' # Absent
    /\ disturbances' = disturbances

LEMMA MovesKeep ==
  ASSUME MetadataInv, NEW r \in Requests, NEW step \in Steps, Moves(r, step), MovesMounts(r, step),
         overlapped' = (overlapped \/ Cardinality(AtDrive') > 1)
  PROVE  MetadataInv'
  <1>t. TypeOK /\ DriveInv /\ CacheInv
    BY DEF MetadataInv
  <1>1. pc' \in [Requests -> Steps] /\ pc'[r] = step /\ \A q \in Requests \ {r} : pc'[q] = pc[q]
    BY <1>t DEF TypeOK, Moves
  <1>2. overlapped' \in BOOLEAN /\ disturbances' \in 0..MaxDisturbances
    BY <1>t DEF TypeOK, Moves
  <1>3. TypeOK'
    BY <1>1, <1>2, StepValues DEF TypeOK, Moves, Cells
  <1>4. DriveInv'
    BY <1>t, DriveStep DEF Moves, MovesMounts
  <1>5. CacheInv'
    BY <1>1, <1>t DEF CacheInv, Moves
  <1> QED
    BY <1>3, <1>4, <1>5 DEF MetadataInv

LEMMA RequestInv ==
  ASSUME MetadataInv, NEW r \in Requests, Request(r)
  PROVE  MetadataInv' /\ Frame(r)
  <1>t. TypeOK /\ DriveInv /\ CacheInv
    BY DEF MetadataInv
  <1>r. Cells /\ pc \in [Requests -> Steps] /\ Len(SearchOrder) \in Nat \ {0}
    BY <1>t, StepValues DEF TypeOK, Cells
  <1>o. overlapped' = (overlapped \/ Cardinality(AtDrive') > 1)
    BY DEF Request
  <1>c. /\ open[r] # 0 => pc[r] = "close"
        /\ pc[r] = "store" => got[r] # Absent
        /\ pc[r] = "return" => cache # Absent
        /\ pc[r] # "idle" => answer[r] = "none"
    BY <1>t DEF DriveInv, CacheInv
  <1> SUFFICES \E step \in Steps : Moves(r, step) /\ MovesMounts(r, step) /\ Frame(r)
    BY <1>o, MovesKeep
  <1>s. ASSUME NEW step \in Steps, pc' = [pc EXCEPT ![r] = step]
        PROVE  /\ pc'[r] = step /\ \A q \in Requests \ {r} : pc'[q] = pc[q]
               /\ r \in AtDrive' <=> step \in {"mount", "open", "close", "unmount", "remove"}
               /\ r \in AtDrive <=> pc[r] \in {"mount", "open", "close", "unmount", "remove"}
    BY <1>s, <1>r DEF AtDrive
  <1>1. CASE Get(r)
    <2>1. PICK step \in {"try", "return"} :
             /\ pc' = [pc EXCEPT ![r] = step] /\ (step = "return" <=> cache # Absent)
             /\ pc[r] = "idle" /\ answer' = [answer EXCEPT ![r] = "none"]
             /\ UNCHANGED <<cache, service, drive, tmp, mounts, pos, got, open, disturbances>>
      BY <1>1 DEF Get, Goto, host, locals
    <2>2. step \in Steps /\ pc'[r] = step /\ \A q \in Requests \ {r} : pc'[q] = pc[q]
      BY <2>1, <1>s DEF Steps
    <2>3. Moves(r, step)
      BY <2>1, <2>2, <1>c, <1>r DEF Moves, Cells
    <2>4. MovesMounts(r, step)
      BY <2>1 DEF MovesMounts, MountsAt
    <2> QED
      BY <2>1, <2>2, <2>3, <2>4, <1>r DEF Frame, Cells
  <1>2. CASE /\ getFromMetadataService(r) \/ (getFromConfigDrive(r) /\ drive = "missing") \/ RemoveDir(r)
    <2>1. /\ SourceDone(r) /\ tmp' \in BOOLEAN /\ pc[r] \in {"try", "remove"}
          /\ \E g \in Sources \cup {Absent} : got' = [got EXCEPT ![r] = g]
      <3>1. CASE RemoveDir(r)
        <4>1. got' = [got EXCEPT ![r] = got[r]] /\ got[r] \in Sources \cup {Absent}
          BY <3>1, <1>r DEF RemoveDir, Cells
        <4> QED
          BY <3>1, <4>1, <1>r DEF RemoveDir, Cells
      <3>2. CASE getFromMetadataService(r) \/ (getFromConfigDrive(r) /\ drive = "missing")
        BY <3>2, <1>r DEF getFromMetadataService, getFromConfigDrive, Sources, Cells
      <3> QED
        BY <1>2, <3>1, <3>2
    <2>2. /\ got' \in [Requests -> Sources \cup {Absent}]
          /\ \A q \in Requests \ {r} : got'[q] = got[q]
      BY <2>1, <1>r DEF Cells
    <2>3. PICK step \in {"store", "try", "idle"} :
             pc' = [pc EXCEPT ![r] = step] /\ (step = "store" => got'[r] # Absent)
      BY <2>1, <1>t, SourceDoneStep
    <2>4. step \in Steps /\ pc'[r] = step /\ \A q \in Requests \ {r} : pc'[q] = pc[q]
      BY <2>3, <1>s DEF Steps
    <2>5. /\ pos' \in [Requests -> 1..Len(SearchOrder)]
          /\ answer' \in [Requests -> {"none", "known", "error"}]
          /\ step # "idle" => answer'[r] = answer[r]
          /\ step = "idle" => answer'[r] = "error"
          /\ \A q \in Requests \ {r} : answer'[q] = answer[q]
          /\ UNCHANGED <<cache, service, drive, mounts, open, disturbances>>
      BY <2>1, <2>3, <2>4, <1>t, SourceDoneStep
    <2>6. Moves(r, step)
      BY <2>1, <2>2, <2>3, <2>4, <2>5, <1>c, <1>r DEF Moves, Cells
    <2>7. MovesMounts(r, step)
      BY <2>1, <2>5 DEF MovesMounts, MountsAt
    <2> QED
      BY <2>1, <2>4, <2>5, <2>6, <2>7, <1>c DEF Frame
  <1>3. CASE (getFromConfigDrive(r) /\ drive # "missing") \/ MountDrive(r) \/ Unmount(r)
    <2>1. PICK step \in {"mount", "open", "remove"} :
             /\ pc' = [pc EXCEPT ![r] = step]
             /\ pc[r] \in {"try", "mount", "unmount"}
             /\ UNCHANGED <<cache, service, drive, tmp, pos, got, open, answer, disturbances>>
             /\ step = "mount" => pc[r] = "try" /\ mounts' = mounts
             /\ step = "open" => pc[r] = "mount" /\ mounts' = mounts + 1
             /\ step = "remove" /\ pc[r] = "mount" => mounts' = mounts
             /\ step = "remove" => pc[r] \in {"mount", "unmount"}
             /\ pc[r] = "unmount" => Unmount(r)
      <3>1. CASE getFromConfigDrive(r) /\ drive # "missing"
        <4>1. /\ pc' = [pc EXCEPT ![r] = "mount"] /\ pc[r] = "try"
              /\ UNCHANGED <<cache, service, drive, tmp, mounts, pos, got, open, answer, disturbances>>
          BY <3>1 DEF getFromConfigDrive, Goto, host, locals
        <4> QED
          BY <4>1
      <3>2. CASE MountDrive(r)
        BY <3>2 DEF MountDrive, Goto, locals
      <3>3. CASE Unmount(r)
        BY <3>3 DEF Unmount, Goto, locals
      <3> QED
        BY <1>3, <3>1, <3>2, <3>3
    <2>2. step \in Steps /\ pc'[r] = step /\ \A q \in Requests \ {r} : pc'[q] = pc[q]
      BY <2>1, <1>s DEF Steps
    <2>3. CASE pc[r] # "unmount"
      <3>1. mounts' \in Nat /\ open' \in [Requests -> 0..mounts']
        BY <2>1, <2>3, <1>r DEF Cells
      <3>2. Moves(r, step)
        BY <2>1, <2>2, <3>1, <1>c, <1>r DEF Moves, Cells
      <3>3. r \in AtDrive'
        BY <2>1, <2>2, <1>s
      <3>4. mounts = MountsAt(pc[r]) => mounts' = MountsAt(step)
        BY <2>1, <2>3 DEF MountsAt
      <3>5. MovesMounts(r, step)
        BY <3>3, <3>4 DEF MovesMounts
      <3> QED
        BY <2>1, <2>2, <2>3, <3>2, <3>5, <1>c DEF Frame
    <2>4. CASE pc[r] = "unmount"
      <3>0. step = "remove"
        BY <2>1, <2>4
      <3>1. mounts' = IF mounts > 0 /\ \A q \in Requests : open[q] # mounts THEN mounts - 1 ELSE mounts
        BY <2>1, <2>4 DEF Unmount
      <3>2. mounts' \in Nat /\ open' \in [Requests -> 0..mounts']
        <4>1. CASE mounts > 0 /\ \A q \in Requests : open[q] # mounts
          BY <2>1, <3>1, <4>1, <1>r DEF Cells
        <4>2. CASE ~(mounts > 0 /\ \A q \in Requests : open[q] # mounts)
          BY <2>1, <3>1, <4>2, <1>r DEF Cells
        <4> QED
          BY <4>1, <4>2
      <3>3. Moves(r, step)
        BY <2>1, <2>2, <3>0, <3>2, <1>c, <1>r DEF Moves, Cells
      <3>4. (\A q \in AtDrive : q = r) /\ mounts = MountsAt(pc[r]) => mounts' = MountsAt(step)
        <4> SUFFICES ASSUME \A q \in AtDrive : q = r, mounts = 1
                     PROVE  mounts' = 0
          BY <2>4, <3>0 DEF MountsAt
        <4>1. \A q \in Requests : open[q] = 0
          BY <2>4, <1>t DEF DriveInv, AtDrive
        <4> QED
          BY <3>1, <4>1
      <3>5. MovesMounts(r, step)
        BY <2>1, <2>2, <2>4, <3>0, <3>4, <1>s DEF MovesMounts
      <3> QED
        BY <2>1, <2>2, <2>4, <3>0, <3>3, <3>5, <1>c DEF Frame
    <2> QED
      BY <2>3, <2>4
  <1>4. CASE OpenMetadata(r) \/ CloseMetadata(r)
    <2>1. PICK step \in {"close", "unmount"}, m \in 0..mounts, g \in Sources \cup {Absent} :
             /\ pc' = [pc EXCEPT ![r] = step] /\ pc[r] \in {"open", "close"}
             /\ open' = [open EXCEPT ![r] = m] /\ got' = [got EXCEPT ![r] = g]
             /\ UNCHANGED <<cache, service, drive, tmp, mounts, pos, answer, disturbances>>
             /\ m # 0 => step = "close"
      <3>1. CASE OpenMetadata(r) /\ drive = "good" /\ mounts > 0
        <4>1. /\ pc' = [pc EXCEPT ![r] = "close"] /\ pc[r] = "open" /\ mounts \in 0..mounts
              /\ open' = [open EXCEPT ![r] = mounts] /\ got' = [got EXCEPT ![r] = "configDrive"]
              /\ UNCHANGED <<cache, service, drive, tmp, mounts, pos, answer, disturbances>>
          BY <3>1, <1>r DEF OpenMetadata, Goto, host, Cells
        <4>2. "configDrive" \in Sources \cup {Absent}
          BY DEF Sources
        <4> QED
          BY <4>1, <4>2
      <3>2. CASE OpenMetadata(r) /\ ~(drive = "good" /\ mounts > 0)
        <4>1. /\ open[r] = 0 /\ open' = [open EXCEPT ![r] = 0] /\ 0 \in 0..mounts
              /\ got' = [got EXCEPT ![r] = got[r]] /\ got[r] \in Sources \cup {Absent}
              /\ pc' = [pc EXCEPT ![r] = "unmount"] /\ pc[r] = "open"
              /\ UNCHANGED <<cache, service, drive, tmp, mounts, pos, answer, disturbances>>
          BY <3>2, <1>c, <1>r DEF OpenMetadata, Goto, host, Cells
        <4> QED
          BY <4>1
      <3>3. CASE CloseMetadata(r)
        <4>1. /\ open' = [open EXCEPT ![r] = 0] /\ 0 \in 0..mounts
              /\ got' = [got EXCEPT ![r] = got[r]] /\ got[r] \in Sources \cup {Absent}
              /\ pc' = [pc EXCEPT ![r] = "unmount"] /\ pc[r] = "close"
              /\ UNCHANGED <<cache, service, drive, tmp, mounts, pos, answer, disturbances>>
          BY <3>3, <1>r DEF CloseMetadata, Goto, host, Cells
        <4> QED
          BY <4>1
      <3> QED
        BY <1>4, <3>1, <3>2, <3>3
    <2>2. step \in Steps /\ pc'[r] = step /\ \A q \in Requests \ {r} : pc'[q] = pc[q]
      BY <2>1, <1>s DEF Steps
    <2>3. /\ open' \in [Requests -> 0..mounts] /\ open'[r] = m
          /\ got' \in [Requests -> Sources \cup {Absent}]
          /\ \A q \in Requests \ {r} : open'[q] = open[q] /\ got'[q] = got[q]
      BY <2>1, <1>r DEF Cells
    <2>4. Moves(r, step)
      BY <2>1, <2>2, <2>3, <1>c, <1>r DEF Moves, Cells
    <2>5. MovesMounts(r, step)
      BY <2>1 DEF MovesMounts, MountsAt
    <2> QED
      BY <2>1, <2>2, <2>4, <2>5, <1>c DEF Frame
  <1>5. CASE Store(r)
    <2>1. /\ pc' = [pc EXCEPT ![r] = "return"] /\ pc[r] = "store" /\ cache' = got[r]
          /\ UNCHANGED <<service, drive, tmp, mounts, pos, got, open, answer, disturbances>>
      BY <1>5 DEF Store, Goto, host, locals
    <2>2. "return" \in Steps /\ pc'[r] = "return" /\ \A q \in Requests \ {r} : pc'[q] = pc[q]
      BY <2>1, <1>s DEF Steps
    <2>3. Moves(r, "return")
      BY <2>1, <2>2, <1>c, <1>r DEF Moves, Cells
    <2>4. MovesMounts(r, "return")
      BY <2>1 DEF MovesMounts, MountsAt
    <2> QED
      BY <2>1, <2>2, <2>3, <2>4, <1>c DEF Frame
  <1>6. CASE Return(r)
    <2>1. /\ pc' = [pc EXCEPT ![r] = "idle"] /\ pc[r] = "return" /\ cache # Absent
          /\ answer' = [answer EXCEPT ![r] = "known"]
          /\ pos' = [pos EXCEPT ![r] = 1] /\ got' = [got EXCEPT ![r] = Absent]
          /\ UNCHANGED <<cache, service, drive, tmp, mounts, open, disturbances>>
      BY <1>6, <1>c DEF Return, Goto, host
    <2>2. "idle" \in Steps /\ pc'[r] = "idle" /\ \A q \in Requests \ {r} : pc'[q] = pc[q]
      BY <2>1, <1>s DEF Steps
    <2>3. Moves(r, "idle")
      BY <2>1, <2>2, <1>c, <1>r DEF Moves, Cells
    <2>4. MovesMounts(r, "idle")
      BY <2>1 DEF MovesMounts, MountsAt
    <2> QED
      BY <2>1, <2>2, <2>3, <2>4, <1>r, <1>c DEF Frame, Cells
  <1> QED
    BY <1>1, <1>2, <1>3, <1>4, <1>5, <1>6 DEF Request

\* A disturbance that leaves the requests alone.
LEMMA DisturbedElsewhere ==
  ASSUME MetadataInv, disturbances > 0, disturbances' = disturbances - 1,
         service' \in BOOLEAN, drive' \in Drive,
         UNCHANGED <<cache, tmp, mounts, pc, pos, got, open, answer, overlapped>>
  PROVE  MetadataInv'
  <1>1. disturbances' \in 0..MaxDisturbances
    BY MetadataAssumption DEF MetadataInv, TypeOK
  <1>2. TypeOK'
    BY <1>1 DEF MetadataInv, TypeOK
  <1>3. AtDrive' = AtDrive
    BY DEF AtDrive
  <1>4. DriveInv'
    BY <1>3 DEF MetadataInv, DriveInv
  <1>5. CacheInv'
    BY DEF MetadataInv, CacheInv
  <1> QED
    BY <1>2, <1>4, <1>5 DEF MetadataInv

LEMMA SourcesChangeInv ==
  ASSUME MetadataInv, SourcesChange
  PROVE  MetadataInv'
  <1>1. service' \in BOOLEAN /\ drive' \in Drive
    BY DEF SourcesChange, MetadataInv, TypeOK
  <1> QED
    BY <1>1, DisturbedElsewhere DEF SourcesChange, locals

LEMMA RestartInv ==
  ASSUME MetadataInv, Restart
  PROVE  MetadataInv'
  <1>1. disturbances' \in 0..MaxDisturbances
    BY MetadataAssumption DEF MetadataInv, TypeOK, Restart
  <1>2. \A r \in Requests : pc'[r] = "idle" /\ open'[r] = 0
    BY DEF Restart, Fresh
  <1>3. TypeOK'
    <2>1. /\ service' \in BOOLEAN /\ drive' \in Drive
      BY DEF MetadataInv, TypeOK, Restart
    <2>2. 1 \in 1..Len(SearchOrder) /\ "idle" \in Steps /\ 0 \in 0..0 /\ 0 \in Nat
      BY StepValues
    <2>3. /\ pc' \in [Requests -> Steps] /\ pos' \in [Requests -> 1..Len(SearchOrder)]
          /\ open' \in [Requests -> 0..mounts']
      BY <2>2 DEF Restart, Fresh
    <2> QED
      BY <1>1, <2>1, <2>3 DEF TypeOK, Restart, Fresh
  <1>4. AtDrive' = {} /\ mounts' = 0
    BY <1>2 DEF AtDrive, Restart, Fresh
  <1>5. DriveInv'
    BY <1>2, <1>4 DEF DriveInv
  <1>6. CacheInv'
    BY <1>2 DEF CacheInv
  <1> QED
    BY <1>3, <1>5, <1>6 DEF MetadataInv

LEMMA MetadataInit ==
  ASSUME Init
  PROVE  MetadataInv
  <1>1. TypeOK
    <2>1. 1 \in 1..Len(SearchOrder) /\ "idle" \in Steps /\ MaxDisturbances \in 0..MaxDisturbances
      BY StepValues, MetadataAssumption
    <2>2. /\ pc \in [Requests -> Steps] /\ pos \in [Requests -> 1..Len(SearchOrder)]
          /\ open \in [Requests -> 0..mounts] /\ disturbances \in 0..MaxDisturbances
      BY <2>1 DEF Init
    <2> QED
      BY <2>2 DEF TypeOK, Init
  <1>2. \A r \in Requests : pc[r] = "idle" /\ open[r] = 0
    BY DEF Init
  <1>3. AtDrive = {} /\ mounts = 0
    BY <1>2 DEF AtDrive, Init
  <1> QED
    BY <1>1, <1>2, <1>3 DEF MetadataInv, DriveInv, CacheInv

LEMMA MetadataStutter ==
  ASSUME MetadataInv, UNCHANGED vars
  PROVE  MetadataInv'
  <1>1. AtDrive' = AtDrive
    BY DEF vars, AtDrive
  <1>2. TypeOK'
    BY DEF MetadataInv, TypeOK, vars, host, locals
  <1>3. DriveInv' /\ CacheInv'
    BY <1>1 DEF MetadataInv, DriveInv, CacheInv, vars, host, locals
  <1> QED
    BY <1>2, <1>3 DEF MetadataInv

\* What Get keeps (metadata.go): its cells, its mounts and its cache.
THEOREM MetadataInvariant == Spec => []MetadataInv
  <1>1. Init => MetadataInv
    BY MetadataInit
  <1>2. MetadataInv /\ [Next]_vars => MetadataInv'
    BY RequestInv, SourcesChangeInv, RestartInv, MetadataStutter DEF Next
  <1> QED
    BY <1>1, <1>2, PTL DEF Spec

\* The config drive does not stay mounted (the deferred unmount of getFromConfigDrive):
\* when no request is at it nothing is mounted, unless two have been at it at a time.
THEOREM DriveReleased == Spec => []NothingMounted
  <1>1. MetadataInv => NothingMounted
    BY DEF MetadataInv, DriveInv, NothingMounted
  <1> QED
    BY <1>1, MetadataInvariant, PTL

-----------------------------------------------------------------------------
\* NodeInfo.

\* A NodeGetInfo that has learned the id finds the cache filled when it asks again.
StageInv ==
    \A r \in Requests :
       /\ stage[r] # "id" => cache # Absent /\ pc[r] \in {"idle", "return"}
       /\ stage[r] \in {"slots", "filesystem", "block"} => pc[r] = "idle"

\* What the counts taken so far would give now.
Seen(s) ==
    CASE s = "filesystem" -> Free
      [] s = "block" -> Free + Cardinality(Staged("filesystem"))
      [] OTHER -> Free + Cardinality(Staged("filesystem")) + Cardinality(Staged("block"))

\* A volume that moves changes what the counts would give by at most one.
CountInv ==
    \A r \in Requests :
       /\ stage[r] = "slots" => counted[r] = 0
       /\ stage[r] \in {"filesystem", "block", "zone"} /\ ~lost[r] =>
             counted[r] <= Seen(stage[r]) + moved[r] /\ counted[r] >= Seen(stage[r]) - moved[r]

InfoInv == InfoTypeOK /\ MetadataInv /\ Free >= 0 /\ StageInv /\ CountInv

LEMMA AddOne ==
  ASSUME NEW S, IsFiniteSet(S), NEW v, v \notin S
  PROVE  Cardinality(S \cup {v}) = Cardinality(S) + 1
  BY FS_AddElement

LEMMA RemoveOne ==
  ASSUME NEW S, IsFiniteSet(S), NEW v \in S
  PROVE  Cardinality(S \ {v}) = Cardinality(S) - 1
  BY FS_RemoveElement

LEMMA CountsFinite ==
  /\ IsFiniteSet(Occupied) /\ Cardinality(Occupied) \in Nat
  /\ \A kind : IsFiniteSet(Staged(kind)) /\ Cardinality(Staged(kind)) \in Nat
  /\ Free \in Int
  <1>1. Occupied \subseteq Volumes /\ \A kind : Staged(kind) \subseteq Volumes
    BY DEF Occupied, Staged
  <1>2. \A S \in SUBSET Volumes : IsFiniteSet(S) /\ Cardinality(S) \in Nat
    BY NodeInfoAssumption, FS_Subset, FS_CardinalityType
  <1>3. Free \in Int
    BY <1>1, <1>2, NodeInfoAssumption DEF Free
  <1> QED
    BY <1>1, <1>2, <1>3

\* A move changes one of the three counts, by one, or none.
LEMMA MoveCounts ==
  ASSUME InfoTypeOK, Free >= 0, NEW v \in Volumes, Move(v)
  PROVE  /\ Free' >= 0
         /\ \E f, s, b \in {-1, 0, 1} :
               /\ Free' = Free + f
               /\ Cardinality(Staged("filesystem")') = Cardinality(Staged("filesystem")) + s
               /\ Cardinality(Staged("block")') = Cardinality(Staged("block")) + b
               /\ f = 0 \/ (s = 0 /\ b = 0)
               /\ s = 0 \/ b = 0
  <1>t. place \in [Volumes -> {"away", "attached", "staged"}] /\ Slots \in Nat
    BY NodeInfoAssumption DEF InfoTypeOK
  <1>f. /\ IsFiniteSet(Occupied) /\ Cardinality(Occupied) \in Nat /\ Free \in Int
        /\ IsFiniteSet(Staged("filesystem")) /\ Cardinality(Staged("filesystem")) \in Nat
        /\ IsFiniteSet(Staged("block")) /\ Cardinality(Staged("block")) \in Nat
    BY CountsFinite
  <1>1. CASE place[v] = "away" /\ Free > 0 /\ place' = [place EXCEPT ![v] = "attached"]
    <2>1. Occupied' = Occupied \cup {v} /\ v \notin Occupied
      BY <1>1, <1>t DEF Occupied
    <2>2. Staged("filesystem")' = Staged("filesystem") /\ Staged("block")' = Staged("block")
      BY <1>1, <1>t DEF Staged
    <2>3. Cardinality(Occupied') = Cardinality(Occupied) + 1
      BY <2>1, <1>f, AddOne
    <2>4. Free' = Free + (-1)
      BY <2>3, <1>f, <1>t DEF Free
    <2> QED
      BY <1>1, <1>f, <2>2, <2>4
  <1>2. CASE place[v] = "attached" /\ place' = [place EXCEPT ![v] = "away"]
    <2>1. Occupied' = Occupied \ {v} /\ v \in Occupied
      BY <1>2, <1>t DEF Occupied
    <2>2. Staged("filesystem")' = Staged("filesystem") /\ Staged("block")' = Staged("block")
      BY <1>2, <1>t DEF Staged
    <2>3. Cardinality(Occupied') = Cardinality(Occupied) - 1
      BY <2>1, <1>f, RemoveOne
    <2>4. Free' = Free + 1
      BY <2>3, <1>f, <1>t DEF Free
    <2> QED
      BY <1>f, <2>2, <2>4
  <1>3. CASE \/ place[v] = "attached" /\ place' = [place EXCEPT ![v] = "staged"]
             \/ place[v] = "staged" /\ place' = [place EXCEPT ![v] = "attached"]
    <2>1. Occupied' = Occupied
      BY <1>3, <1>t DEF Occupied
    <2>2. Free' = Free + 0 /\ Free' = Free
      BY <2>1, <1>f DEF Free
    <2>3. ASSUME NEW kind \in {"filesystem", "block"}
          PROVE  /\ Kind[v] # kind => Staged(kind)' = Staged(kind)
                 /\ Kind[v] = kind => \E d \in {-1, 1} :
                       Cardinality(Staged(kind)') = Cardinality(Staged(kind)) + d
      <3>1. ASSUME Kind[v] # kind PROVE Staged(kind)' = Staged(kind)
        BY <1>3, <1>t, <3>1 DEF Staged
      <3>2. ASSUME Kind[v] = kind, place[v] = "attached", place' = [place EXCEPT ![v] = "staged"]
            PROVE  Cardinality(Staged(kind)') = Cardinality(Staged(kind)) + 1
        <4>1. Staged(kind)' = Staged(kind) \cup {v} /\ v \notin Staged(kind)
          BY <3>2, <1>t DEF Staged
        <4> QED
          BY <4>1, <1>f, AddOne, CountsFinite
      <3>3. ASSUME Kind[v] = kind, place[v] = "staged", place' = [place EXCEPT ![v] = "attached"]
            PROVE  Cardinality(Staged(kind)') = Cardinality(Staged(kind)) + (-1)
        <4>1. Staged(kind)' = Staged(kind) \ {v} /\ v \in Staged(kind)
          BY <3>3, <1>t DEF Staged
        <4>2. IsFiniteSet(Staged(kind)) /\ Cardinality(Staged(kind)) \in Nat
          BY CountsFinite
        <4>3. Cardinality(Staged(kind)') = Cardinality(Staged(kind)) - 1
          BY <4>1, <4>2, RemoveOne
        <4> QED
          BY <4>2, <4>3
      <3> QED
        BY <1>3, <3>1, <3>2, <3>3
    <2>4. CASE Kind[v] = "filesystem"
      <3>1. /\ Staged("block")' = Staged("block")
            /\ \E d \in {-1, 1} : Cardinality(Staged("filesystem")') = Cardinality(Staged("filesystem")) + d
        BY <2>3, <2>4
      <3> QED
        BY <2>2, <3>1, <1>f
    <2>5. CASE Kind[v] = "block"
      <3>1. /\ Staged("filesystem")' = Staged("filesystem")
            /\ \E d \in {-1, 1} : Cardinality(Staged("block")') = Cardinality(Staged("block")) + d
        BY <2>3, <2>5
      <3> QED
        BY <2>2, <3>1, <1>f
    <2>6. CASE Kind[v] \notin {"filesystem", "block"}
      <3>1. Staged("filesystem")' = Staged("filesystem") /\ Staged("block")' = Staged("block")
        BY <2>3, <2>6
      <3> QED
        BY <2>2, <3>1, <1>f
    <2> QED
      BY <2>4, <2>5, <2>6
  <1> QED
    BY <1>1, <1>2, <1>3 DEF Move

\* What the counts would give depends on where the volumes are.
LEMMA SeenSame ==
  ASSUME UNCHANGED place
  PROVE  /\ Free' = Free /\ Staged("filesystem")' = Staged("filesystem")
         /\ Staged("block")' = Staged("block") /\ \A s : Seen(s)' = Seen(s)
  <1>1. /\ Free' = Free /\ Staged("filesystem")' = Staged("filesystem")
        /\ Staged("block")' = Staged("block")
    BY DEF Free, Occupied, Staged
  <1> QED
    BY <1>1 DEF Seen

LEMMA SeenValues ==
  /\ Seen("filesystem") = Free
  /\ Seen("block") = Free + Cardinality(Staged("filesystem"))
  /\ Seen("zone") = Free + Cardinality(Staged("filesystem")) + Cardinality(Staged("block"))
  /\ \A s : Seen(s) \in Int
  BY CountsFinite DEF Seen

LEMMA AskMetadataInv ==
  ASSUME InfoInv, NEW r \in Requests, AskMetadata(r)
  PROVE  InfoInv' /\ (stage[r] = "zone" /\ stage'[r] = "id" => answer'[r] = "known")
                  /\ \A q \in Requests \ {r} : stage'[q] = stage[q]
  <1>t. InfoTypeOK /\ MetadataInv /\ Free >= 0 /\ StageInv /\ CountInv
    BY DEF InfoInv
  <1>m. MetadataInv' /\ Frame(r)
    BY <1>t, RequestInv DEF AskMetadata
  <1>p. place' = place
    BY DEF AskMetadata
  <1>1. CASE ~(pc[r] # "idle" /\ pc'[r] = "idle")
    <2>1. stage' = [stage EXCEPT ![r] = stage[r]] /\ UNCHANGED <<counted, moved, lost>>
      BY <1>1 DEF AskMetadata, counts
    <2>2. stage' = stage
      BY <2>1, <1>t DEF InfoTypeOK
    <2>3. InfoTypeOK'
      BY <2>1, <2>2, <1>t, <1>m, <1>p DEF InfoTypeOK, MetadataInv
    <2>4. StageInv'
      <3>1. stage[r] \in {"id", "zone"}
        BY DEF AskMetadata
      <3>2. stage[r] = "zone" => pc'[r] = "return"
        BY <1>1, <1>t, <1>m DEF StageInv, Frame
      <3> QED
        BY <2>2, <3>1, <3>2, <1>t, <1>m DEF StageInv, Frame
    <2>5. CountInv'
      BY <2>1, <2>2, <1>t, <1>p, SeenSame DEF CountInv
    <2> QED
      BY <1>t, <1>m, <1>p, <2>2, <2>3, <2>4, <2>5, SeenSame DEF InfoInv
  <1>2. CASE pc[r] # "idle" /\ pc'[r] = "idle"
    <2>1. /\ stage[r] \in {"id", "zone"}
          /\ \/ stage' = [stage EXCEPT ![r] = "slots"] /\ answer'[r] = "known"
             \/ stage' = [stage EXCEPT ![r] = "id"]
          /\ counted' = [counted EXCEPT ![r] = 0]
          /\ moved' = [moved EXCEPT ![r] = 0]
          /\ lost' = [lost EXCEPT ![r] = FALSE]
      BY <1>2, <1>t DEF AskMetadata, InfoTypeOK
    <2>2. PICK s \in {"id", "slots"} :
             stage' = [stage EXCEPT ![r] = s] /\ (s = "slots" => answer'[r] = "known")
      BY <2>1
    <2>3. /\ stage' \in [Requests -> Stages] /\ stage'[r] = s /\ counted'[r] = 0
          /\ counted' \in [Requests -> Nat] /\ moved' \in [Requests -> Nat]
          /\ lost' \in [Requests -> BOOLEAN]
          /\ \A q \in Requests \ {r} :
                stage'[q] = stage[q] /\ counted'[q] = counted[q] /\ moved'[q] = moved[q] /\ lost'[q] = lost[q]
      BY <2>1, <2>2, <1>t DEF InfoTypeOK, Stages
    <2>4. InfoTypeOK'
      BY <2>3, <1>t, <1>m, <1>p DEF InfoTypeOK, MetadataInv
    <2>5. StageInv'
      BY <1>2, <2>2, <2>3, <1>t, <1>m DEF StageInv, Frame
    <2>6. CountInv'
      BY <2>2, <2>3, <1>t, <1>p, SeenSame DEF CountInv
    <2>7. stage[r] = "zone" => answer'[r] = "known"
      BY <1>2, <1>t, <1>m DEF StageInv, Frame
    <2> QED
      BY <1>t, <1>m, <1>p, <2>3, <2>4, <2>5, <2>6, <2>7, SeenSame DEF InfoInv
  <1> QED
    BY <1>1, <1>2

\* A count that adds what Seen gains from one stage to the next.
LEMMA CountStep ==
  ASSUME InfoInv, NEW r \in Requests, NEW step \in {"slots", "filesystem", "block"},
         NEW next \in {"filesystem", "block", "zone"}, NEW n \in Nat, Count(r, step, n, next),
         step = "slots" => Seen(next) = n,
         step # "slots" => Seen(next) = Seen(step) + n
  PROVE  InfoInv' /\ stage'[r] # "id" /\ \A q \in Requests \ {r} : stage'[q] = stage[q]
  <1>t. InfoTypeOK /\ MetadataInv /\ Free >= 0 /\ StageInv /\ CountInv
    BY DEF InfoInv
  <1>1. /\ stage[r] = step
        /\ counted' = [counted EXCEPT ![r] = counted[r] + n]
        /\ stage' = [stage EXCEPT ![r] = next]
        /\ UNCHANGED <<vars, place, moved, lost>>
    BY <1>t DEF Count, InfoTypeOK
  <1>2. /\ counted[r] \in Nat /\ moved[r] \in Nat
        /\ counted' \in [Requests -> Nat] /\ stage' \in [Requests -> Stages]
        /\ counted'[r] = counted[r] + n /\ stage'[r] = next
        /\ \A q \in Requests \ {r} : stage'[q] = stage[q] /\ counted'[q] = counted[q]
    BY <1>1, <1>t DEF InfoTypeOK, Stages
  <1>3. MetadataInv'
    BY <1>1, <1>t, MetadataStutter
  <1>4. InfoTypeOK'
    BY <1>1, <1>2, <1>3, <1>t DEF InfoTypeOK, MetadataInv
  <1>5. pc' = pc /\ cache' = cache
    BY <1>1 DEF vars
  <1>6. StageInv'
    BY <1>1, <1>2, <1>5, <1>t DEF StageInv
  <1>7. /\ \A s : Seen(s)' = Seen(s)
        /\ Seen(step) \in Int /\ Seen(next) \in Int
    BY <1>1, SeenSame, SeenValues
  <1>8. ~lost'[r] => counted'[r] <= Seen(next) + moved'[r] /\ counted'[r] >= Seen(next) - moved'[r]
    <2>1. CASE step = "slots"
      <3>1. counted[r] = 0 /\ Seen(next) = n
        BY <2>1, <1>1, <1>t DEF CountInv
      <3> QED
        BY <3>1, <1>1, <1>2
    <2>2. CASE step # "slots"
      <3>1. ~lost[r] => counted[r] <= Seen(step) + moved[r] /\ counted[r] >= Seen(step) - moved[r]
        BY <2>2, <1>1, <1>t DEF CountInv
      <3>2. Seen(next) = Seen(step) + n
        BY <2>2
      <3> QED
        BY <3>1, <3>2, <1>1, <1>2, <1>7
    <2> QED
      BY <2>1, <2>2
  <1>9. CountInv'
    BY <1>1, <1>2, <1>7, <1>8, <1>t DEF CountInv
  <1> QED
    BY <1>1, <1>2, <1>3, <1>4, <1>6, <1>9, <1>t, SeenSame DEF InfoInv

LEMMA NodeGetInfoInv ==
  ASSUME InfoInv, NEW r \in Requests, NodeGetInfo(r)
  PROVE  InfoInv' /\ (stage[r] = "zone" /\ stage'[r] = "id" => answer'[r] = "known")
                  /\ \A q \in Requests \ {r} : stage'[q] = stage[q]
  <1>t. InfoTypeOK /\ MetadataInv /\ Free >= 0 /\ StageInv /\ CountInv
    BY DEF InfoInv
  <1>f. /\ Free \in Nat /\ Cardinality(Staged("filesystem")) \in Nat
        /\ Cardinality(Staged("block")) \in Nat
    BY <1>t, CountsFinite
  <1>1. CASE AskMetadata(r)
    BY <1>1, AskMetadataInv
  <1>2. CASE countFreePCIeSlotsAt(r)
    BY <1>2, <1>f, CountStep, SeenValues DEF countFreePCIeSlotsAt
  <1>3. CASE countLocalCSIFilesystemVolumesAt(r)
    BY <1>3, <1>f, CountStep, SeenValues DEF countLocalCSIFilesystemVolumesAt
  <1>4. CASE countLocalCSIBlockVolumesAt(r)
    BY <1>4, <1>f, CountStep, SeenValues DEF countLocalCSIBlockVolumesAt
  <1>5. CASE CountFreeFails(r)
    <2>1. /\ stage[r] = "slots" /\ stage' = [stage EXCEPT ![r] = "filesystem"]
          /\ lost' = [lost EXCEPT ![r] = TRUE]
          /\ disturbances > 0 /\ disturbances' = disturbances - 1
          /\ UNCHANGED <<cache, service, drive, tmp, mounts, pc, pos, got, open, answer, overlapped,
                         place, counted, moved>>
      BY <1>5 DEF CountFreeFails, host, locals
    <2>2. MetadataInv'
      <3>1. service' \in BOOLEAN /\ drive' \in Drive
        BY <2>1, <1>t DEF MetadataInv, TypeOK
      <3> QED
        BY <2>1, <3>1, <1>t, DisturbedElsewhere
    <2>3. /\ stage' \in [Requests -> Stages] /\ stage'[r] = "filesystem"
          /\ lost' \in [Requests -> BOOLEAN] /\ lost'[r]
          /\ \A q \in Requests \ {r} : stage'[q] = stage[q] /\ lost'[q] = lost[q]
      BY <2>1, <1>t DEF InfoTypeOK, Stages
    <2>4. InfoTypeOK'
      BY <2>1, <2>2, <2>3, <1>t DEF InfoTypeOK, MetadataInv
    <2>5. StageInv'
      BY <2>1, <2>3, <1>t DEF StageInv
    <2>6. CountInv'
      BY <2>1, <2>3, <1>t, SeenSame DEF CountInv
    <2> QED
      BY <2>1, <2>2, <2>3, <2>4, <2>5, <2>6, <1>t, SeenSame DEF InfoInv
  <1> QED
    BY <1>1, <1>2, <1>3, <1>4, <1>5 DEF NodeGetInfo

LEMMA MoveInv ==
  ASSUME InfoInv, NEW v \in Volumes, Move(v)
  PROVE  InfoInv' /\ stage' = stage
  <1>t. InfoTypeOK /\ MetadataInv /\ Free >= 0 /\ StageInv /\ CountInv
    BY DEF InfoInv
  <1>1. /\ disturbances > 0 /\ disturbances' = disturbances - 1
        /\ moved' = [r \in Requests |-> IF stage[r] = "id" THEN 0 ELSE moved[r] + 1]
        /\ UNCHANGED <<cache, service, drive, tmp, mounts, pc, pos, got, open, answer, overlapped,
                       stage, counted, lost>>
    BY DEF Move, host, locals
  <1>2. MetadataInv'
    <2>1. service' \in BOOLEAN /\ drive' \in Drive
      BY <1>1, <1>t DEF MetadataInv, TypeOK
    <2> QED
      BY <1>1, <2>1, <1>t, DisturbedElsewhere
  <1>3. moved' \in [Requests -> Nat]
    BY <1>1, <1>t DEF InfoTypeOK
  <1>4. place' \in [Volumes -> {"away", "attached", "staged"}]
    BY <1>t DEF InfoTypeOK, Move
  <1>5. InfoTypeOK'
    BY <1>1, <1>2, <1>3, <1>4, <1>t DEF InfoTypeOK, MetadataInv
  <1>6. StageInv'
    BY <1>1, <1>t DEF StageInv
  <1>7. /\ Free' >= 0
        /\ \A s \in {"filesystem", "block", "zone"} :
              Seen(s)' <= Seen(s) + 1 /\ Seen(s)' >= Seen(s) - 1 /\ Seen(s)' \in Int
    <2>1. PICK f \in {-1, 0, 1}, s \in {-1, 0, 1}, b \in {-1, 0, 1} :
             /\ Free' = Free + f
             /\ Cardinality(Staged("filesystem")') = Cardinality(Staged("filesystem")) + s
             /\ Cardinality(Staged("block")') = Cardinality(Staged("block")) + b
             /\ f = 0 \/ (s = 0 /\ b = 0)
             /\ s = 0 \/ b = 0
      BY <1>t, MoveCounts
    <2>2. /\ Free \in Int /\ Cardinality(Staged("filesystem")) \in Nat
          /\ Cardinality(Staged("block")) \in Nat
      BY CountsFinite
    <2>3. /\ Seen("filesystem")' = Free'
          /\ Seen("block")' = Free' + Cardinality(Staged("filesystem")')
          /\ Seen("zone")' = Free' + Cardinality(Staged("filesystem")') + Cardinality(Staged("block")')
      BY DEF Seen
    <2>4. Seen("filesystem")' = Seen("filesystem") + f
      BY <2>1, <2>3, SeenValues
    <2>5. Seen("block")' = Seen("block") + f + s
      BY <2>1, <2>2, <2>3, SeenValues
    <2>6. Seen("zone")' = Seen("zone") + f + s + b
      BY <2>1, <2>2, <2>3, SeenValues
    <2>7. Free' >= 0
      BY <1>t, MoveCounts
    <2> QED
      BY <2>1, <2>4, <2>5, <2>6, <2>7, SeenValues
  <1>8. CountInv'
    <2> SUFFICES ASSUME NEW r \in Requests
                 PROVE  /\ stage[r] = "slots" => counted[r] = 0
                        /\ stage[r] \in {"filesystem", "block", "zone"} /\ ~lost[r] =>
                              /\ counted[r] <= Seen(stage[r])' + moved'[r]
                              /\ counted[r] >= Seen(stage[r])' - moved'[r]
      BY <1>1 DEF CountInv
    <2>1. stage[r] = "slots" => counted[r] = 0
      BY <1>t DEF CountInv
    <2>2. ASSUME NEW s \in {"filesystem", "block", "zone"}, stage[r] = s, ~lost[r]
          PROVE  /\ counted[r] <= Seen(s)' + moved'[r]
                 /\ counted[r] >= Seen(s)' - moved'[r]
      <3>1. /\ counted[r] <= Seen(s) + moved[r] /\ counted[r] >= Seen(s) - moved[r]
            /\ counted[r] \in Nat /\ moved[r] \in Nat /\ moved'[r] = moved[r] + 1
        BY <2>2, <1>1, <1>t DEF CountInv, InfoTypeOK
      <3>2. /\ Seen(s)' <= Seen(s) + 1 /\ Seen(s)' >= Seen(s) - 1
            /\ Seen(s) \in Int /\ Seen(s)' \in Int
        BY <1>7, SeenValues
      <3> QED
        BY <3>1, <3>2
    <2> QED
      BY <1>1, <2>1, <2>2 DEF Seen
  <1> QED
    BY <1>1, <1>2, <1>5, <1>6, <1>7, <1>8 DEF InfoInv

LEMMA MetadataDisturbedInv ==
  ASSUME InfoInv, MetadataDisturbed
  PROVE  InfoInv' /\ (stage' = stage \/ Restart)
  <1>t. InfoTypeOK /\ MetadataInv /\ Free >= 0 /\ StageInv /\ CountInv /\ place' = place
    BY DEF InfoInv, MetadataDisturbed
  <1>1. CASE SourcesChange /\ UNCHANGED <<stage, counts>>
    <2>1. MetadataInv' /\ cache' = cache /\ pc' = pc /\ UNCHANGED <<stage, counted, moved, lost>>
      BY <1>1, <1>t, SourcesChangeInv DEF SourcesChange, counts
    <2>2. InfoTypeOK'
      BY <2>1, <1>t DEF InfoTypeOK, MetadataInv
    <2>3. StageInv'
      BY <2>1, <1>t DEF StageInv
    <2>4. CountInv'
      BY <2>1, <1>t, SeenSame DEF CountInv
    <2> QED
      BY <2>1, <2>2, <2>3, <2>4, <1>t, SeenSame DEF InfoInv
  <1>2. CASE /\ Restart
             /\ stage' = [r \in Requests |-> "id"]
             /\ counted' = [r \in Requests |-> 0]
             /\ moved' = [r \in Requests |-> 0]
             /\ lost' = [r \in Requests |-> FALSE]
    <2>1. MetadataInv'
      BY <1>2, <1>t, RestartInv
    <2>2. InfoTypeOK'
      BY <1>2, <2>1, <1>t DEF InfoTypeOK, MetadataInv, Stages
    <2>3. \A r \in Requests : stage'[r] = "id"
      BY <1>2
    <2>4. StageInv' /\ CountInv'
      BY <2>3 DEF StageInv, CountInv
    <2> QED
      BY <1>2, <2>1, <2>2, <2>4, <1>t, SeenSame DEF InfoInv
  <1> QED
    BY <1>1, <1>2 DEF MetadataDisturbed

LEMMA InfoStep ==
  ASSUME InfoInv, [InfoNext]_infoVars
  PROVE  /\ InfoInv'
         /\ \A r \in Requests : stage[r] = "zone" /\ stage'[r] = "id" => answer'[r] = "known" \/ Restart
  <1>1. ASSUME NEW r \in Requests, NodeGetInfo(r)
        PROVE  /\ InfoInv'
               /\ \A q \in Requests : stage[q] = "zone" /\ stage'[q] = "id" => answer'[q] = "known"
    BY <1>1, NodeGetInfoInv
  <1>2. ASSUME NEW v \in Volumes, Move(v)
        PROVE  InfoInv' /\ stage' = stage
    BY <1>2, MoveInv
  <1>3. CASE MetadataDisturbed
    BY <1>3, MetadataDisturbedInv
  <1>4. CASE UNCHANGED infoVars
    <2>1. UNCHANGED <<vars, place, stage, counted, moved, lost>>
      BY <1>4 DEF infoVars, counts
    <2>2. MetadataInv' /\ pc' = pc /\ cache' = cache
      BY <2>1, MetadataStutter DEF InfoInv, vars
    <2>3. InfoTypeOK' /\ StageInv'
      BY <2>1, <2>2 DEF InfoInv, InfoTypeOK, StageInv, MetadataInv
    <2>4. CountInv' /\ Free' >= 0
      BY <2>1, SeenSame DEF InfoInv, CountInv
    <2> QED
      BY <2>1, <2>2, <2>3, <2>4 DEF InfoInv
  <1> QED
    BY <1>1, <1>2, <1>3, <1>4 DEF InfoNext

\* What NodeGetInfo keeps while it runs (nodeserver.go).
THEOREM InfoInvariant == InfoSpec => []InfoInv
  <1>1. InfoInit => InfoInv
    <2> SUFFICES ASSUME InfoInit PROVE InfoInv
      OBVIOUS
    <2>1. MetadataInv
      BY MetadataInit DEF InfoInit
    <2>2. InfoTypeOK
      BY <2>1 DEF InfoInit, InfoTypeOK, MetadataInv, Stages
    <2>3. \A r \in Requests : stage[r] = "id"
      BY DEF InfoInit
    <2>4. StageInv /\ CountInv
      BY <2>3 DEF StageInv, CountInv
    <2> QED
      BY <2>1, <2>2, <2>4 DEF InfoInit, InfoInv
  <1>2. InfoInv /\ [InfoNext]_infoVars => InfoInv'
    BY InfoStep
  <1> QED
    BY <1>1, <1>2, PTL DEF InfoSpec

\* Type correctness of NodeGetInfo and of the metadata it asks for.
THEOREM InfoTypeCorrect == InfoSpec => []InfoTypeOK
  <1>1. InfoInv => InfoTypeOK
    BY DEF InfoInv
  <1> QED
    BY <1>1, InfoInvariant, PTL

\* The config drive does not stay mounted either when it is NodeGetInfo that asks.
THEOREM InfoDriveReleased == InfoSpec => []NothingMounted
  <1>1. InfoInv => NothingMounted
    BY DEF InfoInv, MetadataInv, DriveInv, NothingMounted
  <1> QED
    BY <1>1, InfoInvariant, PTL

LEMMA DisjointUnion ==
  ASSUME NEW S, NEW T, IsFiniteSet(S), IsFiniteSet(T), S \cap T = {}
  PROVE  IsFiniteSet(S \cup T) /\ Cardinality(S \cup T) = Cardinality(S) + Cardinality(T)
  <1>1. Cardinality(S) \in Nat /\ Cardinality(T) \in Nat /\ Cardinality(S \cap T) = 0
    BY FS_CardinalityType, FS_EmptySet
  <1>2. /\ IsFiniteSet(S \cup T)
        /\ Cardinality(S \cup T) = Cardinality(S) + Cardinality(T) - Cardinality(S \cap T)
    BY FS_Union
  <1> QED
    BY <1>1, <1>2

\* Every slot is free, of another driver, of a volume in transit, or of one that is staged.
LEMMA SlotsAddUp ==
  ASSUME InfoTypeOK
  PROVE  /\ Seen("zone") = Capacity - Cardinality(InTransit)
         /\ Capacity \in Int /\ Cardinality(InTransit) \in Nat
  <1> DEFINE F == Staged("filesystem")
             B == Staged("block")
             X == Occupied \ Own
  <1>1. /\ F \subseteq Volumes /\ B \subseteq Volumes /\ InTransit \subseteq Volumes /\ X \subseteq Volumes
    BY DEF Staged, InTransit, Own, Occupied
  <1>2. \A S \in SUBSET Volumes : IsFiniteSet(S) /\ Cardinality(S) \in Nat
    BY NodeInfoAssumption, FS_Subset, FS_CardinalityType
  <1>3. /\ F \cap B = {} /\ (F \cup B) \cap InTransit = {} /\ ((F \cup B) \cup InTransit) \cap X = {}
    BY DEF Staged, InTransit, Own
  <1>4. Occupied = ((F \cup B) \cup InTransit) \cup X
    <2>1. \A v \in Volumes : place[v] \in {"away", "attached", "staged"}
      BY DEF InfoTypeOK
    <2>2. ASSUME NEW v \in Occupied
          PROVE  v \in F \/ v \in B \/ v \in InTransit \/ v \in X
      BY <2>1 DEF Staged, InTransit, Own, Occupied
    <2>3. F \subseteq Occupied /\ B \subseteq Occupied /\ InTransit \subseteq Occupied
      BY DEF Staged, InTransit, Own, Occupied
    <2> QED
      BY <2>2, <2>3
  <1> HIDE DEF F, B, X
  <1>5. IsFiniteSet(F \cup B) /\ Cardinality(F \cup B) = Cardinality(F) + Cardinality(B)
    BY <1>1, <1>2, <1>3, DisjointUnion
  <1>6. /\ IsFiniteSet((F \cup B) \cup InTransit)
        /\ Cardinality((F \cup B) \cup InTransit) = Cardinality(F \cup B) + Cardinality(InTransit)
    BY <1>1, <1>2, <1>3, <1>5, DisjointUnion
  <1>7. Cardinality(Occupied) = Cardinality((F \cup B) \cup InTransit) + Cardinality(X)
    BY <1>1, <1>2, <1>3, <1>4, <1>6, DisjointUnion
  <1>8. Capacity = Slots - Cardinality(X) /\ Free = Slots - Cardinality(Occupied)
    BY DEF Capacity, Free, X
  <1>9. Seen("zone") = Free + Cardinality(F) + Cardinality(B)
    BY SeenValues DEF F, B
  <1>n. /\ Cardinality(F) \in Nat /\ Cardinality(B) \in Nat /\ Cardinality(InTransit) \in Nat
        /\ Cardinality(X) \in Nat /\ Slots \in Nat
    BY <1>1, <1>2, NodeInfoAssumption
  <1> QED
    BY <1>5, <1>6, <1>7, <1>8, <1>9, <1>n

\* The number of volumes that NodeGetInfo reports (mount_helper.go: three counts, one
\* after the other) is wrong by no more than the volumes that moved meanwhile and those
\* attached and not staged, for any number of slots, volumes and concurrent requests.
THEOREM CountHonest == InfoSpec => []CountIsHonest
  <1>1. InfoInv => CountIsHonest
    <2> SUFFICES ASSUME InfoInv, NEW r \in Requests, stage[r] = "zone", ~lost[r]
                 PROVE  /\ counted[r] <= Capacity + moved[r]
                        /\ counted[r] >= Capacity - Cardinality(InTransit) - moved[r]
      BY DEF CountIsHonest
    <2>1. /\ counted[r] <= Seen("zone") + moved[r] /\ counted[r] >= Seen("zone") - moved[r]
          /\ counted[r] \in Nat /\ moved[r] \in Nat
      BY DEF InfoInv, CountInv, InfoTypeOK
    <2>2. /\ Seen("zone") = Capacity - Cardinality(InTransit)
          /\ Capacity \in Int /\ Cardinality(InTransit) \in Nat
      BY SlotsAddUp DEF InfoInv
    <2> QED
      BY <2>1, <2>2
  <1> QED
    BY <1>1, InfoInvariant, PTL

\* Once GetInstanceID has succeeded GetAvailabilityZone does (nodeserver.go), whatever
\* becomes of the sources, because nothing empties the cache of Get.
THEOREM ZoneKnown == InfoSpec => ZoneFollowsId
  <1>1. InfoInv /\ [InfoNext]_infoVars =>
          [\A r \in Requests :
             stage[r] = "zone" /\ stage'[r] = "id" => answer'[r] = "known" \/ Restart]_infoVars
    BY InfoStep
  <1> QED
    BY <1>1, InfoInvariant, PTL DEF InfoSpec, ZoneFollowsId

=============================================================================
