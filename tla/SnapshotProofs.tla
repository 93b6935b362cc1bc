---------------------------- MODULE SnapshotProofs ----------------------------
(***************************************************************************)
(* Proofs about SnapshotController and SnapshotQueries, for any number of  *)
(* names, of objects per name and of disturbances: repeated CreateSnapshot *)
(* requests agree, no data is lost on the way from snapshot to backup, and *)
(* listings are true.                                                      *)
(***************************************************************************)
EXTENDS SnapshotQueries, FiniteSetTheorems, TLAPS

\* What CreateSnapshot answers with.
Objs(n) == IF kind[n] = "backup" THEN backups ELSE snaps


\* The backups that CreateSnapshot has asked for, and whether their snapshots are there.
Made(n)   == {b \in Ids : backups[n][b].volume = "own" /\ backups[n][b].status # "UNUSED"}
Behind(n) == \A b \in Made(n) : Exists(snaps[n][backups[n][b].of])

\* CreateSnapshot finds a backup, or the snapshots are there.
FoundBehind(n) == phase[n] = "wanted" /\ Listed(backups, n) = {} => Behind(n)

\* There is one snapshot and one backup of a name at most that was made in time; the backups
\* of the name that were asked for here, whether they have appeared or not, were made from
\* the one snapshot of the name there can be, of the own volume, and it goes only when there
\* is a backup to be found.
NameInv(n) ==
    /\ \A i, j \in InTime(snaps, n) : i = j
    /\ \A i, j \in InTime(backups, n) : i = j
    /\ \A i \in Ids : /\ snaps[n][i].status = "SENT" => snaps[n][i].late
                      /\ backups[n][i].status = "SENT" => backups[n][i].late
    /\ \A b \in Made(n) :
          /\ kind[n] = "backup" /\ backups[n][b].of \in Ids
          /\ snaps[n][backups[n][b].of].volume = "own"
          /\ snaps[n][backups[n][b].of].status \notin {"UNUSED", "SENT"}
          /\ InTime(snaps, n) \subseteq {backups[n][b].of}
    /\ FoundBehind(n)

\* What a handler knows between two calls: what it did not find, what it holds, and that it
\* can only answer what was answered before.
Knows(n, call, j) ==
    /\ call \in CreateCalls => phase[n] = "wanted"
    /\ call \in DeleteCalls => phase[n] = "released"
    /\ call \in {"listBackups", "createBackup", "waitBackup", "getBackup", "dropSnapshot", "deleteBackup"}
          => kind[n] = "backup"
    /\ call \in {"listSnapshots", "createSnapshot", "waitSnapshot", "createBackup"}
          /\ kind[n] = "backup" =>
             InTime(backups, n) = {} /\ answered[n] = {} /\ Behind(n)
    /\ call = "createSnapshot" => InTime(snaps, n) = {} /\ answered[n] = {} /\ Made(n) = {}
    /\ call \in {"waitSnapshot", "createBackup"} =>
          /\ j.snap \in Listed(snaps, n) /\ snaps[n][j.snap].volume = "own"
          /\ InTime(snaps, n) \subseteq {j.snap} /\ answered[n] \subseteq {j.snap}
    /\ call \in {"waitBackup", "getBackup", "dropSnapshot"} =>
          /\ j.backup \in Listed(backups, n) /\ backups[n][j.backup].volume = "own"
          /\ answered[n] \subseteq {j.backup}
    /\ call \in {"getBackup", "dropSnapshot"} => backups[n][j.backup].status = "AVAILABLE"
    /\ call = "dropSnapshot" => j.snap = backups[n][j.backup].of

HandlerInv(n) == Knows(n, pc[n], job[n])

\* What was answered is an available object of the own volume until it is released, and the
\* only one; a backup has left behind no snapshot but late ones it was not made from.
LeftNone(n, b) == InTime(snaps, n) = {} /\ ~Exists(snaps[n][backups[n][b].of])

AnsweredInv(n) ==
    /\ phase[n] = "wanted" => handle[n] = None
    /\ phase[n] # "wanted" =>
          /\ handle[n] \in Ids /\ answered[n] = {handle[n]}
          /\ Objs(n)[n][handle[n]].volume = "own" /\ Objs(n)[n][handle[n]].status # "UNUSED"
    /\ \A i, j \in answered[n] : i = j
    /\ phase[n] \in {"wanted", "ready"} =>
          \A i \in answered[n] :
             Objs(n)[n][i].status = "AVAILABLE" /\ Objs(n)[n][i].volume = "own"
    /\ phase[n] = "ready" /\ kind[n] = "backup" => LeftNone(n, handle[n])

SnapshotInv == TypeOK /\ \A n \in Names : NameInv(n) /\ HandlerInv(n) /\ AnsweredInv(n)

-----------------------------------------------------------------------------
\* Types.

Rows     == [Names -> [Ids -> Object]]
JobType  == [snap : ObjectIds, backup : ObjectIds]
CallType == CreateCalls \cup DeleteCalls \cup {"idle"}

LEMMA TypeValues ==
  /\ {"listBackups", "listSnapshots", "createSnapshot", "waitSnapshot", "createBackup",
      "waitBackup", "getBackup", "dropSnapshot"} = CreateCalls
  /\ {"checkBackup", "deleteBackup", "deleteSnapshot"} = DeleteCalls
  /\ CreateCalls \subseteq CallType /\ DeleteCalls \subseteq CallType /\ "idle" \in CallType
  /\ "idle" \notin CreateCalls /\ "idle" \notin DeleteCalls
  /\ NoJob \in JobType
  /\ \A s, b \in ObjectIds : [snap |-> s, backup |-> b] \in JobType
  /\ \A i \in Ids : i \in ObjectIds
  /\ 0 \in ObjectIds
  BY DEF CallType, CreateCalls, DeleteCalls, JobType, NoJob, ObjectIds

\* An object changes its status only.
LEMMA StatusChange ==
  ASSUME NEW o \in Object, NEW s \in Statuses
  PROVE  /\ [o EXCEPT !.status = s] \in Object /\ [o EXCEPT !.status = s].status = s
         /\ [o EXCEPT !.status = s].volume = o.volume /\ [o EXCEPT !.status = s].of = o.of
         /\ [o EXCEPT !.status = s].late = o.late
  BY DEF Object

LEMMA InitInv == Init => SnapshotInv
  <1> SUFFICES ASSUME Init PROVE SnapshotInv
    OBVIOUS
  <1>1. Foreign \subseteq [Ids -> Object]
    BY DEF Foreign, Unused, Object, Statuses, ObjectIds
  <1>2. TypeOK
    <2>1. NoJob \in [snap : ObjectIds, backup : ObjectIds]
      BY TypeValues DEF JobType
    <2>2. budget \in 0 .. MaxDisturbances
      BY SnapshotAssumption DEF Init
    <2> QED
      BY <1>1, <2>1, <2>2 DEF Init, TypeOK
  <1>3. ASSUME NEW n \in Names PROVE NameInv(n) /\ HandlerInv(n) /\ AnsweredInv(n)
    <2>1. ASSUME NEW row \in Foreign
          PROVE  /\ \A i, j \in Ids : Exists(row[i]) /\ Exists(row[j]) => i = j
                 /\ \A i \in Ids : row[i].volume = "own" => row[i].status = "UNUSED"
                 /\ \A i \in Ids : row[i].status # "SENT"
      BY <2>1 DEF Foreign, Unused, Exists
    <2>2. snaps[n] \in Foreign /\ backups[n] \in Foreign
      BY DEF Init
    <2>3. NameInv(n)
      BY <2>1, <2>2 DEF NameInv, InTime, Listed, Made, FoundBehind, Behind
    <2>4. HandlerInv(n)
      BY TypeValues DEF Init, HandlerInv, Knows
    <2>5. AnsweredInv(n)
      BY DEF Init, AnsweredInv
    <2> QED
      BY <2>3, <2>4, <2>5
  <1> QED
    BY <1>2, <1>3 DEF SnapshotInv

-----------------------------------------------------------------------------
\* Steps.

\* Names have nothing to do with each other.
LEMMA OtherNames ==
  ASSUME NEW d \in Names, NameInv(d), HandlerInv(d), AnsweredInv(d),
         snaps'[d] = snaps[d], backups'[d] = backups[d], kind'[d] = kind[d], phase'[d] = phase[d],
         handle'[d] = handle[d], answered'[d] = answered[d], pc'[d] = pc[d], job'[d] = job[d]
  PROVE  NameInv(d)' /\ HandlerInv(d)' /\ AnsweredInv(d)'
  <1>1. Listed(snaps, d)' = Listed(snaps, d) /\ Listed(backups, d)' = Listed(backups, d)
    BY DEF Listed, Exists
  <1>5. InTime(snaps, d)' = InTime(snaps, d) /\ InTime(backups, d)' = InTime(backups, d)
    BY <1>1 DEF InTime
  <1>6. Made(d)' = Made(d) /\ Behind(d)' = Behind(d)
    BY DEF Made, Behind, Exists, Ids
  <1>2. NameInv(d)'
    BY <1>1, <1>5, <1>6 DEF NameInv, FoundBehind, Ids
  <1>3. HandlerInv(d)'
    BY <1>1, <1>5, <1>6 DEF HandlerInv, Knows
  <1>4. AnsweredInv(d)'
    BY <1>1, <1>5 DEF AnsweredInv, Objs, Ids, LeftNone, Exists
  <1> QED
    BY <1>2, <1>3, <1>4

\* What the handler of n leaves alone of the other names.
OthersStay(n) ==
    /\ snaps' \in Rows /\ backups' \in Rows
    /\ \A d \in Names \ {n} : snaps'[d] = snaps[d] /\ backups'[d] = backups[d]

\* The handler of n makes its next call.
LEMMA ContinueStep ==
  ASSUME SnapshotInv, NEW n \in Names, NEW call \in CallType, NEW j \in JobType,
         Continue(n, call, j), OthersStay(n), budget' = budget \/ Disturb,
         NameInv(n)', AnsweredInv(n)', Knows(n, call, j)'
  PROVE  SnapshotInv'
  <1>t. TypeOK
    BY DEF SnapshotInv
  <1>1. /\ UNCHANGED <<kind, phase, handle, answered>>
        /\ pc' = [pc EXCEPT ![n] = call] /\ job' = [job EXCEPT ![n] = j]
    BY DEF Continue, content
  <1>2. /\ pc' \in [Names -> CallType] /\ job' \in [Names -> JobType] /\ pc'[n] = call /\ job'[n] = j
        /\ \A d \in Names \ {n} : pc'[d] = pc[d] /\ job'[d] = job[d]
    BY <1>1, <1>t DEF TypeOK, CallType, JobType
  <1>3. budget' \in 0 .. MaxDisturbances
    BY <1>t, SnapshotAssumption DEF TypeOK, Disturb
  <1>4. TypeOK'
    BY <1>1, <1>2, <1>3, <1>t DEF TypeOK, OthersStay, Rows, CallType, JobType
  <1>5. HandlerInv(n)'
    BY <1>2 DEF HandlerInv
  <1>6. ASSUME NEW d \in Names \ {n} PROVE NameInv(d)' /\ HandlerInv(d)' /\ AnsweredInv(d)'
    BY <1>1, <1>2, <1>6, OtherNames DEF SnapshotInv, OthersStay
  <1> QED
    BY <1>4, <1>5, <1>6 DEF SnapshotInv

\* ... without having changed anything.
LEMMA ReadStep ==
  ASSUME SnapshotInv, NEW n \in Names, NEW call \in CallType, NEW j \in JobType,
         Continue(n, call, j), UNCHANGED objects, budget' = budget \/ Disturb, Knows(n, call, j)
  PROVE  SnapshotInv'
  <1>1. TypeOK /\ NameInv(n) /\ AnsweredInv(n)
    BY DEF SnapshotInv
  <1>2. UNCHANGED <<snaps, backups, kind, phase, handle, answered>>
    BY DEF Continue, content, objects
  <1>3. Listed(snaps, n)' = Listed(snaps, n) /\ Listed(backups, n)' = Listed(backups, n)
    BY <1>2 DEF Listed, Exists
  <1>6. /\ InTime(snaps, n)' = InTime(snaps, n) /\ InTime(backups, n)' = InTime(backups, n)
        /\ Made(n)' = Made(n) /\ Behind(n)' = Behind(n)
    BY <1>2, <1>3 DEF InTime, Made, Behind, Exists, Ids
  <1>4. NameInv(n)' /\ AnsweredInv(n)' /\ Knows(n, call, j)'
    <2>1. NameInv(n)'
      BY <1>1, <1>2, <1>3, <1>6 DEF NameInv, FoundBehind, Ids
    <2>2. AnsweredInv(n)'
      BY <1>1, <1>2, <1>3, <1>6 DEF AnsweredInv, Objs, LeftNone, Exists
    <2>3. Knows(n, call, j)'
      BY <1>1, <1>2, <1>3, <1>6 DEF Knows
    <2> QED
      BY <2>1, <2>2, <2>3
  <1>5. OthersStay(n)
    BY <1>1, <1>2 DEF OthersStay, Rows, TypeOK
  <1> QED
    BY <1>4, <1>5, ContinueStep

\* An error leaves nothing behind but the objects.
LEMMA FailKnows ==
  ASSUME NEW n \in Names
  PROVE  Knows(n, "idle", NoJob) /\ Knows(n, "idle", NoJob)'
  BY TypeValues DEF Knows

LEMMA FailStep ==
  ASSUME SnapshotInv, NEW n \in Names, Fail(n), OthersStay(n), budget' = budget \/ Disturb,
         NameInv(n)', AnsweredInv(n)'
  PROVE  SnapshotInv'
  BY FailKnows, TypeValues, ContinueStep DEF Fail

LEMMA FailReadStep ==
  ASSUME SnapshotInv, NEW n \in Names, Fail(n), UNCHANGED objects, budget' = budget \/ Disturb
  PROVE  SnapshotInv'
  BY FailKnows, TypeValues, ReadStep DEF Fail

\* CreateSnapshot answers that i is ready.
LEMMA ReadyStep ==
  ASSUME SnapshotInv, NEW n \in Names, NEW i \in Ids, Ready(n, i), OthersStay(n), NameInv(n)',
         phase[n] = "wanted", answered[n] \subseteq {i},
         kind[n] # "backup" => snaps'[n][i].status = "AVAILABLE" /\ snaps'[n][i].volume = "own",
         kind[n] = "backup" =>
            /\ backups'[n][i].status = "AVAILABLE" /\ backups'[n][i].volume = "own"
            /\ LeftNone(n, i)'
  PROVE  SnapshotInv'
  <1>t. TypeOK
    BY DEF SnapshotInv
  <1>1. /\ kind' = kind /\ answered' = [answered EXCEPT ![n] = @ \cup {i}]
        /\ pc' = [pc EXCEPT ![n] = "idle"] /\ job' = [job EXCEPT ![n] = NoJob]
        /\ \/ /\ handle' = [handle EXCEPT ![n] = i] /\ phase' = [phase EXCEPT ![n] = "ready"]
              /\ budget' = budget
           \/ Disturb /\ handle' = handle /\ phase' = phase
    BY DEF Ready
  <1>2. /\ pc' \in [Names -> CallType] /\ job' \in [Names -> JobType] /\ pc'[n] = "idle"
        /\ \A d \in Names \ {n} : pc'[d] = pc[d] /\ job'[d] = job[d]
    BY <1>1, <1>t, TypeValues DEF TypeOK, CallType, JobType
  <1>3. budget' \in 0 .. MaxDisturbances
    BY <1>1, <1>t, SnapshotAssumption DEF TypeOK, Disturb
  <1>4. /\ answered' \in [Names -> SUBSET Ids] /\ answered'[n] = {i}
        /\ handle' \in [Names -> Ids \cup {None}]
        /\ phase' \in [Names -> {"wanted", "ready", "released", "deleted"}]
        /\ \A d \in Names \ {n} : /\ answered'[d] = answered[d] /\ handle'[d] = handle[d]
                                  /\ phase'[d] = phase[d]
        /\ \/ handle'[n] = i /\ phase'[n] = "ready"
           \/ handle'[n] = handle[n] /\ phase'[n] = "wanted"
    <2>1. /\ answered' \in [Names -> SUBSET Ids] /\ answered'[n] = {i}
          /\ \A d \in Names \ {n} : answered'[d] = answered[d]
      BY <1>1, <1>t DEF TypeOK
    <2>2. CASE handle' = [handle EXCEPT ![n] = i] /\ phase' = [phase EXCEPT ![n] = "ready"]
      BY <2>1, <2>2, <1>t DEF TypeOK
    <2>3. CASE handle' = handle /\ phase' = phase
      BY <2>1, <2>3, <1>t DEF TypeOK
    <2> QED
      BY <1>1, <2>2, <2>3
  <1>5. TypeOK'
    BY <1>1, <1>2, <1>3, <1>4, <1>t DEF TypeOK, OthersStay, Rows, CallType, JobType
  <1>6. HandlerInv(n)'
    BY <1>2, TypeValues DEF HandlerInv, Knows
  <1>7. AnsweredInv(n)'
    <2>1. phase[n] = "wanted" => handle[n] = None
      BY DEF SnapshotInv, AnsweredInv
    <2> QED
      BY <1>1, <1>4, <2>1 DEF AnsweredInv, Objs, Ids, LeftNone, Exists
  <1>8. ASSUME NEW d \in Names \ {n} PROVE NameInv(d)' /\ HandlerInv(d)' /\ AnsweredInv(d)'
    BY <1>1, <1>2, <1>4, <1>8, OtherNames DEF SnapshotInv, OthersStay
  <1> QED
    BY <1>5, <1>6, <1>7, <1>8 DEF SnapshotInv

\* The two forms in which the API takes up a call that creates something.
LEMMA NewObjects ==
  ASSUME NEW of \in ObjectIds, NEW o \in {Created(of), Sent(of)}
  PROVE  /\ o \in Object /\ o.volume = "own" /\ o.of = of /\ o.status # "UNUSED"
         /\ o.status = "SENT" => o.late
         /\ o = Created(of) => Exists(o)
         /\ ~o.late => o = Created(of)
  <1>1. CASE o = Created(of)
    <2>1. /\ o.status = "CREATING" /\ o.volume = "own" /\ o.of = of /\ o.late = FALSE
      BY <1>1 DEF Created
    <2>2. o \in Object
      BY <1>1 DEF Created, Object, Statuses
    <2> QED
      BY <1>1, <2>1, <2>2 DEF Exists
  <1>2. CASE o = Sent(of)
    <2>1. /\ o.status = "SENT" /\ o.volume = "own" /\ o.of = of /\ o.late = TRUE
      BY <1>2 DEF Sent
    <2>2. o \in Object
      BY <1>2 DEF Sent, Object, Statuses
    <2>3. o # Created(of)
      BY <2>1 DEF Created
    <2> QED
      BY <2>1, <2>2, <2>3
  <1> QED
    BY <1>1, <1>2

\* Only statuses change, and nothing appears or comes back.
SameButStatus(n) ==
    /\ OthersStay(n) /\ kind' = kind
    /\ \A i \in Ids :
          /\ snaps'[n][i].volume = snaps[n][i].volume /\ snaps'[n][i].late = snaps[n][i].late
          /\ backups'[n][i].volume = backups[n][i].volume /\ backups'[n][i].of = backups[n][i].of
          /\ backups'[n][i].late = backups[n][i].late
          /\ backups'[n][i].status = "UNUSED" <=> backups[n][i].status = "UNUSED"
          /\ snaps'[n][i].status = "UNUSED" <=> snaps[n][i].status = "UNUSED"
          /\ snaps'[n][i].status = "SENT" => snaps[n][i].status = "SENT"
          /\ backups'[n][i].status = "SENT" => backups[n][i].status = "SENT"

Fades(n) ==
    /\ SameButStatus(n)
    /\ \A i \in Ids : /\ Exists(snaps[n][i])' => Exists(snaps[n][i])
                      /\ Exists(backups[n][i])' => Exists(backups[n][i])

\* What was made in time is what it was, or less.
LEMMA SameNames ==
  ASSUME NEW n \in Names, NameInv(n), SameButStatus(n), FoundBehind(n)',
         InTime(snaps, n)' \subseteq InTime(snaps, n),
         InTime(backups, n)' \subseteq InTime(backups, n)
  PROVE  NameInv(n)'
  <1>1. /\ \A i, j \in InTime(snaps, n)' : i = j
        /\ \A i, j \in InTime(backups, n)' : i = j
    BY DEF NameInv
  <1>2. \A i \in Ids : /\ snaps'[n][i].status = "SENT" => snaps'[n][i].late
                       /\ backups'[n][i].status = "SENT" => backups'[n][i].late
    BY DEF NameInv, SameButStatus
  <1>3. Made(n)' = Made(n) /\ Ids' = Ids
    BY DEF Made, SameButStatus, Ids
  <1>4. ASSUME NEW b \in Made(n)
        PROVE  /\ kind'[n] = "backup" /\ backups'[n][b].of \in Ids
               /\ snaps'[n][backups'[n][b].of].volume = "own"
               /\ snaps'[n][backups'[n][b].of].status \notin {"UNUSED", "SENT"}
               /\ InTime(snaps, n)' \subseteq {backups'[n][b].of}
    <2>1. b \in Ids
      BY DEF Made
    <2>2. /\ kind[n] = "backup" /\ backups[n][b].of \in Ids
          /\ snaps[n][backups[n][b].of].volume = "own"
          /\ snaps[n][backups[n][b].of].status \notin {"UNUSED", "SENT"}
          /\ InTime(snaps, n) \subseteq {backups[n][b].of}
      BY DEF NameInv
    <2> QED
      BY <2>1, <2>2 DEF SameButStatus
  <1> QED
    BY <1>1, <1>2, <1>3, <1>4 DEF NameInv

LEMMA FadesInv ==
  ASSUME NEW n \in Names, NameInv(n), Fades(n), FoundBehind(n)'
  PROVE  NameInv(n)'
  <1>1. /\ InTime(snaps, n)' \subseteq InTime(snaps, n)
        /\ InTime(backups, n)' \subseteq InTime(backups, n)
    BY DEF Fades, SameButStatus, InTime, Listed, Ids
  <1> QED
    BY <1>1, SameNames DEF Fades

LEMMA SnapStatus ==
  ASSUME snaps \in Rows, backups \in Rows, NEW n \in Names, NEW i \in Ids,
         NEW s \in Statuses \ {"UNUSED", "SENT"},
         snaps[n][i].status # "UNUSED", kind' = kind, backups' = backups,
         snaps' = [snaps EXCEPT ![n][i] = [@ EXCEPT !.status = s]]
  PROVE  /\ SameButStatus(n) /\ snaps'[n][i].status = s
         /\ \A k \in Ids \ {i} : snaps'[n][k] = snaps[n][k]
         /\ Exists(snaps[n][i]) => Fades(n)
  <1>1. /\ snaps' \in Rows /\ snaps'[n][i].status = s /\ snaps'[n][i].volume = snaps[n][i].volume
        /\ snaps'[n][i].late = snaps[n][i].late
        /\ \A k \in Ids \ {i} : snaps'[n][k] = snaps[n][k]
        /\ \A d \in Names \ {n} : snaps'[d] = snaps[d]
    <2>1. s \in Statuses /\ snaps[n][i] \in Object
      BY DEF Rows
    <2>2. PICK o : o = [snaps[n][i] EXCEPT !.status = s]
      OBVIOUS
    <2>3. /\ o \in Object /\ o.status = s /\ o.volume = snaps[n][i].volume
          /\ o.of = snaps[n][i].of /\ o.late = snaps[n][i].late
      BY <2>1, <2>2, StatusChange
    <2>4. snaps[n] \in [Ids -> Object] /\ snaps \in [Names -> [Ids -> Object]]
      BY DEF Rows
    <2>5. PICK row : row = [snaps[n] EXCEPT ![i] = o]
      OBVIOUS
    <2>6. row \in [Ids -> Object] /\ row[i] = o /\ \A k \in Ids \ {i} : row[k] = snaps[n][k]
      BY <2>3, <2>4, <2>5
    <2>7. snaps' = [snaps EXCEPT ![n] = row]
      BY <2>2, <2>5
    <2>8. snaps'[n] = row /\ \A d \in Names \ {n} : snaps'[d] = snaps[d]
      BY <2>4, <2>7
    <2>9. snaps' \in [Names -> [Ids -> Object]]
      BY <2>4, <2>6, <2>7
    <2> QED
      BY <2>3, <2>6, <2>8, <2>9 DEF Rows
  <1>2. SameButStatus(n)
    BY <1>1 DEF SameButStatus, OthersStay
  <1> QED
    BY <1>1, <1>2 DEF Fades, Exists

LEMMA BackupStatus ==
  ASSUME snaps \in Rows, backups \in Rows, NEW n \in Names, NEW i \in Ids,
         NEW s \in Statuses \ {"UNUSED", "SENT"},
         backups[n][i].status # "UNUSED", kind' = kind, snaps' = snaps,
         backups' = [backups EXCEPT ![n][i] = [@ EXCEPT !.status = s]]
  PROVE  /\ SameButStatus(n) /\ backups'[n][i].status = s
         /\ \A k \in Ids \ {i} : backups'[n][k] = backups[n][k]
         /\ Exists(backups[n][i]) => Fades(n)
  <1>1. /\ backups' \in Rows /\ backups'[n][i].status = s
        /\ backups'[n][i].volume = backups[n][i].volume /\ backups'[n][i].of = backups[n][i].of
        /\ backups'[n][i].late = backups[n][i].late
        /\ \A k \in Ids \ {i} : backups'[n][k] = backups[n][k]
        /\ \A d \in Names \ {n} : backups'[d] = backups[d]
    <2>1. s \in Statuses /\ backups[n][i] \in Object
      BY DEF Rows
    <2>2. PICK o : o = [backups[n][i] EXCEPT !.status = s]
      OBVIOUS
    <2>3. /\ o \in Object /\ o.status = s /\ o.volume = backups[n][i].volume
          /\ o.of = backups[n][i].of /\ o.late = backups[n][i].late
      BY <2>1, <2>2, StatusChange
    <2>4. backups[n] \in [Ids -> Object] /\ backups \in [Names -> [Ids -> Object]]
      BY DEF Rows
    <2>5. PICK row : row = [backups[n] EXCEPT ![i] = o]
      OBVIOUS
    <2>6. row \in [Ids -> Object] /\ row[i] = o /\ \A k \in Ids \ {i} : row[k] = backups[n][k]
      BY <2>3, <2>4, <2>5
    <2>7. backups' = [backups EXCEPT ![n] = row]
      BY <2>2, <2>5
    <2>8. backups'[n] = row /\ \A d \in Names \ {n} : backups'[d] = backups[d]
      BY <2>4, <2>7
    <2>9. backups' \in [Names -> [Ids -> Object]]
      BY <2>4, <2>6, <2>7
    <2> QED
      BY <2>3, <2>6, <2>8, <2>9 DEF Rows
  <1>2. SameButStatus(n)
    BY <1>1 DEF SameButStatus, OthersStay
  <1> QED
    BY <1>1, <1>2 DEF Fades, Exists

\* A step of CreateSnapshot.
LEMMA CreateInv ==
  ASSUME SnapshotInv, NEW n \in Names, Create(n)
  PROVE  SnapshotInv'
  <1>t. TypeOK /\ NameInv(n) /\ HandlerInv(n) /\ AnsweredInv(n)
    BY DEF SnapshotInv
  <1>r. snaps \in Rows /\ backups \in Rows /\ kind[n] \in {"snapshot", "backup"}
        /\ job[n].snap \in ObjectIds /\ job[n].backup \in ObjectIds /\ answered[n] \subseteq Ids
    BY <1>t DEF TypeOK, Rows
  <1>k. ASSUME NEW call \in CreateCalls, pc[n] = call
        PROVE  Knows(n, call, job[n]) /\ phase[n] = "wanted"
    BY <1>k, <1>t DEF HandlerInv, Knows
  <1>1. CASE StartCreate(n)
    <2>1. PICK call \in {"listBackups", "listSnapshots"} :
             /\ Continue(n, call, NoJob) /\ (call = "listBackups" <=> kind[n] = "backup")
             /\ phase[n] = "wanted" /\ UNCHANGED <<objects, budget>>
      BY <1>1 DEF StartCreate
    <2>2. Knows(n, call, NoJob)
      BY <2>1, TypeValues DEF Knows
    <2> QED
      BY <2>1, <2>2, ReadStep, TypeValues
  <1>2. CASE ListBackups(n)
    <2>0. pc[n] = "listBackups" /\ phase[n] = "wanted" /\ kind[n] = "backup"
          /\ UNCHANGED <<objects, budget>>
      BY <1>2, <1>t, TypeValues DEF ListBackups, HandlerInv, Knows
    <2>a. answered[n] \subseteq Listed(backups, n)
      BY <2>0, <1>r, <1>t DEF AnsweredInv, Objs, Listed, Exists
    <2>1. CASE Listed(backups, n) = {} /\ Continue(n, "listSnapshots", NoJob)
      <3>1. InTime(backups, n) = {} /\ answered[n] = {} /\ Behind(n)
        BY <2>0, <2>a, <2>1, <1>t DEF InTime, NameInv, FoundBehind
      <3>2. Knows(n, "listSnapshots", NoJob)
        BY <2>0, <3>1, TypeValues DEF Knows
      <3> QED
        BY <2>0, <2>1, <3>2, ReadStep, TypeValues
    <2>2. ASSUME NEW i \in Ids, Listed(backups, n) = {i}, backups[n][i].volume = "own",
                 Continue(n, "waitBackup", [snap |-> 0, backup |-> i])
          PROVE  SnapshotInv'
      <3>1. Knows(n, "waitBackup", [snap |-> 0, backup |-> i])
        BY <2>0, <2>a, <2>2, TypeValues DEF Knows
      <3> QED
        BY <2>0, <2>2, <3>1, ReadStep, TypeValues
    <2>3. CASE Fail(n)
      BY <2>0, <2>3, FailReadStep
    <2> QED
      BY <1>2, <2>1, <2>2, <2>3 DEF ListBackups
  <1>3. CASE ListSnapshots(n)
    <2>0. /\ pc[n] = "listSnapshots" /\ phase[n] = "wanted" /\ UNCHANGED <<objects, budget>>
          /\ kind[n] = "backup" => InTime(backups, n) = {} /\ answered[n] = {} /\ Behind(n)
      BY <1>3, <1>t, TypeValues DEF ListSnapshots, HandlerInv, Knows
    <2>a. answered[n] \subseteq Listed(snaps, n)
      <3>1. CASE kind[n] = "snapshot"
        BY <2>0, <3>1, <1>r, <1>t DEF AnsweredInv, Objs, Listed, Exists
      <3> QED
        BY <2>0, <3>1, <1>r
    <2>b. InTime(snaps, n) \subseteq Listed(snaps, n)
      BY DEF InTime
    <2>1. CASE Listed(snaps, n) = {} /\ Continue(n, "createSnapshot", NoJob)
      <3>1. Made(n) = {}
        <4>1. \A b \in Made(n) : kind[n] = "backup" /\ backups[n][b].of \in Ids
          BY <1>t DEF NameInv
        <4> QED
          BY <2>0, <2>1, <4>1 DEF Behind, Listed
      <3>2. Knows(n, "createSnapshot", NoJob)
        BY <2>0, <2>a, <2>b, <2>1, <3>1, TypeValues DEF Knows
      <3> QED
        BY <2>0, <2>1, <3>2, ReadStep, TypeValues
    <2>2. ASSUME NEW i \in Ids, Listed(snaps, n) = {i}, snaps[n][i].volume = "own",
                 Continue(n, "waitSnapshot", [snap |-> i, backup |-> 0])
          PROVE  SnapshotInv'
      <3>1. Knows(n, "waitSnapshot", [snap |-> i, backup |-> 0])
        BY <2>0, <2>a, <2>b, <2>2, TypeValues DEF Knows
      <3> QED
        BY <2>0, <2>2, <3>1, ReadStep, TypeValues
    <2>3. CASE Fail(n)
      BY <2>0, <2>3, FailReadStep
    <2> QED
      BY <1>3, <2>1, <2>2, <2>3 DEF ListSnapshots
  <1>4. CASE CreateSnapshot(n)
    <2>0. /\ pc[n] = "createSnapshot" /\ phase[n] = "wanted" /\ backups' = backups
          /\ InTime(snaps, n) = {} /\ answered[n] = {} /\ Made(n) = {}
          /\ kind[n] = "backup" => InTime(backups, n) = {}
      BY <1>4, <1>t, TypeValues DEF CreateSnapshot, HandlerInv, Knows
    <2>1. CASE Fail(n) /\ snaps' = snaps /\ budget' = budget
      BY <2>0, <2>1, FailReadStep DEF objects
    <2>2. ASSUME NEW i \in Ids, NEW o \in {Created(0), Sent(0)}, snaps' = [snaps EXCEPT ![n][i] = o],
                 \/ /\ Continue(n, "waitSnapshot", [snap |-> i, backup |-> 0]) /\ budget' = budget
                    /\ o = Created(0)
                 \/ Fail(n) /\ Disturb
          PROVE  SnapshotInv'
      <3>1. /\ o \in Object /\ o.volume = "own" /\ (o.status = "SENT" => o.late)
            /\ o = Created(0) => Exists(o)
            /\ ~o.late => o = Created(0)
        BY NewObjects, TypeValues
      <3>a. /\ snaps' \in Rows /\ snaps'[n][i] = o
            /\ \A k \in Ids \ {i} : snaps'[n][k] = snaps[n][k]
            /\ \A d \in Names \ {n} : snaps'[d] = snaps[d]
        BY <2>2, <3>1, <1>r DEF Rows
      <3>2. OthersStay(n)
        BY <2>0, <3>a, <1>r DEF OthersStay
      <3>3. InTime(snaps, n)' \subseteq {i}
        BY <2>0, <3>a DEF InTime, Listed, Ids
      <3>4. InTime(backups, n)' = InTime(backups, n) /\ Made(n)' = {}
        BY <2>0 DEF InTime, Listed, Made, Ids
      <3>5. UNCHANGED <<kind, phase, handle, answered>>
        BY <2>2 DEF Continue, Fail, content
      <3>b. Behind(n)'
        BY <3>4 DEF Behind
      <3>6. NameInv(n)'
        <4>1. \A k, l \in InTime(backups, n) : k = l
          BY <1>t DEF NameInv
        <4>2. \A k \in Ids : /\ snaps'[n][k].status = "SENT" => snaps'[n][k].late
                             /\ backups'[n][k].status = "SENT" => backups'[n][k].late
          BY <2>0, <3>1, <3>a, <1>t DEF NameInv
        <4> QED
          BY <3>3, <3>4, <3>b, <4>1, <4>2 DEF NameInv, FoundBehind, Ids
      <3>7. AnsweredInv(n)'
        BY <2>0, <3>5, <1>t DEF AnsweredInv
      <3>8. o = Created(0) => Knows(n, "waitSnapshot", [snap |-> i, backup |-> 0])'
        <4> SUFFICES ASSUME o = Created(0)
                     PROVE  Knows(n, "waitSnapshot", [snap |-> i, backup |-> 0])'
          OBVIOUS
        <4>1. (i \in Listed(snaps, n))'
          BY <3>1, <3>a DEF Listed, Exists, Ids
        <4> QED
          BY <2>0, <3>1, <3>a, <3>3, <3>4, <3>5, <3>b, <4>1, TypeValues DEF Knows
      <3>9. [snap |-> i, backup |-> 0] \in JobType
        BY TypeValues
      <3> QED
        BY <2>2, <3>2, <3>6, <3>7, <3>8, <3>9, ContinueStep, FailStep, TypeValues
    <2> QED
      BY <1>4, <2>1, <2>2 DEF CreateSnapshot
  <1>5. CASE WaitSnapshotReady(n)
    <2>s. PICK s \in ObjectIds : s = job[n].snap
      BY <1>r
    <2>0. /\ pc[n] = "waitSnapshot" /\ phase[n] = "wanted" /\ UNCHANGED objects
          /\ s \in Listed(snaps, n) /\ snaps[n][s].volume = "own" /\ answered[n] \subseteq {s}
          /\ Knows(n, "waitSnapshot", job[n])
      BY <1>5, <2>s, <1>t, TypeValues DEF WaitSnapshotReady, HandlerInv, Knows
    <2>1. CASE Fail(n) /\ budget' = budget
      BY <2>0, <2>1, FailReadStep
    <2>2. CASE snaps[n][s].status = "AVAILABLE" /\ kind[n] = "snapshot" /\ Ready(n, s)
      <3>1. s \in Ids
        BY <2>0 DEF Listed
      <3>2. kind' = kind /\ snaps' = snaps /\ backups' = backups
        BY <2>0, <2>2 DEF Ready, objects
      <3>3. OthersStay(n)
        BY <3>2, <1>r DEF OthersStay
      <3>4. FoundBehind(n)'
        <4>1. Made(n) = {}
          BY <2>2, <1>t DEF NameInv
        <4> QED
          BY <3>2, <4>1 DEF FoundBehind, Behind, Made, Ids
      <3>5. NameInv(n)'
        <4>1. Fades(n)
          BY <3>2, <3>3 DEF Fades, SameButStatus, Exists
        <4> QED
          BY <3>4, <4>1, <1>t, FadesInv
      <3> QED
        BY <2>0, <2>2, <3>1, <3>2, <3>3, <3>5, ReadyStep
    <2>3. CASE snaps[n][s].status = "AVAILABLE" /\ kind[n] # "snapshot"
               /\ Continue(n, "createBackup", job[n]) /\ budget' = budget
      <3>1. Knows(n, "createBackup", job[n]) /\ job[n] \in JobType
        BY <2>0, <2>3, <1>r, <1>t, TypeValues DEF Knows, TypeOK, JobType
      <3> QED
        BY <2>0, <2>3, <3>1, ReadStep, TypeValues
    <2> QED
      BY <1>5, <2>s, <2>1, <2>2, <2>3 DEF WaitSnapshotReady
  <1>6. CASE CreateBackup(n)
    <2>s. PICK s \in ObjectIds : s = job[n].snap
      BY <1>r
    <2>0. /\ pc[n] = "createBackup" /\ phase[n] = "wanted" /\ snaps' = snaps
          /\ s \in Listed(snaps, n) /\ snaps[n][s].volume = "own"
          /\ kind[n] = "backup" /\ InTime(backups, n) = {} /\ answered[n] = {} /\ Behind(n)
          /\ InTime(snaps, n) \subseteq {s}
      BY <1>6, <2>s, <1>t, TypeValues DEF CreateBackup, HandlerInv, Knows
    <2>1. CASE Fail(n) /\ backups' = backups /\ budget' = budget
      BY <2>0, <2>1, FailReadStep DEF objects
    <2>2. ASSUME NEW i \in Ids, NEW o \in {Created(s), Sent(s)}, backups' = [backups EXCEPT ![n][i] = o],
                 \/ /\ Continue(n, "waitBackup", [snap |-> s, backup |-> i]) /\ budget' = budget
                    /\ o = Created(s)
                 \/ Fail(n) /\ Disturb
          PROVE  SnapshotInv'
      <3>1. /\ o \in Object /\ o.volume = "own" /\ o.of = s /\ o.status # "UNUSED"
            /\ o.status = "SENT" => o.late
            /\ o = Created(s) => Exists(o)
        BY NewObjects
      <3>a. /\ backups' \in Rows /\ backups'[n][i] = o
            /\ \A k \in Ids \ {i} : backups'[n][k] = backups[n][k]
            /\ \A d \in Names \ {n} : backups'[d] = backups[d]
        BY <2>2, <3>1, <1>r DEF Rows
      <3>2. OthersStay(n)
        BY <2>0, <3>a, <1>r DEF OthersStay
      <3>3. InTime(backups, n)' \subseteq {i} /\ InTime(snaps, n)' = InTime(snaps, n)
        BY <2>0, <3>a DEF InTime, Listed, Ids
      <3>4. UNCHANGED <<kind, phase, handle, answered>>
        BY <2>2 DEF Continue, Fail, content
      <3>5. s \in Ids /\ snaps[n][s].status \notin {"UNUSED", "SENT"} /\ Exists(snaps[n][s])
        BY <2>0 DEF Listed, Exists
      <3>b. \A b \in Made(n)' : b = i \/ (b \in Made(n) /\ backups'[n][b] = backups[n][b])
        BY <3>a DEF Made, Ids
      <3>c. Behind(n)'
        <4> SUFFICES ASSUME NEW b \in Made(n)' PROVE Exists(snaps[n][backups'[n][b].of])
          BY <2>0 DEF Behind, Exists
        <4> QED
          BY <2>0, <3>1, <3>a, <3>b, <3>5 DEF Behind
      <3>6. NameInv(n)'
        <4>1. \A k, l \in InTime(snaps, n) : k = l
          BY <1>t DEF NameInv
        <4>2. \A k \in Ids : /\ snaps'[n][k].status = "SENT" => snaps'[n][k].late
                             /\ backups'[n][k].status = "SENT" => backups'[n][k].late
          BY <2>0, <3>1, <3>a, <1>t DEF NameInv
        <4>3. ASSUME NEW b \in Made(n)'
              PROVE  /\ kind'[n] = "backup" /\ backups'[n][b].of \in Ids
                     /\ snaps'[n][backups'[n][b].of].volume = "own"
                     /\ snaps'[n][backups'[n][b].of].status \notin {"UNUSED", "SENT"}
                     /\ InTime(snaps, n)' \subseteq {backups'[n][b].of}
          <5>1. CASE b = i
            BY <2>0, <3>1, <3>a, <3>3, <3>4, <3>5, <5>1
          <5>2. CASE b \in Made(n) /\ backups'[n][b] = backups[n][b]
            BY <2>0, <3>3, <3>4, <5>2, <1>t DEF NameInv
          <5> QED
            BY <3>b, <5>1, <5>2
        <4> QED
          BY <3>3, <3>c, <4>1, <4>2, <4>3 DEF NameInv, FoundBehind, Ids
      <3>7. AnsweredInv(n)'
        BY <2>0, <3>4, <1>t DEF AnsweredInv
      <3>8. [snap |-> s, backup |-> i] \in JobType
        BY TypeValues
      <3>9. o = Created(s) => Knows(n, "waitBackup", [snap |-> s, backup |-> i])'
        <4> SUFFICES ASSUME o = Created(s)
                     PROVE  Knows(n, "waitBackup", [snap |-> s, backup |-> i])'
          OBVIOUS
        <4>1. (i \in Listed(backups, n))'
          BY <3>1, <3>a DEF Listed, Exists, Ids
        <4> QED
          BY <2>0, <3>1, <3>a, <3>4, <4>1, TypeValues DEF Knows
      <3>10. CASE Fail(n) /\ Disturb
        BY <3>2, <3>6, <3>7, <3>10, FailStep
      <3>11. CASE /\ Continue(n, "waitBackup", [snap |-> s, backup |-> i]) /\ budget' = budget
                  /\ o = Created(s)
        <4> DEFINE j == [snap |-> s, backup |-> i]
        <4>1. j \in JobType /\ Continue(n, "waitBackup", j) /\ Knows(n, "waitBackup", j)'
          BY <3>8, <3>9, <3>11
        <4> HIDE DEF j
        <4> QED
          BY <3>2, <3>6, <3>7, <3>11, <4>1, ContinueStep, TypeValues
      <3> QED
        BY <2>2, <3>10, <3>11
    <2> QED
      BY <1>6, <2>s, <2>1, <2>2 DEF CreateBackup
  <1>7. CASE WaitBackupReady(n)
    <2>0. /\ pc[n] = "waitBackup" /\ phase[n] = "wanted" /\ UNCHANGED <<objects, budget>>
          /\ kind[n] = "backup"
          /\ job[n].backup \in Listed(backups, n) /\ backups[n][job[n].backup].volume = "own"
          /\ answered[n] \subseteq {job[n].backup}
      BY <1>7, <1>t, TypeValues DEF WaitBackupReady, HandlerInv, Knows
    <2>1. CASE Fail(n)
      BY <2>0, <2>1, FailReadStep
    <2>2. CASE /\ backups[n][job[n].backup].status = "AVAILABLE"
               /\ Continue(n, "getBackup", job[n])
      <3>1. Knows(n, "getBackup", job[n]) /\ job[n] \in JobType
        BY <2>0, <2>2, <1>t, TypeValues DEF Knows, TypeOK, JobType
      <3> QED
        BY <2>0, <2>2, <3>1, ReadStep, TypeValues
    <2> QED
      BY <1>7, <2>1, <2>2 DEF WaitBackupReady
  <1>8. CASE GetBackup(n)
    <2>0. /\ pc[n] = "getBackup" /\ phase[n] = "wanted" /\ UNCHANGED <<objects, budget>>
          /\ kind[n] = "backup" /\ job[n].backup \in Listed(backups, n)
          /\ backups[n][job[n].backup].volume = "own"
          /\ backups[n][job[n].backup].status = "AVAILABLE"
          /\ answered[n] \subseteq {job[n].backup}
      BY <1>8, <1>t, TypeValues DEF GetBackup, HandlerInv, Knows
    <2>1. CASE Fail(n)
      BY <2>0, <2>1, FailReadStep
    <2>2. CASE Continue(n, "dropSnapshot", [snap |-> backups[n][job[n].backup].of, backup |-> job[n].backup])
      <3> DEFINE j == [snap |-> backups[n][job[n].backup].of, backup |-> job[n].backup]
      <3>1. backups[n][job[n].backup].of \in ObjectIds
        BY <2>0, <1>r DEF Rows, Listed, Object
      <3>2. j \in JobType /\ j.backup = job[n].backup /\ j.snap = backups[n][job[n].backup].of
        BY <3>1, <1>r, TypeValues
      <3>3. Continue(n, "dropSnapshot", j)
        BY <2>2
      <3> HIDE DEF j
      <3>4. Knows(n, "dropSnapshot", j)
        BY <2>0, <3>2, TypeValues DEF Knows
      <3> QED
        BY <2>0, <3>2, <3>3, <3>4, ReadStep, TypeValues
    <2> QED
      BY <1>8, <2>1, <2>2 DEF GetBackup
  <1>9. CASE DropSnapshot(n)
    <2>s. PICK s \in ObjectIds, b \in ObjectIds : s = job[n].snap /\ b = job[n].backup
      BY <1>r
    <2>0. /\ pc[n] = "dropSnapshot" /\ phase[n] = "wanted" /\ backups' = backups
          /\ kind[n] = "backup" /\ b \in Listed(backups, n)
          /\ backups[n][b].volume = "own"
          /\ backups[n][b].status = "AVAILABLE" /\ s = backups[n][b].of
          /\ answered[n] \subseteq {b}
      BY <1>9, <2>s, <1>t, TypeValues DEF DropSnapshot, HandlerInv, Knows
    <2>1. /\ b \in Ids /\ s \in Ids /\ InTime(snaps, n) \subseteq {s}
          /\ snaps[n][s].status # "UNUSED"
      <3>1. b \in Made(n)
        BY <2>0 DEF Made, Listed
      <3> QED
        BY <2>0, <3>1, <1>t DEF NameInv, Made
    <2>2. FoundBehind(n)'
      <3>1. b \in Listed(backups, n)'
        BY <2>0 DEF Listed, Ids
      <3> QED
        BY <3>1 DEF FoundBehind
    <2>3. CASE /\ Exists(snaps[n][s])
               /\ snaps' = [snaps EXCEPT ![n][s] = [@ EXCEPT !.status = "GONE"]]
               /\ Ready(n, b) \/ (Fail(n) /\ Disturb)
      <3>1. kind' = kind
        BY <2>3 DEF Ready, Fail, Continue, content
      <3>2. /\ Fades(n) /\ snaps'[n][s].status = "GONE"
            /\ \A k \in Ids \ {s} : snaps'[n][k] = snaps[n][k]
        <4>1. "GONE" \in Statuses \ {"UNUSED", "SENT"}
          BY DEF Statuses
        <4> QED
          BY <2>0, <2>1, <2>3, <3>1, <4>1, <1>r, SnapStatus
      <3>3. NameInv(n)' /\ OthersStay(n)
        BY <2>2, <3>2, <1>t, FadesInv DEF Fades, SameButStatus
      <3>4. LeftNone(n, b)'
        <4>1. InTime(snaps, n)' = {}
          BY <2>1, <3>2 DEF InTime, Listed, Exists, Ids
        <4> QED
          BY <2>0, <3>2, <4>1 DEF LeftNone, Exists
      <3>5. CASE Ready(n, b)
        BY <2>0, <2>1, <3>3, <3>4, <3>5, ReadyStep
      <3>6. CASE Fail(n) /\ Disturb
        <4>1. AnsweredInv(n)'
          BY <2>0, <3>6, <1>t DEF Fail, Continue, content, AnsweredInv, Objs, Ids
        <4> QED
          BY <3>3, <3>6, <4>1, FailStep
      <3> QED
        BY <2>3, <3>5, <3>6
    <2>4. CASE ~Exists(snaps[n][s]) /\ Ready(n, b) /\ snaps' = snaps
      <3>1. LeftNone(n, b)'
        <4>1. InTime(snaps, n)' = {}
          BY <2>1, <2>4 DEF InTime, Listed, Exists, Ids
        <4> QED
          BY <2>0, <2>4, <4>1 DEF LeftNone, Exists
      <3>2. kind' = kind
        BY <2>4 DEF Ready
      <3>3. OthersStay(n)
        BY <2>0, <2>4, <1>r DEF OthersStay
      <3>4. Fades(n)
        BY <2>0, <2>4, <3>2, <3>3 DEF Fades, SameButStatus, Exists
      <3>5. NameInv(n)'
        BY <2>2, <3>4, <1>t, FadesInv
      <3> QED
        BY <2>0, <2>1, <2>4, <3>1, <3>3, <3>5, ReadyStep
    <2> QED
      BY <1>9, <2>s, <2>3, <2>4 DEF DropSnapshot
  <1> QED
    BY <1>1, <1>2, <1>3, <1>4, <1>5, <1>6, <1>7, <1>8, <1>9 DEF Create


\* A step of DeleteSnapshot.
LEMMA DeleteInv ==
  ASSUME SnapshotInv, NEW n \in Names, Delete(n)
  PROVE  SnapshotInv'
  <1>t. TypeOK /\ NameInv(n) /\ HandlerInv(n) /\ AnsweredInv(n)
    BY DEF SnapshotInv
  <1>r. snaps \in Rows /\ backups \in Rows /\ kind[n] \in {"snapshot", "backup"}
    BY <1>t DEF TypeOK, Rows
  <1>g. "GONE" \in Statuses \ {"UNUSED", "SENT"}
    BY DEF Statuses
  <1>1. CASE StartDelete(n)
    <2>1. /\ Continue(n, "checkBackup", NoJob) /\ UNCHANGED <<objects, budget>>
          /\ phase[n] = "released"
      BY <1>1 DEF StartDelete
    <2>2. Knows(n, "checkBackup", NoJob)
      BY <2>1, TypeValues DEF Knows
    <2> QED
      BY <2>1, <2>2, ReadStep, TypeValues
  <1>2. CASE CheckBackup(n)
    <2>1. phase[n] = "released" /\ UNCHANGED objects /\ (budget' = budget \/ Disturb)
      BY <1>2, <1>t, TypeValues DEF CheckBackup, HandlerInv, Knows
    <2>2. \/ kind[n] = "backup" /\ Continue(n, "deleteBackup", NoJob)
          \/ Continue(n, "deleteSnapshot", NoJob)
      BY <1>2 DEF CheckBackup
    <2>3. /\ kind[n] = "backup" => Knows(n, "deleteBackup", NoJob)
          /\ Knows(n, "deleteSnapshot", NoJob)
      BY <2>1, TypeValues DEF Knows
    <2> QED
      BY <2>1, <2>2, <2>3, ReadStep, TypeValues
  <1>3. CASE DeleteBackup(n)
    <2>0. /\ phase[n] = "released" /\ kind[n] = "backup" /\ snaps' = snaps
          /\ handle[n] \in Ids /\ kind' = kind
      BY <1>3, <1>t, TypeValues
         DEF DeleteBackup, HandlerInv, Knows, AnsweredInv, Continue, Fail, content
    <2>1. CASE Fail(n) /\ backups' = backups /\ budget' = budget
      BY <2>0, <2>1, FailReadStep DEF objects
    <2>2. CASE /\ Exists(backups[n][handle[n]])
               /\ backups' = [backups EXCEPT ![n][handle[n]] = [@ EXCEPT !.status = "GONE"]]
               /\ \/ Continue(n, "deleteSnapshot", NoJob) /\ budget' = budget
                  \/ Fail(n) /\ Disturb
      <3>h. PICK h \in Ids : h = handle[n]
        BY <2>0
      <3>1. /\ Fades(n) /\ backups'[n][h].status = "GONE"
        <4>1. backups[n][h].status # "UNUSED" /\ Exists(backups[n][h])
          BY <2>2, <3>h DEF Exists
        <4> QED
          BY <2>0, <2>2, <3>h, <4>1, <1>r, <1>g, BackupStatus
      <3>3. UNCHANGED <<kind, phase, handle, answered>>
        BY <2>2 DEF Continue, Fail, content
      <3>2. NameInv(n)' /\ OthersStay(n)
        BY <2>0, <3>1, <3>3, <1>t, FadesInv DEF Fades, SameButStatus, FoundBehind
      <3>4. AnsweredInv(n)'
        <4>1. /\ backups'[n][h].status # "UNUSED" /\ backups'[n][h].volume = backups[n][h].volume
          BY <3>1 DEF Fades, SameButStatus
        <4> QED
          BY <2>0, <3>h, <3>3, <4>1, <1>t DEF AnsweredInv, Objs
      <3>5. Knows(n, "deleteSnapshot", NoJob)'
        BY <2>0, <3>3, TypeValues DEF Knows
      <3> QED
        BY <2>2, <3>2, <3>4, <3>5, ContinueStep, FailStep, TypeValues
    <2> QED
      BY <1>3, <2>1, <2>2 DEF DeleteBackup
  <1>4. CASE DeleteSnapshot(n)
    <2>0. phase[n] = "released" /\ backups' = backups /\ handle[n] \in Ids /\ kind' = kind
      BY <1>4, <1>t, TypeValues
         DEF DeleteSnapshot, HandlerInv, Knows, AnsweredInv, Continue, Fail, Deleted, content
    <2>h. PICK h \in Ids : h = handle[n]
      BY <2>0
    <2>1. /\ Fades(n)
          /\ \/ Deleted(n) /\ budget' = budget
             \/ Fail(n) /\ Disturb
      <3>1. CASE /\ Exists(snaps[n][h])
                 /\ snaps' = [snaps EXCEPT ![n][h] = [@ EXCEPT !.status = "GONE"]]
                 /\ \/ Deleted(n) /\ budget' = budget
                    \/ Fail(n) /\ Disturb
        <4>1. snaps[n][h].status # "UNUSED"
          BY <3>1 DEF Exists
        <4> QED
          BY <2>0, <3>1, <4>1, <1>r, <1>g, SnapStatus
      <3>2. CASE Deleted(n) /\ snaps' = snaps /\ budget' = budget
        BY <2>0, <3>2, <1>r DEF Fades, SameButStatus, OthersStay, Exists
      <3> QED
        BY <1>4, <2>h, <3>1, <3>2 DEF DeleteSnapshot
    <2>2. NameInv(n)' /\ OthersStay(n)
      <3>1. phase'[n] # "wanted"
        BY <2>0, <2>1, <1>t DEF Deleted, Fail, Continue, content, TypeOK
      <3> QED
        BY <2>1, <3>1, <1>t, FadesInv DEF Fades, SameButStatus, FoundBehind
    <2>3. /\ Objs(n)'[n][h].volume = Objs(n)[n][h].volume
          /\ Objs(n)'[n][h].status # "UNUSED" <=> Objs(n)[n][h].status # "UNUSED"
      BY <2>0, <2>1 DEF Objs, Fades, SameButStatus
    <2>4. CASE Fail(n) /\ Disturb
      <3>1. UNCHANGED <<kind, phase, handle, answered>>
        BY <2>4 DEF Continue, Fail, content
      <3>2. AnsweredInv(n)'
        BY <2>0, <2>h, <2>3, <3>1, <1>t DEF AnsweredInv
      <3> QED
        BY <2>2, <2>4, <3>2, FailStep
    <2>5. CASE Deleted(n) /\ budget' = budget
      <3>1. /\ UNCHANGED <<kind, handle, answered, job>>
            /\ pc' = [pc EXCEPT ![n] = "idle"] /\ phase' = [phase EXCEPT ![n] = "deleted"]
        BY <2>5 DEF Deleted
      <3>2. /\ pc' \in [Names -> CallType] /\ pc'[n] = "idle" /\ phase'[n] = "deleted"
            /\ phase' \in [Names -> {"wanted", "ready", "released", "deleted"}]
            /\ \A d \in Names \ {n} : pc'[d] = pc[d] /\ phase'[d] = phase[d]
        BY <3>1, <1>t, TypeValues DEF TypeOK, CallType
      <3>3. TypeOK'
        BY <2>2, <2>5, <3>1, <3>2, <1>t DEF TypeOK, OthersStay, Rows, CallType
      <3>4. HandlerInv(n)'
        BY <3>2, TypeValues DEF HandlerInv, Knows
      <3>5. AnsweredInv(n)'
        BY <2>0, <2>h, <2>3, <3>1, <3>2, <1>t DEF AnsweredInv
      <3>6. ASSUME NEW d \in Names \ {n} PROVE NameInv(d)' /\ HandlerInv(d)' /\ AnsweredInv(d)'
        BY <2>2, <3>1, <3>2, <3>6, OtherNames DEF SnapshotInv, OthersStay
      <3> QED
        BY <2>2, <3>3, <3>4, <3>5, <3>6 DEF SnapshotInv
    <2> QED
      BY <2>1, <2>4, <2>5
  <1> QED
    BY <1>1, <1>2, <1>3, <1>4 DEF Delete

\* The API makes an object appear, or finishes it: what is there stays.
Grows(n) ==
    /\ SameButStatus(n) /\ UNCHANGED <<kind, phase, handle, answered, pc, job>>
    /\ budget' = budget \/ Disturb
    /\ \A k \in Ids :
          /\ Exists(snaps[n][k]) => Exists(snaps[n][k])'
          /\ Exists(backups[n][k]) => Exists(backups[n][k])'
          /\ Exists(snaps[n][k])' => Exists(snaps[n][k]) \/ snaps[n][k].status = "SENT"
          /\ Exists(backups[n][k])' => Exists(backups[n][k]) \/ backups[n][k].status = "SENT"
          /\ snaps[n][k].status = "AVAILABLE" => snaps'[n][k].status = "AVAILABLE"
          /\ backups[n][k].status = "AVAILABLE" => backups'[n][k].status = "AVAILABLE"

LEMMA GrowsInv ==
  ASSUME SnapshotInv, NEW n \in Names, Grows(n)
  PROVE  SnapshotInv'
  <1>t. TypeOK /\ NameInv(n) /\ HandlerInv(n) /\ AnsweredInv(n)
    BY DEF SnapshotInv
  <1>1. /\ UNCHANGED <<kind, phase, handle, answered, pc, job>> /\ (budget' = budget \/ Disturb)
        /\ SameButStatus(n) /\ OthersStay(n)
    BY DEF Grows, SameButStatus
  <1>2. /\ InTime(snaps, n)' = InTime(snaps, n) /\ InTime(backups, n)' = InTime(backups, n)
    <2>1. \A k \in Ids : /\ ~snaps[n][k].late => (Exists(snaps[n][k])' <=> Exists(snaps[n][k]))
                         /\ ~backups[n][k].late => (Exists(backups[n][k])' <=> Exists(backups[n][k]))
                         /\ snaps'[n][k].late = snaps[n][k].late
                         /\ backups'[n][k].late = backups[n][k].late
      BY <1>1, <1>t DEF Grows, SameButStatus, NameInv
    <2> QED
      BY <2>1 DEF InTime, Listed, Ids
  <1>3. Made(n)' = Made(n) /\ \A b \in Made(n) : backups'[n][b].of = backups[n][b].of
    BY <1>1 DEF Made, SameButStatus, Ids
  <1>o. \A b \in Made(n) : /\ backups[n][b].of \in Ids
                           /\ snaps[n][backups[n][b].of].status # "SENT"
    BY <1>t DEF NameInv
  <1>4. Behind(n) => Behind(n)'
    BY <1>3, <1>o DEF Grows, Behind
  <1>5. /\ Listed(snaps, n) \subseteq Listed(snaps, n)' /\ Listed(backups, n) \subseteq Listed(backups, n)'
    BY DEF Grows, Listed, Ids
  <1>6. NameInv(n)'
    <2>1. FoundBehind(n)'
      BY <1>1, <1>4, <1>5, <1>t DEF NameInv, FoundBehind
    <2> QED
      BY <1>1, <1>2, <2>1, <1>t, SameNames
  <1>7. AnsweredInv(n)'
    <2>1. /\ answered[n] \subseteq Ids
          /\ \A k \in Ids :
                /\ Objs(n)'[n][k].volume = Objs(n)[n][k].volume
                /\ Objs(n)'[n][k].status = "UNUSED" <=> Objs(n)[n][k].status = "UNUSED"
                /\ Objs(n)[n][k].status = "AVAILABLE" => Objs(n)'[n][k].status = "AVAILABLE"
      BY <1>1, <1>t DEF Objs, Grows, SameButStatus, TypeOK
    <2>2. phase[n] = "ready" /\ kind[n] = "backup" => LeftNone(n, handle[n])'
      <3> SUFFICES ASSUME phase[n] = "ready", kind[n] = "backup" PROVE LeftNone(n, handle[n])'
        OBVIOUS
      <3>1. LeftNone(n, handle[n]) /\ handle[n] \in Made(n)
        BY <1>t DEF AnsweredInv, Objs, Made
      <3>2. PICK s \in Ids : s = backups[n][handle[n]].of /\ s = backups'[n][handle[n]].of
        BY <3>1, <1>3, <1>o
      <3>3. ~Exists(snaps[n][s])'
        BY <3>1, <3>2, <1>o DEF Grows, LeftNone
      <3> QED
        BY <1>1, <1>2, <3>1, <3>2, <3>3 DEF LeftNone, Exists
    <2> QED
      BY <2>1, <2>2, <1>1, <1>t DEF AnsweredInv
  <1>8. PICK call \in CallType, j \in JobType : call = pc[n] /\ j = job[n]
    BY <1>t DEF TypeOK, CallType, JobType
  <1>9. Continue(n, call, j)
    BY <1>1, <1>8, <1>t DEF Continue, content, TypeOK
  <1>10. Knows(n, call, j)'
    <2>1. Knows(n, call, j)
      BY <1>8, <1>t DEF HandlerInv
    <2>2. \A k \in Ids : /\ snaps'[n][k].volume = snaps[n][k].volume
                         /\ backups'[n][k].volume = backups[n][k].volume
                         /\ backups'[n][k].of = backups[n][k].of
                         /\ backups[n][k].status = "AVAILABLE" => backups'[n][k].status = "AVAILABLE"
      BY <1>1 DEF Grows, SameButStatus
    <2>3. \A k : /\ k \in Listed(snaps, n) => k \in Ids
                 /\ k \in Listed(backups, n) => k \in Ids
      BY DEF Listed
    <2> QED
      BY <2>1, <2>2, <2>3, <1>1, <1>2, <1>3, <1>4, <1>5 DEF Knows
  <1> QED
    BY <1>1, <1>6, <1>7, <1>9, <1>10, ContinueStep

LEMMA ApiInv ==
  ASSUME SnapshotInv, NEW n \in Names, NEW i \in Ids,
         \/ SnapshotDone(n, i) \/ BackupDone(n, i)
         \/ SnapshotAppears(n, i) \/ BackupAppears(n, i)
  PROVE  SnapshotInv'
  <1>r. snaps \in Rows /\ backups \in Rows
    BY DEF SnapshotInv, TypeOK, Rows
  <1>1. UNCHANGED <<kind, phase, handle, answered, pc, job>> /\ (budget' = budget \/ Disturb)
    BY DEF SnapshotDone, BackupDone, SnapshotAppears, BackupAppears, Settle, Appear, content
  <1>2. CASE SnapshotDone(n, i) \/ SnapshotAppears(n, i)
    <2>1. PICK s \in {"AVAILABLE", "ERROR", "CREATING"} :
             /\ snaps' = [snaps EXCEPT ![n][i] = [@ EXCEPT !.status = s]]
             /\ snaps[n][i].status \in {"CREATING", "SENT"} /\ backups' = backups
      BY <1>2 DEF SnapshotDone, SnapshotAppears, Settle, Appear
    <2>2. s \in Statuses \ {"UNUSED", "SENT"} /\ snaps[n][i].status # "UNUSED"
      BY <2>1 DEF Statuses
    <2>3. /\ SameButStatus(n) /\ snaps'[n][i].status = s
          /\ \A k \in Ids \ {i} : snaps'[n][k] = snaps[n][k]
      BY <2>1, <2>2, <1>1, <1>r, SnapStatus
    <2>4. Grows(n)
      BY <2>1, <2>2, <2>3, <1>1 DEF Grows, Exists
    <2> QED
      BY <2>4, GrowsInv
  <1>3. CASE BackupDone(n, i) \/ BackupAppears(n, i)
    <2>1. PICK s \in {"AVAILABLE", "ERROR", "CREATING"} :
             /\ backups' = [backups EXCEPT ![n][i] = [@ EXCEPT !.status = s]]
             /\ backups[n][i].status \in {"CREATING", "SENT"} /\ snaps' = snaps
      BY <1>3 DEF BackupDone, BackupAppears, Settle, Appear
    <2>2. s \in Statuses \ {"UNUSED", "SENT"} /\ backups[n][i].status # "UNUSED"
      BY <2>1 DEF Statuses
    <2>3. /\ SameButStatus(n) /\ backups'[n][i].status = s
          /\ \A k \in Ids \ {i} : backups'[n][k] = backups[n][k]
      BY <2>1, <2>2, <1>1, <1>r, BackupStatus
    <2>4. Grows(n)
      BY <2>1, <2>2, <2>3, <1>1 DEF Grows, Exists
    <2> QED
      BY <2>4, GrowsInv
  <1> QED
    BY <1>2, <1>3

\* The user lets a snapshot go.
LEMMA ReleaseInv ==
  ASSUME SnapshotInv, NEW n \in Names, Release(n)
  PROVE  SnapshotInv'
  <1>t. TypeOK /\ NameInv(n) /\ HandlerInv(n) /\ AnsweredInv(n)
    BY DEF SnapshotInv
  <1>1. /\ UNCHANGED <<snaps, backups, kind, handle, answered, pc, job>> /\ Disturb
        /\ phase[n] = "ready" /\ phase' = [phase EXCEPT ![n] = "released"]
    BY DEF Release, objects
  <1>2. /\ phase' \in [Names -> {"wanted", "ready", "released", "deleted"}]
        /\ phase'[n] = "released" /\ \A d \in Names \ {n} : phase'[d] = phase[d]
    BY <1>1, <1>t DEF TypeOK
  <1>3. TypeOK'
    <2>1. budget' \in 0 .. MaxDisturbances
      BY <1>1, <1>t, SnapshotAssumption DEF TypeOK, Disturb
    <2> QED
      BY <1>1, <1>2, <2>1, <1>t DEF TypeOK
  <1>4. NameInv(n)'
    <2>1. /\ InTime(snaps, n)' = InTime(snaps, n) /\ InTime(backups, n)' = InTime(backups, n)
          /\ Made(n)' = Made(n)
      BY <1>1 DEF InTime, Listed, Exists, Made, Ids
    <2> QED
      BY <1>1, <1>2, <2>1, <1>t DEF NameInv, FoundBehind, Ids
  <1>5. HandlerInv(n)'
    <2>1. pc[n] = "idle"
      BY <1>1, <1>t DEF HandlerInv, Knows, TypeOK
    <2> QED
      BY <1>1, <2>1, TypeValues DEF HandlerInv, Knows
  <1>6. AnsweredInv(n)'
    BY <1>1, <1>2, <1>t DEF AnsweredInv, Objs
  <1>7. ASSUME NEW d \in Names \ {n} PROVE NameInv(d)' /\ HandlerInv(d)' /\ AnsweredInv(d)'
    BY <1>1, <1>2, <1>7, OtherNames DEF SnapshotInv
  <1> QED
    BY <1>3, <1>4, <1>5, <1>6, <1>7 DEF SnapshotInv

LEMMA NextInv == SnapshotInv /\ [Next]_vars => SnapshotInv'
  <1> SUFFICES ASSUME SnapshotInv, [Next]_vars PROVE SnapshotInv'
    OBVIOUS
  <1>1. CASE UNCHANGED vars
    <2>1. UNCHANGED <<snaps, backups, kind, phase, handle, answered, pc, job, budget>>
      BY <1>1 DEF vars, objects, content
    <2>2. TypeOK'
      BY <2>1 DEF SnapshotInv, TypeOK
    <2>3. ASSUME NEW d \in Names PROVE NameInv(d)' /\ HandlerInv(d)' /\ AnsweredInv(d)'
      BY <2>1, OtherNames DEF SnapshotInv
    <2> QED
      BY <2>2, <2>3 DEF SnapshotInv
  <1>2. ASSUME NEW n \in Names, CallFails(n) PROVE SnapshotInv'
    BY <1>2, FailReadStep DEF CallFails
  <1> QED
    BY <1>1, <1>2, CreateInv, DeleteInv, ApiInv, ReleaseInv DEF Next

\* Sets without two different members have one at most.
LEMMA AtMostOne ==
  ASSUME NEW S, \A x, y \in S : x = y
  PROVE  Cardinality(S) <= 1
  <1>1. CASE S = {}
    BY <1>1, FS_EmptySet
  <1>2. ASSUME NEW x \in S PROVE Cardinality(S) <= 1
    <2>1. S = {x}
      BY <1>2
    <2> QED
      BY <2>1, FS_Singleton
  <1> QED
    BY <1>1, <1>2

-----------------------------------------------------------------------------
\* Nothing is lost.

\* Available objects stay as they are or go rightly.
NotLost(n, i) ==
    /\ LosesRightly(n, i)
    /\ snaps[n][i].status = "AVAILABLE" => snaps'[n][i] = snaps[n][i] \/ ~Exists(snaps'[n][i])
    /\ backups[n][i].status = "AVAILABLE" =>
          backups'[n][i] = backups[n][i] \/ ~Exists(backups'[n][i])

\* A table in which an object becomes an existing one, or one that did not exist becomes
\* another, loses nothing.
LEMMA NewKeeps ==
  ASSUME NEW t \in Rows, NEW m \in Names, NEW k \in Ids, NEW o \in Object,
         Exists(o) \/ ~Exists(t[m][k]), t[m][k].status # "AVAILABLE"
  PROVE  \A n \in Names, i \in Ids :
            /\ Exists(t[n][i]) => Exists([t EXCEPT ![m][k] = o][n][i])
            /\ t[n][i].status = "AVAILABLE" => [t EXCEPT ![m][k] = o][n][i] = t[n][i]
  BY DEF Rows, Exists

\* A table in which one object goes loses no other object.
LEMMA OneGone ==
  ASSUME NEW t \in Rows, NEW m \in Names, NEW k \in Ids
  PROVE  /\ \A n \in Names, i \in Ids :
               \/ n = m /\ i = k
               \/ [t EXCEPT ![m][k] = [@ EXCEPT !.status = "GONE"]][n][i] = t[n][i]
         /\ ~Exists([t EXCEPT ![m][k] = [@ EXCEPT !.status = "GONE"]][m][k])
  <1>1. t[m][k] \in Object /\ "GONE" \in Statuses
    BY DEF Rows, Statuses
  <1>2. PICK o \in Object : o = [t[m][k] EXCEPT !.status = "GONE"] /\ ~Exists(o)
    BY <1>1, StatusChange DEF Exists
  <1>3. \A n \in Names, i \in Ids : (n = m /\ i = k) \/ [t EXCEPT ![m][k] = o][n][i] = t[n][i]
    BY DEF Rows
  <1>4. [t EXCEPT ![m][k] = o][m][k] = o
    BY DEF Rows
  <1> QED
    BY <1>2, <1>3, <1>4

LEMMA Losses ==
  ASSUME SnapshotInv, [Next]_vars, NEW n \in Names, NEW i \in Ids
  PROVE  NotLost(n, i)
  <1>t. TypeOK
    BY DEF SnapshotInv
  <1>r. snaps \in Rows /\ backups \in Rows
    BY <1>t DEF TypeOK, Rows
  <1>1. CASE UNCHANGED objects
    BY <1>1 DEF objects, NotLost, LosesRightly
  <1>2. ASSUME NEW m \in Names, CreateSnapshot(m) PROVE NotLost(n, i)
    <2>1. CASE UNCHANGED objects
      BY <2>1, <1>1
    <2>2. ASSUME NEW k \in Ids, backups' = backups, snaps[m][k].status = "UNUSED",
                 NEW o \in {Created(0), Sent(0)}, snaps' = [snaps EXCEPT ![m][k] = o]
          PROVE  NotLost(n, i)
      <3>1. o \in Object /\ ~Exists(snaps[m][k])
        BY <2>2, NewObjects, TypeValues DEF Exists
      <3> QED
        BY <2>2, <3>1, <1>r, NewKeeps DEF NotLost, LosesRightly
    <2> QED
      BY <1>2, <2>1, <2>2 DEF CreateSnapshot, NextId, objects
  <1>3. ASSUME NEW m \in Names, CreateBackup(m) PROVE NotLost(n, i)
    <2>1. CASE UNCHANGED objects
      BY <2>1, <1>1
    <2>2. ASSUME NEW k \in Ids, snaps' = snaps, pc[m] = "createBackup", backups[m][k].status = "UNUSED",
                 NEW o \in {Created(job[m].snap), Sent(job[m].snap)},
                 backups' = [backups EXCEPT ![m][k] = o]
          PROVE  NotLost(n, i)
      <3>1. job[m].snap \in ObjectIds
        BY <1>t DEF TypeOK
      <3>2. o \in Object /\ ~Exists(backups[m][k])
        BY <2>2, <3>1, NewObjects DEF Exists
      <3> QED
        BY <2>2, <3>2, <1>r, NewKeeps DEF NotLost, LosesRightly
    <2> QED
      BY <1>3, <2>1, <2>2 DEF CreateBackup, NextId, objects
  <1>4. ASSUME NEW m \in Names, DropSnapshot(m) PROVE NotLost(n, i)
    <2>1. CASE UNCHANGED objects
      BY <2>1, <1>1
    <2>2. CASE snaps' = [snaps EXCEPT ![m][job[m].snap] = [@ EXCEPT !.status = "GONE"]]
      <3>1. PICK s, b : s = job[m].snap /\ b = job[m].backup
        OBVIOUS
      <3>2. /\ b \in Ids /\ backups[m][b].volume = "own" /\ backups[m][b].status = "AVAILABLE"
            /\ s = backups[m][b].of /\ backups' = backups
        BY <1>4, <3>1 DEF SnapshotInv, DropSnapshot, HandlerInv, Knows, Listed
      <3>3. s \in Ids /\ snaps[m][s].volume = "own"
        BY <3>2 DEF SnapshotInv, NameInv, Made
      <3>4. snaps' = [snaps EXCEPT ![m][s] = [@ EXCEPT !.status = "GONE"]]
        BY <2>2, <3>1
      <3>5. /\ (n = m /\ i = s) \/ snaps'[n][i] = snaps[n][i]
            /\ ~Exists(snaps'[m][s])
        BY <3>3, <3>4, <1>r, OneGone
      <3> QED
        BY <3>2, <3>3, <3>5 DEF NotLost, LosesRightly
    <2> QED
      BY <1>4, <2>1, <2>2 DEF DropSnapshot, objects
  <1>5. ASSUME NEW m \in Names, DeleteBackup(m) PROVE NotLost(n, i)
    <2>1. CASE UNCHANGED objects
      BY <2>1, <1>1
    <2>2. CASE backups' = [backups EXCEPT ![m][handle[m]] = [@ EXCEPT !.status = "GONE"]]
      <3>1. PICK h : h = handle[m]
        OBVIOUS
      <3>2. /\ h \in Ids /\ phase[m] = "released" /\ backups[m][h].volume = "own" /\ snaps' = snaps
        BY <1>5, <3>1, TypeValues
           DEF SnapshotInv, DeleteBackup, HandlerInv, Knows, AnsweredInv, Objs
      <3>3. backups' = [backups EXCEPT ![m][h] = [@ EXCEPT !.status = "GONE"]]
        BY <2>2, <3>1
      <3>4. /\ (n = m /\ i = h) \/ backups'[n][i] = backups[n][i]
            /\ ~Exists(backups'[m][h])
        BY <3>2, <3>3, <1>r, OneGone
      <3> QED
        BY <3>2, <3>4 DEF NotLost, LosesRightly
    <2> QED
      BY <1>5, <2>1, <2>2 DEF DeleteBackup, objects
  <1>6. ASSUME NEW m \in Names, DeleteSnapshot(m) PROVE NotLost(n, i)
    <2>1. CASE UNCHANGED objects
      BY <2>1, <1>1
    <2>2. CASE /\ kind[m] = "snapshot"
               /\ snaps' = [snaps EXCEPT ![m][handle[m]] = [@ EXCEPT !.status = "GONE"]]
      <3>1. PICK h : h = handle[m]
        OBVIOUS
      <3>2. /\ h \in Ids /\ phase[m] = "released" /\ snaps[m][h].volume = "own" /\ backups' = backups
        BY <1>6, <2>2, <3>1, TypeValues
           DEF SnapshotInv, DeleteSnapshot, HandlerInv, Knows, AnsweredInv, Objs
      <3>3. snaps' = [snaps EXCEPT ![m][h] = [@ EXCEPT !.status = "GONE"]]
        BY <2>2, <3>1
      <3>4. /\ (n = m /\ i = h) \/ snaps'[n][i] = snaps[n][i]
            /\ ~Exists(snaps'[m][h])
        BY <3>2, <3>3, <1>r, OneGone
      <3> QED
        BY <3>2, <3>4 DEF NotLost, LosesRightly
    <2> QED
      BY <1>6, <2>1, <2>2 DEF DeleteSnapshot, objects
  <1>7. ASSUME NEW m \in Names, NEW k \in Ids,
               \/ SnapshotDone(m, k) \/ BackupDone(m, k)
               \/ SnapshotAppears(m, k) \/ BackupAppears(m, k)
        PROVE  NotLost(n, i)
    <2>1. ASSUME NEW t \in Rows, NEW s \in {"AVAILABLE", "ERROR", "CREATING"}
          PROVE  /\ [t[m][k] EXCEPT !.status = s] \in Object
                 /\ Exists([t[m][k] EXCEPT !.status = s])
      <3>1. t[m][k] \in Object
        BY DEF Rows
      <3>2. s \in Statuses
        BY DEF Statuses
      <3> QED
        BY <3>1, <3>2, StatusChange DEF Exists
    <2>2. CASE SnapshotDone(m, k) \/ SnapshotAppears(m, k)
      <3>1. backups' = backups
            /\ snaps[m][k].status \in {"CREATING", "SENT"}
            /\ \E o \in Object : Exists(o) /\ snaps' = [snaps EXCEPT ![m][k] = o]
        BY <2>1, <2>2, <1>r DEF SnapshotDone, SnapshotAppears, Settle, Appear
      <3> QED
        BY <3>1, <1>r, NewKeeps DEF NotLost, LosesRightly
    <2>3. CASE BackupDone(m, k) \/ BackupAppears(m, k)
      <3>1. snaps' = snaps
            /\ backups[m][k].status \in {"CREATING", "SENT"}
            /\ \E o \in Object : Exists(o) /\ backups' = [backups EXCEPT ![m][k] = o]
        BY <2>1, <2>3, <1>r DEF BackupDone, BackupAppears, Settle, Appear
      <3> QED
        BY <3>1, <1>r, NewKeeps DEF NotLost, LosesRightly
    <2> QED
      BY <1>7, <2>2, <2>3
  <1>8. ASSUME NEW m \in Names,
               \/ StartCreate(m) \/ ListBackups(m) \/ ListSnapshots(m) \/ WaitSnapshotReady(m)
               \/ WaitBackupReady(m) \/ GetBackup(m) \/ StartDelete(m) \/ CheckBackup(m)
               \/ CallFails(m) \/ Release(m)
        PROVE  NotLost(n, i)
    <2>1. UNCHANGED objects
      BY <1>8 DEF StartCreate, ListBackups, ListSnapshots, WaitSnapshotReady, WaitBackupReady,
                  GetBackup, StartDelete, CheckBackup, CallFails, Release, objects
    <2> QED
      BY <2>1, <1>1
  <1>9. CASE UNCHANGED vars
    BY <1>9, <1>1 DEF vars, objects
  <1>10. CASE Next
    BY <1>10, <1>2, <1>3, <1>4, <1>5, <1>6, <1>7, <1>8 DEF Next, Create, Delete
  <1> QED
    BY <1>9, <1>10

-----------------------------------------------------------------------------
\* Listings.

Entry == [type : {"snapshot", "backup"}, name : Names, id : Ids]

\* What a query knows between its two calls: which names have stayed ready since it was
\* asked, and which of them it has found.
QueryInv ==
    /\ asking \in {"idle", "done", "listSnapshots", "listBackups", "getSnapshot", "getBackup"}
    /\ steady \subseteq {n \in Names : phase[n] = "ready"}
    /\ entries \subseteq Entry
    /\ asking \in {"listSnapshots", "listBackups"} => "own" \in volumes
    /\ asking = "listBackups" =>
          \A n \in steady : kind[n] = "snapshot" => Found("snapshot", n, handle[n]) \in entries
    /\ \A n \in Names : asking \in {"getSnapshot", "getBackup"} /\ about = {n} => phase[n] # "wanted"
    /\ \A n \in steady : asking = "getBackup" /\ about = {n} => kind[n] = "backup"

ListInv == SnapshotInv /\ QueryInv /\ ListingTrue

\* A VolumeSnapshot goes through its phases in one direction, under one handle.
LEMMA PhaseFrame ==
  ASSUME SnapshotInv, [Next]_vars
  PROVE  /\ kind' = kind
         /\ \A n \in Names :
               /\ phase[n] # "wanted" => phase'[n] # "wanted" /\ handle'[n] = handle[n]
               /\ phase[n] \in {"released", "deleted"} => phase'[n] \in {"released", "deleted"}
  <1>t. TypeOK
    BY DEF SnapshotInv
  <1>1. CASE UNCHANGED content
    BY <1>1 DEF content
  <1>2. ASSUME NEW m \in Names, NEW i, Ready(m, i), phase[m] = "wanted"
        PROVE  /\ kind' = kind
               /\ \A n \in Names :
                     /\ phase[n] # "wanted" => phase'[n] # "wanted" /\ handle'[n] = handle[n]
                     /\ phase[n] \in {"released", "deleted"} => phase'[n] \in {"released", "deleted"}
    BY <1>2, <1>t DEF Ready, TypeOK
  <1>3. ASSUME NEW m \in Names, WaitSnapshotReady(m) \/ DropSnapshot(m)
        PROVE  \/ UNCHANGED content
               \/ phase[m] = "wanted" /\ \E i : Ready(m, i)
    <2>1. phase[m] = "wanted"
      BY <1>3, TypeValues DEF WaitSnapshotReady, DropSnapshot, SnapshotInv, HandlerInv, Knows
    <2> QED
      BY <1>3, <2>1 DEF WaitSnapshotReady, DropSnapshot, Fail, Continue
  <1>4. ASSUME NEW m \in Names, DeleteSnapshot(m) \/ Release(m)
        PROVE  /\ kind' = kind
               /\ \A n \in Names :
                     /\ phase[n] # "wanted" => phase'[n] # "wanted" /\ handle'[n] = handle[n]
                     /\ phase[n] \in {"released", "deleted"} => phase'[n] \in {"released", "deleted"}
    BY <1>4, <1>t DEF DeleteSnapshot, Release, Deleted, Fail, Continue, content, TypeOK
  <1>5. ASSUME NEW m \in Names,
               \/ StartCreate(m) \/ ListBackups(m) \/ ListSnapshots(m) \/ CreateSnapshot(m)
               \/ CreateBackup(m) \/ WaitBackupReady(m) \/ GetBackup(m) \/ StartDelete(m)
               \/ CheckBackup(m) \/ DeleteBackup(m) \/ CallFails(m)
               \/ \E i \in Ids : \/ SnapshotDone(m, i) \/ BackupDone(m, i)
                                \/ SnapshotAppears(m, i) \/ BackupAppears(m, i)
        PROVE  UNCHANGED content
    BY <1>5 DEF StartCreate, ListBackups, ListSnapshots, CreateSnapshot, CreateBackup,
                WaitBackupReady, GetBackup, StartDelete, CheckBackup, DeleteBackup, CallFails,
                SnapshotDone, BackupDone, SnapshotAppears, BackupAppears, Settle, Appear, Fail,
                Continue
  <1>6. CASE UNCHANGED vars
    BY <1>6, <1>1 DEF vars, content
  <1>7. CASE Next
    BY <1>7, <1>1, <1>2, <1>3, <1>4, <1>5 DEF Next, Create, Delete
  <1> QED
    BY <1>6, <1>7

\* An entry that can be used, in the words of ListedIsUsable.
Usable(e) ==
    \/ (IF e.type = "backup" THEN backups ELSE snaps)[e.name][e.id].status = "AVAILABLE"
    \/ /\ e.type = "snapshot"
       /\ \E b \in Ids : LET o == backups[e.name][b] IN
             o.of = e.id /\ o.volume = "own" /\ o.status = "AVAILABLE"
    \/ phase[e.name] \in {"released", "deleted"}

\* What could be used still can, while handlers go on.
LEMMA UsableStep ==
  ASSUME SnapshotInv, [Next]_vars, NEW e \in Entry, Usable(e)
  PROVE  Usable(e)'
  <1> DEFINE n == e.name
             i == e.id
  <1>1. n \in Names /\ i \in Ids /\ e.type \in {"snapshot", "backup"}
    BY DEF Entry
  <1> HIDE DEF n, i
  <1>2. phase[n] \in {"released", "deleted"} => phase'[n] \in {"released", "deleted"}
    BY <1>1, PhaseFrame
  <1>3. CASE phase'[n] \in {"released", "deleted"}
    BY <1>3 DEF Usable, n
  <1>4. CASE phase[n] \notin {"released", "deleted"}
    <2>1. ASSUME NEW b \in Ids, backups[n][b].status = "AVAILABLE" PROVE backups'[n][b] = backups[n][b]
      BY <1>1, <1>4, <2>1, Losses DEF NotLost, LosesRightly, Exists
    <2>2. CASE e.type = "backup" /\ backups[n][i].status = "AVAILABLE"
      <3>1. backups'[n][i].status = "AVAILABLE"
        BY <1>1, <2>1, <2>2
      <3> QED
        BY <2>2, <3>1 DEF Usable, n, i
    <2>3. ASSUME NEW b \in Ids, e.type = "snapshot", backups[n][b].of = i, backups[n][b].volume = "own",
                 backups[n][b].status = "AVAILABLE"
          PROVE  Usable(e)'
      <3>1. backups'[n][b] = backups[n][b]
        BY <2>1, <2>3
      <3> QED
        BY <2>3, <3>1 DEF Usable, n, i, Ids
    <2>4. CASE e.type = "snapshot" /\ snaps[n][i].status = "AVAILABLE"
      <3>1. CASE snaps'[n][i] = snaps[n][i]
        BY <2>4, <3>1 DEF Usable, n, i
      <3>2. CASE ~Exists(snaps'[n][i])
        <4>1. \E b \in Ids : /\ backups[n][b].of = i /\ backups[n][b].volume = "own"
                             /\ backups[n][b].status = "AVAILABLE"
          BY <1>1, <1>4, <2>4, <3>2, Losses DEF NotLost, LosesRightly, Exists
        <4> QED
          BY <2>3, <2>4, <4>1
      <3> QED
        BY <1>1, <2>4, <3>1, <3>2, Losses DEF NotLost
    <2> QED
      BY <1>1, <1>4, <2>2, <2>3, <2>4 DEF Usable, n, i
  <1> QED
    BY <1>2, <1>3, <1>4


\* A name that is ready has its object available, of the own volume.
LEMMA ReadyObject ==
  ASSUME SnapshotInv, NEW n \in Names, phase[n] = "ready"
  PROVE  /\ handle[n] \in Ids /\ kind[n] \in {"snapshot", "backup"}
         /\ Objs(n)[n][handle[n]].status = "AVAILABLE" /\ Objs(n)[n][handle[n]].volume = "own"
  <1>1. AnsweredInv(n) /\ TypeOK
    BY DEF SnapshotInv
  <1> QED
    BY <1>1 DEF AnsweredInv, TypeOK

\* What the filters let through is usable, and every ready name of the type is let through.
LEMMA FilteredTrue ==
  ASSUME NEW type \in {"snapshot", "backup"}
  PROVE  LET objs == IF type = "backup" THEN backups ELSE snaps IN
         /\ Filtered(type, objs) \subseteq Entry
         /\ \A e \in Filtered(type, objs) : Usable(e)
         /\ \A n \in Names, i \in Ids :
               objs[n][i].status = "AVAILABLE" /\ objs[n][i].volume \in volumes =>
                  Found(type, n, i) \in Filtered(type, objs)
  <1> DEFINE objs == IF type = "backup" THEN backups ELSE snaps
  <1>1. ASSUME NEW e \in Filtered(type, objs) PROVE e \in Entry /\ Usable(e)
    <2>1. PICK n \in Names, i \in Ids : e = Found(type, n, i) /\ objs[n][i].status = "AVAILABLE"
      BY <1>1 DEF Filtered
    <2>2. e \in Entry /\ e.type = type /\ e.name = n /\ e.id = i
      BY <2>1 DEF Entry, Found
    <2> QED
      BY <2>1, <2>2 DEF Usable
  <1>2. ASSUME NEW n \in Names, NEW i \in Ids, objs[n][i].status = "AVAILABLE", objs[n][i].volume \in volumes
        PROVE  Found(type, n, i) \in Filtered(type, objs)
    <2>1. <<n, i>> \in {p \in Names \X Ids :
             objs[p[1]][p[2]].status = "AVAILABLE" /\ objs[p[1]][p[2]].volume \in volumes}
      BY <1>2
    <2> QED
      BY <2>1 DEF Filtered
  <1> QED
    BY <1>1, <1>2

LEMMA ListInit == QueryInit => ListInv
  <1> SUFFICES ASSUME QueryInit PROVE ListInv
    OBVIOUS
  <1>1. SnapshotInv
    BY InitInv DEF QueryInit
  <1>2. QueryInv
    BY DEF QueryInit, QueryInv
  <1>3. ListingTrue
    BY DEF QueryInit, ListingTrue, ListsWhatIsReady, ListedIsUsable
  <1> QED
    BY <1>1, <1>2, <1>3 DEF ListInv

\* A step of the query alone leaves the handlers' invariant as it is.
LEMMA QueryKeeps ==
  ASSUME SnapshotInv, UNCHANGED <<objects, content, pc, job>>, budget' = budget \/ Disturb
  PROVE  SnapshotInv'
  <1>1. UNCHANGED <<snaps, backups, kind, phase, handle, answered, pc, job>>
    BY DEF objects, content
  <1>2. TypeOK'
    <2>1. budget' \in 0 .. MaxDisturbances
      BY SnapshotAssumption DEF SnapshotInv, TypeOK, Disturb
    <2> QED
      BY <1>1, <2>1 DEF SnapshotInv, TypeOK
  <1>3. ASSUME NEW d \in Names PROVE NameInv(d)' /\ HandlerInv(d)' /\ AnsweredInv(d)'
    BY <1>1, OtherNames DEF SnapshotInv
  <1> QED
    BY <1>2, <1>3 DEF SnapshotInv

\* The two halves of ListingTrue, in the words used here.
LEMMA Truth ==
  /\ ListedIsUsable <=> \A e \in entries : Usable(e)
  /\ ListedIsUsable' <=> \A e \in entries' : Usable(e)'
  BY DEF ListedIsUsable, Usable, Ids

LEMMA HandlerListInv ==
  ASSUME ListInv, [Next]_vars, steady' \subseteq {n \in steady : phase'[n] = "ready"},
         UNCHANGED <<asking, about, volumes, entries>>
  PROVE  QueryInv' /\ ListingTrue'
  <1>1. SnapshotInv /\ QueryInv /\ ListsWhatIsReady /\ \A e \in entries : Usable(e)
    BY Truth DEF ListInv, ListingTrue
  <1>2. /\ kind' = kind
        /\ \A n \in Names : phase[n] # "wanted" => phase'[n] # "wanted" /\ handle'[n] = handle[n]
    BY <1>1, PhaseFrame
  <1>3. \A n \in steady' : /\ n \in steady /\ n \in Names /\ phase'[n] = "ready"
                           /\ handle'[n] = handle[n]
    BY <1>1, <1>2 DEF QueryInv
  <1>4. QueryInv'
    <2>1. steady' \subseteq {n \in Names : phase'[n] = "ready"}
      BY <1>3
    <2>2. asking' = "listBackups" =>
             \A n \in steady' : kind'[n] = "snapshot" => Found("snapshot", n, handle'[n]) \in entries'
      BY <1>1, <1>2, <1>3 DEF QueryInv
    <2>3. \A n \in Names : asking' \in {"getSnapshot", "getBackup"} /\ about' = {n} => phase'[n] # "wanted"
      BY <1>1, <1>2 DEF QueryInv
    <2>4. \A n \in steady' : asking' = "getBackup" /\ about' = {n} => kind'[n] = "backup"
      BY <1>1, <1>2, <1>3 DEF QueryInv
    <2>5. entries' \subseteq Entry
      BY <1>1 DEF QueryInv
    <2> QED
      BY <1>1, <2>1, <2>2, <2>3, <2>4, <2>5 DEF QueryInv, Found, Entry, Ids
  <1>5. ListsWhatIsReady'
    BY <1>1, <1>2, <1>3 DEF ListsWhatIsReady, Found
  <1>6. \A e \in entries' : Usable(e)'
    BY <1>1, UsableStep DEF QueryInv
  <1> QED
    BY <1>4, <1>5, <1>6, Truth DEF ListingTrue


LEMMA ListNext == ListInv /\ [QueryNext]_queryVars => ListInv'
  <1> SUFFICES ASSUME ListInv, [QueryNext]_queryVars PROVE ListInv'
    OBVIOUS
  <1>i. SnapshotInv /\ QueryInv /\ ListsWhatIsReady /\ \A e \in entries : Usable(e)
    BY Truth DEF ListInv, ListingTrue
  <1>1. CASE UNCHANGED queryVars \/ Handler
    <2>1. [Next]_vars /\ UNCHANGED <<asking, about, volumes, entries>>
      BY <1>1 DEF Handler, queryVars, query
    <2>2. steady' \subseteq {n \in steady : phase'[n] = "ready"}
      <3>1. CASE Handler
        BY <3>1 DEF Handler
      <3>2. CASE UNCHANGED queryVars
        BY <3>2, <1>i DEF QueryInv, queryVars, query, vars, content
      <3> QED
        BY <1>1, <3>1, <3>2
    <2> QED
      BY <2>1, <2>2, <1>i, NextInv, HandlerListInv DEF ListInv
  \* From here on the query moves and the handlers do not.
  <1>2. ASSUME UNCHANGED <<objects, content, pc, job>>, budget' = budget \/ Disturb,
               QueryInv', ListsWhatIsReady', \A e \in entries' : Usable(e)
        PROVE  ListInv'
    <2>1. \A e \in entries' : Usable(e)'
      BY <1>2 DEF Usable, objects, content
    <2> QED
      BY <1>2, <2>1, <1>i, QueryKeeps, Truth DEF ListInv, ListingTrue
  <1>3. ASSUME NEW call \in {"listSnapshots", "getSnapshot"}, NEW ns, NEW vs, Ask(call, ns, vs),
               call = "listSnapshots" => "own" \in vs,
               \A n \in Names : call = "getSnapshot" /\ ns = {n} => phase[n] # "wanted"
        PROVE  ListInv'
    <2>1. /\ asking' = call /\ about' = ns /\ volumes' = vs /\ entries' = {}
          /\ steady' = {n \in Names : phase[n] = "ready"}
          /\ UNCHANGED <<objects, content, pc, job, budget>>
      BY <1>3 DEF Ask, vars
    <2>2. QueryInv'
      BY <1>3, <2>1 DEF QueryInv, content
    <2>3. ListsWhatIsReady'
      BY <1>3, <2>1 DEF ListsWhatIsReady
    <2> QED
      BY <2>1, <2>2, <2>3, <1>2
  <1>4. CASE AskAll
    BY <1>3, <1>4 DEF AskAll
  <1>5. ASSUME NEW n \in Names, AskOne(n) PROVE ListInv'
    <2>1. phase[n] # "wanted"
      BY <1>5, <1>i DEF AskOne, SnapshotInv, AnsweredInv
    <2> QED
      BY <1>3, <1>5, <2>1 DEF AskOne
  <1>6. CASE QuerySnapshots
    <2>1. /\ asking = "listSnapshots" /\ asking' = "listBackups"
          /\ entries' = Filtered("snapshot", snaps)
          /\ UNCHANGED <<objects, content, pc, job, budget, about, volumes, steady>>
      BY <1>6 DEF QuerySnapshots, Proceed, vars
    <2>2. /\ entries' \subseteq Entry /\ \A e \in entries' : Usable(e)
          /\ \A n \in Names, i \in Ids :
                snaps[n][i].status = "AVAILABLE" /\ snaps[n][i].volume \in volumes =>
                   Found("snapshot", n, i) \in entries'
      BY <2>1, FilteredTrue
    <2>3. \A n \in steady : kind[n] = "snapshot" => Found("snapshot", n, handle[n]) \in entries'
      BY <2>1, <2>2, <1>i, ReadyObject DEF QueryInv, Objs
    <2>4. QueryInv'
      BY <2>1, <2>2, <2>3, <1>i DEF QueryInv, content, Entry, Ids, Found
    <2>5. ListsWhatIsReady'
      BY <2>1 DEF ListsWhatIsReady
    <2> QED
      BY <2>1, <2>2, <2>4, <2>5, <1>2
  <1>7. CASE QueryBackups
    <2>1. /\ asking = "listBackups" /\ asking' = "done"
          /\ entries' = entries \cup Filtered("backup", backups)
          /\ UNCHANGED <<objects, content, pc, job, budget, about, volumes, steady>>
      BY <1>7 DEF QueryBackups, Proceed, vars
    <2>2. /\ Filtered("backup", backups) \subseteq Entry
          /\ \A e \in Filtered("backup", backups) : Usable(e)
          /\ \A n \in Names, i \in Ids :
                backups[n][i].status = "AVAILABLE" /\ backups[n][i].volume \in volumes =>
                   Found("backup", n, i) \in Filtered("backup", backups)
      BY FilteredTrue
    <2>3. \A n \in steady : Found(kind[n], n, handle[n]) \in entries'
      <3> SUFFICES ASSUME NEW n \in steady PROVE Found(kind[n], n, handle[n]) \in entries'
        OBVIOUS
      <3>1. n \in Names /\ phase[n] = "ready" /\ "own" \in volumes
        BY <2>1, <1>i DEF QueryInv
      <3>2. CASE kind[n] = "snapshot"
        BY <2>1, <3>2, <1>i DEF QueryInv
      <3>3. CASE kind[n] = "backup"
        BY <2>1, <2>2, <3>1, <3>3, <1>i, ReadyObject DEF Objs
      <3> QED
        BY <3>1, <3>2, <3>3, <1>i, ReadyObject
    <2>4. QueryInv'
      BY <2>1, <2>2, <1>i DEF QueryInv, content, Entry, Ids
    <2>5. ListsWhatIsReady'
      BY <2>1, <2>3 DEF ListsWhatIsReady, content, Found
    <2>6. \A e \in entries' : Usable(e)
      BY <2>1, <2>2, <1>i
    <2> QED
      BY <2>1, <2>4, <2>5, <2>6, <1>2
  <1>8. CASE QueryFails
    <2>1. /\ asking' = "idle" /\ entries' = {} /\ Disturb
          /\ UNCHANGED <<objects, content, pc, job, about, volumes, steady>>
      BY <1>8 DEF QueryFails
    <2>2. QueryInv' /\ ListsWhatIsReady'
      BY <2>1, <1>i DEF QueryInv, ListsWhatIsReady, content
    <2> QED
      BY <2>1, <2>2, <1>2
  \* A handle leads to one object.
  <1>9. ASSUME NEW n \in Names, phase[n] # "wanted", NEW type \in {"snapshot", "backup"}, kind[n] = type
        PROVE  Found(type, n, handle[n]) \in Entry /\ Usable(Found(type, n, handle[n]))
    <2>1. handle[n] \in Ids /\ phase[n] \in {"ready", "released", "deleted"}
      BY <1>9, <1>i DEF SnapshotInv, AnsweredInv, TypeOK
    <2>h. PICK h \in Ids : h = handle[n]
      BY <2>1
    <2>f. /\ Found(type, n, h) \in Entry /\ Found(type, n, h).type = type
          /\ Found(type, n, h).name = n /\ Found(type, n, h).id = h
      BY DEF Entry, Found
    <2>2. PICK e \in Entry : /\ e = Found(type, n, handle[n])
                             /\ e.type = type /\ e.name = n /\ e.id = handle[n]
      BY <2>h, <2>f, Zenon
    <2>3. phase[n] = "ready" => Objs(n)[n][handle[n]].status = "AVAILABLE"
      BY <1>i, ReadyObject
    <2>4. Usable(e)
      BY <1>9, <2>1, <2>2, <2>3 DEF Usable, Objs
    <2> QED
      BY <2>2, <2>4
  <1>10. ASSUME NEW n \in Names, QuerySnapshot(n) PROVE ListInv'
    <2>1. /\ asking = "getSnapshot" /\ about = {n} /\ phase[n] # "wanted"
      BY <1>10, <1>i DEF QuerySnapshot, QueryInv
    <2>2. /\ UNCHANGED <<objects, content, pc, job, budget, about, volumes, steady>>
          /\ \/ /\ asking' = "done" /\ entries' = {Found("snapshot", n, handle[n])}
                /\ kind[n] = "snapshot"
             \/ /\ asking' = "getBackup" /\ entries' = {}
                /\ ~(kind[n] = "snapshot" /\ Exists(snaps[n][handle[n]]))
      BY <1>10 DEF QuerySnapshot, Proceed, vars
    <2>3. entries' \subseteq Entry /\ \A e \in entries' : Usable(e)
      BY <2>1, <2>2, <1>9
    <2>4. n \in steady => \/ kind[n] = "backup"
                          \/ kind[n] = "snapshot" /\ Exists(snaps[n][handle[n]])
      BY <1>i, ReadyObject DEF QueryInv, Objs, Exists
    <2>5. QueryInv'
      BY <2>1, <2>2, <2>3, <2>4, <1>i DEF QueryInv, content, Entry, Ids
    <2>6. ListsWhatIsReady'
      BY <2>1, <2>2 DEF ListsWhatIsReady, content, Found
    <2> QED
      BY <2>2, <2>3, <2>5, <2>6, <1>2
  <1>11. ASSUME NEW n \in Names, QueryBackup(n) PROVE ListInv'
    <2>1. /\ asking = "getBackup" /\ about = {n} /\ phase[n] # "wanted"
          /\ n \in steady => kind[n] = "backup"
      BY <1>11, <1>i DEF QueryBackup, QueryInv
    <2>2. /\ UNCHANGED <<objects, content, pc, job, budget, about, volumes, steady>>
          /\ asking' = "done"
          /\ \/ entries' = {Found("backup", n, handle[n])} /\ kind[n] = "backup"
             \/ entries' = {} /\ ~(kind[n] = "backup" /\ Exists(backups[n][handle[n]]))
      BY <1>11 DEF QueryBackup, Proceed, vars
    <2>3. entries' \subseteq Entry /\ \A e \in entries' : Usable(e)
      BY <2>1, <2>2, <1>9
    <2>4. n \in steady => kind[n] = "backup" /\ Exists(backups[n][handle[n]])
      BY <2>1, <1>i, ReadyObject DEF QueryInv, Objs, Exists
    <2>5. QueryInv'
      BY <2>1, <2>2, <2>3, <1>i DEF QueryInv, content, Entry, Ids
    <2>6. ListsWhatIsReady'
      BY <2>1, <2>2, <2>4 DEF ListsWhatIsReady, content, Found
    <2> QED
      BY <2>2, <2>3, <2>5, <2>6, <1>2
  <1> QED
    BY <1>1, <1>4, <1>5, <1>6, <1>7, <1>8, <1>10, <1>11 DEF QueryNext

-----------------------------------------------------------------------------
\* The results, for the handlers alone and beside queries.

\* The inductive invariant of CreateSnapshot and DeleteSnapshot holds whatever calls fail,
\* whatever answers are lost and however often the sidecar repeats a request.
THEOREM SnapshotInvariant == Spec \/ QuerySpec => []SnapshotInv
  <1>1. ListInv => SnapshotInv
    BY DEF ListInv
  <1>2. Spec => []SnapshotInv
    BY InitInv, NextInv, PTL DEF Spec
  <1>3. QuerySpec => []SnapshotInv
    BY <1>1, ListInit, ListNext, PTL DEF QuerySpec
  <1> QED
    BY <1>2, <1>3, PTL

\* What CreateSnapshot reported ready is an available snapshot, or backup, of the requested
\* volume until it is released, and a backup has left no snapshot behind but one that a call
\* that timed out made and that it was not made from.
THEOREM ReadySafe == Spec \/ QuerySpec => []ReadyIsReady
  <1>1. SnapshotInv => ReadyIsReady
    <2> SUFFICES ASSUME SnapshotInv, NEW n \in Names, phase[n] = "ready"
                 PROVE  /\ Objs(n)[n][handle[n]].status = "AVAILABLE"
                        /\ Objs(n)[n][handle[n]].volume = "own"
                        /\ kind[n] = "backup" =>
                              \A i \in Listed(snaps, n) :
                                 snaps[n][i].late /\ i # backups[n][handle[n]].of
      BY DEF ReadyIsReady, Objs
    <2> QED
      BY DEF SnapshotInv, AnsweredInv, LeftNone, InTime, Listed
  <1> QED
    BY <1>1, SnapshotInvariant, PTL

\* Repeating CreateSnapshot never takes a second snapshot or backup, unless the call for the
\* first one timed out and took effect later, and never answers two different ids.
THEOREM Idempotent == Spec \/ QuerySpec => []OneOfEach
  <1>1. SnapshotInv => OneOfEach
    <2> SUFFICES ASSUME SnapshotInv, NEW n \in Names
                 PROVE  /\ Cardinality(InTime(snaps, n)) <= 1
                        /\ Cardinality(InTime(backups, n)) <= 1 /\ Cardinality(answered[n]) <= 1
      BY DEF OneOfEach
    <2>1. NameInv(n) /\ AnsweredInv(n) /\ TypeOK
      BY DEF SnapshotInv
    <2>2. \A i, j \in answered[n] : i = j
      BY <2>1 DEF AnsweredInv
    <2> QED
      BY <2>1, <2>2, AtMostOne DEF NameInv
  <1> QED
    BY <1>1, SnapshotInvariant, PTL

\* The data is always somewhere: CreateSnapshot deletes the snapshot behind a backup only
\* once the backup is available, and nothing of another volume is ever deleted.
THEOREM DataKept == Spec \/ QuerySpec => NothingLost
  <1>1. SnapshotInv /\ [Next]_vars => [\A n \in Names, i \in Ids : LosesRightly(n, i)]_vars
    BY Losses DEF NotLost
  <1>2. SnapshotInv /\ [QueryNext]_queryVars =>
           [\A n \in Names, i \in Ids : LosesRightly(n, i)]_vars
    <2> SUFFICES ASSUME SnapshotInv, [QueryNext]_queryVars
                 PROVE  \A n \in Names, i \in Ids : LosesRightly(n, i)
      OBVIOUS
    <2>1. [Next]_vars \/ UNCHANGED objects
      BY DEF QueryNext, Handler, AskAll, AskOne, Ask, QuerySnapshots, QueryBackups, QuerySnapshot,
             QueryBackup, Proceed, QueryFails, queryVars, vars
    <2>2. CASE UNCHANGED objects
      BY <2>2 DEF objects, LosesRightly
    <2> QED
      BY <2>1, <2>2, Losses DEF NotLost
  <1>3. Spec => NothingLost
    BY <1>1, SnapshotInvariant, PTL DEF Spec, NothingLost
  <1>4. QuerySpec => NothingLost
    BY <1>2, SnapshotInvariant, PTL DEF QuerySpec, NothingLost
  <1> QED
    BY <1>3, <1>4

\* An answer of ListSnapshots, put together from two calls while CreateSnapshot turns
\* snapshots into backups and DeleteSnapshot removes both, misses nothing that was ready all
\* the time and lists nothing that cannot be used.
THEOREM ListingsTrue == QuerySpec => []ListingTrue
  <1>1. ListInv => ListingTrue
    BY DEF ListInv
  <1> QED
    BY <1>1, ListInit, ListNext, PTL DEF QuerySpec

=============================================================================
