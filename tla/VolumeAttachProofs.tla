-------------------------- MODULE VolumeAttachProofs --------------------------
(***************************************************************************)
(* Proofs about VolumeAttach, VolumeLife and VolumeReconcile, for any      *)
(* number of volumes, nodes, lanes and disturbances: what the attach and   *)
(* detach handlers answer is true and stays true, every volume is an       *)
(* ExclusiveVolume, and what of it outlasts an operator who detaches       *)
(* volumes behind the driver's back and a driver that crashes.             *)
(***************************************************************************)
EXTENDS VolumeLife, VolumeReconcile, TLAPS

\* What the API keeps about a volume.
ShapeInv(v) ==
    /\ status[v] \in {"NONE", "AVAILABLE"} => server[v] = None /\ target[v] = None
    /\ status[v] = "ATTACHING" => server[v] = None /\ target[v] \in servers
    /\ status[v] = "ATTACHED"  => server[v] \in servers /\ target[v] = None
    /\ status[v] = "DETACHING" => server[v] \in servers /\ target[v] = server[v]

\* What a handler knows about its volume between two calls.  A handler that works has no
\* answer out; one that unpublishes cannot be followed by one that publishes before it has
\* answered; what the publishing one read of its own server is still so; and the detaching
\* one has seen that no attachment to its node is under way.
HandlerInv(v, n) ==
    /\ pc[v][n] # "idle" => result[v][n] = "none"
    /\ pc[v][n] \in UnpublishCalls => ~want[v][n]
    /\ pc[v][n] = "publishServer" /\ seen[v][n].server = n /\ n \in servers
          => status[v] = "ATTACHED" /\ server[v] = n
    /\ pc[v][n] \in {"detach", "waitDetached"} => ~(status[v] = "ATTACHING" /\ target[v] = n)
    /\ status[v] = "DETACHING" /\ server[v] = n => ~want[v][n] /\ pc[v][n] \notin PublishCalls

\* Everything about one volume: the properties are two conjuncts of it.
VolumeInv(v) ==
    /\ ShapeInv(v)
    /\ \A n \in Nodes :
          /\ HandlerInv(v, n)
          /\ result[v][n] = "published" /\ n \in servers => status[v] = "ATTACHED" /\ server[v] = n
          /\ result[v][n] = "unpublished" => server[v] # n /\ target[v] # n

AttachInv == TypeOK /\ \A v \in Volumes : VolumeInv(v)

-----------------------------------------------------------------------------
\* Types.

\* Writing one cell of a table, or one entry of a function, keeps its type.
LEMMA CellType ==
  ASSUME NEW A, NEW B, NEW C, NEW f \in [A -> [B -> C]], NEW a \in A, NEW b \in B, NEW c \in C
  PROVE  [f EXCEPT ![a][b] = c] \in [A -> [B -> C]]
  OBVIOUS

LEMMA InitType == Init => TypeOK
  BY AttachAssumption DEF Init, TypeOK, Statuses, PublishCalls, UnpublishCalls, Unseen

SeenType == [status : Statuses, server : Nodes \cup {None}]
CallType == PublishCalls \cup UnpublishCalls \cup {"idle"}
ResultType == {"none", "published", "unpublished"}
DeleterType == {"idle", "check", "delete", "deleted"}

\* TypeOK with its tables named.
LEMMA TypeTables ==
  TypeOK <=> /\ status \in [Volumes -> Statuses]
             /\ server \in [Volumes -> Nodes \cup {None}]
             /\ target \in [Volumes -> Nodes \cup {None}]
             /\ servers \in SUBSET Nodes
             /\ want \in [Volumes -> [Nodes -> BOOLEAN]]
             /\ result \in [Volumes -> [Nodes -> ResultType]]
             /\ pc \in [Volumes -> [Nodes -> CallType]]
             /\ seen \in [Volumes -> [Nodes -> SeenType]]
             /\ deleter \in [Volumes -> DeleterType]
             /\ budget \in Nat
  BY DEF TypeOK, SeenType, CallType, ResultType, DeleterType

LEMMA TypeValues ==
  /\ {"NONE", "AVAILABLE", "ATTACHING", "ATTACHED", "DETACHING"} \subseteq Statuses
  /\ PublishCalls \subseteq CallType /\ UnpublishCalls \subseteq CallType /\ "idle" \in CallType
  /\ {"publishGet", "publishServer", "attachGet", "attach", "waitAttached"} \subseteq CallType
  /\ {"unpublishServer", "detachGet", "detach", "waitDetached"} \subseteq CallType
  /\ {"none", "published", "unpublished"} \subseteq ResultType
  /\ {"idle", "check", "delete", "deleted"} \subseteq DeleterType
  /\ Unseen \in SeenType
  /\ \A x \in Statuses, y \in Nodes \cup {None} : [status |-> x, server |-> y] \in SeenType
  BY DEF Statuses, CallType, PublishCalls, UnpublishCalls, ResultType, DeleterType, SeenType, Unseen

\* A step of the handler of v and n writes its own cells only.
LEMMA HandlerType ==
  ASSUME TypeOK, NEW v \in Volumes, NEW n \in Nodes,
         NEW call \in CallType, NEW r \in ResultType, NEW s \in SeenType,
         pc' = [pc EXCEPT ![v][n] = call],
         result' = [result EXCEPT ![v][n] = r] \/ result' = result,
         seen' = [seen EXCEPT ![v][n] = s] \/ seen' = seen,
         want' = want, deleter' = deleter, budget' \in Nat,
         status' \in [Volumes -> Statuses], server' = server, servers' = servers,
         target' \in [Volumes -> Nodes \cup {None}]
  PROVE  TypeOK'
  <1>1. pc' \in [Volumes -> [Nodes -> CallType]]
    BY CellType, TypeTables
  <1>2. result' \in [Volumes -> [Nodes -> ResultType]]
    <2>1. [result EXCEPT ![v][n] = r] \in [Volumes -> [Nodes -> ResultType]]
      BY CellType, TypeTables
    <2> QED
      BY <2>1, TypeTables
  <1>3. seen' \in [Volumes -> [Nodes -> SeenType]]
    <2>1. [seen EXCEPT ![v][n] = s] \in [Volumes -> [Nodes -> SeenType]]
      BY CellType, TypeTables
    <2> QED
      BY <2>1, TypeTables
  <1> QED
    BY <1>1, <1>2, <1>3, TypeTables DEF TypeOK, SeenType, CallType, ResultType, DeleterType

LEMMA NextType == TypeOK /\ [Next]_vars => TypeOK'
  <1> SUFFICES ASSUME TypeOK, [Next]_vars
               PROVE  TypeOK'
    OBVIOUS
  <1>t. /\ status \in [Volumes -> Statuses]
        /\ target \in [Volumes -> Nodes \cup {None}]
        /\ budget \in Nat
    BY TypeTables
  <1>b. Disturb => budget' \in Nat
    BY <1>t DEF Disturb
  <1>f. ASSUME NEW v \in Volumes, NEW n \in Nodes, NEW r \in ResultType,
               Answer(v, n, r), budget' \in Nat,
               status' \in [Volumes -> Statuses], server' = server, servers' = servers,
               target' \in [Volumes -> Nodes \cup {None}]
        PROVE  TypeOK'
    BY <1>f, HandlerType, TypeValues DEF Answer
  <1>c. ASSUME NEW v \in Volumes, NEW n \in Nodes, NEW next \in CallType, Continue(v, n, next),
               status' \in [Volumes -> Statuses], server' = server, servers' = servers,
               target' \in [Volumes -> Nodes \cup {None}]
        PROVE  TypeOK'
    BY <1>c, <1>t, HandlerType, TypeValues DEF Continue
  <1>1. ASSUME NEW v \in Volumes, NEW n \in Nodes, StartPublish(v, n) \/ StartUnpublish(v, n)
        PROVE  TypeOK'
    BY <1>1, <1>t, HandlerType, TypeValues DEF StartPublish, StartUnpublish, iaas
  <1>2. ASSUME NEW v \in Volumes, NEW n \in Nodes, Publish(v, n)
        PROVE  TypeOK'
    <2>1. CASE PublishGetVolume(v, n)
      <3>1. [status |-> status[v], server |-> server[v]] \in SeenType
        BY TypeTables, TypeValues
      <3>2. CASE status[v] = "NONE"
        BY <2>1, <3>2, <1>f, <1>t, TypeValues DEF PublishGetVolume, Finish, iaas
      <3>3. CASE status[v] # "NONE"
        BY <2>1, <3>1, <3>3, <1>t, HandlerType, TypeValues DEF PublishGetVolume, iaas
      <3> QED
        BY <3>2, <3>3
    <2>2. CASE PublishGetServer(v, n)
      BY <2>2, <1>f, <1>c, <1>t, TypeValues DEF PublishGetServer, Finish, iaas
    <2>3. CASE AttachGetVolume(v, n)
      BY <2>3, <1>f, <1>c, <1>t, TypeValues DEF AttachGetVolume, Finish, iaas
    <2>4. CASE AddVolumeToServer(v, n)
      <3> DEFINE room == status[v] = "AVAILABLE" /\ n \in servers /\ Load(n) < NodeCapacity
      <3>1. CASE ~room
        BY <2>4, <3>1, <1>f, <1>t, TypeValues DEF AddVolumeToServer, Finish, iaas
      <3>2. CASE room
        <4>1. /\ status' = [status EXCEPT ![v] = "ATTACHING"]
              /\ target' = [target EXCEPT ![v] = n]
              /\ server' = server /\ servers' = servers
              /\ Continue(v, n, "waitAttached") \/ (Disturb /\ Answer(v, n, "none"))
          BY <2>4, <3>2 DEF AddVolumeToServer
        <4> QED
          BY <4>1, <1>b, <1>c, <1>f, <1>t, TypeValues
      <3> QED
        BY <3>1, <3>2
    <2>5. CASE WaitDiskAttached(v, n)
      BY <2>5, <1>f, <1>t, TypeValues DEF WaitDiskAttached, Finish, iaas
    <2> QED
      BY <1>2, <2>1, <2>2, <2>3, <2>4, <2>5 DEF Publish
  <1>3. ASSUME NEW v \in Volumes, NEW n \in Nodes, Unpublish(v, n)
        PROVE  TypeOK'
    <2>1. CASE UnpublishGetServer(v, n)
      BY <2>1, <1>f, <1>c, <1>t, TypeValues DEF UnpublishGetServer, Finish, iaas
    <2>2. CASE DetachGetVolume(v, n)
      <3>1. status[v] \in {"NONE", "AVAILABLE", "ATTACHING", "ATTACHED", "DETACHING"}
        BY <1>t DEF Statuses
      <3> QED
        BY <2>2, <3>1, <1>f, <1>c, <1>t, TypeValues DEF DetachGetVolume, Finish, iaas
    <2>3. CASE RemoveVolumeFromServer(v, n)
      <3> DEFINE here == status[v] = "ATTACHED" /\ server[v] = n
      <3>1. CASE ~here
        BY <2>3, <3>1, <1>f, <1>t, TypeValues DEF RemoveVolumeFromServer, Finish, iaas
      <3>2. CASE here
        <4>1. /\ status' = [status EXCEPT ![v] = "DETACHING"]
              /\ target' = [target EXCEPT ![v] = n]
              /\ server' = server /\ servers' = servers
              /\ Continue(v, n, "waitDetached") \/ (Disturb /\ Answer(v, n, "none"))
          BY <2>3, <3>2 DEF RemoveVolumeFromServer
        <4> QED
          BY <4>1, <1>b, <1>c, <1>f, <1>t, TypeValues
      <3> QED
        BY <3>1, <3>2
    <2>4. CASE WaitDiskDetached(v, n)
      BY <2>4, <1>f, <1>t, TypeValues DEF WaitDiskDetached, Finish, iaas
    <2> QED
      BY <1>3, <2>1, <2>2, <2>3, <2>4 DEF Unpublish
  <1>4. ASSUME NEW v \in Volumes, NEW n \in Nodes, CallFails(v, n)
        PROVE  TypeOK'
    BY <1>4, <1>b, <1>f, <1>t, TypeValues DEF CallFails, iaas
  <1>5. ASSUME NEW v \in Volumes, NEW n \in Nodes, ChangeWant(v, n)
        PROVE  TypeOK'
    BY <1>5, <1>b DEF ChangeWant, TypeOK, iaas
  <1>6. ASSUME NEW v \in Volumes, Delete(v)
        PROVE  TypeOK'
    <2>1. /\ deleter' \in [Volumes -> DeleterType] /\ budget' \in Nat
          /\ status' \in [Volumes -> Statuses]
      <3>1. CASE StartDelete(v)
        BY <3>1, TypeTables, TypeValues DEF StartDelete, iaas
      <3>2. CASE DeleteCheck(v)
        BY <3>2, TypeTables, TypeValues DEF DeleteCheck, iaas
      <3>3. CASE DeleteVolume(v)
        <4>1. budget' \in Nat
          BY <3>3, <1>b, <1>t DEF DeleteVolume
        <4>2. status' = [status EXCEPT ![v] = "NONE"] \/ status' = status
          BY <3>3 DEF DeleteVolume
        <4>3. \/ deleter' = [deleter EXCEPT ![v] = "deleted"]
              \/ deleter' = [deleter EXCEPT ![v] = "idle"]
          BY <3>3 DEF DeleteVolume
        <4>4. status' \in [Volumes -> Statuses]
          BY <4>2, <1>t, TypeValues
        <4>5. deleter' \in [Volumes -> DeleterType]
          BY <4>3, TypeTables, TypeValues
        <4> QED
          BY <4>1, <4>4, <4>5
      <3> QED
        BY <1>6, <3>1, <3>2, <3>3 DEF Delete
    <2>2. UNCHANGED <<server, target, servers, want, result, pc, seen>>
      BY <1>6 DEF Delete, StartDelete, DeleteCheck, DeleteVolume, iaas
    <2> QED
      BY <2>1, <2>2 DEF TypeOK, DeleterType
  <1>7. ASSUME NEW v \in Volumes, IaasStep(v)
        PROVE  TypeOK'
    <2>1. /\ status' \in [Volumes -> Statuses]
          /\ server' \in [Volumes -> Nodes \cup {None}]
          /\ target' \in [Volumes -> Nodes \cup {None}]
          /\ budget' \in Nat
      <3>1. budget' \in Nat
        BY <1>7, <1>b, <1>t DEF IaasStep, AttachDone, DetachDone
      <3>2. \/ status' = [status EXCEPT ![v] = "ATTACHED"]
            \/ status' = [status EXCEPT ![v] = "AVAILABLE"]
        BY <1>7 DEF IaasStep, AttachDone, DetachDone
      <3>3. \/ server' = [server EXCEPT ![v] = target[v]] \/ server' = server
            \/ server' = [server EXCEPT ![v] = None]
        BY <1>7 DEF IaasStep, AttachDone, DetachDone
      <3>4. target' = [target EXCEPT ![v] = None]
        BY <1>7 DEF IaasStep, AttachDone, DetachDone
      <3>5. status' \in [Volumes -> Statuses]
        BY <3>2, <1>t, TypeValues
      <3>6. server' \in [Volumes -> Nodes \cup {None}]
        BY <3>3, <1>t, TypeTables
      <3>7. target' \in [Volumes -> Nodes \cup {None}]
        BY <3>4, <1>t
      <3> QED
        BY <3>1, <3>5, <3>6, <3>7
    <2>2. UNCHANGED <<servers, want, result, pc, seen, deleter>>
      BY <1>7 DEF IaasStep, AttachDone, DetachDone
    <2> QED
      BY <2>1, <2>2 DEF TypeOK
  <1>8. ASSUME NEW n \in Nodes, DeleteServer(n)
        PROVE  TypeOK'
    <2>1. /\ status' \in [Volumes -> Statuses]
          /\ server' \in [Volumes -> Nodes \cup {None}]
          /\ target' \in [Volumes -> Nodes \cup {None}]
          /\ servers' \in SUBSET Nodes /\ budget' \in Nat
      BY <1>8, <1>b, TypeTables, TypeValues DEF DeleteServer
    <2> QED
      BY <1>8, <2>1 DEF TypeOK, DeleteServer
  <1>9. CASE UNCHANGED vars
    BY <1>9 DEF vars, iaas, TypeOK
  <1> QED
    BY <1>1, <1>2, <1>3, <1>4, <1>5, <1>6, <1>7, <1>8, <1>9 DEF Next, Handler

-----------------------------------------------------------------------------
\* The invariant of a volume.

LEMMA InitInv == Init => AttachInv
  <1> SUFFICES ASSUME Init PROVE AttachInv
    OBVIOUS
  <1>1. ASSUME NEW v \in Volumes PROVE VolumeInv(v)
    BY AttachAssumption DEF Init, VolumeInv, ShapeInv, HandlerInv, UnpublishCalls, PublishCalls
  <1> QED
    BY <1>1, InitType DEF AttachInv

\* A volume nobody touches.
LEMMA Untouched ==
  ASSUME NEW w \in Volumes, VolumeInv(w), servers' = servers,
         status'[w] = status[w], server'[w] = server[w], target'[w] = target[w],
         pc'[w] = pc[w], result'[w] = result[w], seen'[w] = seen[w], want'[w] = want[w]
  PROVE  VolumeInv(w)'
  BY DEF VolumeInv, ShapeInv, HandlerInv

\* What an answer, or going on, changes.
LEMMA AnswerCells ==
  ASSUME TypeOK, NEW v \in Volumes, NEW n \in Nodes, NEW r, Answer(v, n, r)
  PROVE  /\ pc'[v][n] = "idle" /\ result'[v][n] = r /\ want' = want
         /\ \A m \in Nodes \ {n} :
               pc'[v][m] = pc[v][m] /\ result'[v][m] = result[v][m] /\ seen'[v][m] = seen[v][m]
         /\ \A w \in Volumes \ {v} : pc'[w] = pc[w] /\ result'[w] = result[w] /\ seen'[w] = seen[w]
  BY DEF TypeOK, Answer

LEMMA ContinueCells ==
  ASSUME TypeOK, NEW v \in Volumes, NEW n \in Nodes, NEW next, Continue(v, n, next)
  PROVE  /\ pc'[v][n] = next
         /\ result' = result /\ want' = want /\ seen' = seen
         /\ \A m \in Nodes \ {n} : pc'[v][m] = pc[v][m]
         /\ \A w \in Volumes \ {v} : pc'[w] = pc[w]
  BY DEF TypeOK, Continue

\* Answers that leave the API alone: an error, or a true one.
LEMMA AnswerInv ==
  ASSUME AttachInv, NEW v \in Volumes, NEW n \in Nodes, NEW r,
         Answer(v, n, r), UNCHANGED iaas,
         pc[v][n] \in UnpublishCalls => r # "published",
         r = "published" /\ n \in servers => status[v] = "ATTACHED" /\ server[v] = n,
         r = "unpublished" => server[v] # n /\ target[v] # n
  PROVE  \A w \in Volumes : VolumeInv(w)'
  <1>1. ASSUME NEW w \in Volumes \ {v} PROVE VolumeInv(w)'
    BY <1>1, AnswerCells, Untouched DEF AttachInv, iaas
  <1>2. VolumeInv(v)'
    BY AnswerCells DEF AttachInv, VolumeInv, ShapeInv, HandlerInv, iaas, PublishCalls, UnpublishCalls
  <1> QED
    BY <1>1, <1>2

LEMMA ContinueInv ==
  ASSUME AttachInv, NEW v \in Volumes, NEW n \in Nodes, NEW next,
         Continue(v, n, next), UNCHANGED iaas, pc[v][n] # "idle",
         \/ pc[v][n] \in PublishCalls /\ next \in {"attachGet", "attach", "waitAttached"}
         \/ pc[v][n] \in UnpublishCalls /\ next = "detachGet"
         \/ /\ pc[v][n] \in UnpublishCalls /\ next \in {"detach", "waitDetached"}
            /\ status[v] # "ATTACHING"
  PROVE  \A w \in Volumes : VolumeInv(w)'
  <1>1. ASSUME NEW w \in Volumes \ {v} PROVE VolumeInv(w)'
    BY <1>1, ContinueCells, Untouched DEF AttachInv, iaas
  <1>2. VolumeInv(v)'
    BY ContinueCells DEF AttachInv, VolumeInv, ShapeInv, HandlerInv, iaas, PublishCalls, UnpublishCalls
  <1> QED
    BY <1>1, <1>2

\* The API takes up an attachment or a detachment, and the handler waits for it or learns
\* nothing of it.
LEMMA BeginInv ==
  ASSUME AttachInv, NEW v \in Volumes, NEW n \in Nodes, NEW next,
         Continue(v, n, next) \/ Answer(v, n, "none"),
         NEW s, status' = [status EXCEPT ![v] = s], target' = [target EXCEPT ![v] = n],
         server' = server, servers' = servers,
         \/ /\ pc[v][n] = "attach" /\ next = "waitAttached"
            /\ status[v] = "AVAILABLE" /\ s = "ATTACHING" /\ n \in servers
         \/ /\ pc[v][n] = "detach" /\ next = "waitDetached"
            /\ status[v] = "ATTACHED" /\ s = "DETACHING" /\ server[v] = n
  PROVE  \A w \in Volumes : VolumeInv(w)'
  <1>t. TypeOK /\ VolumeInv(v)
    BY DEF AttachInv
  <1>a. /\ status'[v] = s /\ target'[v] = n /\ server'[v] = server[v]
        /\ \A w \in Volumes \ {v} : status'[w] = status[w] /\ target'[w] = target[w]
    BY <1>t DEF TypeOK
  <1>c. /\ pc'[v][n] \in {next, "idle"} /\ result'[v][n] = "none" /\ want' = want
        /\ \A m \in Nodes \ {n} :
              pc'[v][m] = pc[v][m] /\ result'[v][m] = result[v][m] /\ seen'[v][m] = seen[v][m]
        /\ \A w \in Volumes \ {v} : pc'[w] = pc[w] /\ result'[w] = result[w] /\ seen'[w] = seen[w]
    <2>1. CASE Continue(v, n, next)
      <3>1. result[v][n] = "none"
        BY <1>t DEF VolumeInv, HandlerInv
      <3> QED
        BY <2>1, <3>1, <1>t, ContinueCells
    <2>2. CASE Answer(v, n, "none")
      BY <2>2, <1>t, AnswerCells
    <2> QED
      BY <2>1, <2>2
  <1>1. ASSUME NEW w \in Volumes \ {v} PROVE VolumeInv(w)'
    BY <1>1, <1>a, <1>c, Untouched DEF AttachInv
  <1>2. VolumeInv(v)'
    <2>1. CASE s = "ATTACHING"
      BY <2>1, <1>t, <1>a, <1>c, AttachAssumption
      DEF VolumeInv, ShapeInv, HandlerInv, PublishCalls, UnpublishCalls
    <2>2. CASE s = "DETACHING"
      BY <2>2, <1>t, <1>a, <1>c, AttachAssumption
      DEF VolumeInv, ShapeInv, HandlerInv, PublishCalls, UnpublishCalls
    <2> QED
      BY <2>1, <2>2
  <1> QED
    BY <1>1, <1>2

\* Every step keeps the invariant of every volume.
LEMMA NextInv == AttachInv /\ [Next]_vars => AttachInv'
  <1> SUFFICES ASSUME AttachInv, [Next]_vars
               PROVE  AttachInv'
    OBVIOUS
  <1>t. TypeOK /\ TypeOK'
    BY NextType DEF AttachInv
  <1>s. SUFFICES \A w \in Volumes : VolumeInv(w)'
    BY <1>t DEF AttachInv
  <1>d. ASSUME NEW v \in Volumes, NEW n \in Nodes, pc[v][n] \in {"detach", "waitDetached"},
               status[v] = "NONE" \/ server[v] # n
        PROVE  server[v] # n /\ target[v] # n
    <2>1. status[v] \in {"NONE", "AVAILABLE", "ATTACHING", "ATTACHED", "DETACHING"}
      BY <1>t DEF TypeOK, Statuses
    <2> QED
      BY <1>d, <2>1, AttachAssumption DEF AttachInv, VolumeInv, ShapeInv, HandlerInv
  <1>1. ASSUME NEW v \in Volumes, NEW n \in Nodes, StartPublish(v, n) \/ StartUnpublish(v, n)
        PROVE  \A w \in Volumes : VolumeInv(w)'
    <2>1. /\ pc[v][n] = "idle" /\ result'[v][n] = "none"
          /\ \/ want[v][n] /\ pc'[v][n] = "publishGet"
             \/ ~want[v][n] /\ pc'[v][n] = "unpublishServer"
          /\ UNCHANGED <<iaas, want, seen>>
          /\ \A m \in Nodes \ {n} : pc'[v][m] = pc[v][m] /\ result'[v][m] = result[v][m]
          /\ \A w \in Volumes \ {v} : pc'[w] = pc[w] /\ result'[w] = result[w]
      BY <1>1, <1>t DEF StartPublish, StartUnpublish, TypeOK
    <2>2. ASSUME NEW w \in Volumes \ {v} PROVE VolumeInv(w)'
      BY <2>1, <2>2, Untouched DEF AttachInv, iaas
    <2>3. VolumeInv(v)'
      BY <2>1 DEF AttachInv, VolumeInv, ShapeInv, HandlerInv, iaas, PublishCalls, UnpublishCalls
    <2> QED
      BY <2>2, <2>3
  <1>2. ASSUME NEW v \in Volumes, NEW n \in Nodes, Publish(v, n)
        PROVE  \A w \in Volumes : VolumeInv(w)'
    <2>1. CASE PublishGetVolume(v, n)
      <3>1. CASE status[v] = "NONE"
        BY <2>1, <3>1, AnswerInv DEF PublishGetVolume, Finish, UnpublishCalls
      <3>2. CASE status[v] # "NONE"
        <4>1. /\ pc[v][n] = "publishGet" /\ pc'[v][n] = "publishServer"
              /\ seen'[v][n].server = server[v]
              /\ UNCHANGED <<iaas, want, result>>
              /\ \A m \in Nodes \ {n} : pc'[v][m] = pc[v][m] /\ seen'[v][m] = seen[v][m]
              /\ \A w \in Volumes \ {v} : pc'[w] = pc[w] /\ seen'[w] = seen[w]
          BY <2>1, <3>2, <1>t DEF PublishGetVolume, TypeOK
        <4>2. ASSUME NEW w \in Volumes \ {v} PROVE VolumeInv(w)'
          BY <4>1, <4>2, Untouched DEF AttachInv, iaas
        <4>3. status[v] \in {"NONE", "AVAILABLE", "ATTACHING", "ATTACHED", "DETACHING"}
          BY <1>t DEF TypeOK, Statuses
        <4>4. server[v] = n => status[v] = "ATTACHED"
          BY <4>1, <4>3, AttachAssumption
          DEF AttachInv, VolumeInv, ShapeInv, HandlerInv, PublishCalls
        <4>5. VolumeInv(v)'
          BY <4>1, <4>4 DEF AttachInv, VolumeInv, ShapeInv, HandlerInv, iaas, PublishCalls, UnpublishCalls
        <4> QED
          BY <4>2, <4>5
      <3> QED
        BY <3>1, <3>2
    <2>2. CASE PublishGetServer(v, n)
      <3>1. CASE Finish(v, n, "none")
        BY <2>2, <3>1, AnswerInv DEF PublishGetServer, Finish, UnpublishCalls
      <3>2. CASE n \in servers /\ seen[v][n].server = n /\ Finish(v, n, "published")
        <4>1. status[v] = "ATTACHED" /\ server[v] = n /\ pc[v][n] \notin UnpublishCalls
          BY <2>2, <3>2 DEF PublishGetServer, AttachInv, VolumeInv, HandlerInv, UnpublishCalls
        <4> QED
          BY <2>2, <3>2, <4>1, AnswerInv DEF PublishGetServer, Finish
      <3>3. CASE Continue(v, n, "attachGet")
        BY <2>2, <3>3, ContinueInv DEF PublishGetServer, PublishCalls
      <3> QED
        BY <2>2, <3>1, <3>2, <3>3 DEF PublishGetServer
    <2>3. CASE AttachGetVolume(v, n)
      <3>1. CASE Finish(v, n, "none")
        BY <2>3, <3>1, AnswerInv DEF AttachGetVolume, Finish, UnpublishCalls
      <3>2. CASE Continue(v, n, "waitAttached") \/ Continue(v, n, "attach")
        BY <2>3, <3>2, ContinueInv DEF AttachGetVolume, PublishCalls
      <3> QED
        BY <2>3, <3>1, <3>2 DEF AttachGetVolume
    <2>4. CASE AddVolumeToServer(v, n)
      <3> DEFINE room == status[v] = "AVAILABLE" /\ n \in servers /\ Load(n) < NodeCapacity
      <3>1. CASE ~room
        BY <2>4, <3>1, AnswerInv DEF AddVolumeToServer, Finish, UnpublishCalls
      <3>2. CASE room
        BY <2>4, <3>2, BeginInv DEF AddVolumeToServer
      <3> QED
        BY <3>1, <3>2
    <2>5. CASE WaitDiskAttached(v, n)
      <3>1. CASE Finish(v, n, "none")
        BY <2>5, <3>1, AnswerInv DEF WaitDiskAttached, Finish, UnpublishCalls
      <3>2. CASE status[v] # "NONE" /\ server[v] = n /\ Finish(v, n, "published")
        <4>1. status[v] \in {"NONE", "AVAILABLE", "ATTACHING", "ATTACHED", "DETACHING"}
          BY <1>t DEF TypeOK, Statuses
        <4>2. status[v] = "ATTACHED" /\ pc[v][n] \notin UnpublishCalls
          BY <2>5, <3>2, <4>1, AttachAssumption
          DEF WaitDiskAttached, AttachInv, VolumeInv, ShapeInv, HandlerInv, PublishCalls, UnpublishCalls
        <4> QED
          BY <2>5, <3>2, <4>2, AnswerInv DEF WaitDiskAttached, Finish
      <3> QED
        BY <2>5, <3>1, <3>2 DEF WaitDiskAttached
    <2> QED
      BY <1>2, <2>1, <2>2, <2>3, <2>4, <2>5 DEF Publish
  <1>3. ASSUME NEW v \in Volumes, NEW n \in Nodes, Unpublish(v, n)
        PROVE  \A w \in Volumes : VolumeInv(w)'
    <2>e. status[v] \in {"NONE", "AVAILABLE", "ATTACHING", "ATTACHED", "DETACHING"}
      BY <1>t DEF TypeOK, Statuses
    <2>1. CASE UnpublishGetServer(v, n)
      <3>1. CASE n \in servers
        BY <2>1, <3>1, ContinueInv DEF UnpublishGetServer, UnpublishCalls
      <3>2. CASE n \notin servers
        <4>1. server[v] # n /\ target[v] # n
          BY <2>e, <3>2, AttachAssumption DEF AttachInv, VolumeInv, ShapeInv
        <4> QED
          BY <2>1, <3>2, <4>1, AnswerInv DEF UnpublishGetServer, Finish
      <3> QED
        BY <3>1, <3>2
    <2>2. CASE DetachGetVolume(v, n)
      <3>1. CASE status[v] = "NONE"
        <4>1. server[v] # n /\ target[v] # n
          BY <3>1, AttachAssumption DEF AttachInv, VolumeInv, ShapeInv
        <4> QED
          BY <2>2, <3>1, <4>1, AnswerInv DEF DetachGetVolume, Finish
      <3>2. CASE status[v] \in {"AVAILABLE", "ATTACHED"}
        <4>1. Continue(v, n, "detach") \/ Continue(v, n, "waitDetached")
          BY <2>2, <3>2 DEF DetachGetVolume
        <4> QED
          BY <2>2, <3>2, <4>1, ContinueInv DEF DetachGetVolume, UnpublishCalls
      <3>3. CASE status[v] \in {"ATTACHING", "DETACHING"}
        BY <2>2, <3>3, AnswerInv DEF DetachGetVolume, Finish
      <3> QED
        BY <2>e, <3>1, <3>2, <3>3
    <2>3. CASE RemoveVolumeFromServer(v, n)
      <3> DEFINE here == status[v] = "ATTACHED" /\ server[v] = n
      <3>1. CASE ~here /\ server[v] = n
        BY <2>3, <3>1, AnswerInv DEF RemoveVolumeFromServer, Finish
      <3>2. CASE server[v] # n
        <4>1. server[v] # n /\ target[v] # n
          BY <2>3, <3>2, <1>d DEF RemoveVolumeFromServer
        <4> QED
          BY <2>3, <3>2, <4>1, AnswerInv DEF RemoveVolumeFromServer, Finish
      <3>3. CASE here
        BY <2>3, <3>3, BeginInv DEF RemoveVolumeFromServer
      <3> QED
        BY <3>1, <3>2, <3>3
    <2>4. CASE WaitDiskDetached(v, n)
      <3>1. CASE Finish(v, n, "none")
        BY <2>4, <3>1, AnswerInv DEF WaitDiskDetached, Finish
      <3>2. CASE (status[v] = "NONE" \/ server[v] # n) /\ Finish(v, n, "unpublished")
        <4>1. server[v] # n /\ target[v] # n
          BY <2>4, <3>2, <1>d DEF WaitDiskDetached
        <4> QED
          BY <2>4, <3>2, <4>1, AnswerInv DEF WaitDiskDetached, Finish
      <3> QED
        BY <2>4, <3>1, <3>2 DEF WaitDiskDetached
    <2> QED
      BY <1>3, <2>1, <2>2, <2>3, <2>4 DEF Unpublish
  <1>4. ASSUME NEW v \in Volumes, NEW n \in Nodes, CallFails(v, n)
        PROVE  \A w \in Volumes : VolumeInv(w)'
    BY <1>4, AnswerInv DEF CallFails
  <1>5. ASSUME NEW v \in Volumes, NEW n \in Nodes, ChangeWant(v, n)
        PROVE  \A w \in Volumes : VolumeInv(w)'
    <2>1. /\ want[v][n] \/ result[v][n] = "unpublished"
          /\ want'[v][n] = ~want[v][n]
          /\ UNCHANGED <<iaas, result, pc, seen>>
          /\ \A m \in Nodes \ {n} : want'[v][m] = want[v][m]
          /\ \A w \in Volumes \ {v} : want'[w] = want[w]
      BY <1>5, <1>t DEF ChangeWant, TypeOK
    <2>2. ASSUME NEW w \in Volumes \ {v} PROVE VolumeInv(w)'
      BY <2>1, <2>2, Untouched DEF AttachInv, iaas
    <2>3. VolumeInv(v)'
      BY <2>1 DEF AttachInv, VolumeInv, ShapeInv, HandlerInv, iaas, PublishCalls, UnpublishCalls
    <2> QED
      BY <2>2, <2>3
  <1>6. ASSUME NEW v \in Volumes, Delete(v)
        PROVE  \A w \in Volumes : VolumeInv(w)'
    <2>1. UNCHANGED <<server, target, servers, want, result, pc, seen>>
      BY <1>6 DEF Delete, StartDelete, DeleteCheck, DeleteVolume, iaas
    <2>2. \/ status' = status
          \/ status[v] = "AVAILABLE" /\ status' = [status EXCEPT ![v] = "NONE"]
      BY <1>6 DEF Delete, StartDelete, DeleteCheck, DeleteVolume, iaas
    <2>3. /\ \A w \in Volumes \ {v} : status'[w] = status[w]
          /\ status'[v] = status[v] \/ (status[v] = "AVAILABLE" /\ status'[v] = "NONE")
      BY <2>2, <1>t DEF TypeOK
    <2>4. ASSUME NEW w \in Volumes \ {v} PROVE VolumeInv(w)'
      BY <2>1, <2>3, <2>4, Untouched DEF AttachInv
    <2>5. VolumeInv(v)'
      BY <2>1, <2>3 DEF AttachInv, VolumeInv, ShapeInv, HandlerInv
    <2> QED
      BY <2>4, <2>5
  <1>7. ASSUME NEW v \in Volumes, IaasStep(v)
        PROVE  \A w \in Volumes : VolumeInv(w)'
    <2>1. UNCHANGED <<servers, want, result, pc, seen>>
      BY <1>7 DEF IaasStep, AttachDone, DetachDone
    <2>2. ASSUME NEW w \in Volumes \ {v}
          PROVE  status'[w] = status[w] /\ server'[w] = server[w] /\ target'[w] = target[w]
      BY <1>7, <2>2, <1>t DEF IaasStep, AttachDone, DetachDone, TypeOK
    <2>3. \/ /\ status[v] = "ATTACHING" /\ status'[v] = "ATTACHED"
             /\ server'[v] = target[v] /\ target'[v] = None
          \/ /\ status[v] = "ATTACHING" /\ status'[v] = "AVAILABLE"
             /\ server'[v] = server[v] /\ target'[v] = None
          \/ /\ status[v] = "DETACHING" /\ status'[v] = "AVAILABLE"
             /\ server'[v] = None /\ target'[v] = None
      BY <1>7, <1>t DEF IaasStep, AttachDone, DetachDone, TypeOK
    <2>4. ASSUME NEW w \in Volumes \ {v} PROVE VolumeInv(w)'
      BY <2>1, <2>2, <2>4, Untouched DEF AttachInv
    <2>5. VolumeInv(v)'
      BY <2>1, <2>3, AttachAssumption
      DEF AttachInv, VolumeInv, ShapeInv, HandlerInv, PublishCalls, UnpublishCalls
    <2> QED
      BY <2>4, <2>5
  <1>8. ASSUME NEW n \in Nodes, DeleteServer(n), NEW w \in Volumes
        PROVE  VolumeInv(w)'
    <2>e. status[w] \in {"NONE", "AVAILABLE", "ATTACHING", "ATTACHED", "DETACHING"}
      BY <1>t DEF TypeOK, Statuses
    <2>1. servers' = servers \ {n} /\ UNCHANGED <<want, result, pc, seen>>
      BY <1>8 DEF DeleteServer
    <2>2. /\ status'[w] = IF server[w] = n \/ target[w] = n THEN "AVAILABLE" ELSE status[w]
          /\ server'[w] = IF server[w] = n THEN None ELSE server[w]
          /\ target'[w] = IF target[w] = n THEN None ELSE target[w]
      BY <1>8 DEF DeleteServer
    <2>3. CASE server[w] = n \/ target[w] = n
      <3>1. status'[w] = "AVAILABLE" /\ server'[w] = None /\ target'[w] = None
        BY <2>2, <2>3, <2>e, AttachAssumption DEF AttachInv, VolumeInv, ShapeInv
      <3>2. \A m \in Nodes \ {n} : ~(status[w] = "ATTACHED" /\ server[w] = m)
        BY <2>3, AttachAssumption DEF AttachInv, VolumeInv, ShapeInv
      <3> QED
        BY <2>1, <3>1, <3>2, AttachAssumption DEF AttachInv, VolumeInv, ShapeInv, HandlerInv
    <2>4. CASE ~(server[w] = n \/ target[w] = n)
      BY <2>1, <2>2, <2>4 DEF AttachInv, VolumeInv, ShapeInv, HandlerInv
    <2> QED
      BY <2>3, <2>4
  <1>9. CASE UNCHANGED vars
    BY <1>9, Untouched DEF vars, iaas, AttachInv
  <1> QED
    BY <1>1, <1>2, <1>3, <1>4, <1>5, <1>6, <1>7, <1>8, <1>9 DEF Next, Handler

-----------------------------------------------------------------------------
\* The theorem about the handlers.

\* Publishing and unpublishing on any nodes, deletion, lost answers, late completions and
\* deleted servers: the invariant of every volume holds throughout.
THEOREM AttachInvariant == Spec => []AttachInv
  BY InitInv, NextInv, PTL DEF Spec

-----------------------------------------------------------------------------
\* Controller and nodes together.

\* A node uses only what it was told is attached, and what nobody has asked back.
UseInv(v) == \A n \in inUse[v] : want[v][n] /\ result[v][n] = "published" /\ n \in servers

LifeInv ==
    /\ AttachInv
    /\ inUse \in [Volumes -> SUBSET Nodes] /\ written \in [Volumes -> BOOLEAN]
    /\ \A v \in Volumes : UseInv(v)

\* A volume that is in use is attached to the one node that uses it.
LEMMA UsersHold ==
  ASSUME LifeInv, NEW v \in Volumes, NEW n \in inUse[v]
  PROVE  n \in Nodes /\ status[v] = "ATTACHED" /\ server[v] = n /\ inUse[v] = {n}
  <1>1. \A m \in inUse[v] : m \in Nodes /\ status[v] = "ATTACHED" /\ server[v] = m
    BY DEF LifeInv, UseInv, AttachInv, VolumeInv
  <1> QED
    BY <1>1

\* A step of the composition is a step of the handlers, or leaves them alone.
LEMMA LifeStep == [LifeNext]_lifeVars => [Next]_vars
  BY DEF LifeNext, lifeVars, NodeUse, NodeWrite, NodeRelease, AttachmentChanges, ServerGoes, Next

\* What a step of the handlers, without the users' changes and the end of a server, leaves
\* alone: an answer that says published while somebody wants the volume.
LEMMA PublishedStays ==
  ASSUME AttachInv, NEW v \in Volumes, NEW n \in Nodes,
         \/ \E w \in Volumes, m \in Nodes : Handler(w, m)
         \/ \E w \in Volumes : Delete(w) \/ IaasStep(w)
  PROVE  /\ want' = want /\ servers' = servers
         /\ want[v][n] /\ result[v][n] = "published" => result'[v][n] = "published"
  <1>t. TypeOK
    BY DEF AttachInv
  <1>a. ASSUME NEW w \in Volumes, NEW m \in Nodes, NEW r, Answer(w, m, r), pc[w][m] # "idle"
        PROVE  result[v][n] = "published" => result'[v][n] = "published"
    <2>1. result[w][m] = "none"
      BY <1>a DEF AttachInv, VolumeInv, HandlerInv
    <2>2. CASE v = w /\ n = m
      BY <2>1, <2>2
    <2>3. CASE v = w /\ n # m
      BY <2>3, <1>a, <1>t, AnswerCells
    <2>4. CASE v # w
      BY <2>4, <1>a, <1>t, AnswerCells
    <2> QED
      BY <2>2, <2>3, <2>4
  <1>1. ASSUME NEW w \in Volumes, NEW m \in Nodes, Handler(w, m)
        PROVE  /\ want' = want /\ servers' = servers
               /\ want[v][n] /\ result[v][n] = "published" => result'[v][n] = "published"
    <2>1. CASE StartPublish(w, m) \/ StartUnpublish(w, m)
      <3>1. /\ want' = want /\ servers' = servers
            /\ result' = [result EXCEPT ![w][m] = "none"]
            /\ ~(want[w][m] /\ result[w][m] = "published")
        BY <2>1 DEF StartPublish, StartUnpublish, iaas
      <3> QED
        BY <3>1, <1>t DEF TypeOK
    <2>2. CASE Publish(w, m)
      <3>1. /\ pc[w][m] # "idle" /\ want' = want /\ servers' = servers
            /\ result' = result \/ \E r \in {"none", "published"} : Answer(w, m, r)
        BY <2>2 DEF Publish, PublishGetVolume, PublishGetServer, AttachGetVolume,
                    AddVolumeToServer, WaitDiskAttached, Finish, Answer, Continue, iaas
      <3> QED
        BY <3>1, <1>a
    <2>3. CASE Unpublish(w, m)
      <3>1. status[w] \in {"NONE", "AVAILABLE", "ATTACHING", "ATTACHED", "DETACHING"}
        BY <1>t DEF TypeOK, Statuses
      <3>2. /\ pc[w][m] # "idle" /\ want' = want /\ servers' = servers
            /\ result' = result \/ \E r \in {"none", "unpublished"} : Answer(w, m, r)
        BY <2>3, <3>1 DEF Unpublish, UnpublishGetServer, DetachGetVolume, RemoveVolumeFromServer,
                    WaitDiskDetached, Finish, Answer, Continue, iaas
      <3> QED
        BY <3>2, <1>a
    <2>4. CASE CallFails(w, m)
      BY <2>4, <1>a DEF CallFails, Answer, iaas
    <2> QED
      BY <1>1, <2>1, <2>2, <2>3, <2>4 DEF Handler
  <1>2. ASSUME NEW w \in Volumes, Delete(w) \/ IaasStep(w)
        PROVE  want' = want /\ servers' = servers /\ result' = result
    BY <1>2 DEF Delete, IaasStep, StartDelete, DeleteCheck, DeleteVolume, AttachDone, DetachDone, iaas
  <1> QED
    BY <1>1, <1>2

LEMMA LifeInitInv == LifeInit => LifeInv
  BY InitInv DEF LifeInit, LifeInv, UseInv

LEMMA LifeNextInv == LifeInv /\ [LifeNext]_lifeVars => LifeInv'
  <1> SUFFICES ASSUME LifeInv, [LifeNext]_lifeVars
               PROVE  LifeInv'
    OBVIOUS
  <1>i. AttachInv'
    BY NextInv, LifeStep DEF LifeInv
  <1>t. /\ TypeOK /\ inUse \in [Volumes -> SUBSET Nodes] /\ written \in [Volumes -> BOOLEAN]
        /\ \A v \in Volumes : UseInv(v)
    BY DEF LifeInv, AttachInv
  <1>s. SUFFICES /\ inUse' \in [Volumes -> SUBSET Nodes] /\ written' \in [Volumes -> BOOLEAN]
                 /\ \A v \in Volumes : UseInv(v)'
    BY <1>i DEF LifeInv
  <1>1. ASSUME NEW v \in Volumes, NEW n \in Nodes,
               NodeUse(v, n) \/ NodeWrite(v, n) \/ NodeRelease(v, n)
        PROVE  /\ inUse' \in [Volumes -> SUBSET Nodes] /\ written' \in [Volumes -> BOOLEAN]
               /\ \A w \in Volumes : UseInv(w)'
    <2>1. /\ inUse' \in [Volumes -> SUBSET Nodes] /\ written' \in [Volumes -> BOOLEAN]
          /\ UNCHANGED vars
      <3>1. CASE NodeUse(v, n)
        BY <3>1, <1>t DEF NodeUse
      <3>2. CASE NodeWrite(v, n)
        BY <3>2, <1>t DEF NodeWrite
      <3>3. CASE NodeRelease(v, n)
        BY <3>3, <1>t DEF NodeRelease
      <3> QED
        BY <1>1, <3>1, <3>2, <3>3
    <2>2. ASSUME NEW w \in Volumes, NEW m \in inUse'[w]
          PROVE  m \in inUse[w] \/ (w = v /\ m = n /\ NodeUse(v, n))
      BY <1>1, <1>t, <2>2 DEF NodeUse, NodeWrite, NodeRelease
    <2> QED
      BY <2>1, <2>2, <1>t DEF UseInv, NodeUse, vars, iaas
  <1>2. ASSUME NEW v \in Volumes, NEW n \in Nodes, AttachmentChanges(v, n)
        PROVE  /\ inUse' = inUse /\ written' = written /\ \A w \in Volumes : UseInv(w)'
    <2>1. /\ inUse' = inUse /\ written' = written /\ result' = result /\ servers' = servers
          /\ want' = [want EXCEPT ![v][n] = ~want[v][n]] /\ n \notin inUse[v]
      BY <1>2 DEF AttachmentChanges, ChangeWant, iaas
    <2>2. ASSUME NEW w \in Volumes, NEW m \in inUse[w] PROVE want'[w][m] = want[w][m]
      BY <2>1, <2>2, <1>t DEF TypeOK
    <2> QED
      BY <2>1, <2>2, <1>t DEF UseInv
  <1>3. ASSUME NEW n \in Nodes, ServerGoes(n)
        PROVE  /\ inUse' \in [Volumes -> SUBSET Nodes] /\ written' = written
               /\ \A w \in Volumes : UseInv(w)'
    BY <1>3, <1>t DEF ServerGoes, DeleteServer, UseInv
  <1>4. ASSUME UNCHANGED <<inUse, written>>,
               \/ \E v \in Volumes, n \in Nodes : Handler(v, n)
               \/ \E v \in Volumes : Delete(v) \/ IaasStep(v)
        PROVE  \A w \in Volumes : UseInv(w)'
    <2>1. ASSUME NEW w \in Volumes, NEW m \in inUse[w]
          PROVE  want'[w][m] /\ result'[w][m] = "published" /\ m \in servers'
      <3>1. AttachInv /\ m \in Nodes /\ want[w][m] /\ result[w][m] = "published" /\ m \in servers
        BY <2>1, <1>t DEF UseInv, LifeInv
      <3> QED
        BY <3>1, <1>4, PublishedStays
    <2> QED
      BY <1>4, <2>1 DEF UseInv
  <1>5. CASE UNCHANGED lifeVars
    BY <1>5, <1>t DEF lifeVars, vars, iaas, UseInv
  <1> QED
    BY <1>1, <1>2, <1>3, <1>4, <1>5, <1>t DEF LifeNext

\* Every step is, for every volume, a step of ExclusiveVolume or none at all.
LEMMA StepExclusive ==
  ASSUME LifeInv, [LifeNext]_lifeVars, NEW u \in Volumes
  PROVE  [Exclusive(u)!Next]_(Exclusive(u)!vars)
  <1>t. TypeOK /\ VolumeInv(u) /\ inUse \in [Volumes -> SUBSET Nodes] /\ written \in [Volumes -> BOOLEAN]
    BY DEF LifeInv, AttachInv
  <1>e. status[u] \in {"NONE", "AVAILABLE", "ATTACHING", "ATTACHED", "DETACHING"}
    BY <1>t DEF TypeOK, Statuses
  <1>x. ASSUME server'[u] = server[u], inUse'[u] = inUse[u], written'[u] = written[u],
               (status'[u] = "NONE") <=> (status[u] = "NONE")
        PROVE  UNCHANGED Exclusive(u)!vars
    BY <1>x DEF Exclusive!vars
  <1>1. ASSUME NEW v \in Volumes, NEW n \in Nodes, NodeUse(v, n)
        PROVE  [Exclusive(u)!Next]_(Exclusive(u)!vars)
    <2>1. UNCHANGED <<status, server, written>>
      BY <1>1 DEF NodeUse, vars, iaas
    <2>2. CASE u = v
      <3>1. server[u] = n
        BY <1>1, <2>2, <1>t DEF NodeUse, VolumeInv
      <3>2. inUse[u] = {} /\ inUse'[u] = {n}
        BY <1>1, <2>2, <3>1, <1>t, UsersHold DEF NodeUse
      <3>3. Exclusive(u)!Use(n)
        BY <2>1, <3>1, <3>2 DEF Exclusive!Use
      <3> QED
        BY <3>3 DEF Exclusive!Next
    <2>3. CASE u # v
      BY <1>1, <2>1, <2>3, <1>t, <1>x DEF NodeUse
    <2> QED
      BY <2>2, <2>3
  <1>2. ASSUME NEW v \in Volumes, NEW n \in Nodes, NodeWrite(v, n)
        PROVE  [Exclusive(u)!Next]_(Exclusive(u)!vars)
    <2>1. UNCHANGED <<status, server, inUse>>
      BY <1>2 DEF NodeWrite, vars, iaas
    <2>2. CASE u = v
      <3>1. Exclusive(u)!Write
        BY <1>2, <2>1, <2>2, <1>t DEF NodeWrite, Exclusive!Write
      <3> QED
        BY <3>1 DEF Exclusive!Next
    <2>3. CASE u # v
      BY <1>2, <2>1, <2>3, <1>t, <1>x DEF NodeWrite
    <2> QED
      BY <2>2, <2>3
  <1>3. ASSUME NEW v \in Volumes, NEW n \in Nodes, NodeRelease(v, n)
        PROVE  [Exclusive(u)!Next]_(Exclusive(u)!vars)
    <2>1. UNCHANGED <<status, server, written>>
      BY <1>3 DEF NodeRelease, vars, iaas
    <2>2. CASE u = v
      <3>1. inUse[u] = {n} /\ inUse'[u] = {}
        BY <1>3, <2>2, <1>t, UsersHold DEF NodeRelease
      <3>2. Exclusive(u)!Release
        BY <2>1, <3>1 DEF Exclusive!Release
      <3> QED
        BY <3>2 DEF Exclusive!Next
    <2>3. CASE u # v
      BY <1>3, <2>1, <2>3, <1>t, <1>x DEF NodeRelease
    <2> QED
      BY <2>2, <2>3
  <1>4. ASSUME NEW v \in Volumes, NEW n \in Nodes,
               \/ AttachmentChanges(v, n)
               \/ Handler(v, n) /\ UNCHANGED <<inUse, written>>
        PROVE  [Exclusive(u)!Next]_(Exclusive(u)!vars)
    <2>1. /\ UNCHANGED <<server, inUse, written>>
          /\ \/ status' = status
             \/ status[v] = "AVAILABLE" /\ status' = [status EXCEPT ![v] = "ATTACHING"]
             \/ status[v] = "ATTACHED" /\ status' = [status EXCEPT ![v] = "DETACHING"]
      <3>1. CASE AttachmentChanges(v, n)
        BY <3>1 DEF AttachmentChanges, ChangeWant, iaas
      <3>2. CASE Publish(v, n) /\ UNCHANGED <<inUse, written>>
        BY <3>2 DEF Publish, PublishGetVolume, PublishGetServer, AttachGetVolume,
                    AddVolumeToServer, WaitDiskAttached, iaas
      <3>3. CASE Unpublish(v, n) /\ UNCHANGED <<inUse, written>>
        BY <3>3 DEF Unpublish, UnpublishGetServer, DetachGetVolume, RemoveVolumeFromServer,
                    WaitDiskDetached, iaas
      <3>4. CASE (StartPublish(v, n) \/ StartUnpublish(v, n) \/ CallFails(v, n))
                 /\ UNCHANGED <<inUse, written>>
        BY <3>4 DEF StartPublish, StartUnpublish, CallFails, iaas
      <3> QED
        BY <1>4, <3>1, <3>2, <3>3, <3>4 DEF Handler
    <2>2. (status'[u] = "NONE") <=> (status[u] = "NONE")
      BY <2>1, <1>t DEF TypeOK
    <2> QED
      BY <2>1, <2>2, <1>x
  <1>5. ASSUME NEW v \in Volumes, Delete(v), UNCHANGED <<inUse, written>>
        PROVE  [Exclusive(u)!Next]_(Exclusive(u)!vars)
    <2>1. /\ server' = server
          /\ \/ status' = status
             \/ status[v] = "AVAILABLE" /\ status' = [status EXCEPT ![v] = "NONE"]
      BY <1>5 DEF Delete, StartDelete, DeleteCheck, DeleteVolume, iaas
    <2>2. CASE status'[u] = status[u]
      BY <1>5, <2>1, <2>2, <1>x
    <2>3. CASE status'[u] # status[u]
      <3>1. status[u] = "AVAILABLE" /\ status'[u] = "NONE"
        BY <2>1, <2>3, <1>t DEF TypeOK
      <3>2. Exclusive(u)!Delete
        BY <1>5, <2>1, <3>1, <1>t DEF Exclusive!Delete, VolumeInv, ShapeInv
      <3> QED
        BY <3>2 DEF Exclusive!Next
    <2> QED
      BY <2>2, <2>3
  <1>6. ASSUME NEW v \in Volumes, IaasStep(v), UNCHANGED <<inUse, written>>
        PROVE  [Exclusive(u)!Next]_(Exclusive(u)!vars)
    <2>1. CASE u # v
      <3>1. server'[u] = server[u] /\ status'[u] = status[u]
        BY <1>6, <2>1, <1>t DEF IaasStep, AttachDone, DetachDone, TypeOK
      <3> QED
        BY <1>6, <3>1, <1>x
    <2>2. CASE u = v
      <3>1. \/ /\ status[u] = "ATTACHING" /\ status'[u] = "ATTACHED" /\ server'[u] = target[u]
            \/ /\ status[u] = "ATTACHING" /\ status'[u] = "AVAILABLE" /\ server'[u] = server[u]
            \/ /\ status[u] = "DETACHING" /\ status'[u] = "AVAILABLE" /\ server'[u] = None
        BY <1>6, <2>2, <1>t DEF IaasStep, AttachDone, DetachDone, TypeOK
      <3>2. CASE status'[u] = "ATTACHED"
        <4>1. target[u] \in Nodes /\ server[u] = None /\ status[u] # "NONE"
          BY <3>1, <3>2, <1>t DEF VolumeInv, ShapeInv, TypeOK
        <4>2. Exclusive(u)!Attach(target[u])
          BY <1>6, <3>1, <3>2, <4>1 DEF Exclusive!Attach
        <4> QED
          BY <4>1, <4>2 DEF Exclusive!Next
      <3>3. CASE status[u] = "ATTACHING" /\ status'[u] = "AVAILABLE"
        BY <1>6, <3>1, <3>3, <1>x
      <3>4. CASE status[u] = "DETACHING"
        <4>1. server[u] # None
          BY <3>4, <1>t, AttachAssumption DEF VolumeInv, ShapeInv, TypeOK
        <4>2. inUse[u] = {}
          BY <3>4, UsersHold
        <4>3. Exclusive(u)!Detach
          BY <1>6, <3>1, <3>4, <4>1, <4>2 DEF Exclusive!Detach
        <4> QED
          BY <4>3 DEF Exclusive!Next
      <3> QED
        BY <3>1, <3>2, <3>3, <3>4
    <2> QED
      BY <2>1, <2>2
  <1>7. ASSUME NEW n \in Nodes, ServerGoes(n)
        PROVE  [Exclusive(u)!Next]_(Exclusive(u)!vars)
    <2>1. /\ status'[u] = IF server[u] = n \/ target[u] = n THEN "AVAILABLE" ELSE status[u]
          /\ server'[u] = IF server[u] = n THEN None ELSE server[u]
          /\ inUse'[u] = inUse[u] \ {n} /\ written' = written
      BY <1>7 DEF ServerGoes, DeleteServer
    <2>2. server[u] = n \/ target[u] = n => status[u] # "NONE"
      BY <1>t, AttachAssumption DEF VolumeInv, ShapeInv
    <2>3. CASE server[u] = n
      <3>1. inUse'[u] = {}
        BY <2>1, <2>3, UsersHold
      <3>2. Exclusive(u)!Lose
        BY <2>1, <2>2, <2>3, <3>1, AttachAssumption DEF Exclusive!Lose
      <3> QED
        BY <3>2 DEF Exclusive!Next
    <2>4. CASE server[u] # n
      <3>1. inUse'[u] = inUse[u]
        BY <2>1, <2>4, UsersHold
      <3> QED
        BY <2>1, <2>2, <2>4, <3>1, <1>x
    <2> QED
      BY <2>3, <2>4
  <1>8. CASE UNCHANGED lifeVars
    BY <1>8, <1>x DEF lifeVars, vars, iaas
  <1> QED
    BY <1>1, <1>2, <1>3, <1>4, <1>5, <1>6, <1>7, <1>8 DEF LifeNext

LEMMA InitExclusive ==
  ASSUME LifeInit, NEW u \in Volumes
  PROVE  Exclusive(u)!Init
  BY DEF LifeInit, Init, Exclusive!Init

-----------------------------------------------------------------------------
\* Theorems about the controller together with the nodes.

\* The handlers together with kubelet's mounts on any number of nodes: the invariant that
\* ties attachments, mounts and what was reported to each other holds throughout.
THEOREM LifeInvariant == LifeSpec => []LifeInv
  BY LifeInitInv, LifeNextInv, PTL DEF LifeSpec

\* The tables of the handlers, of the API and of the nodes keep their types.
THEOREM LifeTypeCorrect == LifeSpec => []LifeTypeOK
  <1>1. LifeInv => LifeTypeOK
    BY DEF LifeInv, AttachInv, LifeTypeOK
  <1> QED
    BY <1>1, LifeInvariant, PTL

\* ControllerPublishVolume: what it reported attached is attached, whatever the handlers
\* for other nodes, DeleteVolume and the API do at the same time, while the server exists.
THEOREM PublishSafe == LifeSpec => []PublishedIsAttached
  <1>1. LifeInv => PublishedIsAttached
    BY DEF LifeInv, AttachInv, VolumeInv, PublishedIsAttached
  <1> QED
    BY <1>1, LifeInvariant, PTL

\* ControllerUnpublishVolume: what it reported detached is not on that node nor on its way
\* there, also after an AttachVolume that timed out in WaitDiskAttached.
THEOREM UnpublishSafe == LifeSpec => []UnpublishedIsDetached
  <1>1. LifeInv => UnpublishedIsDetached
    BY DEF LifeInv, AttachInv, VolumeInv, UnpublishedIsDetached
  <1> QED
    BY <1>1, LifeInvariant, PTL

\* AttachVolume, DetachVolume, DeleteVolume and the nodes together implement, for every
\* volume, a disk that one server has at a time and that is not taken away while in use.
THEOREM Exclusivity == LifeSpec => EveryVolumeExclusive
  <1>1. LifeInit => \A v \in Volumes : Exclusive(v)!Init
    BY InitExclusive
  <1>2. LifeInv /\ [LifeNext]_lifeVars
           => [\A v \in Volumes : [Exclusive(v)!Next]_(Exclusive(v)!vars)]_lifeVars
    BY StepExclusive
  <1> QED
    BY <1>1, <1>2, LifeInvariant, PTL DEF LifeSpec, EveryVolumeExclusive

-----------------------------------------------------------------------------
\* An operator detaches behind the driver's back, and the driver may crash.

\* What is left of the invariant of a volume: nothing about what was published, all about
\* what was unpublished.
DetachInv(v) ==
    /\ ShapeInv(v)
    /\ \A n \in Nodes :
          /\ pc[v][n] # "idle" => result[v][n] = "none"
          /\ pc[v][n] \in UnpublishCalls => ~want[v][n]
          /\ pc[v][n] \in {"detach", "waitDetached"} => ~(status[v] = "ATTACHING" /\ target[v] = n)
          /\ result[v][n] = "unpublished" => server[v] # n /\ target[v] # n

ReconcileInv == TypeOK /\ \A v \in Volumes : DetachInv(v)

LEMMA ReconcileInitInv == ReconcileInit => ReconcileInv
  <1> SUFFICES ASSUME ReconcileInit PROVE ReconcileInv
    OBVIOUS
  <1>1. Init
    BY DEF ReconcileInit
  <1>2. ASSUME NEW v \in Volumes PROVE DetachInv(v)
    BY <1>1, AttachAssumption DEF Init, DetachInv, ShapeInv, UnpublishCalls
  <1> QED
    BY <1>1, <1>2, InitType DEF ReconcileInv

\* A volume nobody touches.
LEMMA DetachUntouched ==
  ASSUME NEW w \in Volumes, DetachInv(w), servers' = servers,
         status'[w] = status[w], server'[w] = server[w], target'[w] = target[w],
         pc'[w] = pc[w], result'[w] = result[w], want'[w] = want[w]
  PROVE  DetachInv(w)'
  BY DEF DetachInv, ShapeInv

\* The places where a volume can be.
LEMMA StatusCases ==
  ASSUME TypeOK, NEW v \in Volumes
  PROVE  status[v] \in {"NONE", "AVAILABLE", "ATTACHING", "ATTACHED", "DETACHING"}
  BY DEF TypeOK, Statuses

\* A step of the handler of v and n that leaves the API alone.
LEMMA HandlerDetach ==
  ASSUME ReconcileInv, NEW v \in Volumes, NEW n \in Nodes, UNCHANGED iaas, want' = want,
         \A m \in Nodes \ {n} : pc'[v][m] = pc[v][m] /\ result'[v][m] = result[v][m],
         \A w \in Volumes \ {v} : pc'[w] = pc[w] /\ result'[w] = result[w],
         pc'[v][n] # "idle" => result'[v][n] = "none",
         pc'[v][n] \in UnpublishCalls => ~want[v][n],
         pc'[v][n] \in {"detach", "waitDetached"} => ~(status[v] = "ATTACHING" /\ target[v] = n),
         result'[v][n] = "unpublished" => server[v] # n /\ target[v] # n
  PROVE  \A w \in Volumes : DetachInv(w)'
  <1>1. ASSUME NEW w \in Volumes \ {v} PROVE DetachInv(w)'
    BY <1>1, DetachUntouched DEF ReconcileInv, iaas
  <1>2. DetachInv(v)'
    BY DEF ReconcileInv, DetachInv, ShapeInv, iaas
  <1> QED
    BY <1>1, <1>2

LEMMA AnswerDetach ==
  ASSUME ReconcileInv, NEW v \in Volumes, NEW n \in Nodes, NEW r, Answer(v, n, r), UNCHANGED iaas,
         r = "unpublished" => server[v] # n /\ target[v] # n
  PROVE  \A w \in Volumes : DetachInv(w)'
  <1>1. pc'[v][n] = "idle" /\ result'[v][n] = r
    BY AnswerCells DEF ReconcileInv
  <1> QED
    BY <1>1, AnswerCells, HandlerDetach DEF ReconcileInv, UnpublishCalls

LEMMA ContinueDetach ==
  ASSUME ReconcileInv, NEW v \in Volumes, NEW n \in Nodes, NEW next,
         Continue(v, n, next), UNCHANGED iaas, pc[v][n] # "idle",
         next \in UnpublishCalls => pc[v][n] \in UnpublishCalls,
         next \in {"detach", "waitDetached"} => status[v] # "ATTACHING"
  PROVE  \A w \in Volumes : DetachInv(w)'
  <1>1. /\ result[v][n] = "none"
        /\ pc[v][n] \in UnpublishCalls => ~want[v][n]
    BY DEF ReconcileInv, DetachInv
  <1> QED
    BY <1>1, ContinueCells, HandlerDetach DEF ReconcileInv

\* The API takes up an attachment or a detachment.
LEMMA BeginDetach ==
  ASSUME ReconcileInv, NEW v \in Volumes, NEW n \in Nodes, NEW next,
         Continue(v, n, next) \/ Answer(v, n, "none"),
         NEW s, status' = [status EXCEPT ![v] = s], target' = [target EXCEPT ![v] = n],
         server' = server, servers' = servers,
         \/ /\ pc[v][n] = "attach" /\ next = "waitAttached"
            /\ status[v] = "AVAILABLE" /\ s = "ATTACHING" /\ n \in servers
         \/ /\ pc[v][n] = "detach" /\ next = "waitDetached"
            /\ status[v] = "ATTACHED" /\ s = "DETACHING" /\ server[v] = n
  PROVE  \A w \in Volumes : DetachInv(w)'
  <1>t. TypeOK /\ DetachInv(v)
    BY DEF ReconcileInv
  <1>a. /\ status'[v] = s /\ target'[v] = n /\ server'[v] = server[v]
        /\ \A w \in Volumes \ {v} : status'[w] = status[w] /\ target'[w] = target[w]
    BY <1>t DEF TypeOK
  <1>c. /\ pc'[v][n] \in {next, "idle"} /\ result'[v][n] = "none" /\ want' = want
        /\ \A m \in Nodes \ {n} : pc'[v][m] = pc[v][m] /\ result'[v][m] = result[v][m]
        /\ \A w \in Volumes \ {v} : pc'[w] = pc[w] /\ result'[w] = result[w]
    <2>1. CASE Continue(v, n, next)
      <3>1. result[v][n] = "none"
        BY <1>t DEF DetachInv
      <3> QED
        BY <2>1, <3>1, <1>t, ContinueCells
    <2>2. CASE Answer(v, n, "none")
      BY <2>2, <1>t, AnswerCells
    <2> QED
      BY <2>1, <2>2
  <1>1. ASSUME NEW w \in Volumes \ {v} PROVE DetachInv(w)'
    BY <1>1, <1>a, <1>c, DetachUntouched DEF ReconcileInv
  <1>2. DetachInv(v)'
    <2>1. ShapeInv(v)'
      BY <1>t, <1>a DEF DetachInv, ShapeInv
    <2>2. ASSUME NEW m \in Nodes
          PROVE  /\ pc'[v][m] # "idle" => result'[v][m] = "none"
                 /\ pc'[v][m] \in UnpublishCalls => ~want'[v][m]
                 /\ pc'[v][m] \in {"detach", "waitDetached"}
                       => ~(status'[v] = "ATTACHING" /\ target'[v] = m)
                 /\ result'[v][m] = "unpublished" => server'[v] # m /\ target'[v] # m
      BY <1>t, <1>a, <1>c DEF DetachInv, UnpublishCalls
    <2> QED
      BY <2>1, <2>2 DEF DetachInv
  <1> QED
    BY <1>1, <1>2

\* What the detacher's wait has shown, or the refusal of a detachment.
LEMMA DetachedIsGone ==
  ASSUME ReconcileInv, NEW v \in Volumes, NEW n \in Nodes, pc[v][n] \in {"detach", "waitDetached"},
         status[v] = "NONE" \/ server[v] # n
  PROVE  server[v] # n /\ target[v] # n
  BY StatusCases, AttachAssumption DEF ReconcileInv, DetachInv, ShapeInv

LEMMA PublishDetach ==
  ASSUME ReconcileInv, NEW v \in Volumes, NEW n \in Nodes, Publish(v, n)
  PROVE  \A w \in Volumes : DetachInv(w)'
  <1>t. TypeOK
    BY DEF ReconcileInv
  <1>1. CASE PublishGetVolume(v, n)
    <2>1. CASE status[v] = "NONE"
      BY <1>1, <2>1, AnswerDetach DEF PublishGetVolume, Finish
    <2>2. CASE status[v] # "NONE"
      <3>1. /\ pc[v][n] = "publishGet" /\ pc'[v][n] = "publishServer"
            /\ UNCHANGED <<iaas, want, result>>
            /\ \A m \in Nodes \ {n} : pc'[v][m] = pc[v][m]
            /\ \A w \in Volumes \ {v} : pc'[w] = pc[w]
        BY <1>1, <2>2, <1>t DEF PublishGetVolume, TypeOK
      <3>2. result[v][n] = "none"
        BY <3>1 DEF ReconcileInv, DetachInv
      <3> QED
        BY <3>1, <3>2, HandlerDetach DEF UnpublishCalls
    <2> QED
      BY <2>1, <2>2
  <1>2. CASE PublishGetServer(v, n)
    <2>1. \/ Finish(v, n, "none") \/ Finish(v, n, "published") \/ Continue(v, n, "attachGet")
      BY <1>2 DEF PublishGetServer
    <2> QED
      BY <1>2, <2>1, AnswerDetach, ContinueDetach DEF PublishGetServer, Finish, UnpublishCalls
  <1>3. CASE AttachGetVolume(v, n)
    <2>1. \/ Finish(v, n, "none") \/ Continue(v, n, "waitAttached") \/ Continue(v, n, "attach")
      BY <1>3 DEF AttachGetVolume
    <2> QED
      BY <1>3, <2>1, AnswerDetach, ContinueDetach DEF AttachGetVolume, Finish, UnpublishCalls
  <1>4. CASE AddVolumeToServer(v, n)
    <2> DEFINE room == status[v] = "AVAILABLE" /\ n \in servers /\ Load(n) < NodeCapacity
    <2>1. CASE ~room
      BY <1>4, <2>1, AnswerDetach DEF AddVolumeToServer, Finish
    <2>2. CASE room
      BY <1>4, <2>2, BeginDetach DEF AddVolumeToServer
    <2> QED
      BY <2>1, <2>2
  <1>5. CASE WaitDiskAttached(v, n)
    BY <1>5, AnswerDetach DEF WaitDiskAttached, Finish
  <1> QED
    BY <1>1, <1>2, <1>3, <1>4, <1>5 DEF Publish

LEMMA UnpublishDetach ==
  ASSUME ReconcileInv, NEW v \in Volumes, NEW n \in Nodes, Unpublish(v, n)
  PROVE  \A w \in Volumes : DetachInv(w)'
  <1>e. /\ status[v] \in {"NONE", "AVAILABLE", "ATTACHING", "ATTACHED", "DETACHING"}
        /\ ShapeInv(v)
    BY StatusCases DEF ReconcileInv, DetachInv
  <1>1. CASE UnpublishGetServer(v, n)
    <2>1. CASE n \in servers
      BY <1>1, <2>1, ContinueDetach DEF UnpublishGetServer, UnpublishCalls
    <2>2. CASE n \notin servers
      <3>1. server[v] # n /\ target[v] # n
        BY <1>e, <2>2, AttachAssumption DEF ShapeInv
      <3> QED
        BY <1>1, <2>2, <3>1, AnswerDetach DEF UnpublishGetServer, Finish
    <2> QED
      BY <2>1, <2>2
  <1>2. CASE DetachGetVolume(v, n)
    <2>1. CASE status[v] = "NONE"
      <3>1. server[v] # n /\ target[v] # n
        BY <1>e, <2>1, AttachAssumption DEF ShapeInv
      <3> QED
        BY <1>2, <2>1, <3>1, AnswerDetach DEF DetachGetVolume, Finish
    <2>2. CASE status[v] \in {"AVAILABLE", "ATTACHED"}
      <3>1. Continue(v, n, "detach") \/ Continue(v, n, "waitDetached")
        BY <1>2, <2>2 DEF DetachGetVolume
      <3> QED
        BY <1>2, <2>2, <3>1, ContinueDetach DEF DetachGetVolume, UnpublishCalls
    <2>3. CASE status[v] \in {"ATTACHING", "DETACHING"}
      BY <1>2, <2>3, AnswerDetach DEF DetachGetVolume, Finish
    <2> QED
      BY <1>e, <2>1, <2>2, <2>3
  <1>3. CASE RemoveVolumeFromServer(v, n)
    <2> DEFINE here == status[v] = "ATTACHED" /\ server[v] = n
    <2>1. CASE ~here /\ server[v] = n
      BY <1>3, <2>1, AnswerDetach DEF RemoveVolumeFromServer, Finish
    <2>2. CASE server[v] # n
      <3>1. server[v] # n /\ target[v] # n
        BY <1>3, <2>2, DetachedIsGone DEF RemoveVolumeFromServer
      <3> QED
        BY <1>3, <2>2, <3>1, AnswerDetach DEF RemoveVolumeFromServer, Finish
    <2>3. CASE here
      BY <1>3, <2>3, BeginDetach DEF RemoveVolumeFromServer
    <2> QED
      BY <2>1, <2>2, <2>3
  <1>4. CASE WaitDiskDetached(v, n)
    <2>1. CASE Finish(v, n, "none")
      BY <1>4, <2>1, AnswerDetach DEF WaitDiskDetached, Finish
    <2>2. CASE (status[v] = "NONE" \/ server[v] # n) /\ Finish(v, n, "unpublished")
      <3>1. server[v] # n /\ target[v] # n
        BY <1>4, <2>2, DetachedIsGone DEF WaitDiskDetached
      <3> QED
        BY <1>4, <2>2, <3>1, AnswerDetach DEF WaitDiskDetached, Finish
    <2> QED
      BY <1>4, <2>1, <2>2 DEF WaitDiskDetached
  <1> QED
    BY <1>1, <1>2, <1>3, <1>4 DEF Unpublish

\* Every step of VolumeAttach.
LEMMA AttachStepDetach ==
  ASSUME ReconcileInv, [Next]_vars
  PROVE  \A w \in Volumes : DetachInv(w)'
  <1>t. TypeOK
    BY DEF ReconcileInv
  <1>1. ASSUME NEW v \in Volumes, NEW n \in Nodes, StartPublish(v, n) \/ StartUnpublish(v, n)
        PROVE  \A w \in Volumes : DetachInv(w)'
    <2>1. /\ result'[v][n] = "none"
          /\ pc'[v][n] = "publishGet" \/ (~want[v][n] /\ pc'[v][n] = "unpublishServer")
          /\ UNCHANGED <<iaas, want>>
          /\ \A m \in Nodes \ {n} : pc'[v][m] = pc[v][m] /\ result'[v][m] = result[v][m]
          /\ \A w \in Volumes \ {v} : pc'[w] = pc[w] /\ result'[w] = result[w]
      BY <1>1, <1>t DEF StartPublish, StartUnpublish, TypeOK
    <2> QED
      BY <2>1, HandlerDetach DEF UnpublishCalls
  <1>2. ASSUME NEW v \in Volumes, NEW n \in Nodes, CallFails(v, n)
        PROVE  \A w \in Volumes : DetachInv(w)'
    BY <1>2, AnswerDetach DEF CallFails
  <1>3. ASSUME NEW v \in Volumes, NEW n \in Nodes, ChangeWant(v, n)
        PROVE  \A w \in Volumes : DetachInv(w)'
    <2>1. /\ want[v][n] \/ result[v][n] = "unpublished"
          /\ want'[v][n] = ~want[v][n]
          /\ UNCHANGED <<iaas, result, pc>>
          /\ \A m \in Nodes \ {n} : want'[v][m] = want[v][m]
          /\ \A w \in Volumes \ {v} : want'[w] = want[w]
      BY <1>3, <1>t DEF ChangeWant, TypeOK
    <2>2. ASSUME NEW w \in Volumes \ {v} PROVE DetachInv(w)'
      BY <2>1, <2>2, DetachUntouched DEF ReconcileInv, iaas
    <2>3. DetachInv(v)'
      BY <2>1 DEF ReconcileInv, DetachInv, ShapeInv, iaas, UnpublishCalls
    <2> QED
      BY <2>2, <2>3
  <1>4. ASSUME NEW v \in Volumes, Delete(v)
        PROVE  \A w \in Volumes : DetachInv(w)'
    <2>1. /\ UNCHANGED <<server, target, servers, want, result, pc>>
          /\ \/ status' = status
             \/ status[v] = "AVAILABLE" /\ status' = [status EXCEPT ![v] = "NONE"]
      BY <1>4 DEF Delete, StartDelete, DeleteCheck, DeleteVolume, iaas
    <2>2. /\ \A w \in Volumes \ {v} : status'[w] = status[w]
          /\ status'[v] = status[v] \/ (status[v] = "AVAILABLE" /\ status'[v] = "NONE")
      BY <2>1, <1>t DEF TypeOK
    <2>3. ASSUME NEW w \in Volumes \ {v} PROVE DetachInv(w)'
      BY <2>1, <2>2, <2>3, DetachUntouched DEF ReconcileInv
    <2>4. DetachInv(v)'
      BY <2>1, <2>2 DEF ReconcileInv, DetachInv, ShapeInv
    <2> QED
      BY <2>3, <2>4
  <1>5. ASSUME NEW v \in Volumes, IaasStep(v)
        PROVE  \A w \in Volumes : DetachInv(w)'
    <2>1. UNCHANGED <<servers, want, result, pc>>
      BY <1>5 DEF IaasStep, AttachDone, DetachDone
    <2>2. ASSUME NEW w \in Volumes \ {v}
          PROVE  status'[w] = status[w] /\ server'[w] = server[w] /\ target'[w] = target[w]
      BY <1>5, <2>2, <1>t DEF IaasStep, AttachDone, DetachDone, TypeOK
    <2>3. \/ /\ status[v] = "ATTACHING" /\ status'[v] = "ATTACHED"
             /\ server'[v] = target[v] /\ target'[v] = None
          \/ /\ status[v] = "ATTACHING" /\ status'[v] = "AVAILABLE"
             /\ server'[v] = server[v] /\ target'[v] = None
          \/ /\ status[v] = "DETACHING" /\ status'[v] = "AVAILABLE"
             /\ server'[v] = None /\ target'[v] = None
      BY <1>5, <1>t DEF IaasStep, AttachDone, DetachDone, TypeOK
    <2>4. ASSUME NEW w \in Volumes \ {v} PROVE DetachInv(w)'
      BY <2>1, <2>2, <2>4, DetachUntouched DEF ReconcileInv
    <2>5. DetachInv(v)'
      BY <2>1, <2>3, AttachAssumption DEF ReconcileInv, DetachInv, ShapeInv
    <2> QED
      BY <2>4, <2>5
  <1>6. ASSUME NEW n \in Nodes, DeleteServer(n), NEW w \in Volumes
        PROVE  DetachInv(w)'
    <2>1. servers' = servers \ {n} /\ UNCHANGED <<want, result, pc>>
      BY <1>6 DEF DeleteServer
    <2>2. /\ status'[w] = IF server[w] = n \/ target[w] = n THEN "AVAILABLE" ELSE status[w]
          /\ server'[w] = IF server[w] = n THEN None ELSE server[w]
          /\ target'[w] = IF target[w] = n THEN None ELSE target[w]
      BY <1>6 DEF DeleteServer
    <2>3. CASE server[w] = n \/ target[w] = n
      <3>1. status'[w] = "AVAILABLE" /\ server'[w] = None /\ target'[w] = None
        BY <1>t, <2>2, <2>3, StatusCases, AttachAssumption DEF ReconcileInv, DetachInv, ShapeInv
      <3> QED
        BY <2>1, <3>1, AttachAssumption DEF ReconcileInv, DetachInv, ShapeInv
    <2>4. CASE ~(server[w] = n \/ target[w] = n)
      BY <2>1, <2>2, <2>4 DEF ReconcileInv, DetachInv, ShapeInv
    <2> QED
      BY <2>3, <2>4
  <1>7. CASE UNCHANGED vars
    BY <1>7, DetachUntouched DEF vars, iaas, ReconcileInv
  <1> QED
    BY <1>1, <1>2, <1>3, <1>4, <1>5, <1>6, <1>7, PublishDetach, UnpublishDetach DEF Next, Handler

\* An operator's detachment goes through the same statuses as one of the driver.
LEMMA OutOfBandDetach ==
  ASSUME ReconcileInv, NEW v \in Volumes, DetachOutOfBand(v)
  PROVE  ReconcileInv'
  <1>t. TypeOK /\ DetachInv(v) /\ server[v] \in Nodes \cup {None}
    BY DEF ReconcileInv, TypeOK
  <1>1. /\ status[v] = "ATTACHED" /\ status' = [status EXCEPT ![v] = "DETACHING"]
        /\ target' = [target EXCEPT ![v] = server[v]] /\ Disturb
        /\ UNCHANGED <<server, servers, want, result, pc, seen, deleter>>
    BY DEF DetachOutOfBand
  <1>2. TypeOK'
    <2>1. budget' \in Nat
      BY <1>1, <1>t DEF Disturb, TypeOK
    <2>2. status' \in [Volumes -> Statuses] /\ target' \in [Volumes -> Nodes \cup {None}]
      BY <1>1, <1>t DEF TypeOK, Statuses
    <2> QED
      BY <1>1, <1>t, <2>1, <2>2 DEF TypeOK
  <1>3. /\ status'[v] = "DETACHING" /\ target'[v] = server[v]
        /\ \A w \in Volumes \ {v} : status'[w] = status[w] /\ target'[w] = target[w]
    BY <1>1, <1>t DEF TypeOK
  <1>4. ASSUME NEW w \in Volumes \ {v} PROVE DetachInv(w)'
    BY <1>1, <1>3, <1>4, DetachUntouched DEF ReconcileInv
  <1>5. DetachInv(v)'
    BY <1>1, <1>3, <1>t DEF DetachInv, ShapeInv
  <1> QED
    BY <1>2, <1>4, <1>5 DEF ReconcileInv

\* After a crash no handler is under way; the volumes and the answers are as they were.
LEMMA CrashDetach ==
  ASSUME ReconcileInv, Crash, Disturb
  PROVE  ReconcileInv'
  <1>1. /\ pc' = [v \in Volumes |-> [n \in Nodes |-> "idle"]]
        /\ seen' = [v \in Volumes |-> [n \in Nodes |-> Unseen]]
        /\ deleter' = [v \in Volumes |-> IF deleter[v] = "deleted" THEN "deleted" ELSE "idle"]
        /\ UNCHANGED <<status, server, target, servers, want, result>>
    BY DEF Crash, iaas
  <1>2. TypeOK'
    <2>1. budget' \in Nat
      BY DEF ReconcileInv, TypeOK, Disturb
    <2>2. pc' \in [Volumes -> [Nodes -> CallType]]
      BY <1>1 DEF CallType
    <2>3. seen' \in [Volumes -> [Nodes -> SeenType]]
      BY <1>1, TypeValues
    <2>4. deleter' \in [Volumes -> DeleterType]
      BY <1>1 DEF DeleterType
    <2> QED
      BY <1>1, <2>1, <2>2, <2>3, <2>4 DEF ReconcileInv, TypeOK, CallType, SeenType, DeleterType
  <1>3. ASSUME NEW v \in Volumes PROVE DetachInv(v)'
    BY <1>1 DEF ReconcileInv, DetachInv, ShapeInv, UnpublishCalls
  <1> QED
    BY <1>2, <1>3 DEF ReconcileInv

\* Queueing a VolumeAttachment again forgets an answer, and only of idle handlers.
LEMMA QueueDetach ==
  ASSUME ReconcileInv, ReconcileVA
  PROVE  ReconcileInv'
  <1>1. /\ result' = [v \in Volumes |-> [n \in Nodes |->
                        IF Missing(v, n) THEN "none" ELSE result[v][n]]]
        /\ UNCHANGED <<status, server, target, servers, want, pc, seen, deleter, budget>>
    BY DEF ReconcileVA, iaas
  <1>2. \A v \in Volumes, n \in Nodes : result'[v][n] = "none" \/ result'[v][n] = result[v][n]
    BY <1>1
  <1>3. result' \in [Volumes -> [Nodes -> ResultType]]
    BY <1>1 DEF ReconcileInv, TypeOK, ResultType
  <1>4. TypeOK'
    BY <1>1, <1>3 DEF ReconcileInv, TypeOK, ResultType
  <1>5. ASSUME NEW v \in Volumes PROVE DetachInv(v)'
    BY <1>1, <1>2 DEF ReconcileInv, DetachInv, ShapeInv
  <1> QED
    BY <1>4, <1>5 DEF ReconcileInv

LEMMA ReconcileNextInv == ReconcileInv /\ [ReconcileNext]_reconcileVars => ReconcileInv'
  <1> SUFFICES ASSUME ReconcileInv, [ReconcileNext]_reconcileVars PROVE ReconcileInv'
    OBVIOUS
  <1>t. TypeOK
    BY DEF ReconcileInv
  <1>1. CASE [Next]_vars
    BY <1>1, <1>t, NextType, AttachStepDetach DEF ReconcileInv
  <1>2. CASE ListVolumes
    BY <1>1, <1>2 DEF ListVolumes
  <1>3. ASSUME NEW v \in Volumes, ControllerGetVolume(v) PROVE ReconcileInv'
    <2>1. CASE server[v] = None
      BY <1>3, <2>1, CrashDetach DEF ControllerGetVolume
    <2>2. CASE server[v] # None
      <3>1. budget' \in Nat
        BY <1>3, <1>t DEF ControllerGetVolume, Disturb, TypeOK
      <3>2. UNCHANGED <<status, server, target, servers, want, result, pc, seen, deleter>>
        BY <1>3, <2>2 DEF ControllerGetVolume, iaas
      <3>3. TypeOK'
        BY <1>t, <3>1, <3>2 DEF TypeOK
      <3>4. ASSUME NEW w \in Volumes PROVE DetachInv(w)'
        BY <3>2, DetachUntouched DEF ReconcileInv
      <3> QED
        BY <3>3, <3>4 DEF ReconcileInv
    <2> QED
      BY <2>1, <2>2
  <1>4. CASE UNCHANGED reconcileVars
    BY <1>1, <1>4 DEF reconcileVars
  <1> QED
    BY <1>1, <1>2, <1>3, <1>4, OutOfBandDetach, QueueDetach DEF ReconcileNext

\* The steps of ReconcileSpec, its fairness left aside.
LEMMA ReconcileSteps == ReconcileSpec => ReconcileInit /\ [][ReconcileNext]_reconcileVars
  BY PTL DEF ReconcileSpec

\* Whatever an operator detaches and whenever the driver crashes: the handlers that detach
\* know where their volume is.
THEOREM ReconcileInvariant == ReconcileSpec => []ReconcileInv
  BY ReconcileSteps, ReconcileInitInv, ReconcileNextInv, PTL

\* What ControllerUnpublishVolume reported detached is detached, and not on its way back,
\* also when an operator detaches volumes behind the driver's back, VolumeAttachments are
\* queued again from a listing that is out of date, and the driver crashes in between.
THEOREM UnpublishSafeReconciled == ReconcileSpec => []UnpublishedIsDetached
  <1>1. ReconcileInv => UnpublishedIsDetached
    BY DEF ReconcileInv, DetachInv, UnpublishedIsDetached
  <1> QED
    BY <1>1, ReconcileInvariant, PTL

\* Of all steps two lead from attached to being detached: the operator's and the call of a
\* handler that unpublishes.
LEMMA DetachStep ==
  ASSUME ReconcileInv, [ReconcileNext]_reconcileVars, NEW u \in Volumes,
         status[u] = "ATTACHED", status'[u] = "DETACHING", ~DetachOutOfBand(u)
  PROVE  ~want[u][server[u]]
  <1>t. TypeOK
    BY DEF ReconcileInv
  <1>1. ASSUME NEW v \in Volumes, NEW n \in Nodes, RemoveVolumeFromServer(v, n)
        PROVE  ~want[u][server[u]]
    <2>1. CASE status[v] = "ATTACHED" /\ server[v] = n
      <3>1. v = u
        BY <1>1, <1>t, <2>1 DEF RemoveVolumeFromServer, TypeOK
      <3>2. pc[v][n] \in UnpublishCalls
        BY <1>1 DEF RemoveVolumeFromServer, UnpublishCalls
      <3> QED
        BY <2>1, <3>1, <3>2 DEF ReconcileInv, DetachInv
    <2>2. CASE ~(status[v] = "ATTACHED" /\ server[v] = n)
      BY <1>1, <2>2 DEF RemoveVolumeFromServer, iaas
    <2> QED
      BY <2>1, <2>2
  <1>2. ASSUME NEW v \in Volumes, NEW n \in Nodes,
               \/ StartPublish(v, n) \/ Publish(v, n) \/ StartUnpublish(v, n) \/ CallFails(v, n)
               \/ UnpublishGetServer(v, n) \/ DetachGetVolume(v, n) \/ WaitDiskDetached(v, n)
               \/ ChangeWant(v, n)
        PROVE  FALSE
    <2>1. status' = status \/ status' = [status EXCEPT ![v] = "ATTACHING"]
      BY <1>2 DEF StartPublish, Publish, PublishGetVolume, PublishGetServer, AttachGetVolume,
         AddVolumeToServer, WaitDiskAttached, StartUnpublish, UnpublishGetServer, DetachGetVolume,
         WaitDiskDetached, CallFails, ChangeWant, iaas
    <2> QED
      BY <1>t, <2>1 DEF TypeOK
  <1>3. ASSUME NEW v \in Volumes, Delete(v) \/ IaasStep(v)
        PROVE  FALSE
    <2>1. \/ status' = status
          \/ \E s \in {"NONE", "ATTACHED", "AVAILABLE"} : status' = [status EXCEPT ![v] = s]
      BY <1>3 DEF Delete, StartDelete, DeleteCheck, DeleteVolume, IaasStep, AttachDone, DetachDone, iaas
    <2> QED
      BY <1>t, <2>1 DEF TypeOK
  <1>4. ASSUME NEW n \in Nodes, DeleteServer(n) PROVE FALSE
    BY <1>4 DEF DeleteServer
  <1>5. ASSUME NEW v \in Volumes, DetachOutOfBand(v) PROVE FALSE
    BY <1>5, <1>t DEF DetachOutOfBand, TypeOK
  <1>6. ASSUME \/ ListVolumes \/ ReconcileVA \/ \E v \in Volumes : ControllerGetVolume(v)
               \/ UNCHANGED reconcileVars
        PROVE  FALSE
    BY <1>6 DEF ListVolumes, ReconcileVA, ControllerGetVolume, Crash, reconcileVars, vars, iaas
  <1> QED
    BY <1>1, <1>2, <1>3, <1>4, <1>5, <1>6 DEF ReconcileNext, Next, Handler, Unpublish

\* The driver detaches a volume only from a node that no longer wants it, whatever the
\* operator did, the listing said or the driver forgot in a crash.
THEOREM NeverDetachedInUse == ReconcileSpec => DetachesOnlyUnwanted
  <1>1. ReconcileInv /\ [ReconcileNext]_reconcileVars
          => [\A v \in Volumes :
                status[v] = "ATTACHED" /\ status'[v] = "DETACHING" /\ ~DetachOutOfBand(v)
                   => ~want[v][server[v]]]_reconcileVars
    BY DetachStep
  <1> QED
    BY <1>1, ReconcileSteps, ReconcileInvariant, PTL DEF DetachesOnlyUnwanted

==============================================================================
