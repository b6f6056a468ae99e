------------------------ MODULE MediaReconcilerProofs ------------------------
(***************************************************************************)
(* The safety of the media control loop, for any set of cameras, any       *)
(* history capacity and any number of failures: the inductive invariant    *)
(* behind the invariants TLC checks, and its proof.                        *)
(***************************************************************************)
EXTENDS MediaReconciler, SequenceTheorems, TLAPS

(* From its claim until it is finished or abandoned, the worker's          *)
(* operation is running in the store: nobody else ends it.                 *)
Claimed == {"reread", "renewClaimed", "load", "camera", "main", "sub",
            "finish", "fail", "superseded", "abandon"}

ClaimIsRunning ==
    worker.pc \in Claimed => /\ worker.job \in DOMAIN ops
                             /\ ops[worker.job].state = "running"

(* A pending operation has an attempt left.                                *)
PendingHasAttempts ==
    \A i \in DOMAIN ops : ops[i].state = "pending" => ops[i].attempt < MaxAttempts

Typing == TypeOK /\ ClaimIsRunning /\ PendingHasAttempts

USE DEF Profiles, ClientStates, OpStates, Config

-----------------------------------------------------------------------------
(* The store under one update, one insertion, or an update of every row.   *)

OpsOK(o) ==
    /\ o \in Seq(OpRow)
    /\ \A i \in DOMAIN o : /\ o[i].attempt <= MaxAttempts
                           /\ o[i].state = "pending" => o[i].attempt < MaxAttempts

LEMMA UpdateKeepsOps ==
    ASSUME NEW o, OpsOK(o), NEW i \in DOMAIN o, NEW op \in OpRow,
           op.attempt <= MaxAttempts, op.state = "pending" => op.attempt < MaxAttempts
    PROVE  /\ OpsOK([o EXCEPT ![i] = op])
           /\ DOMAIN [o EXCEPT ![i] = op] = DOMAIN o
           /\ \A j \in DOMAIN o : [o EXCEPT ![i] = op][j] = IF j = i THEN op ELSE o[j]
<1>1. DOMAIN o = 1 .. Len(o)  BY LenProperties DEF OpsOK
<1>2. /\ [o EXCEPT ![i] = op] \in Seq(OpRow)
      /\ Len([o EXCEPT ![i] = op]) = Len(o)
      /\ \A j \in 1 .. Len(o) : [o EXCEPT ![i] = op][j] = IF j = i THEN op ELSE o[j]
  BY <1>1, ExceptSeq DEF OpsOK
<1>3. DOMAIN [o EXCEPT ![i] = op] = DOMAIN o  BY <1>1
<1> QED  BY <1>1, <1>2, <1>3 DEF OpsOK

LEMMA InsertKeepsOps ==
    ASSUME NEW o, OpsOK(o), NEW op \in OpRow, op.attempt = 0, BoundsAssumption
    PROVE  /\ OpsOK(Append(o, op))
           /\ DOMAIN o \subseteq DOMAIN Append(o, op)
           /\ \A j \in DOMAIN o : Append(o, op)[j] = o[j]
           /\ \A j \in DOMAIN Append(o, op) : j \in DOMAIN o \/ Append(o, op)[j] = op
<1>1. o \in Seq(OpRow) /\ DOMAIN o = 1 .. Len(o) /\ Len(o) \in Nat  BY LenProperties DEF OpsOK
<1>2. /\ Append(o, op) \in Seq(OpRow)
      /\ Len(Append(o, op)) = Len(o) + 1
      /\ \A j \in 1 .. Len(o) : Append(o, op)[j] = o[j]
      /\ Append(o, op)[Len(o) + 1] = op
  BY <1>1, AppendProperties
<1>3. DOMAIN Append(o, op) = 1 .. Len(o) + 1  BY <1>2, LenProperties
<1>4. \A j \in 1 .. Len(o) + 1 : j \in 1 .. Len(o) \/ j = Len(o) + 1  BY <1>1
<1> QED  BY <1>1, <1>2, <1>3, <1>4 DEF OpsOK, BoundsAssumption

LEMMA MapKeepsOps ==
    ASSUME NEW o, OpsOK(o), NEW q, q \in [DOMAIN o -> OpRow],
           \A i \in DOMAIN o : /\ q[i].attempt = o[i].attempt
                               /\ q[i].state # "pending" \/ q[i].state = o[i].state
    PROVE  OpsOK(q)
<1>1. DOMAIN o = 1 .. Len(o) /\ Len(o) \in Nat  BY LenProperties DEF OpsOK
<1>2. q \in Seq(OpRow)  BY <1>1, SeqDef
<1> QED  BY <1>2 DEF OpsOK

-----------------------------------------------------------------------------
(* Every action keeps the types, and keeps the worker's claim running.     *)

LEMMA TypingOps == ASSUME Typing PROVE OpsOK(ops)
BY DEF Typing, TypeOK, PendingHasAttempts, OpsOK

LEMMA TypingInit ==
    ASSUME CamerasAssumption, BoundsAssumption, Init
    PROVE  Typing
<1>1. NoCamera \in CameraRow /\ NoDesired \in DesiredRow /\ NoActual \in [Profiles -> ActualRow]
  BY DEF NoCamera, CameraRow, NoDesired, DesiredRow, NoActual, ActualRow
<1>2. (CHOOSE c \in Cameras : TRUE) \in Cameras  BY DEF CamerasAssumption
<1>3. IdleWorker \in WorkerRow /\ IdleWorker.pc = "idle"
  BY <1>1, <1>2 DEF IdleWorker, WorkerRow, WorkerStates, Absent
<1>4. ops \in Seq(OpRow) /\ DOMAIN ops = {}  BY EmptySeq DEF Init
<1>5. TypeOK
  BY <1>1, <1>3, <1>4 DEF Init, TypeOK, LeaseRow, Absent, BoundsAssumption
<1> QED  BY <1>3, <1>4, <1>5 DEF Typing, ClaimIsRunning, PendingHasAttempts, Init, Claimed

(* A handler's new operation is well typed.                                *)
LEMMA NewOperationTyped ==
    ASSUME NEW c \in Cameras, NEW gen \in Nat, NEW created \in Nat
    PROVE  /\ NewOperation(c, gen, created) \in OpRow
           /\ NewOperation(c, gen, created).attempt = 0
           /\ NewOperation(c, gen, created).state = "pending"
           /\ NewOperation(c, gen, created).cam = c
BY DEF NewOperation, OpRow

(* What queueing a media change does to the two tables it writes.          *)
LEMMA QueueTyped ==
    ASSUME BoundsAssumption, Typing, NEW c \in Cameras, NEW row \in CameraRow,
           NEW present \in BOOLEAN, QueueCameraChange(c, row, present)
    PROVE  /\ desired' \in [Cameras -> DesiredRow]
           /\ OpsOK(ops')
           /\ DOMAIN ops \subseteq DOMAIN ops'
           /\ \A j \in DOMAIN ops : ops'[j] = ops[j]
<1>1. OpsOK(ops)  BY TypingOps
<1>2. desired \in [Cameras -> DesiredRow] /\ Len(ops) \in Nat
  BY <1>1, LenProperties DEF Typing, TypeOK, OpsOK
<1>3. desired[c].gen + 1 \in Nat /\ HandlerStamp \in Nat
  BY <1>2 DEF DesiredRow, HandlerStamp
<1>4. desired' \in [Cameras -> DesiredRow]
  BY <1>2, <1>3 DEF QueueCameraChange, DesiredRow, CameraRow
<1> DEFINE new == NewOperation(c, desired[c].gen + 1, HandlerStamp)
<1>5. new \in OpRow /\ new.attempt = 0  BY <1>3, NewOperationTyped
<1>6. ops' = Append(ops, new)  BY DEF QueueCameraChange
<1> HIDE DEF new
<1> QED  BY <1>1, <1>4, <1>5, <1>6, InsertKeepsOps

LEMMA RemoveTyped ==
    ASSUME BoundsAssumption, Typing, NEW c \in Cameras, NEW row \in CameraRow,
           RemoveMedia(c, row)
    PROVE  /\ camera' \in [Cameras -> CameraRow]
           /\ desired' \in [Cameras -> DesiredRow]
           /\ OpsOK(ops')
           /\ DOMAIN ops \subseteq DOMAIN ops'
           /\ \A j \in DOMAIN ops : ops'[j] = ops[j]
<1>1. OpsOK(ops)  BY TypingOps
<1>2. camera[c] \in CameraRow /\ camera \in [Cameras -> CameraRow]
      /\ desired \in [Cameras -> DesiredRow]
  BY DEF Typing, TypeOK
<1>3. CASE Shown(c)
  <2>1. QueueCameraChange(c, camera[c], FALSE) /\ camera' = [camera EXCEPT ![c] = row]
    BY <1>3 DEF RemoveMedia
  <2> QED  BY <1>2, <2>1, QueueTyped
<1>4. CASE ~Shown(c)
  BY <1>1, <1>2, <1>4 DEF RemoveMedia
<1> QED  BY <1>3, <1>4

(* An action that leaves the worker and the faults alone, types what it    *)
(* writes, and only adds operations, keeps the types.                      *)
LEMMA HandlerTyping ==
    ASSUME Typing,
           client' \in [Cameras -> ClientStates], camera' \in [Cameras -> CameraRow],
           desired' \in [Cameras -> DesiredRow], actual' \in [Cameras -> [Profiles -> ActualRow]],
           OpsOK(ops'), DOMAIN ops \subseteq DOMAIN ops',
           \A j \in DOMAIN ops : ops'[j] = ops[j],
           UNCHANGED <<lease, media, late, worker, faults>>
    PROVE  Typing'
<1>1. TypeOK' /\ PendingHasAttempts'
  BY DEF Typing, TypeOK, PendingHasAttempts, OpsOK
<1>2. ClaimIsRunning'
  BY DEF Typing, ClaimIsRunning
<1> QED  BY <1>1, <1>2 DEF Typing

(* What is switched off, or removed, is still a camera's row.              *)
LEMMA SwitchedOff ==
    ASSUME NEW row \in CameraRow
    PROVE  /\ [row EXCEPT !.enabled = FALSE] \in CameraRow
           /\ [row EXCEPT !.enabled = FALSE, !.deleted = TRUE] \in CameraRow
BY DEF CameraRow

LEMMA TypingHandlers ==
    ASSUME BoundsAssumption, ReportsAssumption, Typing, HandlerStep
    PROVE  Typing'
<1> USE DEF CameraRow
<1>0. /\ OpsOK(ops)
      /\ client \in [Cameras -> ClientStates] /\ camera \in [Cameras -> CameraRow]
      /\ desired \in [Cameras -> DesiredRow] /\ actual \in [Cameras -> [Profiles -> ActualRow]]
  BY TypingOps DEF Typing, TypeOK
<1>1. ASSUME NEW c \in Cameras, PairClient(c) PROVE Typing'
  BY <1>0, <1>1, HandlerTyping DEF PairClient
<1>2. ASSUME NEW c \in Cameras, RotateAuthorization(c) PROVE Typing'
  <2>1. [camera[c] EXCEPT !.enabled = FALSE] \in CameraRow
    <3> HIDE DEF CameraRow
    <3>1. camera[c] \in CameraRow
      BY <1>0
    <3> QED  BY <3>1, SwitchedOff
  <2> QED  BY <1>0, <1>2, <2>1, RemoveTyped, HandlerTyping DEF RotateAuthorization
<1>3. ASSUME NEW c \in Cameras, RevokeClient(c) PROVE Typing'
  <2>1. [camera[c] EXCEPT !.enabled = FALSE, !.deleted = TRUE] \in CameraRow
    <3> HIDE DEF CameraRow
    <3>1. camera[c] \in CameraRow
      BY <1>0
    <3> QED  BY <3>1, SwitchedOff
  <2> QED  BY <1>0, <1>3, <2>1, RemoveTyped, HandlerTyping DEF RevokeClient
<1>4. ASSUME NEW c \in Cameras, PurgeClient(c) PROVE Typing'
  <2>1. NoCamera \in CameraRow /\ NoDesired \in DesiredRow /\ NoActual \in [Profiles -> ActualRow]
    BY DEF NoCamera, NoDesired, DesiredRow, NoActual, ActualRow
  <2> QED  BY <1>0, <1>4, <2>1, HandlerTyping DEF PurgeClient
<1>5. ASSUME NEW c \in Cameras, ReportNothing(c) PROVE Typing'
  <2>1. [camera[c] EXCEPT !.enabled = FALSE, !.deleted = TRUE] \in CameraRow
    <3> HIDE DEF CameraRow
    <3>1. camera[c] \in CameraRow
      BY <1>0
    <3> QED  BY <3>1, SwitchedOff
  <2> QED  BY <1>0, <1>5, <2>1, RemoveTyped, HandlerTyping DEF ReportNothing
<1>6. ASSUME NEW c \in Cameras, NEW r \in Reports, ReportCamera(c, r) PROVE Typing'
  <2> DEFINE row == [exists |-> TRUE, enabled |-> r.enabled, sub |-> r.sub,
                     record |-> r.record, deleted |-> FALSE]
  <2>1. row \in CameraRow /\ row.enabled \in BOOLEAN  BY DEF ReportsAssumption, Report
  <2>2. camera' = [camera EXCEPT ![c] = row]  BY <1>6 DEF ReportCamera
  <2>3. camera' \in [Cameras -> CameraRow]  BY <1>0, <2>1, <2>2
  <2>4. CASE MediaChanged(camera[c], r)
    <3>1. QueueCameraChange(c, row, row.enabled)  BY <1>6, <2>4 DEF ReportCamera
    <3>2. /\ desired' \in [Cameras -> DesiredRow]
          /\ OpsOK(ops')
          /\ DOMAIN ops \subseteq DOMAIN ops'
          /\ \A j \in DOMAIN ops : ops'[j] = ops[j]
      BY <2>1, <3>1, QueueTyped
    <3> QED  BY <1>0, <1>6, <2>3, <3>2, HandlerTyping DEF ReportCamera
  <2>5. CASE ~MediaChanged(camera[c], r)
    BY <1>0, <1>6, <2>3, <2>5, HandlerTyping DEF ReportCamera
  <2> QED  BY <2>4, <2>5
<1>7. ASSUME NEW i \in DOMAIN ops, NEW resolution \in Resolutions,
             ResolveOperation(i, resolution)
      PROVE  Typing'
  <2>1. ops[i] \in OpRow /\ ops[i].attempt <= MaxAttempts
    BY <1>0, LenProperties, ElementOfSeq DEF OpsOK
  <2>2. PICK row \in OpRow : /\ ops' = [ops EXCEPT ![i] = row]
                             /\ row.attempt = ops[i].attempt
                             /\ row.state # "pending"
    <3> DEFINE settled == [ops[i] EXCEPT !.state = "resolved",
                                         !.confirmed = (resolution = "confirmed_succeeded")]
               dead    == [ops[i] EXCEPT !.state = "dead_letter", !.live = FALSE]
    <3>1. settled \in OpRow /\ settled.attempt = ops[i].attempt /\ settled.state = "resolved"
      <4>1. (resolution = "confirmed_succeeded") \in BOOLEAN  OBVIOUS
      <4> QED  BY <2>1, <4>1 DEF OpRow
    <3>2. dead \in OpRow /\ dead.attempt = ops[i].attempt /\ dead.state = "dead_letter"
      BY <2>1 DEF OpRow
    <3>3. ops' = [ops EXCEPT ![i] = settled] \/ ops' = [ops EXCEPT ![i] = dead]
      BY <1>7 DEF ResolveOperation, SetState
    <3> HIDE DEF settled, dead
    <3> QED  BY <3>1, <3>2, <3>3
  <2>3. ops[i].state # "running"  BY <1>7 DEF ResolveOperation
  <2>4. /\ OpsOK(ops') /\ DOMAIN ops' = DOMAIN ops
        /\ \A j \in DOMAIN ops : j # i => ops'[j] = ops[j]
    BY <1>0, <2>1, <2>2, UpdateKeepsOps
  <2>5. TypeOK' /\ PendingHasAttempts'
    BY <1>7, <2>4 DEF ResolveOperation, Typing, TypeOK, PendingHasAttempts, OpsOK
  <2>6. ClaimIsRunning'
    BY <1>7, <2>3, <2>4 DEF ResolveOperation, Typing, ClaimIsRunning
  <2> QED  BY <2>5, <2>6 DEF Typing
<1> QED  BY <1>1, <1>2, <1>3, <1>4, <1>5, <1>6, <1>7 DEF HandlerStep

-----------------------------------------------------------------------------
(* The worker and its environment.                                         *)

LEMMA StepTyping ==
    ASSUME Typing, UNCHANGED <<client, camera, desired>>,
           actual' \in [Cameras -> [Profiles -> ActualRow]], OpsOK(ops'),
           lease' \in LeaseRow, media' \in [Cameras -> [Profiles -> Config]],
           late' \in [Cameras -> SUBSET (Profiles \X Config)], worker' \in WorkerRow,
           faults' \in 0..MaxFaults, ClaimIsRunning'
    PROVE  Typing'
BY DEF Typing, TypeOK, PendingHasAttempts, OpsOK

(* The same for a step that leaves the store alone: a worker that still    *)
(* has a claim afterwards had it before.                                   *)
LEMMA WorkerTyping ==
    ASSUME Typing, UNCHANGED <<client, camera, desired, ops>>,
           actual' \in [Cameras -> [Profiles -> ActualRow]],
           lease' \in LeaseRow, media' \in [Cameras -> [Profiles -> Config]],
           late' \in [Cameras -> SUBSET (Profiles \X Config)], worker' \in WorkerRow,
           faults' \in 0..MaxFaults,
           worker'.pc \in Claimed => worker.pc \in Claimed /\ worker'.job = worker.job
    PROVE  Typing'
<1>1. OpsOK(ops')  BY TypingOps
<1>2. ClaimIsRunning'  BY DEF Typing, ClaimIsRunning
<1> QED  BY <1>1, <1>2, StepTyping

LEMMA FaultTyped ==
    ASSUME BoundsAssumption, Typing, NEW kind, Fault(kind)
    PROVE  faults' \in 0..MaxFaults
BY DEF BoundsAssumption, Typing, TypeOK, Fault

LEMMA GotoTyped ==
    ASSUME Typing, NEW pc \in WorkerStates, Goto(pc)
    PROVE  worker' \in WorkerRow /\ worker'.pc = pc /\ worker'.job = worker.job
BY DEF Typing, TypeOK, Goto, WorkerRow

LEMMA IdleTyped ==
    ASSUME CamerasAssumption
    PROVE  IdleWorker \in WorkerRow /\ IdleWorker.pc = "idle"
<1>1. NoDesired \in DesiredRow  BY DEF NoDesired, DesiredRow
<1>2. (CHOOSE c \in Cameras : TRUE) \in Cameras  BY DEF CamerasAssumption
<1> QED  BY <1>1, <1>2 DEF IdleWorker, WorkerRow, WorkerStates, Absent

LEMMA FreshTyped ==
    ASSUME CamerasAssumption, NEW pc \in WorkerStates
    PROVE  /\ [IdleWorker EXCEPT !.pc = pc] \in WorkerRow
           /\ [IdleWorker EXCEPT !.pc = pc].pc = pc
           /\ [IdleWorker EXCEPT !.pc = pc, !.again = TRUE] \in WorkerRow
           /\ [IdleWorker EXCEPT !.pc = pc, !.again = TRUE].pc = pc
BY IdleTyped DEF WorkerRow

LEMMA FreshObserverTyped ==
    ASSUME CamerasAssumption, NEW pc \in WorkerStates, NEW observed \in BOOLEAN
    PROVE  /\ [IdleWorker EXCEPT !.pc = pc, !.observed = observed] \in WorkerRow
           /\ [IdleWorker EXCEPT !.pc = pc, !.observed = observed].pc = pc
BY IdleTyped DEF WorkerRow

LEMMA SetStateTyped ==
    ASSUME Typing, NEW i \in DOMAIN ops, NEW state \in OpStates \ {"pending"},
           NEW o, o = SetState(i, state)
    PROVE  OpsOK(o)
<1>1. OpsOK(ops)  BY TypingOps
<1>2. ops[i] \in OpRow /\ ops[i].attempt <= MaxAttempts
  BY <1>1, LenProperties, ElementOfSeq DEF OpsOK
<1> DEFINE op == [ops[i] EXCEPT !.state = state, !.live = FALSE]
<1>3. op \in OpRow /\ op.attempt = ops[i].attempt /\ op.state # "pending"
  BY <1>2 DEF OpRow
<1>4. o = [ops EXCEPT ![i] = op]  BY DEF SetState
<1> HIDE DEF op
<1>5. OpsOK([ops EXCEPT ![i] = op])  BY <1>1, <1>2, <1>3, UpdateKeepsOps
<1> QED  BY <1>4, <1>5

LEMMA RequiredTyped ==
    ASSUME NEW d \in DesiredRow, NEW p \in Profiles
    PROVE  Required(d, p) \in Config
BY DEF Required, DesiredRow

(* What every leaf below needs of the types.                               *)
LEMMA TypingParts ==
    ASSUME Typing
    PROVE  /\ worker \in WorkerRow /\ lease \in LeaseRow
           /\ desired \in [Cameras -> DesiredRow] /\ actual \in [Cameras -> [Profiles -> ActualRow]]
           /\ media \in [Cameras -> [Profiles -> Config]]
           /\ late \in [Cameras -> SUBSET (Profiles \X Config)]
           /\ faults \in 0..MaxFaults
BY DEF Typing, TypeOK

LEMMA RowTyped ==
    ASSUME Typing, NEW i \in DOMAIN ops
    PROVE  ops[i] \in OpRow /\ ops[i].attempt <= MaxAttempts
BY TypingOps, LenProperties, ElementOfSeq DEF OpsOK

LEMMA JobTyped ==
    ASSUME Typing, worker.pc \in Claimed
    PROVE  /\ worker.job \in DOMAIN ops
           /\ ops[worker.job] \in OpRow /\ ops[worker.job].attempt <= MaxAttempts
           /\ ops[worker.job].state = "running"
           /\ ops[worker.job].cam \in Cameras
<1>1. worker.job \in DOMAIN ops /\ ops[worker.job].state = "running"
  BY DEF Typing, ClaimIsRunning
<1> QED  BY <1>1, RowTyped DEF OpRow

LEMMA TypingRounds ==
    ASSUME CamerasAssumption, BoundsAssumption, Typing,
           RecoverExpired \/ AcquireLease \/ RenewLease \/ ClaimNext \/ ReleaseLease
    PROVE  Typing'
<1>0. /\ OpsOK(ops) /\ worker \in WorkerRow /\ lease \in LeaseRow
      /\ actual \in [Cameras -> [Profiles -> ActualRow]]
      /\ media \in [Cameras -> [Profiles -> Config]]
      /\ late \in [Cameras -> SUBSET (Profiles \X Config)]
      /\ faults \in 0..MaxFaults
  BY TypingParts, TypingOps
<1>1. CASE RecoverExpired
  <2>1. OpsOK(ops')
    <3>0. \A i \in DOMAIN ops : /\ ops[i] \in OpRow
                                /\ [ops[i] EXCEPT !.state = "unknown"] \in OpRow
      BY RowTyped DEF OpRow
    <3>1. ops' \in [DOMAIN ops -> OpRow]  BY <3>0, <1>1 DEF RecoverExpired
    <3>2. \A i \in DOMAIN ops : /\ ops'[i].attempt = ops[i].attempt
                                /\ ops'[i].state # "pending" \/ ops'[i].state = ops[i].state
      BY <1>1, <3>0 DEF RecoverExpired, OpRow
    <3> QED  BY <1>0, <3>1, <3>2, MapKeepsOps
  <2>2. worker' \in WorkerRow /\ worker'.pc = "acquire"
    BY <1>0, <1>1, GotoTyped DEF RecoverExpired, WorkerStates
  <2>3. ClaimIsRunning'  BY <1>0, <2>2 DEF ClaimIsRunning, Claimed
  <2> QED  BY <1>0, <1>1, <2>1, <2>2, <2>3, StepTyping DEF RecoverExpired, OnlyStore
<1>2. CASE AcquireLease
  <2>1. lease' \in LeaseRow
    <3>1. [owner |-> "worker", live |-> TRUE] \in LeaseRow  BY DEF LeaseRow
    <3>2. lease' = lease \/ lease' = [owner |-> "worker", live |-> TRUE]
      BY <1>2 DEF AcquireLease
    <3> QED  BY <1>0, <3>1, <3>2
  <2>2. worker' \in WorkerRow /\ worker'.pc \notin Claimed
    BY <1>0, <1>2, GotoTyped, IdleTyped DEF AcquireLease, WorkerStates, Claimed
  <2> QED  BY <1>0, <1>2, <2>1, <2>2, WorkerTyping DEF AcquireLease
<1>3. CASE RenewLease
  <2>1. worker' \in WorkerRow /\ worker'.pc \notin Claimed
    BY <1>0, <1>3, GotoTyped DEF RenewLease, WorkerStates, Claimed
  <2> QED  BY <1>0, <1>3, <2>1, WorkerTyping DEF RenewLease, OnlyWorker
<1>4. CASE ClaimNext
  <2>1. CASE UNCHANGED ops /\ worker' \in WorkerRow /\ worker'.pc \notin Claimed
    BY <1>0, <1>4, <2>1, WorkerTyping DEF ClaimNext, OnlyStore
  <2>2. ASSUME NEW i \in DOMAIN ops, Claimable(i),
               ops' = [ops EXCEPT ![i] = [@ EXCEPT !.state = "running", !.live = TRUE,
                                                   !.attempt = ops[i].attempt + 1]],
               worker' = [worker EXCEPT !.pc = "reread", !.job = i]
        PROVE  Typing'
    <3> DEFINE n  == ops[i].attempt + 1
               op == [ops[i] EXCEPT !.state = "running", !.live = TRUE, !.attempt = n]
    <3>0. ops[i] \in OpRow  BY RowTyped
    <3>1. n \in Nat /\ n <= MaxAttempts
      <4>1. ops[i].state = "pending"  BY <2>2 DEF Claimable
      <4>2. ops[i].attempt < MaxAttempts  BY <4>1 DEF Typing, PendingHasAttempts
      <4>3. ops[i].attempt \in Nat /\ MaxAttempts \in Nat  BY <3>0 DEF OpRow, BoundsAssumption
      <4> QED  BY <4>2, <4>3
    <3>3. ops' = [ops EXCEPT ![i] = op]  BY <2>2
    <3> HIDE DEF n
    <3>2. op \in OpRow /\ op.attempt <= MaxAttempts /\ op.state = "running"
      BY <3>0, <3>1 DEF OpRow
    <3> HIDE DEF op
    <3>4. OpsOK([ops EXCEPT ![i] = op]) /\ DOMAIN [ops EXCEPT ![i] = op] = DOMAIN ops
      BY <1>0, <3>2, UpdateKeepsOps
    <3>5. worker' \in WorkerRow
      <4>1. i \in Nat  BY <1>0, LenProperties DEF OpsOK
      <4> QED  BY <1>0, <2>2, <4>1 DEF WorkerRow, WorkerStates
    <3>6. ClaimIsRunning'  BY <1>0, <2>2, <3>2, <3>3, <3>4 DEF ClaimIsRunning, WorkerRow
    <3> QED  BY <1>0, <1>4, <3>3, <3>4, <3>5, <3>6, StepTyping DEF ClaimNext, OnlyStore
  <2>3. CASE ~HoldsLease
    BY <1>0, <1>4, <2>1, <2>3, GotoTyped DEF ClaimNext, WorkerStates, Claimed
  <2>4. CASE HoldsLease
    <3>1. CASE \A i \in DOMAIN ops : ~Claimable(i)
      BY <1>0, <1>4, <2>1, <2>4, <3>1, GotoTyped DEF ClaimNext, WorkerStates, Claimed
    <3>2. CASE ~ \A i \in DOMAIN ops : ~Claimable(i)
      BY <1>0, <1>4, <2>2, <2>4, <3>2 DEF ClaimNext
    <3> QED  BY <1>0, <3>1, <3>2
  <2> QED  BY <1>0, <2>3, <2>4
<1>5. CASE ReleaseLease
  <2>1. lease' \in LeaseRow
    <3>1. [owner |-> "none", live |-> FALSE] \in LeaseRow  BY DEF LeaseRow
    <3>2. lease' = lease \/ lease' = [owner |-> "none", live |-> FALSE]
      BY <1>5 DEF ReleaseLease
    <3> QED  BY <1>0, <3>1, <3>2
  <2>2. worker' \in WorkerRow /\ worker'.pc \notin Claimed
    <3> DEFINE next == IF worker.again THEN "acquire" ELSE "idle"
    <3>1. next \in WorkerStates /\ next \notin Claimed  BY DEF WorkerStates, Claimed
    <3>2. worker' = [IdleWorker EXCEPT !.pc = next]  BY <1>5 DEF ReleaseLease
    <3> HIDE DEF next
    <3> QED  BY <3>1, <3>2, FreshTyped
  <2> QED  BY <1>0, <1>5, <2>1, <2>2, WorkerTyping DEF ReleaseLease
<1> QED  BY <1>1, <1>2, <1>3, <1>4, <1>5

LEMMA TypingClaim ==
    ASSUME CamerasAssumption, BoundsAssumption, Typing,
           RereadClaim \/ RenewClaimed \/ LoadDesired \/ LoadCamera
    PROVE  Typing'
<1>0. worker \in WorkerRow /\ desired \in [Cameras -> DesiredRow]  BY TypingParts
<1>3. UNCHANGED <<client, camera, desired, actual, ops, lease, media, late, faults>>
  BY DEF RereadClaim, RenewClaimed, LoadDesired, LoadCamera, OnlyWorker
<1>1. worker.pc \in Claimed
  BY DEF RereadClaim, RenewClaimed, LoadDesired, LoadCamera, At, Claimed
<1>2. worker' \in WorkerRow /\ worker'.job = worker.job
  <2>1. CASE RereadClaim  BY <2>1, GotoTyped DEF RereadClaim, WorkerStates
  <2>2. CASE RenewClaimed  BY <2>2, GotoTyped DEF RenewClaimed, WorkerStates
  <2>3. CASE LoadDesired
    <3>1. worker.job \in DOMAIN ops  BY <1>1 DEF Typing, ClaimIsRunning
    <3>2. desired[ops[worker.job].cam] \in DesiredRow  BY <1>0, <1>1, JobTyped
    <3>3. CASE worker' = [worker EXCEPT !.pc = "camera", !.loaded = desired[ops[worker.job].cam]]
      BY <1>0, <3>2, <3>3 DEF WorkerRow, WorkerStates
    <3> QED  BY <2>3, <3>3, GotoTyped DEF LoadDesired, WorkerStates
  <2>4. CASE LoadCamera  BY <2>4, GotoTyped DEF LoadCamera, WorkerStates
  <2> QED  BY <2>1, <2>2, <2>3, <2>4
<1> QED  BY <1>1, <1>2, <1>3, TypingParts, WorkerTyping

(* A call leaves MediaMTX with well-typed configurations and requests.     *)
LEMMA EffectTyped ==
    ASSUME Typing, Calling
    PROVE  /\ TakesEffect => media' \in [Cameras -> [Profiles -> Config]]
           /\ MaybeExecuted => /\ media' \in [Cameras -> [Profiles -> Config]]
                              /\ late' \in [Cameras -> SUBSET (Profiles \X Config)]
<1>1. worker.pc \in Profiles /\ worker.pc \in Claimed  BY DEF Calling, Claimed
<1>2. CallTarget \in Cameras  BY <1>1, JobTyped DEF CallTarget
<1>3. worker.loaded \in DesiredRow  BY TypingParts DEF WorkerRow
<1>4. CallConfig \in Config  BY <1>1, <1>3, RequiredTyped DEF CallConfig
<1>5. /\ media \in [Cameras -> [Profiles -> Config]]
      /\ late \in [Cameras -> SUBSET (Profiles \X Config)]
  BY TypingParts
<1> HIDE DEF Profiles, Config
<1>6. TakesEffect => media' \in [Cameras -> [Profiles -> Config]]
  BY <1>1, <1>2, <1>4, <1>5 DEF TakesEffect
<1>7. late' = [late EXCEPT ![CallTarget] = @ \cup {<<worker.pc, CallConfig>>}]
         => late' \in [Cameras -> SUBSET (Profiles \X Config)]
  BY <1>1, <1>2, <1>4, <1>5
<1> QED  BY <1>5, <1>6, <1>7 DEF MaybeExecuted

LEMMA TypingCalls ==
    ASSUME BoundsAssumption, Typing, CallSucceeds \/ CallRejected \/ CallUnanswered
    PROVE  Typing'
<1>1. Calling /\ worker.pc \in Claimed
  BY DEF CallSucceeds, CallRejected, CallUnanswered, Calling, Claimed
<1>2. /\ worker \in WorkerRow /\ lease \in LeaseRow
      /\ actual \in [Cameras -> [Profiles -> ActualRow]]
      /\ media \in [Cameras -> [Profiles -> Config]]
      /\ late \in [Cameras -> SUBSET (Profiles \X Config)]
      /\ faults \in 0..MaxFaults
  BY TypingParts
<1>3. CASE CallSucceeds
  <2> DEFINE next == IF At("main") THEN "sub" ELSE "finish"
  <2>1. Goto(next) /\ next \in WorkerStates  BY <1>3 DEF CallSucceeds, WorkerStates
  <2>2. worker' \in WorkerRow /\ worker'.job = worker.job
    <3> HIDE DEF next
    <3> QED  BY <2>1, GotoTyped
  <2> QED  BY <1>1, <1>2, <1>3, <2>2, EffectTyped, WorkerTyping DEF CallSucceeds
<1>4. CASE CallRejected
  <2>1. worker' \in WorkerRow /\ worker'.job = worker.job
    BY <1>2, <1>4 DEF CallRejected, WorkerRow, WorkerStates
  <2>2. faults' \in 0..MaxFaults  BY <1>4, FaultTyped DEF CallRejected
  <2> QED  BY <1>1, <1>2, <1>4, <2>1, <2>2, WorkerTyping DEF CallRejected
<1>5. CASE CallUnanswered
  <2>1. worker' \in WorkerRow /\ worker'.job = worker.job
    BY <1>2, <1>5 DEF CallUnanswered, WorkerRow, WorkerStates
  <2>2. faults' \in 0..MaxFaults  BY <1>5, FaultTyped DEF CallUnanswered
  <2> QED  BY <1>1, <1>2, <1>5, <2>1, <2>2, EffectTyped, WorkerTyping DEF CallUnanswered
<1> QED  BY <1>3, <1>4, <1>5

(* A finished round has no claim any more; one that could not finish keeps *)
(* it until it is abandoned.                                               *)
LEMMA FinishTyping ==
    ASSUME CamerasAssumption, Typing, worker.pc \in Claimed,
           UNCHANGED <<client, camera, desired, lease, media, late, faults>>,
           actual' \in [Cameras -> [Profiles -> ActualRow]],
           \/ OpsOK(ops') /\ RoundDone
           \/ UNCHANGED ops /\ Goto("abandon")
    PROVE  Typing'
<1>1. CASE OpsOK(ops') /\ RoundDone
  <2>1. worker' \in WorkerRow /\ worker'.pc = "release"
    BY <1>1, FreshTyped DEF RoundDone, WorkerStates
  <2>2. ClaimIsRunning'  BY <2>1 DEF ClaimIsRunning, Claimed
  <2> QED  BY <1>1, <2>1, <2>2, TypingParts, StepTyping
<1>2. CASE UNCHANGED ops /\ Goto("abandon")
  <2>1. worker' \in WorkerRow /\ worker'.job = worker.job
    BY <1>2, GotoTyped DEF WorkerStates
  <2> QED  BY <1>2, <2>1, TypingParts, WorkerTyping
<1> QED  BY <1>1, <1>2

LEMMA FailedOpTyped ==
    ASSUME BoundsAssumption, NEW op \in OpRow, op.attempt <= MaxAttempts
    PROVE  /\ FailedOp(op) \in OpRow
           /\ FailedOp(op).attempt <= MaxAttempts
           /\ FailedOp(op).state = "pending" => FailedOp(op).attempt < MaxAttempts
           /\ FailedOp(op).state # "running"
           /\ FailedOp(op).cam = op.cam
BY DEF FailedOp, OpRow

LEMMA TypingFinish ==
    ASSUME CamerasAssumption, BoundsAssumption, Typing,
           FinishSuperseded \/ FinishSuccess \/ FinishFailure \/ AbandonClaim
    PROVE  Typing'
<1>1. worker.pc \in Claimed
  BY DEF FinishSuperseded, FinishSuccess, FinishFailure, AbandonClaim, At, Claimed
<1>2. /\ worker.job \in DOMAIN ops /\ ops[worker.job].state = "running"
      /\ ops[worker.job] \in OpRow /\ ops[worker.job].attempt <= MaxAttempts
      /\ OpsOK(ops)
  BY <1>1, JobTyped, TypingOps
<1>3. actual \in [Cameras -> [Profiles -> ActualRow]] /\ worker.loaded \in DesiredRow
  BY TypingParts DEF WorkerRow
<1>4. CASE FinishSuperseded
  <2>1. \/ ops' = SetState(worker.job, "succeeded") /\ RoundDone
        \/ UNCHANGED ops /\ Goto("abandon")
    BY <1>4 DEF FinishSuperseded
  <2>2. (OpsOK(ops') /\ RoundDone) \/ (UNCHANGED ops /\ Goto("abandon"))
    BY <1>2, <2>1, SetStateTyped
  <2> QED  BY <1>1, <1>3, <1>4, <2>2, FinishTyping DEF FinishSuperseded, OnlyStore
<1>5. CASE FinishSuccess
  <2>1. AppliedRows(worker.loaded) \in [Profiles -> ActualRow]
    BY <1>3 DEF AppliedRows, ActualRow, DesiredRow
  <2>2. actual' = [actual EXCEPT ![ops[worker.job].cam] = AppliedRows(worker.loaded)]
        \/ actual' = actual
    BY <1>5 DEF FinishSuccess
  <2>3. actual' \in [Cameras -> [Profiles -> ActualRow]]
    <3> HIDE DEF Profiles
    <3> QED  BY <1>3, <2>1, <2>2
  <2>4. \/ ops' = SetState(worker.job, "succeeded") /\ RoundDone
        \/ UNCHANGED ops /\ Goto("abandon")
    BY <1>5 DEF FinishSuccess
  <2>5. (OpsOK(ops') /\ RoundDone) \/ (UNCHANGED ops /\ Goto("abandon"))
    BY <1>2, <2>4, SetStateTyped
  <2> QED  BY <1>1, <1>5, <2>3, <2>5, FinishTyping DEF FinishSuccess
<1>6. CASE FinishFailure
  <2>1. OpsOK([ops EXCEPT ![worker.job] = FailedOp(ops[worker.job])])
    BY <1>2, FailedOpTyped, UpdateKeepsOps
  <2>2. (OpsOK(ops') /\ RoundDone) \/ (UNCHANGED ops /\ Goto("abandon"))
    BY <1>6, <2>1 DEF FinishFailure
  <2> QED  BY <1>1, <1>3, <1>6, <2>2, FinishTyping DEF FinishFailure, OnlyStore
<1>7. CASE AbandonClaim
  <2>1. OpsOK(ops')
    <3>1. ops' = SetState(worker.job, "unknown")  BY <1>2, <1>7 DEF AbandonClaim
    <3> QED  BY <1>2, <3>1, SetStateTyped
  <2>2. worker' \in WorkerRow /\ worker'.pc = "release"
    BY <1>7, FreshTyped DEF AbandonClaim, WorkerStates
  <2>3. ClaimIsRunning'  BY <2>2 DEF ClaimIsRunning, Claimed
  <2> QED  BY <1>7, <2>1, <2>2, <2>3, TypingParts, StepTyping DEF AbandonClaim, OnlyStore
<1> QED  BY <1>4, <1>5, <1>6, <1>7

(* The worker's place after an observation, or after one of its cameras.   *)
LEMMA ObservedTyped ==
    ASSUME CamerasAssumption, Typing
    PROVE  /\ Observed \in WorkerRow /\ Observed.pc = "renew"
           /\ NextCamera \in WorkerRow /\ NextCamera.pc \notin Claimed
<1>1. Observed \in WorkerRow /\ Observed.pc = "renew"
  BY FreshObserverTyped DEF Observed, WorkerStates
<1>2. worker \in WorkerRow  BY TypingParts
<1> QED  BY <1>1, <1>2 DEF NextCamera, WorkerRow, WorkerStates, Claimed

LEMMA ForgetTyped ==
    ASSUME CamerasAssumption, Typing, Forget("release")
    PROVE  worker' \in WorkerRow /\ worker'.pc = "release"
<1>1. worker.observed \in BOOLEAN  BY TypingParts DEF WorkerRow
<1> QED  BY <1>1, FreshObserverTyped DEF Forget, WorkerStates

LEMMA TypingObservation ==
    ASSUME CamerasAssumption, BoundsAssumption, Typing,
           \/ FetchInventory \/ ListDesired \/ ObserveCamera \/ ObservePaths
           \/ DriftCheck \/ DriftEnqueue
    PROVE  Typing'
<1>1. /\ OpsOK(ops) /\ worker \in WorkerRow /\ lease \in LeaseRow
      /\ desired \in [Cameras -> DesiredRow]
      /\ actual \in [Cameras -> [Profiles -> ActualRow]]
      /\ media \in [Cameras -> [Profiles -> Config]]
      /\ late \in [Cameras -> SUBSET (Profiles \X Config)]
      /\ faults \in 0..MaxFaults
  BY TypingParts, TypingOps
<1>2. CASE FetchInventory
  <2>1. faults' \in 0..MaxFaults
    <3>1. faults' = faults \/ Fault("reject") \/ Fault("timeout")  BY <1>2 DEF FetchInventory
    <3> QED  BY <1>1, <3>1, FaultTyped
  <2>2. worker' \in WorkerRow /\ worker'.pc \notin Claimed
    <3>1. \/ worker' = [worker EXCEPT !.pc = "list", !.seen = media]
          \/ Goto("release")
      BY <1>2 DEF FetchInventory
    <3>2. [worker EXCEPT !.pc = "list", !.seen = media] \in WorkerRow
      BY <1>1 DEF WorkerRow, WorkerStates
    <3>3. [worker EXCEPT !.pc = "list", !.seen = media].pc = "list"  BY <1>1 DEF WorkerRow
    <3> QED  BY <3>1, <3>2, <3>3, GotoTyped DEF WorkerStates, Claimed
  <2> QED  BY <1>1, <1>2, <2>1, <2>2, WorkerTyping DEF FetchInventory
<1>3. CASE ListDesired
  <2> DEFINE rows == {c \in Cameras : desired[c].gen > 0}
             listing == [worker EXCEPT !.pc = "observeCamera", !.listed = desired, !.todo = rows]
  <2>1. listing \in WorkerRow /\ listing.pc = "observeCamera"
    <3>1. rows \in SUBSET Cameras  OBVIOUS
    <3> HIDE DEF rows
    <3> QED  BY <1>1, <3>1 DEF WorkerRow, WorkerStates
  <2>2. worker' = Observed \/ worker' = listing  BY <1>3 DEF ListDesired
  <2> HIDE DEF listing
  <2>3. worker' \in WorkerRow /\ worker'.pc \notin Claimed
    BY <2>1, <2>2, ObservedTyped DEF Claimed
  <2> QED  BY <1>1, <1>3, <2>3, WorkerTyping DEF ListDesired, OnlyWorker
<1>4. CASE ObserveCamera
  <2>1. PICK c \in worker.todo :
          IF camera[c].exists
          THEN worker' = [worker EXCEPT !.pc = "observeMain", !.cam = c, !.todo = @ \ {c}]
          ELSE Forget("release")
    BY <1>4 DEF ObserveCamera
  <2>2. worker.todo \in SUBSET Cameras /\ c \in Cameras  BY <1>1 DEF WorkerRow
  <2> DEFINE looking == [worker EXCEPT !.pc = "observeMain", !.cam = c, !.todo = @ \ {c}]
  <2>3. looking \in WorkerRow /\ looking.pc = "observeMain"
    BY <1>1, <2>2 DEF WorkerRow, WorkerStates
  <2>4. worker' = looking \/ Forget("release")  BY <2>1
  <2> HIDE DEF looking
  <2>5. worker' \in WorkerRow /\ worker'.pc \notin Claimed
    BY <2>3, <2>4, ForgetTyped DEF Claimed
  <2> QED  BY <1>1, <1>4, <2>5, WorkerTyping DEF ObserveCamera, OnlyWorker
<1>5. CASE ObservePaths
  <2>1. PICK p \in Profiles : ObservePath(p)  BY <1>5 DEF ObservePaths
  <2> DEFINE c   == worker.cam
             row == [present |-> worker.seen[c][p] # "none",
                     applied |-> IF Matches(c, p) THEN worker.listed[c].gen ELSE 0]
             sub == [worker EXCEPT !.pc = "observeSub"]
             check == [worker EXCEPT !.pc = "driftCheck", !.stamp = Len(ops)]
  <2>2. row \in ActualRow
    <3>1. c \in Cameras /\ worker.listed[c].gen \in Nat
      BY <1>1 DEF WorkerRow, DesiredRow
    <3> QED  BY <3>1 DEF ActualRow
  <2>3. actual' = [actual EXCEPT ![c][p] = row] \/ actual' = actual
    BY <2>1 DEF ObservePath
  <2>4. actual' \in [Cameras -> [Profiles -> ActualRow]]
    <3>1. c \in Cameras  BY <1>1 DEF WorkerRow
    <3> HIDE DEF row, c, Profiles
    <3>2. [actual[c] EXCEPT ![p] = row] \in [Profiles -> ActualRow]  BY <1>1, <2>2, <3>1
    <3>3. [actual EXCEPT ![c] = [actual[c] EXCEPT ![p] = row]] \in [Cameras -> [Profiles -> ActualRow]]
      BY <1>1, <3>1, <3>2
    <3> QED  BY <1>1, <2>3, <3>3
  <2>5. sub \in WorkerRow /\ sub.pc = "observeSub" /\ check \in WorkerRow /\ check.pc = "driftCheck"
    <3>1. Len(ops) \in Nat  BY <1>1, LenProperties DEF OpsOK
    <3> QED  BY <1>1, <3>1 DEF WorkerRow, WorkerStates
  <2>6. worker' = sub \/ worker' = NextCamera \/ worker' = check \/ Forget("release")
    BY <2>1 DEF ObservePath
  <2> HIDE DEF sub, check
  <2>7. worker' \in WorkerRow /\ worker'.pc \notin Claimed
    BY <2>5, <2>6, ObservedTyped, ForgetTyped DEF Claimed
  <2> QED  BY <1>1, <1>5, <2>4, <2>7, WorkerTyping DEF ObservePaths
<1>6. CASE DriftCheck
  <2> DEFINE go == [worker EXCEPT !.pc = "driftEnqueue"]
  <2>1. go \in WorkerRow /\ go.pc = "driftEnqueue"  BY <1>1 DEF WorkerRow, WorkerStates
  <2>2. worker' = NextCamera \/ worker' = go  BY <1>6 DEF DriftCheck
  <2> HIDE DEF go
  <2>3. worker' \in WorkerRow /\ worker'.pc \notin Claimed
    BY <2>1, <2>2, ObservedTyped DEF Claimed
  <2> QED  BY <1>1, <1>6, <2>3, WorkerTyping DEF DriftCheck, OnlyWorker
<1>7. CASE DriftEnqueue
  <2> DEFINE new == NewOperation(worker.cam, worker.listed[worker.cam].gen, DriftStamp(worker.stamp))
  <2>1. new \in OpRow /\ new.attempt = 0
    <3>1. worker.cam \in Cameras /\ worker.stamp \in Nat /\ worker.listed[worker.cam] \in DesiredRow
      BY <1>1 DEF WorkerRow
    <3>2. worker.listed[worker.cam].gen \in Nat  BY <3>1 DEF DesiredRow
    <3>3. DriftStamp(worker.stamp) \in Nat  BY <3>1 DEF DriftStamp
    <3> QED  BY <3>1, <3>2, <3>3, NewOperationTyped
  <2>2. \/ ops' = Append(ops, new) /\ worker' = NextCamera
        \/ UNCHANGED ops /\ Forget("release")
    BY <1>7 DEF DriftEnqueue
  <2> HIDE DEF new
  <2>3. OpsOK(ops')
    <3>1. OpsOK(Append(ops, new))  BY <1>1, <2>1, InsertKeepsOps
    <3> QED  BY <1>1, <2>2, <3>1
  <2>4. worker' \in WorkerRow /\ worker'.pc \notin Claimed
    BY <2>2, ObservedTyped, ForgetTyped DEF Claimed
  <2>5. ClaimIsRunning'  BY <2>4 DEF ClaimIsRunning
  <2> QED  BY <1>1, <1>7, <2>3, <2>4, <2>5, StepTyping DEF DriftEnqueue, OnlyStore
<1> QED  BY <1>2, <1>3, <1>4, <1>5, <1>6, <1>7

LEMMA TypingDatabaseError ==
    ASSUME CamerasAssumption, BoundsAssumption, Typing, DatabaseError
    PROVE  Typing'
<1>1. /\ worker \in WorkerRow /\ lease \in LeaseRow
      /\ actual \in [Cameras -> [Profiles -> ActualRow]]
      /\ media \in [Cameras -> [Profiles -> Config]]
      /\ late \in [Cameras -> SUBSET (Profiles \X Config)]
  BY TypingParts
<1>2. faults' \in 0..MaxFaults  BY FaultTyped DEF DatabaseError
<1>3. lease' \in LeaseRow
  <2>1. [lease EXCEPT !.owner = "other"] \in LeaseRow  BY <1>1 DEF LeaseRow
  <2>2. lease' = lease \/ lease' = [lease EXCEPT !.owner = "other"]  BY DEF DatabaseError
  <2> QED  BY <1>1, <2>1, <2>2
<1>4. /\ worker' \in WorkerRow
      /\ worker'.pc \in Claimed => worker.pc \in Claimed /\ worker'.job = worker.job
  <2>1. CASE worker' = IdleWorker  BY <2>1, IdleTyped DEF Claimed
  <2>2. CASE worker' = [IdleWorker EXCEPT !.pc = "release"]
    BY <2>2, FreshTyped DEF WorkerStates, Claimed
  <2>3. CASE worker.pc \in Claimed /\ Goto("abandon")
    BY <2>3, GotoTyped DEF WorkerStates
  <2>4. \/ worker' = IdleWorker
        \/ worker' = [IdleWorker EXCEPT !.pc = "release"]
        \/ worker.pc \in Claimed /\ Goto("abandon")
    BY DEF DatabaseError, Claimed
  <2> QED  BY <2>1, <2>2, <2>3, <2>4
<1> QED  BY <1>1, <1>2, <1>3, <1>4, WorkerTyping DEF DatabaseError

LEMMA TypingEnvironment ==
    ASSUME CamerasAssumption, BoundsAssumption, Typing, Environment
    PROVE  Typing'
<1>1. /\ OpsOK(ops) /\ worker \in WorkerRow /\ lease \in LeaseRow
      /\ actual \in [Cameras -> [Profiles -> ActualRow]]
      /\ media \in [Cameras -> [Profiles -> Config]]
      /\ late \in [Cameras -> SUBSET (Profiles \X Config)]
      /\ faults \in 0..MaxFaults
  BY TypingParts, TypingOps
<1>2. [lease EXCEPT !.owner = "other"] \in LeaseRow /\ [lease EXCEPT !.live = FALSE] \in LeaseRow
  BY <1>1 DEF LeaseRow
<1>3. CASE CrashAndRestart
  <2>1. OpsOK(ops')
    <3>0. \A i \in DOMAIN ops : /\ ops[i] \in OpRow
                                /\ [ops[i] EXCEPT !.state = "unknown", !.live = FALSE] \in OpRow
      BY RowTyped DEF OpRow
    <3>1. ops' \in [DOMAIN ops -> OpRow]  BY <3>0, <1>3 DEF CrashAndRestart
    <3>2. \A i \in DOMAIN ops : /\ ops'[i].attempt = ops[i].attempt
                                /\ ops'[i].state # "pending" \/ ops'[i].state = ops[i].state
      BY <1>3, <3>0 DEF CrashAndRestart, OpRow
    <3> QED  BY <1>1, <3>1, <3>2, MapKeepsOps
  <2>2. lease' \in LeaseRow
    <3>1. lease' = lease \/ lease' = [lease EXCEPT !.owner = "other"]  BY <1>3 DEF CrashAndRestart
    <3> QED  BY <1>1, <1>2, <3>1
  <2>3. /\ media' \in [Cameras -> [Profiles -> Config]]
        /\ late' \in [Cameras -> SUBSET (Profiles \X Config)]
    BY <1>1, <1>3, EffectTyped DEF CrashAndRestart
  <2>4. faults' \in 0..MaxFaults  BY <1>3, FaultTyped DEF CrashAndRestart
  <2>5. worker' \in WorkerRow /\ worker'.pc = "idle"  BY <1>3, IdleTyped DEF CrashAndRestart
  <2>6. ClaimIsRunning'  BY <2>5 DEF ClaimIsRunning, Claimed
  <2> QED  BY <1>1, <1>3, <2>1, <2>2, <2>3, <2>4, <2>5, <2>6, StepTyping DEF CrashAndRestart
<1>4. CASE LeaseExpires
  <2>1. lease' \in LeaseRow  BY <1>2, <1>4 DEF LeaseExpires
  <2>2. faults' \in 0..MaxFaults
    <3>1. faults' = faults \/ Fault("stall")  BY <1>4 DEF LeaseExpires
    <3> QED  BY <1>1, <3>1, FaultTyped
  <2> QED  BY <1>1, <1>4, <2>1, <2>2, WorkerTyping DEF LeaseExpires
<1>5. ASSUME NEW i \in DOMAIN ops, OperationLeaseExpires(i) \/ BackoffElapses(i)
      PROVE  Typing'
  <2>1. faults' \in 0..MaxFaults
    <3>1. faults' = faults \/ Fault("stall")
      BY <1>5 DEF OperationLeaseExpires, BackoffElapses
    <3> QED  BY <1>1, <3>1, FaultTyped
  <2>2. PICK op \in OpRow : /\ ops' = [ops EXCEPT ![i] = op]
                            /\ op.attempt = ops[i].attempt /\ op.state = ops[i].state
    <3> DEFINE expired == [ops[i] EXCEPT !.live = FALSE]
               due     == [ops[i] EXCEPT !.wait = FALSE]
    <3>1. /\ expired \in OpRow /\ expired.attempt = ops[i].attempt /\ expired.state = ops[i].state
          /\ due \in OpRow /\ due.attempt = ops[i].attempt /\ due.state = ops[i].state
      BY RowTyped DEF OpRow
    <3>2. ops' = [ops EXCEPT ![i] = expired] \/ ops' = [ops EXCEPT ![i] = due]
      BY <1>5 DEF OperationLeaseExpires, BackoffElapses
    <3> HIDE DEF expired, due
    <3> QED  BY <3>1, <3>2
  <2>3. op.attempt <= MaxAttempts /\ (op.state = "pending" => op.attempt < MaxAttempts)
    BY <2>2, RowTyped DEF Typing, PendingHasAttempts
  <2>4. /\ OpsOK([ops EXCEPT ![i] = op]) /\ DOMAIN [ops EXCEPT ![i] = op] = DOMAIN ops
        /\ \A j \in DOMAIN ops : [ops EXCEPT ![i] = op][j] = IF j = i THEN op ELSE ops[j]
    BY <1>1, <2>3, UpdateKeepsOps
  <2>5. OpsOK(ops')  BY <2>2, <2>4
  <2>6. ClaimIsRunning'
    BY <1>5, <2>2, <2>4 DEF Typing, ClaimIsRunning, OperationLeaseExpires, BackoffElapses
  <2> QED
    BY <1>1, <1>5, <2>1, <2>5, <2>6, StepTyping DEF OperationLeaseExpires, BackoffElapses
<1>6. CASE MediaDrifts
  <2>1. PICK c \in Cameras, p \in Profiles, cfg \in Config :
          media' = [media EXCEPT ![c][p] = cfg]
    BY <1>6 DEF MediaDrifts
  <2>2. media' \in [Cameras -> [Profiles -> Config]]
    <3> HIDE DEF Profiles, Config
    <3> QED  BY <1>1, <2>1
  <2>3. faults' \in 0..MaxFaults  BY <1>6, FaultTyped DEF MediaDrifts
  <2> QED  BY <1>1, <1>6, <2>2, <2>3, WorkerTyping DEF MediaDrifts
<1>7. CASE LateRequestExecutes
  <2>1. PICK c \in Cameras : \E request \in late[c] :
          /\ media' = [media EXCEPT ![c][request[1]] = request[2]]
          /\ late'  = [late  EXCEPT ![c] = @ \ {request}]
    BY <1>7 DEF LateRequestExecutes
  <2>2. PICK request \in late[c] :
          /\ media' = [media EXCEPT ![c][request[1]] = request[2]]
          /\ late'  = [late  EXCEPT ![c] = @ \ {request}]
    BY <2>1
  <2> HIDE DEF Profiles, Config
  <2>3. request[1] \in Profiles /\ request[2] \in Config  BY <1>1, <2>2
  <2>4. media' \in [Cameras -> [Profiles -> Config]]  BY <1>1, <2>2, <2>3
  <2>5. late' \in [Cameras -> SUBSET (Profiles \X Config)]  BY <1>1, <2>2
  <2> QED  BY <1>1, <1>7, <2>4, <2>5, WorkerTyping DEF LateRequestExecutes
<1> QED  BY <1>3, <1>4, <1>5, <1>6, <1>7 DEF Environment, TimePasses

-----------------------------------------------------------------------------
(* The types are an invariant.                                             *)

LEMMA TypingStep ==
    ASSUME CamerasAssumption, BoundsAssumption, ReportsAssumption, Typing, [Next]_vars
    PROVE  Typing'
<1>1. CASE HandlerStep  BY <1>1, TypingHandlers
<1>2. CASE WorkerStep
  BY <1>2, TypingRounds, TypingClaim, TypingCalls, TypingFinish, TypingObservation,
     TypingDatabaseError DEF WorkerStep
<1>3. CASE Environment  BY <1>3, TypingEnvironment
<1>4. CASE UNCHANGED vars
  BY <1>4 DEF vars, Typing, TypeOK, ClaimIsRunning, PendingHasAttempts
<1> QED  BY <1>1, <1>2, <1>3, <1>4 DEF Next

(* The tables and the worker keep their shape, the worker's claim stays    *)
(* running under it, and max_attempts is respected: the finish path of     *)
(* apply_claimed_operation and the store's retry rule.                     *)
THEOREM TypeCorrect == Spec => [](TypeOK /\ ClaimIsRunning /\ PendingHasAttempts)
<1>1. Init => Typing  BY TypingInit, CamerasAssumption, BoundsAssumption
<1>2. Typing /\ [Next]_vars => Typing'
  BY TypingStep, CamerasAssumption, BoundsAssumption, ReportsAssumption
<1>3. Typing => TypeOK /\ ClaimIsRunning /\ PendingHasAttempts  BY DEF Typing
<1> QED  BY <1>1, <1>2, <1>3, PTL DEF Spec

-----------------------------------------------------------------------------
(* Desired rows and camera rows.                                           *)

(* A camera row and its desired row come and go together.                  *)
RowsTogether == \A c \in Cameras : ~camera[c].exists => desired[c] = NoDesired

CamerasAgree == DesiredMatchesCamera /\ OnlyPairedIsWanted /\ RowsTogether

(* What a handler that removes media leaves of the client's rows.          *)
LEMMA RemoveAgrees ==
    ASSUME BoundsAssumption, Typing, CamerasAgree, NEW c \in Cameras, NEW row \in CameraRow,
           RemoveMedia(c, row),
           row.exists = camera[c].exists, row.enabled = FALSE,
           row.sub = camera[c].sub, row.record = camera[c].record
    PROVE  DesiredMatchesCamera' /\ RowsTogether' /\ ~desired'[c].present
           /\ \A d \in Cameras \ {c} : camera'[d] = camera[d] /\ desired'[d] = desired[d]
<1>1. /\ camera \in [Cameras -> CameraRow] /\ desired \in [Cameras -> DesiredRow]
      /\ \A d \in Cameras : desired[d].gen \in Nat
  BY DEF Typing, TypeOK, DesiredRow
<1>2. CASE Shown(c)
  <2> DEFINE new == [gen |-> desired[c].gen + 1, present |-> FALSE,
                     sub |-> camera[c].sub, record |-> camera[c].record]
  <2>1. camera' = [camera EXCEPT ![c] = row] /\ desired' = [desired EXCEPT ![c] = new]
    BY <1>2 DEF RemoveMedia, QueueCameraChange
  <2>2. /\ new.gen > 0 /\ new.present = FALSE /\ row.exists
        /\ new.sub = row.sub /\ new.record = row.record
    BY <1>1, <1>2 DEF Shown
  <2> HIDE DEF new
  <2>3. /\ camera'[c] = row /\ desired'[c] = new
        /\ \A d \in Cameras \ {c} : camera'[d] = camera[d] /\ desired'[d] = desired[d]
    BY <1>1, <2>1
  <2>4. DesiredMatchesCamera' /\ RowsTogether'
    <3>1. /\ camera'[c].exists <=> desired'[c].gen > 0
          /\ desired'[c].present = camera'[c].enabled
          /\ desired'[c].sub     = camera'[c].sub
          /\ desired'[c].record  = camera'[c].record
      BY <2>2, <2>3
    <3> QED  BY <2>2, <2>3, <3>1 DEF DesiredMatchesCamera, RowsTogether, CamerasAgree
  <2> QED  BY <2>2, <2>3, <2>4
<1>3. CASE ~Shown(c)
  <2>1. UNCHANGED <<camera, desired>>  BY <1>3 DEF RemoveMedia
  <2>2. ~desired[c].present
    <3>1. CASE camera[c].exists
      BY <1>3, <3>1 DEF Shown, CamerasAgree, OnlyPairedIsWanted
    <3>2. CASE ~camera[c].exists
      BY <3>2 DEF CamerasAgree, RowsTogether, NoDesired
    <3> QED  BY <3>1, <3>2
  <2> QED  BY <2>1, <2>2 DEF CamerasAgree, DesiredMatchesCamera, RowsTogether
<1> QED  BY <1>2, <1>3

LEMMA AgreeInit == ASSUME Init PROVE CamerasAgree
BY DEF Init, CamerasAgree, DesiredMatchesCamera, OnlyPairedIsWanted, RowsTogether,
       NoCamera, NoDesired

LEMMA AgreeStep ==
    ASSUME BoundsAssumption, ReportsAssumption, Typing, CamerasAgree, [Next]_vars
    PROVE  CamerasAgree'
<1> USE DEF CameraRow
<1>1. /\ client \in [Cameras -> ClientStates]
      /\ camera \in [Cameras -> CameraRow] /\ desired \in [Cameras -> DesiredRow]
      /\ \A c \in Cameras : desired[c].gen \in Nat
  BY DEF Typing, TypeOK, DesiredRow
<1>2. CASE UNCHANGED <<client, camera, desired>>
  BY <1>2 DEF CamerasAgree, DesiredMatchesCamera, OnlyPairedIsWanted, RowsTogether
<1>3. ASSUME NEW c \in Cameras, PairClient(c) PROVE CamerasAgree'
  BY <1>1, <1>3
     DEF PairClient, CamerasAgree, DesiredMatchesCamera, OnlyPairedIsWanted, RowsTogether
<1>4. ASSUME NEW c \in Cameras, NEW row \in CameraRow, RemoveMedia(c, row),
             row.exists = camera[c].exists, row.enabled = FALSE,
             row.sub = camera[c].sub, row.record = camera[c].record,
             \A d \in Cameras \ {c} : client'[d] = client[d]
      PROVE  CamerasAgree'
  <2>1. /\ DesiredMatchesCamera' /\ RowsTogether' /\ ~desired'[c].present
        /\ \A d \in Cameras \ {c} : camera'[d] = camera[d] /\ desired'[d] = desired[d]
    BY <1>4, RemoveAgrees
  <2>2. OnlyPairedIsWanted'
    BY <1>4, <2>1 DEF CamerasAgree, OnlyPairedIsWanted
  <2> QED  BY <2>1, <2>2 DEF CamerasAgree
<1>5. ASSUME NEW c \in Cameras, RotateAuthorization(c) PROVE CamerasAgree'
  <2> DEFINE row == [camera[c] EXCEPT !.enabled = FALSE]
  <2>1. /\ row \in CameraRow /\ row.exists = camera[c].exists /\ row.enabled = FALSE
        /\ row.sub = camera[c].sub /\ row.record = camera[c].record
    BY <1>1
  <2>2. RemoveMedia(c, row) /\ \A d \in Cameras \ {c} : client'[d] = client[d]
    BY <1>1, <1>5 DEF RotateAuthorization
  <2> HIDE DEF row
  <2> QED  BY <1>4, <2>1, <2>2
<1>6. ASSUME NEW c \in Cameras, RevokeClient(c) \/ ReportNothing(c) PROVE CamerasAgree'
  <2> DEFINE row == [camera[c] EXCEPT !.enabled = FALSE, !.deleted = TRUE]
  <2>1. /\ row \in CameraRow /\ row.exists = camera[c].exists /\ row.enabled = FALSE
        /\ row.sub = camera[c].sub /\ row.record = camera[c].record
    BY <1>1
  <2>2. RemoveMedia(c, row) /\ \A d \in Cameras \ {c} : client'[d] = client[d]
    BY <1>1, <1>6 DEF RevokeClient, ReportNothing
  <2> HIDE DEF row
  <2> QED  BY <1>4, <2>1, <2>2
<1>7. ASSUME NEW c \in Cameras, PurgeClient(c) PROVE CamerasAgree'
  <2>1. /\ camera'[c] = NoCamera /\ desired'[c] = NoDesired
        /\ \A d \in Cameras \ {c} : /\ camera'[d] = camera[d] /\ desired'[d] = desired[d]
                                    /\ client'[d] = client[d]
    BY <1>1, <1>7 DEF PurgeClient
  <2>2. ~NoCamera.exists /\ NoDesired.gen = 0 /\ ~NoDesired.present
    BY DEF NoCamera, NoDesired
  <2>3. /\ ~camera'[c].exists /\ ~(desired'[c].gen > 0) /\ ~desired'[c].present
    BY <2>1, <2>2
  <2> QED
    BY <2>1, <2>3 DEF CamerasAgree, DesiredMatchesCamera, OnlyPairedIsWanted, RowsTogether
<1>8. ASSUME NEW c \in Cameras, NEW r \in Reports, ReportCamera(c, r) PROVE CamerasAgree'
  <2> DEFINE row == [exists |-> TRUE, enabled |-> r.enabled, sub |-> r.sub,
                     record |-> r.record, deleted |-> FALSE]
             new == [gen |-> desired[c].gen + 1, present |-> row.enabled,
                     sub |-> row.sub, record |-> row.record]
  <2>1. /\ row.exists = TRUE /\ row.deleted = FALSE /\ row.enabled = r.enabled
        /\ row.sub = r.sub /\ row.record = r.record
        /\ new.gen > 0 /\ new.present = r.enabled /\ new.sub = r.sub /\ new.record = r.record
    BY <1>1
  <2>2. /\ camera' = [camera EXCEPT ![c] = row] /\ client[c] = "paired" /\ client' = client
        /\ \/ desired' = [desired EXCEPT ![c] = new]
           \/ desired' = desired /\ ~MediaChanged(camera[c], r)
    BY <1>8 DEF ReportCamera, QueueCameraChange
  <2> HIDE DEF row, new
  <2>3. camera'[c] = row /\ \A d \in Cameras \ {c} : camera'[d] = camera[d] /\ desired'[d] = desired[d]
    BY <1>1, <2>2
  <2>4. /\ camera'[c].exists /\ ~camera'[c].deleted /\ desired'[c].gen > 0
        /\ desired'[c].present = camera'[c].enabled
        /\ desired'[c].sub = camera'[c].sub /\ desired'[c].record = camera'[c].record
    <3>1. CASE desired' = [desired EXCEPT ![c] = new]
      <4>1. desired'[c] = new  BY <1>1, <3>1
      <4> QED  BY <2>1, <2>3, <4>1
    <3>2. CASE desired' = desired /\ ~MediaChanged(camera[c], r)
      <4>1. /\ camera[c].exists /\ camera[c].enabled = r.enabled
            /\ camera[c].sub = r.sub /\ camera[c].record = r.record
        BY <3>2 DEF MediaChanged
      <4>2. /\ desired[c].gen > 0 /\ desired[c].present = camera[c].enabled
            /\ desired[c].sub = camera[c].sub /\ desired[c].record = camera[c].record
        BY <4>1 DEF CamerasAgree, DesiredMatchesCamera
      <4> QED  BY <2>1, <2>3, <3>2, <4>1, <4>2
    <3> QED  BY <2>2, <3>1, <3>2
  <2> QED
    BY <2>2, <2>3, <2>4 DEF CamerasAgree, DesiredMatchesCamera, OnlyPairedIsWanted, RowsTogether
<1>9. ASSUME NEW i \in DOMAIN ops, NEW resolution \in Resolutions, ResolveOperation(i, resolution)
      PROVE  CamerasAgree'
  BY <1>2, <1>9 DEF ResolveOperation
<1>10. CASE WorkerStep
  <2>1. UNCHANGED <<client, camera, desired>>
    BY <1>10 DEF WorkerStep, RecoverExpired, AcquireLease, RenewLease, ClaimNext, ReleaseLease,
         RereadClaim, RenewClaimed, LoadDesired, LoadCamera, CallSucceeds, CallRejected,
         CallUnanswered, FinishSuperseded, FinishSuccess, FinishFailure, AbandonClaim,
         FetchInventory, ListDesired, ObserveCamera, ObservePaths, DriftCheck, DriftEnqueue,
         DatabaseError, OnlyStore, OnlyWorker
  <2> QED  BY <1>2, <2>1
<1>11. CASE Environment
  <2>1. UNCHANGED <<client, camera, desired>>
    BY <1>11 DEF Environment, TimePasses, CrashAndRestart, LeaseExpires, OperationLeaseExpires,
         BackoffElapses, MediaDrifts, LateRequestExecutes
  <2> QED  BY <1>2, <2>1
<1>12. CASE UNCHANGED vars  BY <1>2, <1>12 DEF vars
<1> QED
  BY <1>3, <1>5, <1>6, <1>7, <1>8, <1>9, <1>10, <1>11, <1>12 DEF Next, HandlerStep

(* Whatever order snapshots, rotations, revocations and deletions commit   *)
(* in, the desired row says what the camera row says (queue_camera_change  *)
(* is called by every handler that must call it), and media is wanted only *)
(* for the camera a paired client shows.                                   *)
THEOREM DesiredIsRight == Spec => [](DesiredMatchesCamera /\ OnlyPairedIsWanted)
<1>1. Init => Typing /\ CamerasAgree
  BY TypingInit, AgreeInit, CamerasAssumption, BoundsAssumption
<1>2. Typing /\ CamerasAgree /\ [Next]_vars => Typing' /\ CamerasAgree'
  BY TypingStep, AgreeStep, CamerasAssumption, BoundsAssumption, ReportsAssumption
<1>3. CamerasAgree => DesiredMatchesCamera /\ OnlyPairedIsWanted  BY DEF CamerasAgree
<1> QED  BY <1>1, <1>2, <1>3, PTL DEF Spec

-----------------------------------------------------------------------------
(* One active operation per camera: only a claim makes one active.         *)

NothingActivated ==
    \A i \in DOMAIN ops' : Active(i)' => /\ i \in DOMAIN ops /\ Active(i)
                                        /\ ops'[i].cam = ops[i].cam

LEMMA UnchangedActivatesNothing ==
    ASSUME UNCHANGED ops PROVE NothingActivated
BY DEF NothingActivated, Active

LEMMA InsertActivatesNothing ==
    ASSUME BoundsAssumption, Typing, NEW op \in OpRow, op.attempt = 0, op.state = "pending",
           ops' = Append(ops, op)
    PROVE  NothingActivated
<1>1. OpsOK(ops)  BY TypingOps
<1>2. /\ \A j \in DOMAIN ops : Append(ops, op)[j] = ops[j]
      /\ \A j \in DOMAIN Append(ops, op) : j \in DOMAIN ops \/ Append(ops, op)[j] = op
  BY <1>1, InsertKeepsOps
<1> QED  BY <1>2 DEF NothingActivated, Active

LEMMA UpdateActivatesNothing ==
    ASSUME Typing, NEW i \in DOMAIN ops, NEW op, ops' = [ops EXCEPT ![i] = op],
           op.cam = ops[i].cam,
           op.state \in {"running", "unknown"} => ops[i].state \in {"running", "unknown"}
    PROVE  NothingActivated
<1>1. DOMAIN ops' = DOMAIN ops /\ \A j \in DOMAIN ops : ops'[j] = IF j = i THEN op ELSE ops[j]
  BY TypingOps, LenProperties DEF OpsOK
<1> QED  BY <1>1 DEF NothingActivated, Active

LEMMA HandlersActivateNothing ==
    ASSUME BoundsAssumption, Typing, HandlerStep
    PROVE  NothingActivated
<1>1. ASSUME NEW c \in Cameras, NEW row, NEW present, QueueCameraChange(c, row, present)
      PROVE  NothingActivated
  <2>1. desired[c].gen + 1 \in Nat /\ HandlerStamp \in Nat
    BY TypingOps, TypingParts, LenProperties DEF OpsOK, DesiredRow, HandlerStamp
  <2> DEFINE new == NewOperation(c, desired[c].gen + 1, HandlerStamp)
  <2>2. new \in OpRow /\ new.attempt = 0 /\ new.state = "pending"  BY <2>1, NewOperationTyped
  <2>3. ops' = Append(ops, new)  BY <1>1 DEF QueueCameraChange
  <2> HIDE DEF new
  <2> QED  BY <2>2, <2>3, InsertActivatesNothing
<1>2. ASSUME NEW c \in Cameras, NEW row, RemoveMedia(c, row) PROVE NothingActivated
  BY <1>1, <1>2, UnchangedActivatesNothing DEF RemoveMedia
<1>3. ASSUME NEW c \in Cameras, PairClient(c) \/ PurgeClient(c) PROVE NothingActivated
  BY <1>3, UnchangedActivatesNothing DEF PairClient, PurgeClient
<1>4. ASSUME NEW c \in Cameras, RotateAuthorization(c) \/ RevokeClient(c) \/ ReportNothing(c)
      PROVE  NothingActivated
  BY <1>2, <1>4 DEF RotateAuthorization, RevokeClient, ReportNothing
<1>5. ASSUME NEW c \in Cameras, NEW r \in Reports, ReportCamera(c, r) PROVE NothingActivated
  BY <1>1, <1>5, UnchangedActivatesNothing DEF ReportCamera
<1>6. ASSUME NEW i \in DOMAIN ops, NEW resolution \in Resolutions, ResolveOperation(i, resolution)
      PROVE  NothingActivated
  <2> DEFINE settled == [ops[i] EXCEPT !.state = "resolved",
                                       !.confirmed = (resolution = "confirmed_succeeded")]
             dead    == [ops[i] EXCEPT !.state = "dead_letter", !.live = FALSE]
  <2>1. ops' = [ops EXCEPT ![i] = settled] \/ ops' = [ops EXCEPT ![i] = dead]
    BY <1>6 DEF ResolveOperation, SetState
  <2>2. /\ settled.cam = ops[i].cam /\ settled.state = "resolved"
        /\ dead.cam = ops[i].cam /\ dead.state = "dead_letter"
    BY RowTyped DEF OpRow
  <2> HIDE DEF settled, dead
  <2> QED  BY <2>1, <2>2, UpdateActivatesNothing
<1> QED  BY <1>3, <1>4, <1>5, <1>6 DEF HandlerStep

LEMMA WorkerActivatesNothing ==
    ASSUME BoundsAssumption, Typing, WorkerStep, ~ClaimNext
    PROVE  NothingActivated
<1>1. CASE RecoverExpired
  <2>1. \A i \in DOMAIN ops : ops[i] \in OpRow  BY RowTyped
  <2>2. /\ DOMAIN ops' = DOMAIN ops
        /\ \A i \in DOMAIN ops : \/ ops'[i] = ops[i]
                                 \/ /\ ops[i].state = "running"
                                    /\ ops'[i] = [ops[i] EXCEPT !.state = "unknown"]
    BY <1>1 DEF RecoverExpired
  <2> QED  BY <2>1, <2>2 DEF NothingActivated, Active, OpRow
<1>2. CASE FinishSuperseded \/ FinishSuccess \/ FinishFailure \/ AbandonClaim
  <2>1. worker.pc \in Claimed
    BY <1>2 DEF FinishSuperseded, FinishSuccess, FinishFailure, AbandonClaim, At, Claimed
  <2>2. /\ worker.job \in DOMAIN ops /\ ops[worker.job] \in OpRow
        /\ ops[worker.job].state = "running" /\ ops[worker.job].attempt <= MaxAttempts
    BY <2>1, JobTyped
  <2> DEFINE done   == [ops[worker.job] EXCEPT !.state = "succeeded", !.live = FALSE]
             lost   == [ops[worker.job] EXCEPT !.state = "unknown", !.live = FALSE]
             failed == FailedOp(ops[worker.job])
  <2>3. done.cam = ops[worker.job].cam /\ lost.cam = ops[worker.job].cam
    BY <2>2 DEF OpRow
  <2>4. failed.cam = ops[worker.job].cam  BY <2>2, FailedOpTyped
  <2>5. \/ UNCHANGED ops
        \/ ops' = [ops EXCEPT ![worker.job] = done]
        \/ ops' = [ops EXCEPT ![worker.job] = lost]
        \/ ops' = [ops EXCEPT ![worker.job] = failed]
    BY <1>2 DEF FinishSuperseded, FinishSuccess, FinishFailure, AbandonClaim, SetState
  <2> HIDE DEF done, lost, failed
  <2> QED  BY <2>2, <2>3, <2>4, <2>5, UpdateActivatesNothing, UnchangedActivatesNothing
<1>3. CASE DriftEnqueue
  <2> DEFINE new == NewOperation(worker.cam, worker.listed[worker.cam].gen, DriftStamp(worker.stamp))
  <2>1. new \in OpRow /\ new.attempt = 0 /\ new.state = "pending"
    <3>1. worker.cam \in Cameras /\ worker.stamp \in Nat /\ worker.listed[worker.cam] \in DesiredRow
      BY TypingParts DEF WorkerRow
    <3>2. worker.listed[worker.cam].gen \in Nat  BY <3>1 DEF DesiredRow
    <3>3. DriftStamp(worker.stamp) \in Nat  BY <3>1 DEF DriftStamp
    <3> QED  BY <3>1, <3>2, <3>3, NewOperationTyped
  <2>2. ops' = Append(ops, new) \/ UNCHANGED ops  BY <1>3 DEF DriftEnqueue
  <2> HIDE DEF new
  <2> QED  BY <2>1, <2>2, InsertActivatesNothing, UnchangedActivatesNothing
<1>4. CASE UNCHANGED ops  BY <1>4, UnchangedActivatesNothing
<1> QED
  BY <1>1, <1>2, <1>3, <1>4
     DEF WorkerStep, AcquireLease, RenewLease, ReleaseLease, RereadClaim, RenewClaimed,
         LoadDesired, LoadCamera, CallSucceeds, CallRejected, CallUnanswered, FetchInventory,
         ListDesired, ObserveCamera, ObservePaths, DriftCheck, DatabaseError, OnlyWorker

LEMMA EnvironmentActivatesNothing ==
    ASSUME Typing, Environment
    PROVE  NothingActivated
<1>1. CASE CrashAndRestart
  <2>1. \A i \in DOMAIN ops : ops[i] \in OpRow  BY RowTyped
  <2>2. /\ DOMAIN ops' = DOMAIN ops
        /\ \A i \in DOMAIN ops : \/ ops'[i] = ops[i]
                                 \/ /\ ops[i].state = "running"
                                    /\ ops'[i] = [ops[i] EXCEPT !.state = "unknown", !.live = FALSE]
    BY <1>1 DEF CrashAndRestart
  <2> QED  BY <2>1, <2>2 DEF NothingActivated, Active, OpRow
<1>2. ASSUME NEW i \in DOMAIN ops, OperationLeaseExpires(i) \/ BackoffElapses(i)
      PROVE  NothingActivated
  <2> DEFINE expired == [ops[i] EXCEPT !.live = FALSE]
             due     == [ops[i] EXCEPT !.wait = FALSE]
  <2>1. /\ expired.cam = ops[i].cam /\ expired.state = ops[i].state
        /\ due.cam = ops[i].cam /\ due.state = ops[i].state
    BY RowTyped DEF OpRow
  <2>2. ops' = [ops EXCEPT ![i] = expired] \/ ops' = [ops EXCEPT ![i] = due]
    BY <1>2 DEF OperationLeaseExpires, BackoffElapses
  <2> HIDE DEF expired, due
  <2> QED  BY <2>1, <2>2, UpdateActivatesNothing
<1>3. CASE UNCHANGED ops  BY <1>3, UnchangedActivatesNothing
<1> QED
  BY <1>1, <1>2, <1>3 DEF Environment, TimePasses, LeaseExpires, MediaDrifts, LateRequestExecutes

LEMMA OneActiveStep ==
    ASSUME BoundsAssumption, Typing, OneActiveOperation, [Next]_vars
    PROVE  OneActiveOperation'
<1>1. CASE NothingActivated  BY <1>1 DEF NothingActivated, OneActiveOperation
<1>2. CASE ClaimNext
  <2>1. CASE UNCHANGED ops  BY <2>1 DEF OneActiveOperation, Active
  <2>2. ASSUME NEW i \in DOMAIN ops, Claimable(i),
               ops' = [ops EXCEPT ![i] = [@ EXCEPT !.state = "running", !.live = TRUE,
                                                   !.attempt = ops[i].attempt + 1]]
        PROVE  OneActiveOperation'
    <3> DEFINE op == [ops[i] EXCEPT !.state = "running", !.live = TRUE,
                                    !.attempt = ops[i].attempt + 1]
    <3>1. op.cam = ops[i].cam  BY RowTyped DEF OpRow
    <3>2. ops' = [ops EXCEPT ![i] = op]  BY <2>2
    <3> HIDE DEF op
    <3>3. /\ DOMAIN ops' = DOMAIN ops
          /\ \A j \in DOMAIN ops : ops'[j] = IF j = i THEN op ELSE ops[j]
      BY <3>2, TypingOps, LenProperties DEF OpsOK
    <3>4. \A j \in DOMAIN ops : ops[j].cam = ops[i].cam => ~Active(j)
      BY <2>2 DEF Claimable, OpsOf
    <3> QED  BY <3>1, <3>3, <3>4 DEF OneActiveOperation, Active
  <2> QED  BY <1>2, <2>1, <2>2 DEF ClaimNext
<1>3. CASE UNCHANGED vars  BY <1>3 DEF vars, OneActiveOperation, Active
<1> QED
  BY <1>1, <1>2, <1>3, HandlersActivateNothing, WorkerActivatesNothing,
     EnvironmentActivatesNothing DEF Next

(* The claim of reconcile_once never gives a camera a second running or    *)
(* unknown operation, so the unique index on active targets never refuses  *)
(* one, and MediaMTX is called for a running operation with no unknown one *)
(* beside it.                                                              *)
THEOREM ClaimsAreExclusive == Spec => [](OneActiveOperation /\ NoCallBesideAnUnknown)
<1>1. Init => Typing /\ OneActiveOperation
  <2>1. ASSUME Init PROVE OneActiveOperation  BY <2>1 DEF Init, OneActiveOperation
  <2> QED  BY <2>1, TypingInit, CamerasAssumption, BoundsAssumption
<1>2. Typing /\ OneActiveOperation /\ [Next]_vars => Typing' /\ OneActiveOperation'
  BY TypingStep, OneActiveStep, CamerasAssumption, BoundsAssumption, ReportsAssumption
<1>3. Typing /\ OneActiveOperation => OneActiveOperation /\ NoCallBesideAnUnknown
  <2> SUFFICES ASSUME Typing, OneActiveOperation, Calling
               PROVE  /\ ops[worker.job].state = "running"
                      /\ \A i \in OpsOf(CallTarget) : i # worker.job => ~Active(i)
    BY DEF NoCallBesideAnUnknown
  <2>1. worker.pc \in Claimed  BY DEF Calling, Claimed
  <2>2. worker.job \in DOMAIN ops /\ ops[worker.job].state = "running"  BY <2>1, JobTyped
  <2> QED  BY <2>2 DEF OneActiveOperation, Active, OpsOf, CallTarget
<1> QED  BY <1>1, <1>2, <1>3, PTL DEF Spec

(* Only cameras that a paired client shows are wanted.                     *)
COROLLARY PairedIsWanted == Spec => []OnlyPairedIsWanted
BY DesiredIsRight, PTL

(* No camera has two operations running or unknown.                        *)
COROLLARY OneIsActive == Spec => []OneActiveOperation
BY ClaimsAreExclusive, PTL

=============================================================================
