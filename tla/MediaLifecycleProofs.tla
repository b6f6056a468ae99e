------------------------ MODULE MediaLifecycleProofs ------------------------
(***************************************************************************)
(* What MediaMTX serves is what the media control loop recorded, for any   *)
(* set of cameras, and the loop implements MediaLifecycle.                 *)
(*                                                                         *)
(* Part 1.  A publish URL is granted only for paths MediaMTX serves as     *)
(* they are wanted, whatever fails but for MediaMTX changing behind the    *)
(* server's back.  The worker calls MediaMTX and records what it did with  *)
(* rows it read before, so the argument is about old rows: each is the     *)
(* desired row or one of an earlier generation (WasDesired), and no        *)
(* generation later than the one being applied has been recorded           *)
(* (LoadedRight), so overwriting a path never falsifies a record of the    *)
(* current generation.                                                     *)
(*                                                                         *)
(* Part 2.  The refinement holds when an administrator confirms only what  *)
(* is so and MediaMTX changes only by what is asked of it while the worker *)
(* waits.  A deletion is judged by an operation, so the argument is about  *)
(* what the operations of the current generation say (RowsRight): one that *)
(* is settled means MediaMTX serves what is desired.  That survives the    *)
(* calls of an older operation because one is under way only while every   *)
(* operation of the current generation is still pending (HeldFor): with    *)
(* one of them settled, nobody is left who could undo it.                  *)
(***************************************************************************)
EXTENDS MediaReconcilerProofs

-----------------------------------------------------------------------------
(* Part 1: a publish URL and the paths MediaMTX serves                     *)


(* The row is what the camera's desired row is or once was.                *)
WasDesired(d, c) ==
    client[c] # "purged" => /\ d.gen <= desired[c].gen
                            /\ d.gen = desired[c].gen => d = desired[c]

PurgedIsGone == \A c \in Cameras : client[c] = "purged" => ~camera[c].exists

(* A path recorded for the current generation is as it is wanted.          *)
AppliedRight ==
    \A c \in Cameras, p \in Profiles :
        /\ actual[c][p].applied <= desired[c].gen
        /\ desired[c].gen > 0 /\ actual[c][p].applied = desired[c].gen
              => media[c][p] = Required(desired[c], p)

Loading   == {"camera", "main", "sub", "finish"}
Listing   == {"observeCamera", "observeMain", "observeSub", "driftCheck", "driftEnqueue"}
Observing == {"list"} \cup Listing
Holding   == Loading \cup Observing \cup {"superseded"}

(* What the worker applies is not older than what is recorded, and the     *)
(* calls it is past have taken effect.                                     *)
LoadedFor(c) ==
    /\ WasDesired(worker.loaded, c)
    /\ \A p \in Profiles : actual[c][p].applied <= worker.loaded.gen
    /\ worker.pc \in {"sub", "finish"} => media[c]["main"] = Required(worker.loaded, "main")
    /\ worker.pc = "finish" => media[c]["sub"] = Required(worker.loaded, "sub")

LoadedRight ==
    worker.pc \in Loading => \A c \in Cameras : c = ops[worker.job].cam => LoadedFor(c)

(* During an observation MediaMTX is not called.                           *)
SeenRight ==
    /\ worker.pc \in Observing => worker.seen = media
    /\ worker.pc \in Listing => \A c \in Cameras : WasDesired(worker.listed[c], c)

NothingLate == \A c \in Cameras : late[c] = {}

Right == PurgedIsGone /\ NothingLate /\ AppliedRight /\ LoadedRight /\ SeenRight

-----------------------------------------------------------------------------
(* Handlers and time                                                       *)

LEMMA NotPurged ==
    ASSUME CamerasAgree, PurgedIsGone, NEW c \in Cameras, desired[c].gen > 0
    PROVE  client[c] # "purged"
BY DEF CamerasAgree, PurgedIsGone, RowsTogether, NoDesired

(* What a handler does to a camera: nothing, a new generation, or its end. *)
Moves ==
    \A c \in Cameras :
        /\ client'[c] = "purged" => ~camera'[c].exists
        /\ client[c] = "purged" => client'[c] = "purged"
        /\ \/ desired'[c] = desired[c] /\ actual'[c] = actual[c]
           \/ desired'[c].gen = desired[c].gen + 1 /\ actual'[c] = actual[c]
           \/ /\ client'[c] = "purged" /\ desired'[c].gen = 0
              /\ \A p \in Profiles : actual'[c][p].applied = 0

LEMMA RowNumbers ==
    ASSUME Typing
    PROVE  /\ worker.loaded.gen \in Nat
           /\ \A c \in Cameras : desired[c].gen \in Nat /\ worker.listed[c].gen \in Nat
           /\ \A c \in Cameras, p \in Profiles : actual[c][p].applied \in Nat
<1>1. worker \in WorkerRow /\ desired \in [Cameras -> DesiredRow]
      /\ actual \in [Cameras -> [Profiles -> ActualRow]]
  BY TypingParts
<1>2. worker.loaded \in DesiredRow /\ worker.listed \in [Cameras -> DesiredRow]
  BY <1>1 DEF WorkerRow
<1>3. \A d \in DesiredRow : d.gen \in Nat
  BY DEF DesiredRow
<1>4. \A a \in ActualRow : a.applied \in Nat
  BY DEF ActualRow
<1> QED  BY <1>1, <1>2, <1>3, <1>4

LEMMA MovesKeepRows ==
    ASSUME Typing, Moves, NEW c \in Cameras, NEW d, d.gen \in Nat, WasDesired(d, c)
    PROVE  WasDesired(d, c)'
BY RowNumbers DEF Moves, WasDesired

LEMMA MovesKeep ==
    ASSUME Typing, Right, Moves, UNCHANGED <<media, late, worker>>,
           \A i \in DOMAIN ops : ops'[i].cam = ops[i].cam
    PROVE  Right'
<1>1. PurgedIsGone' /\ NothingLate'
  BY DEF Moves, Right, PurgedIsGone, NothingLate
<1>2. AppliedRight'
  BY RowNumbers DEF Moves, Right, AppliedRight
<1>3. LoadedRight'
  <2>. SUFFICES ASSUME worker.pc \in Loading, NEW c \in Cameras, c = ops'[worker.job].cam
                PROVE  LoadedFor(c)'
    BY DEF LoadedRight
  <2>1. worker.pc \in Claimed
    BY DEF Loading, Claimed
  <2>2. c = ops[worker.job].cam
    BY <2>1, JobTyped
  <2>3. LoadedFor(c)
    BY <2>2 DEF Right, LoadedRight
  <2>4. WasDesired(worker.loaded, c)'
    BY <2>3, RowNumbers, MovesKeepRows DEF LoadedFor
  <2>5. \A p \in Profiles : actual'[c][p].applied <= worker.loaded.gen
    BY <2>3, RowNumbers DEF Moves, LoadedFor
  <2>. QED  BY <2>3, <2>4, <2>5 DEF LoadedFor
<1>4. SeenRight'
  <2>1. worker.pc \in Listing => \A c \in Cameras : WasDesired(worker.listed[c], c)'
    BY RowNumbers, MovesKeepRows DEF Right, SeenRight
  <2>. QED  BY <2>1 DEF Right, SeenRight
<1>. QED  BY <1>1, <1>2, <1>3, <1>4 DEF Right

(* A handler that ends a camera's media queues a new generation, or finds  *)
(* nothing to end.                                                         *)
LEMMA QueueMoves ==
    ASSUME BoundsAssumption, Typing, NEW c \in Cameras, NEW row \in CameraRow,
           NEW present \in BOOLEAN, QueueCameraChange(c, row, present)
    PROVE  /\ desired'[c].gen = desired[c].gen + 1
           /\ \A d \in Cameras \ {c} : desired'[d] = desired[d]
           /\ \A i \in DOMAIN ops : ops'[i].cam = ops[i].cam
<1>. DEFINE new == [gen |-> desired[c].gen + 1, present |-> present,
                    sub |-> row.sub, record |-> row.record]
<1>1. desired' = [desired EXCEPT ![c] = new]
  BY DEF QueueCameraChange
<1>2. new.gen = desired[c].gen + 1
  OBVIOUS
<1>. HIDE DEF new
<1>. QED  BY <1>1, <1>2, TypingParts, QueueTyped

LEMMA RemoveMoves ==
    ASSUME BoundsAssumption, Typing, PurgedIsGone, NEW c \in Cameras, NEW row \in CameraRow,
           RemoveMedia(c, row), client'[c] # "purged", client[c] # "purged", UNCHANGED actual,
           \A d \in Cameras \ {c} : client'[d] = client[d]
    PROVE  Moves /\ \A i \in DOMAIN ops : ops'[i].cam = ops[i].cam
<1>1. camera \in [Cameras -> CameraRow]
  BY DEF Typing, TypeOK
<1>2. CASE Shown(c)
  <2>1. camera' = [camera EXCEPT ![c] = row] /\ QueueCameraChange(c, camera[c], FALSE)
    BY <1>2 DEF RemoveMedia
  <2>2. \A d \in Cameras \ {c} : camera'[d] = camera[d]
    BY <1>1, <2>1
  <2>3. /\ desired'[c].gen = desired[c].gen + 1
        /\ \A d \in Cameras \ {c} : desired'[d] = desired[d]
        /\ \A i \in DOMAIN ops : ops'[i].cam = ops[i].cam
    BY <1>1, <2>1, QueueMoves
  <2>. QED  BY <2>2, <2>3 DEF Moves, PurgedIsGone
<1>3. CASE ~Shown(c)
  BY <1>3 DEF RemoveMedia, Moves, PurgedIsGone
<1>. QED  BY <1>2, <1>3

LEMMA HandlersMove ==
    ASSUME BoundsAssumption, ReportsAssumption, Typing, PurgedIsGone, HandlerStep
    PROVE  /\ Moves /\ UNCHANGED <<media, late, worker>>
           /\ \A i \in DOMAIN ops : ops'[i].cam = ops[i].cam
<1>. USE DEF ClientStates
<1>1. client \in [Cameras -> ClientStates] /\ camera \in [Cameras -> CameraRow]
      /\ desired \in [Cameras -> DesiredRow] /\ actual \in [Cameras -> [Profiles -> ActualRow]]
  BY DEF Typing, TypeOK
<1>2. UNCHANGED <<media, late, worker>>
  BY DEF HandlerStep, PairClient, RotateAuthorization, RevokeClient, PurgeClient,
         ReportNothing, ReportCamera, ResolveOperation
<1>3. ASSUME NEW c \in Cameras, PairClient(c) PROVE Moves /\ UNCHANGED ops
  BY <1>1, <1>3 DEF PairClient, Moves, PurgedIsGone
<1>4. ASSUME NEW c \in Cameras, RotateAuthorization(c) \/ RevokeClient(c) \/ ReportNothing(c)
      PROVE  Moves /\ \A i \in DOMAIN ops : ops'[i].cam = ops[i].cam
  <2>1. \E row \in CameraRow : RemoveMedia(c, row)
    BY <1>1, <1>4 DEF RotateAuthorization, RevokeClient, ReportNothing, CameraRow
  <2>2. /\ client'[c] # "purged" /\ client[c] # "purged" /\ UNCHANGED actual
        /\ \A d \in Cameras \ {c} : client'[d] = client[d]
    BY <1>1, <1>4 DEF RotateAuthorization, RevokeClient, ReportNothing
  <2>. QED  BY <2>1, <2>2, RemoveMoves
<1>5. ASSUME NEW c \in Cameras, PurgeClient(c) PROVE Moves /\ UNCHANGED ops
  <2>1. /\ client'[c] = "purged" /\ camera'[c] = NoCamera
        /\ desired'[c] = NoDesired /\ actual'[c] = NoActual
        /\ \A d \in Cameras \ {c} : /\ client'[d] = client[d] /\ camera'[d] = camera[d]
                                    /\ desired'[d] = desired[d] /\ actual'[d] = actual[d]
    BY <1>1, <1>5 DEF PurgeClient
  <2>2. ~NoCamera.exists /\ NoDesired.gen = 0 /\ \A p \in Profiles : NoActual[p].applied = 0
    BY DEF NoCamera, NoDesired, NoActual
  <2>3. UNCHANGED ops
    BY <1>5 DEF PurgeClient
  <2>. QED  BY <2>1, <2>2, <2>3 DEF Moves, PurgedIsGone
<1>6. ASSUME NEW c \in Cameras, NEW r \in Reports, ReportCamera(c, r)
      PROVE  Moves /\ \A i \in DOMAIN ops : ops'[i].cam = ops[i].cam
  <2>. DEFINE row == [exists |-> TRUE, enabled |-> r.enabled, sub |-> r.sub,
                      record |-> r.record, deleted |-> FALSE]
  <2>1. row \in CameraRow /\ row.enabled \in BOOLEAN
    BY DEF ReportsAssumption, Report, CameraRow
  <2>2. /\ camera' = [camera EXCEPT ![c] = row]
        /\ QueueCameraChange(c, row, row.enabled) \/ UNCHANGED <<desired, ops>>
        /\ client[c] = "paired" /\ UNCHANGED <<client, actual>>
    BY <1>6 DEF ReportCamera
  <2>. HIDE DEF row
  <2>3. \A d \in Cameras \ {c} : camera'[d] = camera[d]
    BY <1>1, <2>2
  <2>4. CASE UNCHANGED <<desired, ops>>
    BY <2>2, <2>3, <2>4 DEF Moves, PurgedIsGone
  <2>5. CASE QueueCameraChange(c, row, row.enabled)
    <3>1. /\ desired'[c].gen = desired[c].gen + 1
          /\ \A d \in Cameras \ {c} : desired'[d] = desired[d]
          /\ \A i \in DOMAIN ops : ops'[i].cam = ops[i].cam
      BY <2>1, <2>5, QueueMoves
    <3>. QED  BY <2>2, <2>3, <3>1 DEF Moves, PurgedIsGone
  <2>. QED  BY <2>2, <2>4, <2>5
<1>7. ASSUME NEW i \in DOMAIN ops, NEW resolution \in Resolutions, ResolveOperation(i, resolution)
      PROVE  Moves /\ \A j \in DOMAIN ops : ops'[j].cam = ops[j].cam
  <2>. DEFINE settled == [ops[i] EXCEPT !.state = "resolved",
                                        !.confirmed = (resolution = "confirmed_succeeded")]
              dead    == [ops[i] EXCEPT !.state = "dead_letter", !.live = FALSE]
  <2>1. ops' = [ops EXCEPT ![i] = settled] \/ ops' = [ops EXCEPT ![i] = dead]
    BY <1>7 DEF ResolveOperation, SetState
  <2>2. settled.cam = ops[i].cam /\ dead.cam = ops[i].cam
    BY RowTyped DEF OpRow
  <2>. HIDE DEF settled, dead
  <2>3. \A j \in DOMAIN ops : ops'[j].cam = ops[j].cam
    BY <2>1, <2>2, TypingOps, LenProperties DEF OpsOK
  <2>4. UNCHANGED <<client, camera, desired, actual>>
    BY <1>7 DEF ResolveOperation
  <2>. QED  BY <2>3, <2>4 DEF Moves, PurgedIsGone
<1>. QED  BY <1>2, <1>3, <1>4, <1>5, <1>6, <1>7 DEF HandlerStep

LEMMA TimeMoves ==
    ASSUME Typing, PurgedIsGone, TimePasses
    PROVE  /\ Moves /\ UNCHANGED <<media, late, worker>>
           /\ \A i \in DOMAIN ops : ops'[i].cam = ops[i].cam
<1>1. UNCHANGED <<client, camera, desired, actual, media, late, worker>>
  BY DEF TimePasses, LeaseExpires, OperationLeaseExpires, BackoffElapses
<1>2. \A j \in DOMAIN ops : ops'[j].cam = ops[j].cam
  <2>1. ASSUME NEW i \in DOMAIN ops, OperationLeaseExpires(i) \/ BackoffElapses(i)
        PROVE  \A j \in DOMAIN ops : ops'[j].cam = ops[j].cam
    <3>. DEFINE expired == [ops[i] EXCEPT !.live = FALSE]
                due     == [ops[i] EXCEPT !.wait = FALSE]
    <3>1. expired.cam = ops[i].cam /\ due.cam = ops[i].cam
      BY RowTyped DEF OpRow
    <3>2. ops' = [ops EXCEPT ![i] = expired] \/ ops' = [ops EXCEPT ![i] = due]
      BY <2>1 DEF OperationLeaseExpires, BackoffElapses
    <3>. HIDE DEF expired, due
    <3>. QED  BY <3>1, <3>2, TypingOps, LenProperties DEF OpsOK
  <2>. QED  BY <2>1 DEF TimePasses, LeaseExpires
<1>. QED  BY <1>1, <1>2 DEF Moves, PurgedIsGone

-----------------------------------------------------------------------------
(* The worker                                                              *)

Tables == <<client, camera, desired, actual>>

(* A step to where the worker holds no old row.                            *)
LEMMA RestKeeps ==
    ASSUME Right, UNCHANGED Tables, UNCHANGED <<media, late>>,
           worker'.pc \notin Loading \cup Observing
    PROVE  Right'
BY DEF Right, Tables, PurgedIsGone, NothingLate, AppliedRight, LoadedRight, SeenRight, Observing

LEMMA WorkerRests ==
    ASSUME CamerasAssumption, Typing,
           \/ RecoverExpired \/ AcquireLease \/ RenewLease \/ ClaimNext \/ ReleaseLease
           \/ RereadClaim \/ RenewClaimed \/ CallRejected \/ FinishSuperseded
           \/ FinishFailure \/ AbandonClaim \/ DatabaseError
    PROVE  /\ UNCHANGED Tables /\ UNCHANGED <<media, late>>
           /\ worker'.pc \notin Holding
<1>. DEFINE Elsewhere == WorkerStates \ Holding
<1>1. UNCHANGED Tables /\ UNCHANGED <<media, late>>
  BY DEF RecoverExpired, AcquireLease, RenewLease, ClaimNext, ReleaseLease, RereadClaim,
         RenewClaimed, CallRejected, FinishSuperseded, FinishFailure, AbandonClaim,
         DatabaseError, OnlyStore, OnlyWorker, Tables
<1>2. worker \in WorkerRow
  BY TypingParts
<1>3. /\ {"idle", "acquire", "renew", "claim", "release", "fetch", "reread", "renewClaimed",
          "load", "abandon", "fail"} \subseteq Elsewhere
  BY DEF WorkerStates, Holding, Loading, Observing, Listing
<1>4. \A pc \in Elsewhere : Goto(pc) => worker'.pc \in Elsewhere
  BY GotoTyped
<1>5. /\ IdleWorker.pc \in Elsewhere
      /\ \A pc \in Elsewhere : /\ [IdleWorker EXCEPT !.pc = pc].pc = pc
                               /\ [IdleWorker EXCEPT !.pc = pc, !.again = TRUE].pc = pc
  BY <1>3, IdleTyped, FreshTyped
<1>. HIDE DEF Elsewhere
<1>6. ASSUME RecoverExpired \/ RenewLease \/ RereadClaim \/ RenewClaimed PROVE worker'.pc \in Elsewhere
  <2>1. \/ Goto("acquire") \/ Goto("claim") \/ Goto("release") \/ Goto("renewClaimed")
        \/ Goto("load") \/ Goto("abandon")
    <3>1. CASE RecoverExpired
      BY <3>1 DEF RecoverExpired
    <3>2. CASE RenewLease
      BY <3>2 DEF RenewLease
    <3>3. CASE RereadClaim
      BY <3>3 DEF RereadClaim
    <3>4. CASE RenewClaimed
      BY <3>4 DEF RenewClaimed
    <3>. QED  BY <1>6, <3>1, <3>2, <3>3, <3>4
  <2>. QED  BY <1>3, <1>4, <2>1
<1>7. ASSUME AcquireLease PROVE worker'.pc \in Elsewhere
  <2>1. worker' = IdleWorker \/ Goto("renew")
    BY <1>7 DEF AcquireLease
  <2>. QED  BY <1>3, <1>4, <1>5, <2>1
<1>8. ASSUME ClaimNext PROVE worker'.pc \in Elsewhere
  <2>1. \/ Goto("release") \/ Goto("fetch")
        \/ \E i \in DOMAIN ops : worker' = [worker EXCEPT !.pc = "reread", !.job = i]
    BY <1>8 DEF ClaimNext
  <2>2. \A i : [worker EXCEPT !.pc = "reread", !.job = i].pc = "reread"
    BY <1>2 DEF WorkerRow
  <2>. QED  BY <1>3, <1>4, <2>1, <2>2
<1>9. ASSUME ReleaseLease PROVE worker'.pc \in Elsewhere
  <2>1. \/ worker' = [IdleWorker EXCEPT !.pc = "acquire"]
        \/ worker' = [IdleWorker EXCEPT !.pc = "idle"]
    BY <1>9 DEF ReleaseLease
  <2>. QED  BY <1>3, <1>5, <2>1
<1>10. ASSUME CallRejected PROVE worker'.pc \in Elsewhere
  <2>1. worker' = [worker EXCEPT !.pc = "fail", !.failure = "rejected"]
    BY <1>10 DEF CallRejected
  <2>2. worker'.pc = "fail"
    BY <1>2, <2>1 DEF WorkerRow
  <2>. QED  BY <1>3, <2>2
<1>11. ASSUME FinishSuperseded \/ FinishFailure PROVE worker'.pc \in Elsewhere
  <2>1. \/ Goto("abandon")
        \/ worker' = [IdleWorker EXCEPT !.pc = "release", !.again = TRUE]
    BY <1>11 DEF FinishSuperseded, FinishFailure, RoundDone
  <2>. QED  BY <1>3, <1>4, <1>5, <2>1
<1>12. ASSUME AbandonClaim PROVE worker'.pc \in Elsewhere
  <2>1. worker' = [IdleWorker EXCEPT !.pc = "release"]
    BY <1>12 DEF AbandonClaim
  <2>. QED  BY <1>3, <1>5, <2>1
<1>13. ASSUME DatabaseError PROVE worker'.pc \in Elsewhere
  <2>1. \/ worker' = IdleWorker \/ Goto("abandon")
        \/ worker' = [IdleWorker EXCEPT !.pc = "release"]
    BY <1>13 DEF DatabaseError
  <2>. QED  BY <1>3, <1>4, <1>5, <2>1
<1>14. worker'.pc \in Elsewhere
  BY <1>6, <1>7, <1>8, <1>9, <1>10, <1>11, <1>12, <1>13
<1>. QED  BY <1>1, <1>14 DEF Elsewhere

(* Between the read of the desired row and the call for it.                *)
LEMMA LoadingKeepsRight ==
    ASSUME Typing, Right, LoadDesired \/ LoadCamera
    PROVE  Right'
<1>1. UNCHANGED Tables /\ UNCHANGED <<media, late, ops>> /\ worker.pc \in Claimed
  BY DEF LoadDesired, LoadCamera, OnlyWorker, Tables, At, Claimed
<1>2. worker \in WorkerRow /\ ops[worker.job].cam \in Cameras
  BY <1>1, JobTyped, TypingParts
<1>. DEFINE c == ops[worker.job].cam
<1>3. CASE LoadDesired /\ worker' = [worker EXCEPT !.pc = "camera", !.loaded = desired[c]]
  <2>1. worker'.pc = "camera" /\ worker'.loaded = desired[c] /\ worker'.job = worker.job
    BY <1>2, <1>3 DEF WorkerRow
  <2>2. WasDesired(worker.loaded, c)' /\ \A p \in Profiles : actual'[c][p].applied <= worker'.loaded.gen
    <3>. HIDE DEF c
    <3>1. desired[c].gen <= desired[c].gen
      BY <1>2, RowNumbers DEF c
    <3>2. c \in Cameras
      BY <1>2 DEF c
    <3>3. c' = c
      BY <1>1, <2>1 DEF c
    <3>. QED  BY <1>1, <2>1, <3>1, <3>2, <3>3 DEF WasDesired, Tables, Right, AppliedRight
  <2>3. LoadedRight'
    BY <1>1, <2>1, <2>2 DEF LoadedRight, LoadedFor
  <2>. QED
    BY <1>1, <2>1, <2>3
       DEF Right, Tables, PurgedIsGone, NothingLate, AppliedRight, SeenRight, Observing, Listing
<1>4. CASE LoadCamera /\ Goto("main")
  <2>1. /\ worker'.pc = "main" /\ worker'.loaded = worker.loaded /\ worker'.job = worker.job
        /\ worker.pc = "camera"
    BY <1>2, <1>4 DEF LoadCamera, Goto, At, WorkerRow
  <2>2. LoadedRight'
    BY <1>1, <2>1 DEF Right, LoadedRight, LoadedFor, Loading, WasDesired, Tables
  <2>. QED
    BY <1>1, <2>1, <2>2
       DEF Right, Tables, PurgedIsGone, NothingLate, AppliedRight, SeenRight, Observing, Listing
<1>5. CASE Goto("abandon") \/ Goto("superseded")
  <2>1. worker'.pc \notin Loading \cup Observing
    BY <1>5, GotoTyped DEF WorkerStates, Loading, Observing, Listing
  <2>. QED  BY <1>1, <2>1, RestKeeps
<1>. QED  BY <1>3, <1>4, <1>5 DEF LoadDesired, LoadCamera

(* A call overwrites one path with what the loaded row asks for: what is   *)
(* recorded of that path is older, or is of the same row.                  *)
LEMMA EffectKeeps ==
    ASSUME Typing, CamerasAgree, Right, Calling, TakesEffect, UNCHANGED Tables
    PROVE  /\ CallTarget \in Cameras
           /\ media'[CallTarget][worker.pc] = CallConfig
           /\ \A p \in Profiles \ {worker.pc} : media'[CallTarget][p] = media[CallTarget][p]
           /\ AppliedRight'
<1>1. worker.pc \in Claimed /\ worker.pc \in Loading /\ worker.pc \in Profiles
  BY DEF Calling, Claimed, Loading, Profiles
<1>2. CallTarget \in Cameras
  BY <1>1, JobTyped DEF CallTarget
<1>3. LoadedFor(CallTarget)
  BY <1>1, <1>2 DEF Right, LoadedRight, CallTarget
<1>4. media \in [Cameras -> [Profiles -> Config]] /\ media' = [media EXCEPT ![CallTarget][worker.pc] = CallConfig]
  BY TypingParts DEF TakesEffect
<1>5. /\ \A c \in Cameras \ {CallTarget} : media'[c] = media[c]
      /\ media'[CallTarget][worker.pc] = CallConfig
      /\ \A p \in Profiles \ {worker.pc} : media'[CallTarget][p] = media[CallTarget][p]
  BY <1>1, <1>2, <1>4
<1>6. ASSUME NEW c \in Cameras, NEW p \in Profiles,
             desired[c].gen > 0, actual[c][p].applied = desired[c].gen
      PROVE  media'[c][p] = Required(desired[c], p)
  <2>1. media[c][p] = Required(desired[c], p)
    BY <1>6 DEF Right, AppliedRight
  <2>2. CASE c = CallTarget /\ p = worker.pc
    <3>1. client[c] # "purged"
      BY <1>6, NotPurged DEF Right
    <3>2. actual[c][p].applied <= worker.loaded.gen /\ worker.loaded.gen <= desired[c].gen
      BY <1>3, <2>2, <3>1 DEF LoadedFor, WasDesired
    <3>3. worker.loaded = desired[c]
      BY <1>3, <1>6, <2>2, <3>1, <3>2, RowNumbers DEF LoadedFor, WasDesired
    <3>. QED  BY <1>5, <2>2, <3>3 DEF CallConfig
  <2>3. CASE ~(c = CallTarget /\ p = worker.pc)
    BY <1>5, <2>1, <2>3
  <2>. QED  BY <2>2, <2>3
<1>7. AppliedRight'
  BY <1>6 DEF AppliedRight, Right, Tables
<1>. QED  BY <1>2, <1>5, <1>7

LEMMA CallsKeepRight ==
    ASSUME "late" \notin Faults, Typing, CamerasAgree, Right, CallSucceeds \/ CallUnanswered
    PROVE  Right'
<1>1. Calling /\ UNCHANGED Tables /\ UNCHANGED ops
  BY DEF CallSucceeds, CallUnanswered, Tables
<1>2. PurgedIsGone' /\ NothingLate'
  BY <1>1 DEF Right, PurgedIsGone, NothingLate, Tables, CallSucceeds, CallUnanswered, MaybeExecuted
<1>3. worker \in WorkerRow
  BY TypingParts
<1>4. CASE CallSucceeds
  <2>1. /\ worker.pc = "main" => worker'.pc = "sub"
        /\ worker.pc = "sub"  => worker'.pc = "finish"
        /\ worker'.loaded = worker.loaded /\ worker'.job = worker.job
    <3>1. \/ At("main") /\ worker' = [worker EXCEPT !.pc = "sub"]
          \/ ~At("main") /\ worker' = [worker EXCEPT !.pc = "finish"]
      BY <1>4 DEF CallSucceeds, Goto
    <3>. QED  BY <1>3, <3>1 DEF At, WorkerRow
  <2>2. worker.pc \in Loading /\ worker.pc \in Profiles
    BY <1>1 DEF Calling, Loading, Profiles
  <2>3. PICK c \in Cameras :
          /\ c = CallTarget /\ media'[c][worker.pc] = Required(worker.loaded, worker.pc)
          /\ \A p \in Profiles \ {worker.pc} : media'[c][p] = media[c][p]
          /\ AppliedRight'
    BY <1>1, <1>4, EffectKeeps DEF CallSucceeds, CallConfig
  <2>4. LoadedFor(c)
    BY <2>2, <2>3 DEF Right, LoadedRight, CallTarget
  <2>5. c = ops'[worker'.job].cam
    BY <1>1, <2>1, <2>3 DEF CallTarget
  <2>6. LoadedFor(c)'
    <3>1. worker'.pc \in {"sub", "finish"} => media'[c]["main"] = Required(worker.loaded, "main")
      BY <2>1, <2>2, <2>3, <2>4 DEF LoadedFor, Profiles
    <3>2. worker'.pc = "finish" => media'[c]["sub"] = Required(worker.loaded, "sub")
      BY <2>1, <2>2, <2>3, <2>4 DEF LoadedFor, Profiles
    <3>. QED  BY <1>1, <2>1, <2>4, <3>1, <3>2 DEF LoadedFor, WasDesired, Tables
  <2>7. LoadedRight'
    BY <2>5, <2>6 DEF LoadedRight
  <2>8. SeenRight'
    BY <2>1, <2>2 DEF SeenRight, Observing, Listing, Profiles
  <2>. QED  BY <1>2, <2>3, <2>7, <2>8 DEF Right
<1>5. CASE CallUnanswered
  <2>1. worker'.pc = "fail"
    BY <1>3, <1>5 DEF CallUnanswered, WorkerRow
  <2>2. TakesEffect \/ UNCHANGED media
    BY <1>5 DEF CallUnanswered, MaybeExecuted
  <2>3. AppliedRight'
    <3>1. CASE TakesEffect
      BY <1>1, <3>1, EffectKeeps
    <3>2. CASE UNCHANGED media
      BY <1>1, <3>2 DEF Right, AppliedRight, Tables
    <3>. QED  BY <2>2, <3>1, <3>2
  <2>. QED  BY <1>2, <2>1, <2>3 DEF Right, LoadedRight, SeenRight, Loading, Observing, Listing
<1>. QED  BY <1>4, <1>5

(* Success is recorded for the generation that was applied, if it is still *)
(* the current one.                                                        *)
LEMMA FinishKeepsRight ==
    ASSUME CamerasAssumption, Typing, CamerasAgree, Right, FinishSuccess
    PROVE  Right'
<1>. DEFINE c == ops[worker.job].cam
<1>1. /\ worker.pc = "finish" /\ UNCHANGED <<client, camera, desired, media, late>>
      /\ RoundDone \/ Goto("abandon")
      /\ \/ UNCHANGED actual
         \/ /\ desired[c].gen > 0 /\ desired[c].gen = worker.loaded.gen
            /\ actual' = [actual EXCEPT ![c] = AppliedRows(worker.loaded)]
  BY DEF FinishSuccess, At
<1>2. worker'.pc \notin Loading \cup Observing
  <2>1. worker'.pc = "release" \/ worker'.pc = "abandon"
    BY <1>1, FreshTyped, GotoTyped DEF RoundDone, WorkerStates
  <2>. QED  BY <2>1 DEF Loading, Observing, Listing
<1>3. c \in Cameras
  BY <1>1, JobTyped DEF Claimed
<1>4. LoadedFor(c)
  BY <1>1, <1>3 DEF Right, LoadedRight, Loading
<1>5. AppliedRight'
  <2>1. CASE UNCHANGED actual
    BY <1>1, <2>1 DEF Right, AppliedRight
  <2>2. CASE /\ desired[c].gen > 0 /\ desired[c].gen = worker.loaded.gen
             /\ actual' = [actual EXCEPT ![c] = AppliedRows(worker.loaded)]
    <3>1. worker.loaded = desired[c]
      BY <1>3, <1>4, <2>2, NotPurged DEF LoadedFor, WasDesired, Right
    <3>2. \A p \in Profiles : media[c][p] = Required(desired[c], p)
      BY <1>1, <1>4, <3>1 DEF LoadedFor, Profiles
    <3>3. actual \in [Cameras -> [Profiles -> ActualRow]]
      BY TypingParts
    <3>. HIDE DEF c
    <3>4. \A p \in Profiles : actual'[c][p].applied = desired[c].gen
      BY <1>3, <2>2, <3>3 DEF AppliedRows
    <3>5. \A d \in Cameras \ {c} : actual'[d] = actual[d]
      BY <2>2, <3>3
    <3>. QED  BY <1>1, <3>2, <3>4, <3>5, RowNumbers DEF Right, AppliedRight
  <2>. QED  BY <1>1, <2>1, <2>2
<1>6. PurgedIsGone' /\ NothingLate'
  BY <1>1 DEF Right, PurgedIsGone, NothingLate
<1>. QED  BY <1>2, <1>5, <1>6 DEF Right, LoadedRight, SeenRight, Observing

(* An observation goes on with what it saw, or ends.                       *)
GoesOn ==
    \/ worker'.pc \notin Holding
    \/ /\ worker'.pc \in Listing
       /\ worker'.seen = worker.seen /\ worker'.listed = worker.listed

LEMMA GoingOnKeeps ==
    ASSUME Right, worker.pc \in Listing, GoesOn, AppliedRight',
           UNCHANGED <<client, camera, desired, media, late>>
    PROVE  Right'
<1>1. PurgedIsGone' /\ NothingLate'
  BY DEF Right, PurgedIsGone, NothingLate
<1>2. worker'.pc \notin Loading
  BY DEF GoesOn, Holding, Loading, Listing
<1>3. worker.seen = media /\ \A c \in Cameras : WasDesired(worker.listed[c], c)
  BY DEF Right, SeenRight, Observing
<1>4. SeenRight'
  BY <1>3 DEF GoesOn, SeenRight, Holding, Observing, WasDesired
<1>. QED  BY <1>1, <1>2, <1>4 DEF Right, LoadedRight

LEMMA PlacesGoOn ==
    ASSUME CamerasAssumption, Typing,
           \/ worker' = NextCamera \/ Forget("release") \/ worker' = Observed
           \/ \E n \in Nat : worker' = [worker EXCEPT !.pc = "driftCheck", !.stamp = n]
           \/ \E pc \in Listing : Goto(pc)
           \/ \E c \in Cameras :
                worker' = [worker EXCEPT !.pc = "observeMain", !.cam = c, !.todo = @ \ {c}]
    PROVE  GoesOn
<1>1. worker \in WorkerRow
  BY TypingParts
<1>2. ASSUME worker' = Observed \/ Forget("release")  PROVE GoesOn
  <2>1. worker'.pc = "renew" \/ worker'.pc = "release"
    BY <1>2, ObservedTyped, ForgetTyped
  <2>. QED  BY <2>1 DEF GoesOn, Holding, Loading, Observing, Listing
<1>3. ASSUME NEW pc \in Listing, Goto(pc)  PROVE GoesOn
  BY <1>1, <1>3 DEF Goto, GoesOn, WorkerRow
<1>4. ASSUME NEW n \in Nat, worker' = [worker EXCEPT !.pc = "driftCheck", !.stamp = n]
      PROVE  GoesOn
  BY <1>1, <1>4 DEF GoesOn, WorkerRow, Listing
<1>5. ASSUME NEW c \in Cameras,
             worker' = [worker EXCEPT !.pc = "observeMain", !.cam = c, !.todo = @ \ {c}]
      PROVE  GoesOn
  BY <1>1, <1>5 DEF GoesOn, WorkerRow, Listing
<1>6. ASSUME worker' = NextCamera  PROVE GoesOn
  BY <1>2, <1>3, <1>6 DEF NextCamera, Goto, Listing
<1>. QED  BY <1>2, <1>3, <1>4, <1>5, <1>6

(* What is recorded of a path was seen there, and is there still.          *)
LEMMA RecordingKeeps ==
    ASSUME Typing, Right, worker.pc \in Listing, NEW p \in Profiles, ObservePath(p),
           UNCHANGED <<client, camera, desired, media>>
    PROVE  AppliedRight'
<1>. DEFINE applied == IF Matches(worker.cam, p) THEN worker.listed[worker.cam].gen ELSE 0
            row == [present |-> worker.seen[worker.cam][p] # "none", applied |-> applied]
<1>1. actual \in [Cameras -> [Profiles -> ActualRow]] /\ worker.cam \in Cameras
  BY TypingParts DEF WorkerRow
<1>2. CASE camera[worker.cam].exists
  <2>. DEFINE c == worker.cam
  <2>1. actual' = [actual EXCEPT ![c][p] = row]
    BY <1>2 DEF ObservePath
  <2>2. client[c] # "purged"
    BY <1>1, <1>2 DEF Right, PurgedIsGone
  <2>3. WasDesired(worker.listed[c], c) /\ worker.seen = media
    BY <1>1 DEF Right, SeenRight, Observing
  <2>4. row.applied = applied
    OBVIOUS
  <2>. HIDE DEF row
  <2>5. actual'[c][p].applied = applied
    BY <1>1, <2>1, <2>4
  <2>6. \A d \in Cameras, q \in Profiles : d # c \/ q # p => actual'[d][q] = actual[d][q]
    BY <1>1, <2>1
  <2>. HIDE DEF c
  <2>7. c \in Cameras
    BY <1>1 DEF c
  <2>8. applied <= desired[c].gen
    BY <2>2, <2>3, <2>7, RowNumbers DEF c, WasDesired
  <2>9. ASSUME desired[c].gen > 0, applied = desired[c].gen
        PROVE  media[c][p] = Required(desired[c], p)
    <3>1. Matches(c, p) /\ worker.listed[c].gen = desired[c].gen
      BY <2>7, <2>9, RowNumbers DEF c
    <3>. QED  BY <2>2, <2>3, <3>1 DEF WasDesired, Matches
  <2>. HIDE DEF applied
  <2>10. ASSUME NEW d \in Cameras, NEW q \in Profiles
         PROVE  /\ actual'[d][q].applied <= desired[d].gen
                /\ desired[d].gen > 0 /\ actual'[d][q].applied = desired[d].gen
                      => media[d][q] = Required(desired[d], q)
    <3>1. CASE d = c /\ q = p
      BY <2>5, <2>8, <2>9, <3>1
    <3>2. CASE d # c \/ q # p
      BY <2>6, <3>2 DEF Right, AppliedRight
    <3>. QED  BY <3>1, <3>2
  <2>. QED  BY <2>10 DEF AppliedRight
<1>3. CASE ~camera[worker.cam].exists
  BY <1>3 DEF ObservePath, Right, AppliedRight
<1>. QED  BY <1>2, <1>3

LEMMA ObservationKeepsRight ==
    ASSUME CamerasAssumption, Typing, Right,
           \/ FetchInventory \/ ListDesired \/ ObserveCamera \/ ObservePaths
           \/ DriftCheck \/ DriftEnqueue
    PROVE  Right'
<1>1. worker \in WorkerRow
  BY TypingParts
<1>2. CASE FetchInventory
  <2>1. UNCHANGED Tables /\ UNCHANGED <<media, late>>
    BY <1>2 DEF FetchInventory, Tables
  <2>2. CASE worker' = [worker EXCEPT !.pc = "list", !.seen = media]
    <3>1. worker'.pc = "list" /\ worker'.seen = media
      BY <1>1, <2>2 DEF WorkerRow
    <3>. QED
      BY <2>1, <3>1 DEF Right, Tables, PurgedIsGone, NothingLate, AppliedRight, LoadedRight,
         SeenRight, Loading, Observing, Listing
  <2>3. CASE Goto("release")
    <3>1. worker'.pc \notin Loading \cup Observing
      BY <2>3, GotoTyped DEF WorkerStates, Loading, Observing, Listing
    <3>. QED  BY <2>1, <3>1, RestKeeps
  <2>. QED  BY <1>2, <2>2, <2>3 DEF FetchInventory
<1>3. CASE ListDesired
  <2>. DEFINE rows == {c \in Cameras : desired[c].gen > 0}
  <2>1. UNCHANGED Tables /\ UNCHANGED <<media, late>> /\ worker.pc = "list"
    BY <1>3 DEF ListDesired, OnlyWorker, Tables, At
  <2>2. CASE worker' = Observed
    <3>1. worker'.pc \notin Loading \cup Observing
      BY <2>2, ObservedTyped DEF Loading, Observing, Listing
    <3>. QED  BY <2>1, <3>1, RestKeeps
  <2>3. CASE worker' = [worker EXCEPT !.pc = "observeCamera", !.listed = desired, !.todo = rows]
    <3>. HIDE DEF rows
    <3>1. worker'.pc = "observeCamera" /\ worker'.seen = worker.seen /\ worker'.listed = desired
      BY <1>1, <2>3 DEF WorkerRow
    <3>2. \A c \in Cameras : WasDesired(worker.listed[c], c)'
      BY <2>1, <3>1, RowNumbers DEF WasDesired, Tables
    <3>. QED
      BY <2>1, <3>1, <3>2 DEF Right, Tables, PurgedIsGone, NothingLate, AppliedRight, LoadedRight,
         SeenRight, Loading, Observing, Listing
  <2>. QED  BY <1>3, <2>2, <2>3 DEF ListDesired
<1>4. CASE ObserveCamera
  <2>1. UNCHANGED <<client, camera, desired, actual, media, late>> /\ worker.pc \in Listing
    BY <1>4 DEF ObserveCamera, OnlyWorker, At, Listing
  <2>2. GoesOn
    <3>1. worker.todo \subseteq Cameras
      BY <1>1 DEF WorkerRow
    <3>. QED  BY <1>4, <3>1, PlacesGoOn DEF ObserveCamera
  <2>. QED  BY <2>1, <2>2, GoingOnKeeps DEF Right, AppliedRight
<1>5. CASE ObservePaths
  <2>1. PICK p \in Profiles : ObservePath(p)
    BY <1>5 DEF ObservePaths, Profiles
  <2>2. UNCHANGED <<client, camera, desired, media, late>> /\ worker.pc \in Listing
    BY <1>5 DEF ObservePaths, At, Listing
  <2>3. GoesOn
    <3>1. Len(ops) \in Nat
      BY TypingOps, LenProperties DEF OpsOK
    <3>2. \/ Goto("observeSub") \/ worker' = NextCamera \/ Forget("release")
          \/ worker' = [worker EXCEPT !.pc = "driftCheck", !.stamp = Len(ops)]
      BY <2>1 DEF ObservePath, Goto
    <3>. QED  BY <3>1, <3>2, PlacesGoOn DEF Listing
  <2>4. AppliedRight'
    BY <2>1, <2>2, RecordingKeeps
  <2>. QED  BY <2>2, <2>3, <2>4, GoingOnKeeps
<1>6. CASE DriftCheck \/ DriftEnqueue
  <2>1. UNCHANGED <<client, camera, desired, actual, media, late>> /\ worker.pc \in Listing
    BY <1>6 DEF DriftCheck, DriftEnqueue, OnlyWorker, OnlyStore, At, Listing
  <2>2. worker' = NextCamera \/ Goto("driftEnqueue") \/ Forget("release")
    BY <1>6 DEF DriftCheck, DriftEnqueue, Goto
  <2>3. GoesOn
    BY <2>2, PlacesGoOn DEF Listing
  <2>. QED  BY <2>1, <2>3, GoingOnKeeps DEF Right, AppliedRight
<1>. QED  BY <1>2, <1>3, <1>4, <1>5, <1>6

-----------------------------------------------------------------------------
(* The invariant                                                           *)

LEMMA RightInit == ASSUME Init PROVE Right
<1>1. PurgedIsGone /\ NothingLate
  BY DEF Init, PurgedIsGone, NothingLate
<1>2. \A c \in Cameras, p \in Profiles : actual[c][p].applied = 0 /\ desired[c].gen = 0
  BY DEF Init, NoActual, NoDesired
<1>3. worker.pc = "idle"
  BY DEF Init, IdleWorker
<1>. QED
  BY <1>1, <1>2, <1>3 DEF Right, AppliedRight, LoadedRight, SeenRight, Loading, Observing, Listing

(* Restarting, the process forgets every row it had read.                  *)
LEMMA CrashKeepsRight ==
    ASSUME CamerasAssumption, "late" \notin Faults, Typing, CamerasAgree, Right, CrashAndRestart
    PROVE  Right'
<1>1. UNCHANGED Tables /\ UNCHANGED late /\ worker'.pc = "idle"
  BY IdleTyped DEF CrashAndRestart, MaybeExecuted, Tables
<1>2. UNCHANGED media \/ (Calling /\ TakesEffect)
  BY DEF CrashAndRestart, MaybeExecuted
<1>3. AppliedRight'
  <2>1. CASE Calling /\ TakesEffect
    BY <1>1, <2>1, EffectKeeps
  <2>2. CASE UNCHANGED media
    BY <1>1, <2>2 DEF Right, AppliedRight, Tables
  <2>. QED  BY <1>2, <2>1, <2>2
<1>. QED
  BY <1>1, <1>3 DEF Right, PurgedIsGone, NothingLate, LoadedRight, SeenRight, Tables,
     Loading, Observing, Listing

LEMMA RightStep ==
    ASSUME CamerasAssumption, BoundsAssumption, ReportsAssumption,
           "drift" \notin Faults, "late" \notin Faults,
           Typing, CamerasAgree, Right, [Next]_vars
    PROVE  Right'
<1>1. PurgedIsGone
  BY DEF Right
<1>2. CASE HandlerStep
  BY <1>1, <1>2, HandlersMove, MovesKeep
<1>3. CASE WorkerStep
  <2>1. CASE CallSucceeds \/ CallUnanswered
    BY <2>1, CallsKeepRight
  <2>2. CASE FinishSuccess
    BY <2>2, FinishKeepsRight
  <2>3. CASE LoadDesired \/ LoadCamera
    BY <2>3, LoadingKeepsRight
  <2>4. CASE \/ FetchInventory \/ ListDesired \/ ObserveCamera \/ ObservePaths
             \/ DriftCheck \/ DriftEnqueue
    BY <2>4, ObservationKeepsRight
  <2>5. CASE \/ RecoverExpired \/ AcquireLease \/ RenewLease \/ ClaimNext \/ ReleaseLease
             \/ RereadClaim \/ RenewClaimed \/ CallRejected \/ FinishSuperseded
             \/ FinishFailure \/ AbandonClaim \/ DatabaseError
    BY <2>5, WorkerRests, RestKeeps DEF Holding
  <2>. QED  BY <1>3, <2>1, <2>2, <2>3, <2>4, <2>5 DEF WorkerStep
<1>4. CASE CrashAndRestart
  BY <1>4, CrashKeepsRight
<1>5. CASE TimePasses
  BY <1>1, <1>5, TimeMoves, MovesKeep
<1>6. CASE MediaDrifts \/ LateRequestExecutes
  BY <1>6 DEF MediaDrifts, LateRequestExecutes, Fault, Right, NothingLate
<1>7. CASE UNCHANGED vars
  BY <1>7 DEF vars, Right, PurgedIsGone, NothingLate, AppliedRight, LoadedRight, LoadedFor,
     SeenRight, WasDesired
<1>. QED  BY <1>2, <1>3, <1>4, <1>5, <1>6, <1>7 DEF Next, Environment

(* A publish URL is granted only while MediaMTX has the paths as the       *)
(* current generation wants them, however handlers, the worker's calls,    *)
(* its crashes and its observations interleave, as long as MediaMTX        *)
(* changes only by what the server asks of it while it waits: the          *)
(* generation written by complete_reconcile_success and by the observation *)
(* is the one read together with the configuration.                        *)
THEOREM PublishedIsServed ==
    ASSUME "drift" \notin Faults, "late" \notin Faults
    PROVE  Spec => []PublishReadyIsServed
<1>1. Init => Typing /\ CamerasAgree /\ Right
  BY TypingInit, AgreeInit, RightInit, CamerasAssumption, BoundsAssumption
<1>2. Typing /\ CamerasAgree /\ Right /\ [Next]_vars => Typing' /\ CamerasAgree' /\ Right'
  BY TypingStep, AgreeStep, RightStep, CamerasAssumption, BoundsAssumption, ReportsAssumption
<1>3. Typing /\ CamerasAgree /\ Right => PublishReadyIsServed
  <2>. SUFFICES ASSUME Typing, CamerasAgree, Right, NEW c \in Cameras, PublishReady(c),
                       NEW p \in Profiles, Wanted(c, p) # "none"
                PROVE  media[c][p] = Wanted(c, p)
    BY DEF PublishReadyIsServed
  <2>1. desired[c].present /\ desired[c].gen \in Nat
    BY RowNumbers DEF PublishReady
  <2>2. desired[c].gen > 0 /\ desired[c].sub = camera[c].sub
    BY <2>1 DEF CamerasAgree, DesiredMatchesCamera, RowsTogether, NoDesired
  <2>3. p = "main" \/ camera[c].sub
    BY <2>2 DEF Wanted, Required, Profiles
  <2>4. actual[c][p].applied = desired[c].gen
    BY <2>3 DEF PublishReady
  <2>. QED  BY <2>2, <2>4 DEF Right, AppliedRight, Wanted
<1>. QED  BY <1>1, <1>2, <1>3, PTL DEF Spec

-----------------------------------------------------------------------------
(* Part 2: the lifecycle of a client's media                               *)

(* An operation is not newer than its camera's desired row, and a settled  *)
(* one of the current generation is served.                                *)
RowRight(i) ==
    client[ops[i].cam] # "purged" =>
        /\ ops[i].gen <= desired[ops[i].cam].gen
        /\ ops[i].gen = desired[ops[i].cam].gen /\ Settled(i) => ServedAsWanted(ops[i].cam)

RowsRight == \A i \in DOMAIN ops : RowRight(i)

NothingWithoutRow ==
    \A c \in Cameras : desired[c].gen = 0 => \A p \in Profiles : media[c][p] = "none"

(* The row being applied is the one the claimed operation names; one that  *)
(* outlives its camera asks for nothing, and one that is no longer current *)
(* has every operation of the current generation still to come.            *)
HeldFor(c) ==
    /\ worker.loaded.gen > 0 /\ worker.loaded.gen = ops[worker.job].gen
    /\ client[c] = "purged" => ~worker.loaded.present
    /\ client[c] # "purged" /\ worker.loaded.gen < desired[c].gen =>
          \A i \in OpsOf(c) : ops[i].gen = desired[c].gen => ops[i].state = "pending"

HeldRight ==
    worker.pc \in Loading => \A c \in Cameras : c = ops[worker.job].cam => HeldFor(c)

(* An operation skipped as superseded has been.                            *)
SupersededIsOld ==
    worker.pc = "superseded" =>
        \A c \in Cameras : c = ops[worker.job].cam /\ client[c] # "purged" =>
            ops[worker.job].gen < desired[c].gen

Ends == RowsRight /\ NothingWithoutRow /\ HeldRight /\ SupersededIsOld

LEMMA OpNumbers ==
    ASSUME Typing, NEW i \in DOMAIN ops
    PROVE  ops[i].cam \in Cameras /\ ops[i].gen \in Nat /\ ops[i].state \in OpStates
BY RowTyped DEF OpRow

LEMMA EndsInit == ASSUME Init PROVE Ends
<1>1. ops = <<>> /\ worker.pc = "idle"
  BY DEF Init, IdleWorker
<1>2. NothingWithoutRow
  BY DEF Init, NothingWithoutRow, Absent
<1>. QED  BY <1>1, <1>2 DEF Ends, RowsRight, HeldRight, SupersededIsOld, Loading

-----------------------------------------------------------------------------
(* Handlers and time                                                       *)

(* The camera's end is the same before and after.                          *)
SameEnds == \A c \in Cameras : client'[c] = "purged" <=> client[c] = "purged"

(* A row keeps its camera and generation, a pending one stays pending.     *)
StaysPending ==
    /\ DOMAIN ops \subseteq DOMAIN ops'
    /\ \A i \in DOMAIN ops : /\ ops'[i].cam = ops[i].cam /\ ops'[i].gen = ops[i].gen
                             /\ ops[i].state = "pending" => ops'[i].state = "pending"

(* No row settles unless it may.                                           *)
RowsFollow ==
    \A j \in DOMAIN ops' : \/ RowRight(j)'
                           \/ /\ j \in DOMAIN ops
                              /\ ops'[j].cam = ops[j].cam /\ ops'[j].gen = ops[j].gen
                              /\ Settled(j)' => Settled(j)

LEMMA FollowingKeeps ==
    ASSUME Typing, RowsRight, NothingWithoutRow, RowsFollow, SameEnds, UNCHANGED <<desired, media>>
    PROVE  RowsRight' /\ NothingWithoutRow'
<1>1. ASSUME NEW j \in DOMAIN ops', j \in DOMAIN ops, ops'[j].cam = ops[j].cam,
             ops'[j].gen = ops[j].gen, Settled(j)' => Settled(j)
      PROVE  RowRight(j)'
  BY <1>1, OpNumbers DEF RowsRight, RowRight, SameEnds, ServedAsWanted, Wanted
<1>2. RowsRight'
  BY <1>1 DEF RowsFollow, RowsRight
<1>. QED  BY <1>2 DEF NothingWithoutRow

LEMMA SameKeeps ==
    ASSUME Typing, Ends, SameEnds, RowsFollow, StaysPending, DOMAIN ops' = DOMAIN ops,
           UNCHANGED <<desired, media, worker>>
    PROVE  Ends'
<1>1. RowsRight' /\ NothingWithoutRow'
  BY FollowingKeeps DEF Ends
<1>2. HeldRight'
  <2>. SUFFICES ASSUME worker.pc \in Loading, NEW c \in Cameras, c = ops'[worker.job].cam
                PROVE  HeldFor(c)'
    BY DEF HeldRight
  <2>1. worker.job \in DOMAIN ops
    BY JobTyped DEF Loading, Claimed
  <2>2. HeldFor(c)
    BY <2>1 DEF Ends, HeldRight, StaysPending
  <2>. QED  BY <2>1, <2>2 DEF HeldFor, SameEnds, StaysPending, OpsOf
<1>3. SupersededIsOld'
  <2>. SUFFICES ASSUME worker.pc = "superseded", NEW c \in Cameras, c = ops'[worker.job].cam,
                       client'[c] # "purged"
                PROVE  ops'[worker.job].gen < desired[c].gen
    BY DEF SupersededIsOld
  <2>1. worker.job \in DOMAIN ops
    BY JobTyped DEF Claimed
  <2>. QED  BY <2>1 DEF Ends, SupersededIsOld, SameEnds, StaysPending
<1>. QED  BY <1>1, <1>2, <1>3 DEF Ends

(* Of a new generation there is one operation, still to be claimed.        *)
LEMMA QueueKeeps ==
    ASSUME BoundsAssumption, Typing, Ends, NEW c \in Cameras, NEW row \in CameraRow,
           NEW present \in BOOLEAN, QueueCameraChange(c, row, present),
           SameEnds, UNCHANGED <<media, worker>>
    PROVE  Ends'
<1>. DEFINE gen == desired[c].gen + 1
            new == NewOperation(c, gen, HandlerStamp)
<1>1. gen \in Nat /\ HandlerStamp \in Nat /\ gen > 0
  BY TypingOps, RowNumbers, LenProperties DEF OpsOK, HandlerStamp
<1>2. new \in OpRow /\ new.attempt = 0 /\ new.state = "pending" /\ new.cam = c /\ new.gen = gen
  BY <1>1, NewOperationTyped DEF NewOperation
<1>3. ops' = Append(ops, new)
  BY DEF QueueCameraChange
<1>. HIDE DEF new
<1>4. /\ DOMAIN ops \subseteq DOMAIN ops'
      /\ \A j \in DOMAIN ops : ops'[j] = ops[j]
      /\ \A j \in DOMAIN ops' : j \in DOMAIN ops \/ ops'[j] = new
  BY <1>2, <1>3, TypingOps, InsertKeepsOps
<1>5. desired'[c].gen = gen /\ \A d \in Cameras \ {c} : desired'[d] = desired[d]
  BY QueueMoves
<1>. HIDE DEF gen
<1>6. \A i \in DOMAIN ops : client[c] # "purged" /\ ops[i].cam = c => ops[i].gen < gen
  BY OpNumbers, RowNumbers DEF Ends, RowsRight, RowRight, gen
<1>7. RowsRight'
  <2>1. ASSUME NEW j \in DOMAIN ops PROVE RowRight(j)'
    <3>1. ops[j].cam \in Cameras /\ ops[j].gen \in Nat /\ RowRight(j)
      BY OpNumbers DEF Ends, RowsRight
    <3>2. CASE ops[j].cam = c
      BY <1>1, <1>4, <1>5, <1>6, <3>1, <3>2 DEF RowRight, SameEnds
    <3>3. CASE ops[j].cam # c
      BY <1>4, <1>5, <3>1, <3>3 DEF RowRight, SameEnds, Settled, ServedAsWanted, Wanted
    <3>. QED  BY <3>2, <3>3
  <2>2. ASSUME NEW j \in DOMAIN ops', ops'[j] = new PROVE RowRight(j)'
    BY <1>1, <1>2, <1>5, <2>2 DEF RowRight, Settled
  <2>. QED  BY <1>4, <2>1, <2>2 DEF RowsRight
<1>8. NothingWithoutRow'
  BY <1>1, <1>5 DEF Ends, NothingWithoutRow
<1>9. HeldRight'
  <2>. SUFFICES ASSUME worker.pc \in Loading, NEW d \in Cameras, d = ops'[worker.job].cam
                PROVE  HeldFor(d)'
    BY DEF HeldRight
  <2>1. worker.job \in DOMAIN ops
    BY JobTyped DEF Loading, Claimed
  <2>2. HeldFor(d) /\ ops'[worker.job] = ops[worker.job]
    BY <1>4, <2>1 DEF Ends, HeldRight
  <2>3. CASE d = c
    BY <1>2, <1>4, <1>5, <1>6, <2>2, <2>3, OpNumbers, RowNumbers DEF HeldFor, SameEnds, OpsOf
  <2>4. CASE d # c
    BY <1>2, <1>4, <1>5, <2>2, <2>4 DEF HeldFor, SameEnds, OpsOf
  <2>. QED  BY <2>3, <2>4
<1>10. SupersededIsOld'
  <2>. SUFFICES ASSUME worker.pc = "superseded", NEW d \in Cameras, d = ops'[worker.job].cam,
                       client'[d] # "purged"
                PROVE  ops'[worker.job].gen < desired'[d].gen
    BY DEF SupersededIsOld
  <2>1. worker.job \in DOMAIN ops
    BY JobTyped DEF Claimed
  <2>2. ops[worker.job].gen < desired[d].gen /\ ops'[worker.job] = ops[worker.job]
    BY <1>4, <2>1 DEF Ends, SupersededIsOld, SameEnds
  <2>3. ops[worker.job].gen \in Nat /\ desired[d].gen \in Nat /\ desired'[d].gen >= desired[d].gen
    BY <1>5, <2>1, OpNumbers, RowNumbers DEF gen
  <2>. QED  BY <1>1, <1>5, <2>2, <2>3
<1>. QED  BY <1>7, <1>8, <1>9, <1>10 DEF Ends

LEMMA RemoveKeeps ==
    ASSUME BoundsAssumption, Typing, Ends, NEW c \in Cameras, NEW row \in CameraRow,
           RemoveMedia(c, row), SameEnds, UNCHANGED <<media, worker>>
    PROVE  Ends'
<1>1. CASE Shown(c)
  BY <1>1, QueueKeeps DEF RemoveMedia, Typing, TypeOK
<1>2. CASE ~Shown(c)
  BY <1>2, SameKeeps DEF RemoveMedia, RowsFollow, StaysPending, Settled
<1>. QED  BY <1>1, <1>2

(* What the guard of a deletion means: MediaMTX serves nothing, and what   *)
(* is still being applied asks for nothing.                                *)
LEMMA PurgeFindsNothing ==
    ASSUME Typing, CamerasAgree, Right, Ends, NEW c \in Cameras, PurgeClient(c)
    PROVE  /\ client[c] = "revoked"
           /\ \A p \in Profiles : media[c][p] = "none"
           /\ worker.pc \in Loading /\ c = ops[worker.job].cam => ~worker.loaded.present
<1>1. client[c] = "revoked" /\ PurgeAllowed(c)
  BY DEF PurgeClient
<1>2. CASE camera[c].exists
  <2>1. PICK i \in OpsOf(c) : ops[i].gen = desired[c].gen /\ Settled(i)
    BY <1>1, <1>2 DEF PurgeAllowed, RemovalConfirmed, RemovalMatches
  <2>2. ~desired[c].present /\ ServedAsWanted(c)
    BY <1>1, <1>2, <2>1 DEF PurgeAllowed, Ends, RowsRight, RowRight, OpsOf
  <2>3. \A p \in Profiles : media[c][p] = "none"
    BY <2>2 DEF ServedAsWanted, Wanted, Required
  <2>4. ASSUME worker.pc \in Loading, c = ops[worker.job].cam PROVE ~worker.loaded.present
    <3>1. HeldFor(c) /\ WasDesired(worker.loaded, c)
      BY <2>4 DEF Ends, HeldRight, Right, LoadedRight, LoadedFor
    <3>2. ~(worker.loaded.gen < desired[c].gen)
      BY <1>1, <2>1, <3>1 DEF HeldFor, Settled
    <3>. QED  BY <1>1, <2>2, <3>1, <3>2, RowNumbers DEF WasDesired
  <2>. QED  BY <1>1, <2>3, <2>4
<1>3. CASE ~camera[c].exists
  <2>1. desired[c].gen = 0
    BY <1>3 DEF CamerasAgree, RowsTogether, NoDesired
  <2>2. ASSUME worker.pc \in Loading, c = ops[worker.job].cam PROVE FALSE
    BY <1>1, <2>1, <2>2, RowNumbers
       DEF Ends, HeldRight, HeldFor, Right, LoadedRight, LoadedFor, WasDesired
  <2>. QED  BY <1>1, <2>1, <2>2 DEF Ends, NothingWithoutRow
<1>. QED  BY <1>2, <1>3

LEMMA PurgeKeeps ==
    ASSUME Typing, CamerasAgree, Right, Ends, NEW c \in Cameras, PurgeClient(c)
    PROVE  Ends'
<1>1. /\ client[c] = "revoked" /\ \A p \in Profiles : media[c][p] = "none"
      /\ worker.pc \in Loading /\ c = ops[worker.job].cam => ~worker.loaded.present
  BY PurgeFindsNothing
<1>2. client \in [Cameras -> ClientStates] /\ desired \in [Cameras -> DesiredRow]
  BY DEF Typing, TypeOK
<1>3. /\ client'[c] = "purged"
      /\ \A d \in Cameras \ {c} : client'[d] = client[d] /\ desired'[d] = desired[d]
      /\ UNCHANGED <<ops, media, worker>>
  BY <1>2 DEF PurgeClient
<1>4. RowsRight'
  <2>. SUFFICES ASSUME NEW j \in DOMAIN ops PROVE RowRight(j)'
    BY <1>3 DEF RowsRight
  <2>1. ops[j].cam \in Cameras /\ RowRight(j)
    BY OpNumbers DEF Ends, RowsRight
  <2>. QED  BY <1>3, <2>1 DEF RowRight, Settled, ServedAsWanted, Wanted
<1>5. NothingWithoutRow'
  BY <1>1, <1>3 DEF Ends, NothingWithoutRow
<1>6. HeldRight'
  <2>. SUFFICES ASSUME worker.pc \in Loading, NEW d \in Cameras, d = ops[worker.job].cam
                PROVE  HeldFor(d)'
    BY <1>3 DEF HeldRight
  <2>1. HeldFor(d)
    BY DEF Ends, HeldRight
  <2>2. CASE d = c
    BY <1>1, <1>3, <2>1, <2>2 DEF HeldFor
  <2>3. CASE d # c
    BY <1>3, <2>1, <2>3 DEF HeldFor, OpsOf
  <2>. QED  BY <2>2, <2>3
<1>7. SupersededIsOld'
  BY <1>3 DEF Ends, SupersededIsOld
<1>. QED  BY <1>4, <1>5, <1>6, <1>7 DEF Ends

(* An administrator settles only what is so.                               *)
LEMMA ResolveKeeps ==
    ASSUME Truthful = TRUE, Typing, Ends, NEW i \in DOMAIN ops, NEW resolution \in Resolutions,
           ResolveOperation(i, resolution)
    PROVE  Ends'
<1>. DEFINE confirmed == (resolution = "confirmed_succeeded")
            settled == [ops[i] EXCEPT !.state = "resolved", !.confirmed = confirmed]
            dead    == [ops[i] EXCEPT !.state = "dead_letter", !.live = FALSE]
<1>1. UNCHANGED <<client, desired, media, worker>>
  BY DEF ResolveOperation
<1>2. /\ settled.cam = ops[i].cam /\ settled.gen = ops[i].gen /\ settled.state = "resolved"
      /\ settled.confirmed = confirmed
      /\ dead.cam = ops[i].cam /\ dead.gen = ops[i].gen /\ dead.state = "dead_letter"
  BY RowTyped DEF OpRow
<1>3. /\ ops[i].state # "pending"
      /\ \/ ops' = [ops EXCEPT ![i] = dead]
         \/ /\ ops' = [ops EXCEPT ![i] = settled]
            /\ confirmed => (ops[i].gen = desired[ops[i].cam].gen => ServedAsWanted(ops[i].cam))
  BY DEF ResolveOperation, SetState
<1>. HIDE DEF settled, dead, confirmed
<1>4. PICK op \in {settled, dead} :
        /\ \A j \in DOMAIN ops : ops'[j] = IF j = i THEN op ELSE ops[j]
        /\ DOMAIN ops' = DOMAIN ops
        /\ op = settled => (confirmed => (ops[i].gen = desired[ops[i].cam].gen
                                            => ServedAsWanted(ops[i].cam)))
  <2>1. CASE ops' = [ops EXCEPT ![i] = dead]
    <3>1. dead # settled
      BY <1>2
    <3>. QED  BY <2>1, <3>1, TypingOps, LenProperties DEF OpsOK
  <2>2. CASE ~(ops' = [ops EXCEPT ![i] = dead])
    BY <1>3, <2>2, TypingOps, LenProperties DEF OpsOK
  <2>. QED  BY <2>1, <2>2
<1>5. RowsFollow
  <2>1. RowRight(i)'
    <3>1. RowRight(i) /\ ops[i].cam \in Cameras
      BY OpNumbers DEF Ends, RowsRight
    <3>. QED  BY <1>1, <1>2, <1>4, <3>1 DEF RowRight, Settled, ServedAsWanted, Wanted
  <2>2. \A j \in DOMAIN ops : j # i => ops'[j] = ops[j]
    BY <1>4
  <2>. QED  BY <1>4, <2>1, <2>2 DEF RowsFollow, Settled
<1>6. StaysPending
  BY <1>2, <1>3, <1>4 DEF StaysPending
<1>7. SameEnds
  BY <1>1 DEF SameEnds
<1>. QED  BY <1>1, <1>4, <1>5, <1>6, <1>7, SameKeeps

LEMMA HandlersKeepEnds ==
    ASSUME BoundsAssumption, ReportsAssumption, Truthful = TRUE, Typing, CamerasAgree, Right,
           Ends, HandlerStep
    PROVE  Ends'
<1>1. client \in [Cameras -> ClientStates] /\ camera \in [Cameras -> CameraRow]
  BY DEF Typing, TypeOK
<1>2. ASSUME UNCHANGED ops PROVE RowsFollow /\ StaysPending
  BY <1>2 DEF RowsFollow, StaysPending, Settled
<1>3. ASSUME NEW c \in Cameras, PairClient(c) PROVE Ends'
  <2>1. SameEnds /\ UNCHANGED <<desired, media, worker, ops>>
    BY <1>1, <1>3 DEF PairClient, SameEnds, ClientStates
  <2>. QED  BY <1>2, <2>1, SameKeeps
<1>4. ASSUME NEW c \in Cameras, RotateAuthorization(c) \/ RevokeClient(c) \/ ReportNothing(c)
      PROVE  Ends'
  <2>1. \E row \in CameraRow : RemoveMedia(c, row)
    BY <1>1, <1>4 DEF RotateAuthorization, RevokeClient, ReportNothing, CameraRow
  <2>2. SameEnds /\ UNCHANGED <<media, worker>>
    BY <1>1, <1>4 DEF RotateAuthorization, RevokeClient, ReportNothing, SameEnds, ClientStates
  <2>. QED  BY <2>1, <2>2, RemoveKeeps
<1>5. ASSUME NEW c \in Cameras, NEW r \in Reports, ReportCamera(c, r) PROVE Ends'
  <2>. DEFINE row == [exists |-> TRUE, enabled |-> r.enabled, sub |-> r.sub,
                      record |-> r.record, deleted |-> FALSE]
  <2>1. row \in CameraRow /\ row.enabled \in BOOLEAN
    BY DEF ReportsAssumption, Report, CameraRow
  <2>2. /\ QueueCameraChange(c, row, row.enabled) \/ UNCHANGED <<desired, ops>>
        /\ SameEnds /\ UNCHANGED <<media, worker>>
    BY <1>5 DEF ReportCamera, SameEnds
  <2>. HIDE DEF row
  <2>3. CASE QueueCameraChange(c, row, row.enabled)
    BY <2>1, <2>2, <2>3, QueueKeeps
  <2>4. CASE UNCHANGED <<desired, ops>>
    BY <1>2, <2>2, <2>4, SameKeeps
  <2>. QED  BY <2>2, <2>3, <2>4
<1>. QED  BY <1>3, <1>4, <1>5, PurgeKeeps, ResolveKeeps DEF HandlerStep

LEMMA TimeKeepsEnds ==
    ASSUME Typing, Ends, TimePasses
    PROVE  Ends'
<1>1. UNCHANGED <<client, desired, media, worker>>
  BY DEF TimePasses, LeaseExpires, OperationLeaseExpires, BackoffElapses
<1>2. /\ DOMAIN ops' = DOMAIN ops
      /\ \A j \in DOMAIN ops :
           /\ ops'[j].cam = ops[j].cam /\ ops'[j].gen = ops[j].gen
           /\ ops'[j].state = ops[j].state /\ ops'[j].confirmed = ops[j].confirmed
  <2>1. ASSUME NEW i \in DOMAIN ops, OperationLeaseExpires(i) \/ BackoffElapses(i)
        PROVE  /\ DOMAIN ops' = DOMAIN ops
               /\ \A j \in DOMAIN ops :
                    /\ ops'[j].cam = ops[j].cam /\ ops'[j].gen = ops[j].gen
                    /\ ops'[j].state = ops[j].state /\ ops'[j].confirmed = ops[j].confirmed
    <3>. DEFINE expired == [ops[i] EXCEPT !.live = FALSE]
                due     == [ops[i] EXCEPT !.wait = FALSE]
    <3>1. \A op \in {expired, due} :
            /\ op.cam = ops[i].cam /\ op.gen = ops[i].gen
            /\ op.state = ops[i].state /\ op.confirmed = ops[i].confirmed
      BY RowTyped DEF OpRow
    <3>2. ops' = [ops EXCEPT ![i] = expired] \/ ops' = [ops EXCEPT ![i] = due]
      BY <2>1 DEF OperationLeaseExpires, BackoffElapses
    <3>. HIDE DEF expired, due
    <3>3. PICK op \in {expired, due} : ops' = [ops EXCEPT ![i] = op]
      BY <3>2
    <3>4. DOMAIN ops' = DOMAIN ops /\ \A j \in DOMAIN ops : ops'[j] = IF j = i THEN op ELSE ops[j]
      BY <3>3, TypingOps, LenProperties DEF OpsOK
    <3>. QED  BY <3>1, <3>3, <3>4
  <2>. QED  BY <2>1 DEF TimePasses, LeaseExpires
<1>3. RowsFollow /\ StaysPending
  BY <1>2 DEF RowsFollow, StaysPending, Settled
<1>. QED  BY <1>1, <1>2, <1>3, SameKeeps DEF SameEnds

-----------------------------------------------------------------------------
(* The worker                                                              *)

(* No row settles at all.                                                  *)
NoneSettles ==
    \A j \in DOMAIN ops' : /\ j \in DOMAIN ops
                           /\ ops'[j].cam = ops[j].cam /\ ops'[j].gen = ops[j].gen
                           /\ Settled(j)' => Settled(j)

LEMMA UnchangedFollows ==
    ASSUME UNCHANGED ops PROVE NoneSettles /\ RowsFollow
BY DEF NoneSettles, RowsFollow, Settled

LEMMA UpdateFollows ==
    ASSUME Typing, NEW i \in DOMAIN ops, NEW op, ops' = [ops EXCEPT ![i] = op],
           op.cam = ops[i].cam, op.gen = ops[i].gen,
           op.state \notin {"succeeded", "resolved"} \/ RowRight(i)'
    PROVE  RowsFollow
<1>1. DOMAIN ops' = DOMAIN ops /\ \A j \in DOMAIN ops : ops'[j] = IF j = i THEN op ELSE ops[j]
  BY TypingOps, LenProperties DEF OpsOK
<1>. QED  BY <1>1 DEF RowsFollow, Settled

(* Running operations that become unknown settle nothing.                  *)
LEMMA LosingFollows ==
    ASSUME Typing, DOMAIN ops' = DOMAIN ops,
           \A i \in DOMAIN ops :
               \/ ops'[i] = ops[i]
               \/ ops'[i] = [ops[i] EXCEPT !.state = "unknown"]
               \/ ops'[i] = [ops[i] EXCEPT !.state = "unknown", !.live = FALSE]
    PROVE  NoneSettles /\ RowsFollow
<1>1. \A i \in DOMAIN ops : ops[i] \in OpRow
  BY RowTyped
<1>2. ASSUME NEW i \in DOMAIN ops, ops'[i] # ops[i]
      PROVE  /\ ops'[i].cam = ops[i].cam /\ ops'[i].gen = ops[i].gen
             /\ ops'[i].state = "unknown"
  BY <1>1, <1>2 DEF OpRow
<1>. QED  BY <1>2 DEF NoneSettles, RowsFollow, Settled

LEMMA FinishFollows ==
    ASSUME BoundsAssumption, Typing, CamerasAgree, Right, Ends,
           FinishSuperseded \/ FinishSuccess \/ FinishFailure \/ AbandonClaim
    PROVE  RowsFollow
<1>1. worker.pc \in Claimed /\ UNCHANGED <<client, desired, media>>
  BY DEF FinishSuperseded, FinishSuccess, FinishFailure, AbandonClaim, At, Claimed, OnlyStore
<1>2. /\ worker.job \in DOMAIN ops /\ ops[worker.job] \in OpRow
      /\ ops[worker.job].attempt <= MaxAttempts
  BY <1>1, JobTyped
<1>. DEFINE job    == worker.job
            done   == [ops[job] EXCEPT !.state = "succeeded", !.live = FALSE]
            lost   == [ops[job] EXCEPT !.state = "unknown", !.live = FALSE]
            failed == FailedOp(ops[job])
<1>3. /\ done.cam = ops[job].cam /\ done.gen = ops[job].gen
      /\ lost.cam = ops[job].cam /\ lost.gen = ops[job].gen /\ lost.state = "unknown"
  BY <1>2 DEF OpRow
<1>4. /\ failed.cam = ops[job].cam /\ failed.gen = ops[job].gen
      /\ failed.state \notin {"succeeded", "resolved"}
  BY <1>2 DEF FailedOp, OpRow
<1>. HIDE DEF done, lost, failed
<1>5. ASSUME FinishFailure \/ AbandonClaim PROVE RowsFollow
  <2>1. UNCHANGED ops \/ ops' = [ops EXCEPT ![job] = lost] \/ ops' = [ops EXCEPT ![job] = failed]
    BY <1>5 DEF FinishFailure, AbandonClaim, SetState, lost, failed
  <2>. QED  BY <1>2, <1>3, <1>4, <2>1, UpdateFollows, UnchangedFollows
<1>6. ASSUME ops' = [ops EXCEPT ![job] = done],
             client[ops[job].cam] # "purged" /\ ops[job].gen = desired[ops[job].cam].gen
                 => ServedAsWanted(ops[job].cam)
      PROVE  RowsFollow
  <2>1. ops'[job] = done
    BY <1>2, <1>6
  <2>2. RowRight(job) /\ ops[job].cam \in Cameras
    BY <1>2, OpNumbers DEF Ends, RowsRight
  <2>3. PICK i \in DOMAIN ops : i = job
    BY <1>2
  <2>4. RowRight(i)'
    BY <1>1, <1>3, <1>6, <2>1, <2>2, <2>3 DEF RowRight, ServedAsWanted, Wanted
  <2>. QED  BY <1>3, <1>6, <2>3, <2>4, UpdateFollows
<1>7. ASSUME FinishSuperseded PROVE RowsFollow
  <2>1. UNCHANGED ops \/ ops' = [ops EXCEPT ![job] = done]
    BY <1>7 DEF FinishSuperseded, SetState, done
  <2>2. client[ops[job].cam] # "purged" => ops[job].gen < desired[ops[job].cam].gen
    BY <1>2, <1>7, OpNumbers DEF FinishSuperseded, At, Ends, SupersededIsOld
  <2>3. ops[job].gen \in Nat /\ desired[ops[job].cam].gen \in Nat
    BY <1>2, OpNumbers, RowNumbers
  <2>. QED  BY <1>6, <2>1, <2>2, <2>3, UnchangedFollows
<1>8. ASSUME FinishSuccess PROVE RowsFollow
  <2>1. UNCHANGED ops \/ ops' = [ops EXCEPT ![job] = done]
    BY <1>8 DEF FinishSuccess, SetState, done
  <2>2. PICK c \in Cameras : c = ops[job].cam
    BY <1>2, OpNumbers
  <2>3. LoadedFor(c) /\ HeldFor(c) /\ worker.pc = "finish"
    BY <1>8, <2>2 DEF FinishSuccess, At, Right, LoadedRight, Ends, HeldRight, Loading
  <2>4. ASSUME client[c] # "purged", ops[job].gen = desired[c].gen PROVE ServedAsWanted(c)
    <3>1. worker.loaded = desired[c]
      BY <2>3, <2>4 DEF LoadedFor, HeldFor, WasDesired
    <3>. QED  BY <2>3, <3>1 DEF LoadedFor, ServedAsWanted, Wanted, Profiles
  <2>. QED  BY <1>6, <2>1, <2>2, <2>4, UnchangedFollows
<1>. QED  BY <1>5, <1>7, <1>8

(* A repair carries a generation that was listed before.                   *)
LEMMA DriftFollows ==
    ASSUME BoundsAssumption, Typing, Right, DriftEnqueue
    PROVE  RowsFollow
<1>. DEFINE c   == worker.cam
            gen == worker.listed[c].gen
            new == NewOperation(c, gen, DriftStamp(worker.stamp))
<1>1. c \in Cameras /\ gen \in Nat /\ DriftStamp(worker.stamp) \in Nat
  <2>1. worker.cam \in Cameras /\ worker.stamp \in Nat
    BY TypingParts DEF WorkerRow
  <2>. QED  BY <2>1, RowNumbers DEF DriftStamp
<1>2. new \in OpRow /\ new.attempt = 0 /\ new.state = "pending" /\ new.cam = c /\ new.gen = gen
  BY <1>1, NewOperationTyped DEF NewOperation
<1>3. client[c] # "purged" => gen <= desired[c].gen
  BY <1>1 DEF DriftEnqueue, At, Right, SeenRight, Listing, WasDesired
<1>4. UNCHANGED <<client, desired, media>> /\ (UNCHANGED ops \/ ops' = Append(ops, new))
  BY DEF DriftEnqueue, OnlyStore
<1>. HIDE DEF new, gen, c
<1>5. ASSUME ops' = Append(ops, new) PROVE RowsFollow
  <2>1. /\ \A j \in DOMAIN ops : ops'[j] = ops[j]
        /\ \A j \in DOMAIN ops' : j \in DOMAIN ops \/ ops'[j] = new
    BY <1>2, <1>5, TypingOps, InsertKeepsOps
  <2>2. PICK d \in Cameras : d = c
    BY <1>1
  <2>3. ASSUME NEW j \in DOMAIN ops', ops'[j] = new PROVE RowRight(j)'
    <3>1. ops'[j].cam = d /\ ops'[j].gen = gen /\ ops'[j].state = "pending"
      BY <1>2, <2>2, <2>3
    <3>2. client'[d] # "purged" => gen <= desired'[d].gen
      BY <1>3, <1>4, <2>2
    <3>. QED  BY <3>1, <3>2 DEF RowRight, Settled
  <2>. QED  BY <2>1, <2>3 DEF RowsFollow, Settled
<1>. QED  BY <1>4, <1>5, UnchangedFollows

(* A step of the worker that ends with no row held, MediaMTX untouched.    *)
LEMMA RestEnds ==
    ASSUME Typing, Ends, RowsFollow, UNCHANGED <<client, desired, media>>,
           worker'.pc \notin Loading \cup {"superseded"}
    PROVE  Ends'
<1>1. RowsRight' /\ NothingWithoutRow'
  BY FollowingKeeps DEF Ends, SameEnds
<1>. QED  BY <1>1 DEF Ends, HeldRight, SupersededIsOld

LEMMA RestingKeepsEnds ==
    ASSUME CamerasAssumption, BoundsAssumption, Typing, CamerasAgree, Right, Ends,
           \/ RecoverExpired \/ AcquireLease \/ RenewLease \/ ClaimNext \/ ReleaseLease
           \/ RereadClaim \/ RenewClaimed \/ CallRejected \/ FinishSuperseded
           \/ FinishFailure \/ AbandonClaim \/ DatabaseError
    PROVE  Ends'
<1>1. UNCHANGED <<client, desired, media>> /\ worker'.pc \notin Loading \cup {"superseded"}
  BY WorkerRests DEF Tables, Holding
<1>2. CASE RecoverExpired
  BY <1>2, LosingFollows, <1>1, RestEnds DEF RecoverExpired
<1>3. CASE ClaimNext
  <2>1. ASSUME NEW i \in DOMAIN ops,
               ops' = [ops EXCEPT ![i] = [@ EXCEPT !.state = "running", !.live = TRUE,
                                                   !.attempt = ops[i].attempt + 1]]
        PROVE  RowsFollow
    <3>. DEFINE op == [ops[i] EXCEPT !.state = "running", !.live = TRUE,
                                     !.attempt = ops[i].attempt + 1]
    <3>1. op.cam = ops[i].cam /\ op.gen = ops[i].gen /\ op.state = "running"
      BY RowTyped DEF OpRow
    <3>2. ops' = [ops EXCEPT ![i] = op]
      BY <2>1
    <3>. HIDE DEF op
    <3>. QED  BY <3>1, <3>2, UpdateFollows
  <2>2. RowsFollow
    BY <1>3, <2>1, UnchangedFollows DEF ClaimNext
  <2>. QED  BY <1>1, <2>2, RestEnds
<1>4. CASE FinishSuperseded \/ FinishFailure \/ AbandonClaim
  BY <1>1, <1>4, FinishFollows, RestEnds
<1>5. CASE UNCHANGED ops
  BY <1>1, <1>5, UnchangedFollows, RestEnds
<1>. QED
  BY <1>2, <1>3, <1>4, <1>5 DEF AcquireLease, RenewLease, ReleaseLease, RereadClaim,
     RenewClaimed, CallRejected, DatabaseError, OnlyWorker

LEMMA FinishKeepsEnds ==
    ASSUME CamerasAssumption, BoundsAssumption, Typing, CamerasAgree, Right, Ends, FinishSuccess
    PROVE  Ends'
<1>1. RoundDone \/ Goto("abandon")
  BY DEF FinishSuccess
<1>2. worker'.pc = "release" \/ worker'.pc = "abandon"
  BY <1>1, FreshTyped, GotoTyped DEF RoundDone, WorkerStates
<1>3. UNCHANGED <<client, desired, media>>
  BY DEF FinishSuccess
<1>. QED  BY <1>2, <1>3, FinishFollows, RestEnds DEF Loading

LEMMA ObservationKeepsEnds ==
    ASSUME CamerasAssumption, BoundsAssumption, Typing, CamerasAgree, Right, Ends,
           \/ FetchInventory \/ ListDesired \/ ObserveCamera \/ ObservePaths
           \/ DriftCheck \/ DriftEnqueue
    PROVE  Ends'
<1>1. worker \in WorkerRow /\ worker.todo \subseteq Cameras /\ Len(ops) \in Nat
  BY TypingParts, TypingOps, LenProperties DEF WorkerRow, OpsOK
<1>2. UNCHANGED <<client, desired, media>>
  BY DEF FetchInventory, ListDesired, ObserveCamera, ObservePaths, DriftCheck, DriftEnqueue,
         OnlyWorker, OnlyStore
<1>3. RowsFollow
  <2>1. CASE UNCHANGED ops
    BY <2>1, UnchangedFollows
  <2>2. CASE DriftEnqueue
    BY <2>2, DriftFollows
  <2>. QED
    BY <2>1, <2>2 DEF FetchInventory, ListDesired, ObserveCamera, ObservePaths, DriftCheck, OnlyWorker
<1>4. worker'.pc \notin Loading \cup {"superseded"}
  <2>1. CASE FetchInventory
    <3>1. worker' = [worker EXCEPT !.pc = "list", !.seen = media] \/ Goto("release")
      BY <2>1 DEF FetchInventory
    <3>2. worker'.pc = "list" \/ worker'.pc = "release"
      BY <1>1, <3>1, GotoTyped DEF WorkerRow, WorkerStates
    <3>. QED  BY <3>2 DEF Loading
  <2>2. CASE ListDesired
    <3>. DEFINE rows == {c \in Cameras : desired[c].gen > 0}
    <3>1. worker' = Observed \/ worker' = [worker EXCEPT !.pc = "observeCamera",
                                                         !.listed = desired, !.todo = rows]
      BY <2>2 DEF ListDesired
    <3>. HIDE DEF rows
    <3>2. worker'.pc = "renew" \/ worker'.pc = "observeCamera"
      BY <1>1, <3>1, ObservedTyped DEF WorkerRow
    <3>. QED  BY <3>2 DEF Loading
  <2>3. CASE ObserveCamera \/ ObservePaths \/ DriftCheck \/ DriftEnqueue
    <3>1. GoesOn
      <4>1. CASE ObserveCamera
        BY <1>1, <4>1, PlacesGoOn DEF ObserveCamera
      <4>2. CASE ObservePaths
        <5>1. \/ Goto("observeSub") \/ worker' = NextCamera \/ Forget("release")
              \/ worker' = [worker EXCEPT !.pc = "driftCheck", !.stamp = Len(ops)]
          BY <4>2 DEF ObservePaths, ObservePath, Goto
        <5>. QED  BY <1>1, <5>1, PlacesGoOn DEF Listing
      <4>3. CASE DriftCheck \/ DriftEnqueue
        <5>1. worker' = NextCamera \/ Goto("driftEnqueue") \/ Forget("release")
          BY <4>3 DEF DriftCheck, DriftEnqueue, Goto
        <5>. QED  BY <5>1, PlacesGoOn DEF Listing
      <4>. QED  BY <2>3, <4>1, <4>2, <4>3
    <3>. QED  BY <3>1 DEF GoesOn, Holding, Listing, Loading
  <2>. QED  BY <2>1, <2>2, <2>3
<1>. QED  BY <1>2, <1>3, <1>4, RestEnds

(* A call touches a camera none of whose current operations is settled, or *)
(* sets a path to what is wanted; a deleted camera's path stays absent.    *)
LEMMA EffectKeepsEnds ==
    ASSUME Typing, CamerasAgree, Right, Ends, Calling, TakesEffect, UNCHANGED Tables,
           NoneSettles
    PROVE  RowsRight' /\ NothingWithoutRow'
<1>1. /\ worker.pc \in Loading /\ worker.pc \in Profiles /\ worker.job \in DOMAIN ops
      /\ CallTarget \in Cameras /\ CallTarget = ops[worker.job].cam
  BY JobTyped DEF Calling, Loading, Claimed, Profiles, CallTarget
<1>2. LoadedFor(CallTarget) /\ HeldFor(CallTarget)
  BY <1>1 DEF Right, LoadedRight, Ends, HeldRight
<1>3. /\ media'[CallTarget][worker.pc] = CallConfig
      /\ \A p \in Profiles \ {worker.pc} : media'[CallTarget][p] = media[CallTarget][p]
  BY EffectKeeps
<1>4. \A d \in Cameras \ {CallTarget} : media'[d] = media[d]
  <2>1. media \in [Cameras -> [Profiles -> Config]]
    BY TypingParts
  <2>. QED  BY <2>1 DEF TakesEffect
<1>5. UNCHANGED <<client, desired>>
  BY DEF Tables
<1>6. PICK c \in Cameras : c = CallTarget
  BY <1>1
<1>7. worker.loaded.gen > 0 /\ worker.loaded.gen \in Nat /\ desired[c].gen \in Nat
  BY <1>2, <1>6, RowNumbers DEF HeldFor
<1>8. ASSUME NEW j \in DOMAIN ops' PROVE RowRight(j)'
  <2>. /\ j \in DOMAIN ops /\ ops'[j].cam = ops[j].cam /\ ops'[j].gen = ops[j].gen
       /\ Settled(j)' => Settled(j)
    BY DEF NoneSettles
  <2>1. RowRight(j) /\ ops[j].cam \in Cameras /\ ops[j].gen \in Nat
    BY OpNumbers DEF Ends, RowsRight
  <2>2. CASE ops[j].cam # c
    BY <1>4, <1>5, <1>6, <2>1, <2>2 DEF RowRight, ServedAsWanted, Wanted
  <2>3. CASE ops[j].cam = c /\ client[c] # "purged" /\ ops[j].gen = desired[c].gen /\ Settled(j)
    <3>1. ~(worker.loaded.gen < desired[c].gen)
      BY <1>2, <1>6, <2>3 DEF HeldFor, OpsOf, Settled
    <3>2. worker.loaded = desired[c]
      BY <1>2, <1>6, <1>7, <2>3, <3>1 DEF LoadedFor, WasDesired
    <3>3. ServedAsWanted(c)
      BY <2>1, <2>3 DEF RowRight
    <3>4. ServedAsWanted(c)'
      BY <1>1, <1>3, <1>5, <1>6, <3>2, <3>3 DEF ServedAsWanted, Wanted, CallConfig
    <3>. QED  BY <1>5, <2>1, <2>3, <3>4 DEF RowRight
  <2>4. CASE ops[j].cam = c /\ ~(client[c] # "purged" /\ ops[j].gen = desired[c].gen /\ Settled(j))
    BY <1>5, <2>1, <2>4 DEF RowRight
  <2>. QED  BY <2>2, <2>3, <2>4
<1>9. RowsRight'
  BY <1>8 DEF RowsRight
<1>10. NothingWithoutRow'
  <2>. SUFFICES ASSUME NEW d \in Cameras, desired[d].gen = 0, NEW p \in Profiles
                PROVE  media'[d][p] = "none"
    BY <1>5 DEF NothingWithoutRow
  <2>1. media[d][p] = "none"
    BY DEF Ends, NothingWithoutRow
  <2>2. CASE d = c
    <3>1. ~worker.loaded.present
      BY <1>2, <1>6, <1>7, <2>2 DEF LoadedFor, HeldFor, WasDesired
    <3>2. CallConfig = "none"
      BY <1>1, <3>1 DEF CallConfig, Required
    <3>. QED  BY <1>3, <1>6, <2>1, <2>2, <3>2
  <2>3. CASE d # c
    BY <1>4, <1>6, <2>1, <2>3
  <2>. QED  BY <2>2, <2>3
<1>. QED  BY <1>9, <1>10

LEMMA CallsKeepEnds ==
    ASSUME Typing, CamerasAgree, Right, Ends, CallSucceeds \/ CallUnanswered
    PROVE  Ends'
<1>1. Calling /\ UNCHANGED Tables /\ UNCHANGED ops
  BY DEF CallSucceeds, CallUnanswered, Tables
<1>2. worker \in WorkerRow /\ worker.pc \in Loading
  BY <1>1, TypingParts DEF Calling, Loading, Profiles
<1>3. TakesEffect \/ UNCHANGED media
  BY DEF CallSucceeds, CallUnanswered, MaybeExecuted
<1>4. RowsRight' /\ NothingWithoutRow'
  <2>1. CASE TakesEffect
    BY <1>1, <2>1, UnchangedFollows, EffectKeepsEnds
  <2>2. CASE UNCHANGED media
    BY <1>1, <2>2, UnchangedFollows, FollowingKeeps DEF Ends, SameEnds, Tables
  <2>. QED  BY <1>3, <2>1, <2>2
<1>5. CASE CallSucceeds
  <2>1. \/ worker' = [worker EXCEPT !.pc = "sub"]
        \/ worker' = [worker EXCEPT !.pc = "finish"]
    BY <1>5 DEF CallSucceeds, Goto
  <2>2. /\ worker'.pc \in {"sub", "finish"}
        /\ worker'.loaded = worker.loaded /\ worker'.job = worker.job
    BY <1>2, <2>1 DEF WorkerRow
  <2>3. HeldRight'
    BY <1>1, <1>2, <2>2 DEF Ends, HeldRight, HeldFor, OpsOf, Tables
  <2>. QED  BY <1>4, <2>2, <2>3 DEF Ends, SupersededIsOld
<1>6. CASE CallUnanswered
  <2>1. worker' = [worker EXCEPT !.pc = "fail", !.failure = "unknown"]
    BY <1>6 DEF CallUnanswered
  <2>2. worker'.pc = "fail"
    BY <1>2, <2>1 DEF WorkerRow
  <2>. QED  BY <1>4, <2>2 DEF Ends, HeldRight, SupersededIsOld, Loading
<1>. QED  BY <1>5, <1>6

(* The row loaded is the current one, and the operation is for it.         *)
LEMMA LoadingKeepsEnds ==
    ASSUME Typing, CamerasAgree, Right, Ends, LoadDesired \/ LoadCamera
    PROVE  Ends'
<1>1. /\ UNCHANGED <<client, desired, media, ops>>
      /\ worker.pc \in Claimed
  BY DEF LoadDesired, LoadCamera, OnlyWorker, At, Claimed
<1>2. /\ worker \in WorkerRow /\ worker.job \in DOMAIN ops
      /\ ops[worker.job].cam \in Cameras /\ ops[worker.job].gen \in Nat
  BY <1>1, JobTyped, TypingParts, OpNumbers
<1>3. RowsRight' /\ NothingWithoutRow'
  BY <1>1, UnchangedFollows, FollowingKeeps DEF Ends, SameEnds
<1>4. PICK c \in Cameras : c = ops[worker.job].cam
  BY <1>2
<1>5. desired[c].gen > 0 => client[c] # "purged"
  BY NotPurged DEF Right
<1>6. ASSUME LoadDesired, desired[c].gen # 0, desired[c].gen = ops[worker.job].gen,
             worker' = [worker EXCEPT !.pc = "camera", !.loaded = desired[c]]
      PROVE  Ends'
  <2>1. worker'.pc = "camera" /\ worker'.loaded = desired[c] /\ worker'.job = worker.job
    BY <1>2, <1>6 DEF WorkerRow
  <2>2. desired[c].gen > 0
    BY <1>6, RowNumbers
  <2>3. HeldFor(c)'
    BY <1>1, <1>5, <1>6, <2>1, <2>2, RowNumbers DEF HeldFor
  <2>. QED  BY <1>1, <1>3, <1>4, <2>1, <2>3 DEF Ends, HeldRight, SupersededIsOld
<1>7. ASSUME LoadDesired, desired[c].gen # ops[worker.job].gen, Goto("superseded") PROVE Ends'
  <2>1. worker'.pc = "superseded" /\ worker'.job = worker.job
    BY <1>7, GotoTyped DEF WorkerStates
  <2>2. client[c] # "purged" => ops[worker.job].gen <= desired[c].gen
    BY <1>2, <1>4 DEF Ends, RowsRight, RowRight
  <2>3. client[c] # "purged" => ops[worker.job].gen < desired[c].gen
    BY <1>2, <1>7, <2>2, RowNumbers
  <2>. QED  BY <1>1, <1>3, <1>4, <2>1, <2>3 DEF Ends, HeldRight, SupersededIsOld, Loading
<1>8. ASSUME LoadCamera, Goto("main") PROVE Ends'
  <2>1. worker'.pc = "main" /\ worker.pc = "camera"
        /\ worker'.loaded = worker.loaded /\ worker'.job = worker.job
    BY <1>2, <1>8 DEF LoadCamera, At, Goto, WorkerRow
  <2>2. HeldRight'
    BY <1>1, <2>1 DEF Ends, HeldRight, HeldFor, OpsOf, Loading
  <2>. QED  BY <1>3, <2>1, <2>2 DEF Ends, SupersededIsOld
<1>9. ASSUME Goto("abandon") PROVE Ends'
  <2>1. worker'.pc = "abandon"
    BY <1>9, GotoTyped DEF WorkerStates
  <2>. QED  BY <1>3, <2>1 DEF Ends, HeldRight, SupersededIsOld, Loading
<1>. QED  BY <1>4, <1>6, <1>7, <1>8, <1>9 DEF LoadDesired, LoadCamera

(* A crash may leave a call behind that took effect.                       *)
LEMMA CrashKeepsEnds ==
    ASSUME CamerasAssumption, Typing, CamerasAgree, Right, Ends, CrashAndRestart
    PROVE  Ends'
<1>1. UNCHANGED Tables /\ worker'.pc = "idle"
  BY IdleTyped DEF CrashAndRestart, Tables
<1>2. NoneSettles /\ RowsFollow
  BY LosingFollows DEF CrashAndRestart
<1>3. UNCHANGED media \/ (Calling /\ TakesEffect)
  BY DEF CrashAndRestart, MaybeExecuted
<1>4. RowsRight' /\ NothingWithoutRow'
  <2>1. CASE Calling /\ TakesEffect
    BY <1>1, <1>2, <2>1, EffectKeepsEnds
  <2>2. CASE UNCHANGED media
    BY <1>1, <1>2, <2>2, FollowingKeeps DEF Ends, SameEnds, Tables
  <2>. QED  BY <1>3, <2>1, <2>2
<1>. QED  BY <1>1, <1>4 DEF Ends, HeldRight, SupersededIsOld, Loading

LEMMA EndsStep ==
    ASSUME CamerasAssumption, BoundsAssumption, ReportsAssumption,
           "drift" \notin Faults, Truthful = TRUE,
           Typing, CamerasAgree, Right, Ends, [Next]_vars
    PROVE  Ends'
<1>1. CASE HandlerStep
  BY <1>1, HandlersKeepEnds
<1>2. CASE WorkerStep
  <2>1. CASE CallSucceeds \/ CallUnanswered
    BY <2>1, CallsKeepEnds
  <2>2. CASE FinishSuccess
    BY <2>2, FinishKeepsEnds
  <2>3. CASE LoadDesired \/ LoadCamera
    BY <2>3, LoadingKeepsEnds
  <2>4. CASE \/ FetchInventory \/ ListDesired \/ ObserveCamera \/ ObservePaths
             \/ DriftCheck \/ DriftEnqueue
    BY <2>4, ObservationKeepsEnds
  <2>5. CASE \/ RecoverExpired \/ AcquireLease \/ RenewLease \/ ClaimNext \/ ReleaseLease
             \/ RereadClaim \/ RenewClaimed \/ CallRejected \/ FinishSuperseded
             \/ FinishFailure \/ AbandonClaim \/ DatabaseError
    BY <2>5, RestingKeepsEnds
  <2>. QED  BY <1>2, <2>1, <2>2, <2>3, <2>4, <2>5 DEF WorkerStep
<1>3. CASE CrashAndRestart
  BY <1>3, CrashKeepsEnds
<1>4. CASE TimePasses
  BY <1>4, TimeKeepsEnds
<1>5. CASE MediaDrifts \/ LateRequestExecutes
  BY <1>5 DEF MediaDrifts, LateRequestExecutes, Fault, Right, NothingLate
<1>6. CASE UNCHANGED vars
  BY <1>6, UnchangedFollows, SameKeeps DEF vars, SameEnds, StaysPending
<1>. QED  BY <1>1, <1>2, <1>3, <1>4, <1>5, <1>6 DEF Next, Environment

-----------------------------------------------------------------------------
(* Every step is a step of MediaLifecycle, or leaves what it sees alone.   *)

LEMMA PhaseOf ==
    ASSUME Typing, NEW c \in Cameras
    PROVE  /\ Phase[c] \in {"open", "revoked", "deleted"}
           /\ Phase[c] = "revoked" <=> client[c] = "revoked"
           /\ Phase[c] = "deleted" <=> client[c] = "purged"
BY DEF Phase

LEMMA SamePhase ==
    ASSUME UNCHANGED client PROVE UNCHANGED Phase
BY DEF Phase

LEMMA SameServed ==
    ASSUME UNCHANGED media PROVE UNCHANGED Served
BY DEF Served

LEMMA HandlersMap ==
    ASSUME Typing, CamerasAgree, Right, Ends, HandlerStep
    PROVE  Lifecycle!LifecycleNext \/ UNCHANGED <<Phase, Served>>
<1>1. client \in [Cameras -> ClientStates]
  BY DEF Typing, TypeOK
<1>2. UNCHANGED Served
  BY SameServed DEF HandlerStep, PairClient, RotateAuthorization, RevokeClient, PurgeClient,
     ReportNothing, ReportCamera, ResolveOperation
<1>3. ASSUME NEW c \in Cameras, PairClient(c) \/ RotateAuthorization(c)
      PROVE  UNCHANGED Phase
  <2>1. /\ client[c] \notin {"revoked", "purged"} /\ client'[c] \notin {"revoked", "purged"}
        /\ \A d \in Cameras \ {c} : client'[d] = client[d]
    BY <1>1, <1>3 DEF PairClient, RotateAuthorization
  <2>. QED  BY <2>1 DEF Phase
<1>4. ASSUME NEW c \in Cameras, RevokeClient(c) PROVE Lifecycle!Revoke(c)
  <2>1. client[c] \in {"unpaired", "paired"} /\ client' = [client EXCEPT ![c] = "revoked"]
    BY <1>4 DEF RevokeClient
  <2>2. Phase[c] = "open" /\ Phase' = [Phase EXCEPT ![c] = "revoked"]
    BY <1>1, <2>1 DEF Phase
  <2>. QED  BY <1>2, <2>2 DEF Lifecycle!Revoke
<1>5. ASSUME NEW c \in Cameras, PurgeClient(c) PROVE Lifecycle!Delete(c)
  <2>1. client[c] = "revoked" /\ client' = [client EXCEPT ![c] = "purged"]
    BY <1>5 DEF PurgeClient
  <2>2. Phase[c] = "revoked" /\ Phase' = [Phase EXCEPT ![c] = "deleted"]
    BY <1>1, <2>1 DEF Phase
  <2>3. Served[c] = {}
    BY <1>5, PurgeFindsNothing DEF Served
  <2>. QED  BY <1>2, <2>2, <2>3 DEF Lifecycle!Delete
<1>6. ASSUME \/ \E c \in Cameras : ReportNothing(c) \/ \E r \in Reports : ReportCamera(c, r)
             \/ \E i \in DOMAIN ops, resolution \in Resolutions : ResolveOperation(i, resolution)
      PROVE  UNCHANGED Phase
  BY <1>6, SamePhase DEF ReportNothing, ReportCamera, ResolveOperation
<1>. QED  BY <1>2, <1>3, <1>4, <1>5, <1>6 DEF HandlerStep, Lifecycle!LifecycleNext

(* Nothing is configured for a deleted camera: what is still applied for   *)
(* it removes paths it does not have.                                      *)
LEMMA EffectMaps ==
    ASSUME Typing, CamerasAgree, Right, Ends, Calling, TakesEffect, UNCHANGED Tables
    PROVE  Lifecycle!LifecycleNext \/ UNCHANGED <<Phase, Served>>
<1>1. /\ worker.pc \in Loading /\ worker.pc \in Profiles
      /\ CallTarget \in Cameras /\ CallTarget = ops[worker.job].cam
  BY JobTyped DEF Calling, Loading, Claimed, Profiles, CallTarget
<1>2. UNCHANGED Phase
  BY SamePhase DEF Tables
<1>3. PICK c \in Cameras : c = CallTarget
  BY <1>1
<1>4. \A d \in Cameras \ {c} : media'[d] = media[d]
  <2>1. media \in [Cameras -> [Profiles -> Config]]
    BY TypingParts
  <2>. QED  BY <1>3, <2>1 DEF TakesEffect
<1>5. CASE client[c] = "purged"
  <2>1. desired[c].gen = 0
    BY <1>5 DEF CamerasAgree, RowsTogether, Right, PurgedIsGone, NoDesired
  <2>2. CallConfig = "none"
    <3>1. ~worker.loaded.present
      BY <1>1, <1>3, <1>5 DEF Ends, HeldRight, HeldFor
    <3>. QED  BY <1>1, <3>1 DEF CallConfig, Required
  <2>3. \A p \in Profiles : media[c][p] = "none" /\ media'[c][p] = "none"
    BY <1>1, <1>3, <2>1, <2>2, EffectKeeps DEF Ends, NothingWithoutRow
  <2>. QED  BY <1>2, <1>4, <2>3 DEF Served
<1>6. CASE client[c] # "purged"
  <2>. DEFINE paths == {p \in Profiles : media'[c][p] # "none"}
  <2>1. Phase[c] # "deleted"
    BY <1>6, PhaseOf
  <2>2. Served' = [Served EXCEPT ![c] = paths]
    BY <1>4 DEF Served
  <2>3. paths \in SUBSET Profiles
    OBVIOUS
  <2>. HIDE DEF paths
  <2>4. Lifecycle!Configure(c)
    BY <1>2, <2>1, <2>2, <2>3 DEF Lifecycle!Configure
  <2>. QED  BY <2>4 DEF Lifecycle!LifecycleNext
<1>. QED  BY <1>5, <1>6

LEMMA StepMaps ==
    ASSUME "drift" \notin Faults, Typing, CamerasAgree, Right, Ends, [Next]_vars
    PROVE  Lifecycle!LifecycleNext \/ UNCHANGED <<Phase, Served>>
<1>1. CASE HandlerStep
  BY <1>1, HandlersMap
<1>2. CASE UNCHANGED <<client, media>>
  BY <1>2, SamePhase, SameServed
<1>3. CASE CallSucceeds \/ CallUnanswered \/ CrashAndRestart
  <2>1. UNCHANGED Tables
    BY <1>3 DEF CallSucceeds, CallUnanswered, CrashAndRestart, Tables
  <2>2. UNCHANGED media \/ (Calling /\ TakesEffect)
    BY <1>3 DEF CallSucceeds, CallUnanswered, CrashAndRestart, MaybeExecuted
  <2>. QED  BY <1>2, <2>1, <2>2, EffectMaps DEF Tables
<1>4. CASE WorkerStep /\ ~CallSucceeds /\ ~CallUnanswered
  BY <1>2, <1>4
     DEF WorkerStep, RecoverExpired, AcquireLease, RenewLease, ClaimNext, ReleaseLease,
         RereadClaim, RenewClaimed, LoadDesired, LoadCamera, CallRejected, FinishSuperseded,
         FinishSuccess, FinishFailure, AbandonClaim, FetchInventory, ListDesired,
         ObserveCamera, ObservePaths, DriftCheck, DriftEnqueue, DatabaseError, OnlyStore, OnlyWorker
<1>5. CASE TimePasses
  BY <1>2, <1>5 DEF TimePasses, LeaseExpires, OperationLeaseExpires, BackoffElapses
<1>6. CASE MediaDrifts \/ LateRequestExecutes
  BY <1>6 DEF MediaDrifts, LateRequestExecutes, Fault, Right, NothingLate
<1>7. CASE UNCHANGED vars
  BY <1>2, <1>7 DEF vars
<1>. QED  BY <1>1, <1>3, <1>4, <1>5, <1>6, <1>7 DEF Next, WorkerStep, Environment

(* A client is deleted only after it was revoked and in a moment when      *)
(* MediaMTX serves none of its paths, and none comes back, however         *)
(* purge_revoked_client_in interleaves with the worker's calls, crashes    *)
(* and repairs: as long as MediaMTX changes only by what the server asks   *)
(* of it while it waits, and an administrator confirms only what is so.    *)
THEOREM ImplementsLifecycle ==
    ASSUME "drift" \notin Faults, "late" \notin Faults, Truthful = TRUE
    PROVE  Spec => DeletedOnlyWhenGone
<1>. DEFINE Inv == Typing /\ CamerasAgree /\ Right /\ Ends
<1>1. Init => Inv
  BY TypingInit, AgreeInit, RightInit, EndsInit, CamerasAssumption, BoundsAssumption
<1>2. Inv /\ [Next]_vars => Inv'
  BY TypingStep, AgreeStep, RightStep, EndsStep,
     CamerasAssumption, BoundsAssumption, ReportsAssumption
<1>3. Init => Lifecycle!LifecycleInit
  BY DEF Init, Lifecycle!LifecycleInit, Phase, Served, Absent
<1>4. Inv /\ [Next]_vars => [Lifecycle!LifecycleNext]_<<Phase, Served>>
  BY StepMaps
<1>. QED
  BY <1>1, <1>2, <1>3, <1>4, PTL DEF Spec, DeletedOnlyWhenGone, Lifecycle!LifecycleSpec

=============================================================================
