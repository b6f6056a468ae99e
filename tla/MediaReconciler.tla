--------------------------- MODULE MediaReconciler ---------------------------
(***************************************************************************)
(* The media control loop of xcos: the administrator and client handlers   *)
(* that commit what MediaMTX should serve (cameras, media_desired_states)  *)
(* together with a durable operation, and the one reconcile worker of the  *)
(* process that claims operations, calls MediaMTX outside any transaction, *)
(* records what it applied or observed (media_actual_paths) and schedules  *)
(* repairs.  One action is one SQLite transaction, one autocommit          *)
(* statement or one call to MediaMTX, so handlers interleave with the      *)
(* worker exactly where the program lets them.                             *)
(*                                                                         *)
(* A camera's id is its client's id and a client reports at most one       *)
(* camera, so Cameras indexes both tables.  generation = 0 stands for "no  *)
(* desired row" (the schema requires generation > 0).  The columns of      *)
(* cameras that record what was observed (status, observation_expires_at)  *)
(* and device commands do not influence this loop and are left out.        *)
(***************************************************************************)
EXTENDS Integers, Sequences, FiniteSets

CONSTANTS
    Cameras,          \* camera (= client) identities
    Reports,          \* what a client may report of its camera
    MaxGeneration,    \* bound: desired generations per camera
    MaxOperations,    \* history capacity: operations the store admits
    MaxAttempts,      \* max_attempts of an operation (8 in the code)
    Faults,           \* the kinds of failure that may happen
    MaxFaults,        \* bound: failures in one behaviour
    Truthful          \* does the administrator confirm only what is so?

Report   == [enabled : BOOLEAN, sub : BOOLEAN, record : BOOLEAN]
FaultKinds == {"drift", "late", "crash", "stall", "reject", "timeout", "database"}

ASSUME ReportsAssumption == Reports \subseteq Report
ASSUME BoundsAssumption  == /\ MaxGeneration \in Nat
                            /\ MaxOperations \in Nat
                            /\ MaxAttempts \in Nat \ {0}
                            /\ MaxFaults \in Nat
ASSUME FaultsAssumption  == Faults \subseteq FaultKinds
ASSUME CamerasAssumption == Cameras # {}
ASSUME TruthAssumption   == Truthful \in BOOLEAN

VARIABLES
    client,    \* xcocs: has the client been paired, revoked, deleted?
    camera,    \* cameras: the row the last snapshot left
    desired,   \* media_desired_states
    actual,    \* media_actual_paths
    ops,       \* _common_operations, in insertion order
    lease,     \* media_reconciler_leases, the singleton row
    media,     \* the path configurations MediaMTX really has
    late,      \* requests given up on that MediaMTX may still execute
    worker,    \* the reconcile task: program counter and locals
    faults     \* failures so far

database == <<client, camera, desired, actual, ops, lease>>
vars     == <<client, camera, desired, actual, ops, lease, media, late, worker, faults>>

-----------------------------------------------------------------------------
(* Rows                                                                    *)

Profiles == {"main", "sub"}
Config   == {"none", "plain", "record"}       \* absent, or present with record off or on

ClientStates == {"unpaired", "paired", "revoked", "purged"}
OpStates     == {"pending", "running", "succeeded", "failed", "unknown",
                 "dead_letter", "resolved"}

CameraRow  == [exists : BOOLEAN, enabled : BOOLEAN, sub : BOOLEAN,
               record : BOOLEAN, deleted : BOOLEAN]
NoCamera   == [exists |-> FALSE, enabled |-> FALSE, sub |-> FALSE,
               record |-> FALSE, deleted |-> FALSE]

DesiredRow == [gen : Nat, present : BOOLEAN, sub : BOOLEAN, record : BOOLEAN]
NoDesired  == [gen |-> 0, present |-> FALSE, sub |-> FALSE, record |-> FALSE]

ActualRow  == [present : BOOLEAN, applied : Nat]      \* applied = 0: NULL
NoActual   == [p \in Profiles |-> [present |-> FALSE, applied |-> 0]]

(* live: the operation lease has not expired; wait: not_before is still    *)
(* ahead; created: only the order of the creation times matters.           *)
OpRow == [cam : Cameras, gen : Nat, created : Nat, state : OpStates, attempt : Nat,
          live : BOOLEAN, wait : BOOLEAN, confirmed : BOOLEAN]

NewOperation(c, gen, created) ==
    [cam |-> c, gen |-> gen, created |-> created, state |-> "pending", attempt |-> 0,
     live |-> FALSE, wait |-> FALSE, confirmed |-> FALSE]

(* The configuration a desired row asks for on a path.                     *)
Required(d, p) ==
    CASE ~d.present              -> "none"
      [] d.present /\ p = "main" -> IF d.record THEN "record" ELSE "plain"
      [] d.present /\ p = "sub"  -> IF d.sub THEN "plain" ELSE "none"

Wanted(c, p) == Required(desired[c], p)

-----------------------------------------------------------------------------
(* The operation store                                                     *)

OpsOf(c)     == {i \in DOMAIN ops : ops[i].cam = c}
Latest(i)    == \A j \in OpsOf(ops[i].cam) : ops[j].created <= ops[i].created
Active(i)    == ops[i].state \in {"running", "unknown"}

(* A handler's operation is stamped and inserted under the write lock, so  *)
(* it is newer than every row; a drift operation carries the time taken    *)
(* before the worker looked at the store.                                  *)
HandlerStamp  == 2 * (Len(ops) + 1)
DriftStamp(n) == 2 * n + 1

HistoryRoom == Len(ops) < MaxOperations

SetState(i, state) == [ops EXCEPT ![i] = [@ EXCEPT !.state = state, !.live = FALSE]]

(* Slip: the active-target check is forgotten.                             *)
ClaimableUnguarded(i) == ops[i].state = "pending" /\ ~ops[i].wait

(* Slip: an active operation of any camera blocks the claim.               *)
ClaimableAlone(i) ==
    /\ ops[i].state = "pending"
    /\ ~ops[i].wait
    /\ \A j \in DOMAIN ops : ~Active(j)

(* Pending, due, and the only active operation of its target.              *)
Claimable(i) ==
    /\ ops[i].state = "pending"
    /\ ~ops[i].wait
    /\ \A j \in OpsOf(ops[i].cam) : ~Active(j)

-----------------------------------------------------------------------------
(* Handlers: each is one transaction                                       *)

(* The new desired row and its operation.                                  *)
QueueCameraChange(c, row, present) ==
    LET gen == desired[c].gen + 1 IN
    /\ gen <= MaxGeneration
    /\ HistoryRoom
    /\ desired' = [desired EXCEPT ![c] = [gen |-> gen, present |-> present,
                                          sub |-> row.sub, record |-> row.record]]
    /\ ops' = Append(ops, NewOperation(c, gen, HandlerStamp))

(* What the client's camera row is, for a handler that removes its media.  *)
Shown(c) == camera[c].exists /\ ~camera[c].deleted

RemoveMedia(c, row) ==
    IF Shown(c)
    THEN /\ camera' = [camera EXCEPT ![c] = row]
         /\ QueueCameraChange(c, camera[c], FALSE)
    ELSE UNCHANGED <<camera, desired, ops>>

PairClient(c) ==
    /\ client[c] = "unpaired"
    /\ client' = [client EXCEPT ![c] = "paired"]
    /\ UNCHANGED <<camera, desired, actual, ops, lease, media, late, worker, faults>>

(* Slip: the rotation forgets the client's camera.                         *)
RotateOnlyClient(c) ==
    /\ client[c] \in {"unpaired", "paired"}
    /\ client' = [client EXCEPT ![c] = "unpaired"]
    /\ UNCHANGED <<camera, desired, ops, actual, lease, media, late, worker, faults>>

RotateAuthorization(c) ==
    /\ client[c] \in {"unpaired", "paired"}
    /\ client' = [client EXCEPT ![c] = "unpaired"]
    /\ RemoveMedia(c, [camera[c] EXCEPT !.enabled = FALSE])
    /\ UNCHANGED <<actual, lease, media, late, worker, faults>>

RevokeClient(c) ==
    /\ client[c] \in {"unpaired", "paired"}
    /\ client' = [client EXCEPT ![c] = "revoked"]
    /\ RemoveMedia(c, [camera[c] EXCEPT !.enabled = FALSE, !.deleted = TRUE])
    /\ UNCHANGED <<actual, lease, media, late, worker, faults>>

(* Slip: the recording column is not compared.                             *)
MediaChangedPaths(row, r) == ~row.exists \/ row.enabled # r.enabled \/ row.sub # r.sub

MediaChanged(row, r) ==
    ~row.exists \/ row.enabled # r.enabled \/ row.sub # r.sub \/ row.record # r.record

(* A snapshot with one camera: the row is upserted (a tombstone revives)   *)
(* and media is queued when it is new or its media columns changed.        *)
ReportCamera(c, r) ==
    LET row == [exists |-> TRUE, enabled |-> r.enabled, sub |-> r.sub,
                record |-> r.record, deleted |-> FALSE]
    IN
    /\ client[c] = "paired"
    /\ camera' = [camera EXCEPT ![c] = row]
    /\ IF MediaChanged(camera[c], r)
       THEN QueueCameraChange(c, row, row.enabled)
       ELSE UNCHANGED <<desired, ops>>
    /\ UNCHANGED <<client, actual, lease, media, late, worker, faults>>

(* A snapshot without cameras removes the one the client had.              *)
ReportNothing(c) ==
    /\ client[c] = "paired"
    /\ RemoveMedia(c, [camera[c] EXCEPT !.enabled = FALSE, !.deleted = TRUE])
    /\ UNCHANGED <<client, actual, lease, media, late, worker, faults>>

RemovalMatches(i, c) == ops[i].gen = desired[c].gen

(* Slip: the removal need only be the newest operation, not a finished one. *)
RemovalQueued(c) == \E i \in OpsOf(c) : Latest(i) /\ RemovalMatches(i, c)

Settled(i) == ops[i].state = "succeeded" \/ (ops[i].state = "resolved" /\ ops[i].confirmed)

RemovalConfirmed(c) == \E i \in OpsOf(c) : Latest(i) /\ RemovalMatches(i, c) /\ Settled(i)

PurgeAllowed(c) ==
    camera[c].exists =>
        /\ desired[c].gen > 0 /\ ~desired[c].present
        /\ RemovalConfirmed(c)
        /\ \A p \in Profiles : ~actual[c][p].present

(* The second delete of a revoked client; its operations stay.             *)
PurgeClient(c) ==
    /\ client[c] = "revoked"
    /\ PurgeAllowed(c)
    /\ client'  = [client  EXCEPT ![c] = "purged"]
    /\ camera'  = [camera  EXCEPT ![c] = NoCamera]
    /\ desired' = [desired EXCEPT ![c] = NoDesired]
    /\ actual'  = [actual  EXCEPT ![c] = NoActual]
    /\ UNCHANGED <<ops, lease, media, late, worker, faults>>

ServedAsWanted(c) == \A p \in Profiles : media[c][p] = Wanted(c, p)

(* An administrator settles an operation the program cannot settle, after  *)
(* looking at MediaMTX; nothing checks what is confirmed, so Truthful says *)
(* whether it can be wrong.                                                *)
ResolveOperation(i, resolution) ==
    /\ \/ /\ resolution \in {"confirmed_succeeded", "confirmed_failed"}
          /\ Truthful /\ resolution = "confirmed_succeeded"
                => (ops[i].gen = desired[ops[i].cam].gen => ServedAsWanted(ops[i].cam))
          /\ ops[i].state \in {"unknown", "failed", "dead_letter"}
          /\ ops' = [ops EXCEPT ![i] = [@ EXCEPT
                        !.state = "resolved",
                        !.confirmed = (resolution = "confirmed_succeeded")]]
       \/ /\ resolution = "unable_to_confirm"
          /\ ops[i].state = "unknown"
          /\ ops' = SetState(i, "dead_letter")
    /\ UNCHANGED <<client, camera, desired, actual, lease, media, late, worker, faults>>

Resolutions == {"confirmed_succeeded", "confirmed_failed", "unable_to_confirm"}

HandlerStep ==
    \/ \E c \in Cameras : \/ PairClient(c) \/ RotateAuthorization(c) \/ RevokeClient(c)
                          \/ PurgeClient(c) \/ ReportNothing(c)
                          \/ \E r \in Reports : ReportCamera(c, r)
    \/ \E i \in DOMAIN ops, resolution \in Resolutions : ResolveOperation(i, resolution)

-----------------------------------------------------------------------------
(* The worker: reconcile_available runs rounds of reconcile_once           *)

WorkerStates == {"idle", "acquire", "renew", "claim", "reread", "renewClaimed", "load",
                 "camera", "main", "sub", "finish", "fail", "superseded", "abandon",
                 "fetch", "list", "observeCamera", "observeMain", "observeSub",
                 "driftCheck", "driftEnqueue", "release"}

(* observed: the round has already looked for drift; job: the claimed      *)
(* operation; loaded: the desired row read for it; failure: how its call   *)
(* ended; seen, listed: the inventory and the desired rows of an           *)
(* observation, todo and cam its cameras left and current, stamp: the      *)
(* store's length when the drift operation's time was taken; again: the    *)
(* round did work, so another follows.                                     *)
WorkerRow == [pc : WorkerStates, observed : BOOLEAN, job : Nat, loaded : DesiredRow,
              failure : {"", "rejected", "unknown"},
              seen : [Cameras -> [Profiles -> Config]], listed : [Cameras -> DesiredRow],
              todo : SUBSET Cameras, cam : Cameras, stamp : Nat, again : BOOLEAN]

Absent     == [p \in Profiles |-> "none"]
IdleWorker == [pc |-> "idle", observed |-> FALSE, job |-> 0, loaded |-> NoDesired,
               failure |-> "", seen |-> [c \in Cameras |-> Absent],
               listed |-> [c \in Cameras |-> NoDesired], todo |-> {},
               cam |-> CHOOSE c \in Cameras : TRUE, stamp |-> 0, again |-> FALSE]

At(pc)   == worker.pc = pc
Goto(pc) == worker' = [worker EXCEPT !.pc = pc]

(* An observation's inventory is of no further use.                        *)
Forget(pc) == worker' = [IdleWorker EXCEPT !.pc = pc, !.observed = worker.observed]

HoldsLease == lease.owner = "worker" /\ lease.live

Fault(kind) == kind \in Faults /\ faults < MaxFaults /\ faults' = faults + 1

OnlyWorker == UNCHANGED <<client, camera, desired, actual, ops, lease, media, late, faults>>
OnlyStore  == UNCHANGED <<client, camera, desired, actual, lease, media, late, faults>>

(* Slip: expired claims are recovered only when the process starts.        *)
RecoverNothing == At("idle") /\ Goto("acquire") /\ UNCHANGED ops /\ OnlyStore

(* Start of a cycle: running operations whose lease expired are unknown.   *)
RecoverExpired ==
    /\ At("idle")
    /\ ops' = [i \in DOMAIN ops |->
                 IF ops[i].state = "running" /\ ~ops[i].live
                 THEN [ops[i] EXCEPT !.state = "unknown"] ELSE ops[i]]
    /\ Goto("acquire")
    /\ OnlyStore

AcquireLease ==
    /\ At("acquire")
    /\ IF lease.owner # "none" /\ lease.live
       THEN /\ worker' = IdleWorker
            /\ UNCHANGED lease
       ELSE /\ lease' = [owner |-> "worker", live |-> TRUE]
            /\ Goto("renew")
    /\ UNCHANGED <<client, camera, desired, actual, ops, media, late, faults>>

RenewLease ==
    /\ At("renew")
    /\ Goto(IF HoldsLease THEN "claim" ELSE "release")
    /\ OnlyWorker

(* Claiming needs the global lease; with nothing to claim the round looks  *)
(* for drift once and then ends.                                           *)
ClaimNext ==
    /\ At("claim")
    /\ IF ~HoldsLease
       THEN /\ Goto("release")
            /\ UNCHANGED ops
       ELSE \/ \E i \in DOMAIN ops :
                 /\ Claimable(i)
                 /\ ops' = [ops EXCEPT ![i] = [@ EXCEPT !.state = "running", !.live = TRUE,
                                                        !.attempt = ops[i].attempt + 1]]
                 /\ worker' = [worker EXCEPT !.pc = "reread", !.job = i]
            \/ /\ \A i \in DOMAIN ops : ~Claimable(i)
               /\ Goto(IF worker.observed THEN "release" ELSE "fetch")
               /\ UNCHANGED ops
    /\ OnlyStore

ClaimValid == ops[worker.job].state = "running" /\ ops[worker.job].live

(* The claim is read back, then the global lease is renewed and the        *)
(* operation's own lease checked.                                          *)
RereadClaim ==
    /\ At("reread")
    /\ Goto(IF ops[worker.job].state = "running" THEN "renewClaimed" ELSE "release")
    /\ OnlyWorker

RenewClaimed ==
    /\ At("renewClaimed")
    /\ Goto(IF HoldsLease /\ ClaimValid THEN "load" ELSE "abandon")
    /\ OnlyWorker

LoadDesired ==
    LET d == desired[ops[worker.job].cam] IN
    /\ At("load")
    /\ IF d.gen = 0 THEN Goto("abandon")
       ELSE IF d.gen # ops[worker.job].gen THEN Goto("superseded")
       ELSE worker' = [worker EXCEPT !.pc = "camera", !.loaded = d]
    /\ OnlyWorker

LoadCamera ==
    /\ At("camera")
    /\ Goto(IF camera[ops[worker.job].cam].exists THEN "main" ELSE "abandon")
    /\ OnlyWorker

(* One call makes one path what the loaded row asks for: a lookup and an   *)
(* update, or a deletion.                                                  *)
CallTarget    == ops[worker.job].cam
CallConfig    == Required(worker.loaded, worker.pc)
Calling       == worker.pc \in Profiles
TakesEffect   == media' = [media EXCEPT ![CallTarget][worker.pc] = CallConfig]

CallSucceeds ==
    /\ Calling
    /\ TakesEffect
    /\ Goto(IF At("main") THEN "sub" ELSE "finish")
    /\ UNCHANGED <<client, camera, desired, actual, ops, lease, late, faults>>

(* MediaMTX answered with an error status.                                 *)
CallRejected ==
    /\ Calling
    /\ Fault("reject")
    /\ worker' = [worker EXCEPT !.pc = "fail", !.failure = "rejected"]
    /\ UNCHANGED <<client, camera, desired, actual, ops, lease, media, late>>

(* A request without an answer was lost, executed, or will be.             *)
MaybeExecuted ==
    \/ UNCHANGED <<media, late>>
    \/ TakesEffect /\ UNCHANGED late
    \/ /\ "late" \in Faults
       /\ late' = [late EXCEPT ![CallTarget] = @ \cup {<<worker.pc, CallConfig>>}]
       /\ UNCHANGED media

CallUnanswered ==
    /\ Calling
    /\ Fault("timeout")
    /\ MaybeExecuted
    /\ worker' = [worker EXCEPT !.pc = "fail", !.failure = "unknown"]
    /\ UNCHANGED <<client, camera, desired, actual, ops, lease>>

(* Only the holder of both unexpired leases finalizes; a finish that fails *)
(* rolls back and leaves the claim to be abandoned.                        *)
CanFinalize == HoldsLease /\ ClaimValid
RoundDone   == worker' = [IdleWorker EXCEPT !.pc = "release", !.again = TRUE]

FinishSuperseded ==
    /\ At("superseded")
    /\ IF CanFinalize
       THEN ops' = SetState(worker.job, "succeeded") /\ RoundDone
       ELSE UNCHANGED ops /\ Goto("abandon")
    /\ OnlyStore

AppliedRows(d) == [p \in Profiles |-> [present |-> Required(d, p) # "none", applied |-> d.gen]]

(* Slip: what was applied is recorded under the generation that is current *)
(* by then.                                                                *)
FinishAsCurrent ==
    LET c == ops[worker.job].cam IN
    /\ At("finish")
    /\ IF CanFinalize /\ desired[c].gen > 0
       THEN /\ ops' = SetState(worker.job, "succeeded")
            /\ actual' = [actual EXCEPT ![c] = AppliedRows(desired[c])]
            /\ RoundDone
       ELSE UNCHANGED <<ops, actual>> /\ Goto("abandon")
    /\ UNCHANGED <<client, camera, desired, lease, media, late, faults>>

FinishSuccess ==
    LET c == ops[worker.job].cam IN
    /\ At("finish")
    /\ IF CanFinalize /\ desired[c].gen > 0
       THEN /\ ops' = SetState(worker.job, "succeeded")
            /\ IF desired[c].gen = worker.loaded.gen
               THEN actual' = [actual EXCEPT ![c] = AppliedRows(worker.loaded)]
               ELSE UNCHANGED actual
            /\ RoundDone
       ELSE UNCHANGED <<ops, actual>> /\ Goto("abandon")
    /\ UNCHANGED <<client, camera, desired, lease, media, late, faults>>

(* Slip: the last attempt is not counted.                                  *)
FailedOpOnceMore(op) ==
    IF worker.failure = "unknown" THEN [op EXCEPT !.state = "unknown", !.live = FALSE]
    ELSE IF op.attempt <= MaxAttempts
         THEN [op EXCEPT !.state = "pending", !.live = FALSE, !.wait = TRUE]
         ELSE [op EXCEPT !.state = "dead_letter", !.live = FALSE]

(* An unanswered request is unknown; a rejected one backs off, or is dead  *)
(* after its last attempt.                                                 *)
FailedOp(op) ==
    IF worker.failure = "unknown" THEN [op EXCEPT !.state = "unknown", !.live = FALSE]
    ELSE IF op.attempt < MaxAttempts
         THEN [op EXCEPT !.state = "pending", !.live = FALSE, !.wait = TRUE]
         ELSE [op EXCEPT !.state = "dead_letter", !.live = FALSE]

(* Slip: the call is repeated at once under the claim just given up.       *)
FinishByRetrying ==
    /\ At("fail")
    /\ ops' = IF CanFinalize THEN [ops EXCEPT ![worker.job] = FailedOp(@)] ELSE ops
    /\ Goto("main")
    /\ OnlyStore

FinishFailure ==
    /\ At("fail")
    /\ IF CanFinalize
       THEN ops' = [ops EXCEPT ![worker.job] = FailedOp(@)] /\ RoundDone
       ELSE UNCHANGED ops /\ Goto("abandon")
    /\ OnlyStore

AbandonClaim ==
    /\ At("abandon")
    /\ ops' = IF ops[worker.job].state = "running"
              THEN SetState(worker.job, "unknown") ELSE ops
    /\ worker' = [IdleWorker EXCEPT !.pc = "release"]
    /\ OnlyStore

ReleaseLease ==
    /\ At("release")
    /\ lease' = IF lease.owner = "worker" THEN [owner |-> "none", live |-> FALSE] ELSE lease
    /\ worker' = [IdleWorker EXCEPT !.pc = IF worker.again THEN "acquire" ELSE "idle"]
    /\ UNCHANGED <<client, camera, desired, actual, ops, media, late, faults>>

(* An observation fetches the inventory of MediaMTX first and reads the    *)
(* desired rows afterwards.                                                *)
FetchInventory ==
    /\ At("fetch")
    /\ \/ /\ worker' = [worker EXCEPT !.pc = "list", !.seen = media]
          /\ UNCHANGED faults
       \/ /\ Fault("reject") \/ Fault("timeout")
          /\ Goto("release")
    /\ UNCHANGED <<client, camera, desired, actual, ops, lease, media, late>>

Observed == [IdleWorker EXCEPT !.pc = "renew", !.observed = TRUE]

ListDesired ==
    LET rows == {c \in Cameras : desired[c].gen > 0} IN
    /\ At("list")
    /\ worker' = IF rows = {} THEN Observed
                 ELSE [worker EXCEPT !.pc = "observeCamera", !.listed = desired, !.todo = rows]
    /\ OnlyWorker

(* A row deleted since it was listed ends the observation with an error.   *)
ObserveCamera ==
    /\ At("observeCamera")
    /\ \E c \in worker.todo :
         IF camera[c].exists
         THEN worker' = [worker EXCEPT !.pc = "observeMain", !.cam = c, !.todo = @ \ {c}]
         ELSE Forget("release")
    /\ OnlyWorker

NextCamera == IF worker.todo = {} THEN Observed ELSE [worker EXCEPT !.pc = "observeCamera"]

Matches(c, p) == worker.seen[c][p] = Required(worker.listed[c], p)

(* Both paths are recorded; a foreign key refuses a deleted camera's.  The *)
(* observed_at guard of the statement always lets the write through here:  *)
(* the rows were last written by this worker, before it started observing. *)
ObservePath(p) ==
    LET c == worker.cam IN
    IF camera[c].exists
    THEN /\ actual' = [actual EXCEPT ![c][p] =
                         [present |-> worker.seen[c][p] # "none",
                          applied |-> IF Matches(c, p) THEN worker.listed[c].gen ELSE 0]]
         /\ worker' = IF p = "main" THEN [worker EXCEPT !.pc = "observeSub"]
                      ELSE IF \A q \in Profiles : Matches(c, q) THEN NextCamera
                      ELSE [worker EXCEPT !.pc = "driftCheck", !.stamp = Len(ops)]
    ELSE Forget("release") /\ UNCHANGED actual

ObservePaths ==
    /\ \/ At("observeMain") /\ ObservePath("main")
       \/ At("observeSub")  /\ ObservePath("sub")
    /\ UNCHANGED <<client, camera, desired, ops, lease, media, late, faults>>

(* Slip: an operation of the generation blocks another even when done.     *)
BlocksAlways(c) == \E i \in OpsOf(c) : ops[i].gen = worker.listed[c].gen

(* The newest operation blocks another for its generation unless it        *)
(* succeeded before the observation or was resolved; one that succeeded    *)
(* since cannot exist, the only process that completes them being here.    *)
BlocksNew(c) ==
    \E i \in OpsOf(c) :
        /\ Latest(i) /\ ops[i].gen = worker.listed[c].gen
        /\ ops[i].state \in {"pending", "running", "unknown", "failed", "dead_letter"}

DriftCheck ==
    /\ At("driftCheck")
    /\ worker' = IF BlocksNew(worker.cam) THEN NextCamera
                 ELSE [worker EXCEPT !.pc = "driftEnqueue"]
    /\ OnlyWorker

DriftEnqueue ==
    LET c == worker.cam IN
    /\ At("driftEnqueue")
    /\ IF HistoryRoom
       THEN /\ ops' = Append(ops, NewOperation(c, worker.listed[c].gen, DriftStamp(worker.stamp)))
            /\ worker' = NextCamera
       ELSE Forget("release") /\ UNCHANGED ops
    /\ OnlyStore

(* A statement of the worker fails.  Errors inside a claimed operation     *)
(* abandon it; failing to abandon leaves it running, failing to release    *)
(* leaves the lease to expire under an owner nobody is any more.           *)
DatabaseError ==
    /\ Fault("database")
    /\ \/ /\ At("acquire")
          /\ worker' = IdleWorker
          /\ UNCHANGED lease
       \/ /\ worker.pc \in {"renew", "claim", "reread", "list", "observeCamera", "observeMain",
                            "observeSub", "driftCheck", "driftEnqueue", "abandon"}
          /\ worker' = [IdleWorker EXCEPT !.pc = "release"]
          /\ UNCHANGED lease
       \/ /\ worker.pc \in {"renewClaimed", "load", "camera", "finish", "fail", "superseded"}
          /\ Goto("abandon")
          /\ UNCHANGED lease
       \/ /\ At("release")
          /\ worker' = IdleWorker
          /\ lease' = IF lease.owner = "worker" THEN [lease EXCEPT !.owner = "other"] ELSE lease
    /\ UNCHANGED <<client, camera, desired, actual, ops, media, late>>

WorkerStep ==
    \/ RecoverExpired \/ AcquireLease \/ RenewLease \/ ClaimNext \/ ReleaseLease
    \/ RereadClaim \/ RenewClaimed \/ LoadDesired \/ LoadCamera
    \/ CallSucceeds \/ CallRejected \/ CallUnanswered
    \/ FinishSuperseded \/ FinishSuccess \/ FinishFailure \/ AbandonClaim
    \/ FetchInventory \/ ListDesired \/ ObserveCamera \/ ObservePaths
    \/ DriftCheck \/ DriftEnqueue
    \/ DatabaseError

-----------------------------------------------------------------------------
(* Time, failures and MediaMTX                                             *)

(* The process dies and starts again: its running operations become        *)
(* unknown at once, its global lease lives on under the dead owner.        *)
CrashAndRestart ==
    /\ Fault("crash")
    /\ ops' = [i \in DOMAIN ops |->
                 IF ops[i].state = "running"
                 THEN [ops[i] EXCEPT !.state = "unknown", !.live = FALSE] ELSE ops[i]]
    /\ lease' = IF lease.owner = "worker" THEN [lease EXCEPT !.owner = "other"] ELSE lease
    /\ worker' = IdleWorker
    /\ IF Calling THEN MaybeExecuted ELSE UNCHANGED <<media, late>>
    /\ UNCHANGED <<client, camera, desired, actual>>

(* Leases are longer than the calls made under them: one that is being     *)
(* used expires only if the process stalls.                                *)
LeaseExpires ==
    /\ lease.live
    /\ IF lease.owner = "other" THEN UNCHANGED faults ELSE Fault("stall")
    /\ lease' = [lease EXCEPT !.live = FALSE]
    /\ UNCHANGED <<client, camera, desired, actual, ops, media, late, worker>>

OperationLeaseExpires(i) ==
    /\ ops[i].state = "running" /\ ops[i].live
    /\ IF i # worker.job THEN UNCHANGED faults ELSE Fault("stall")
    /\ ops' = [ops EXCEPT ![i] = [@ EXCEPT !.live = FALSE]]
    /\ UNCHANGED <<client, camera, desired, actual, lease, media, late, worker>>

BackoffElapses(i) ==
    /\ ops[i].wait
    /\ ops' = [ops EXCEPT ![i] = [@ EXCEPT !.wait = FALSE]]
    /\ UNCHANGED <<client, camera, desired, actual, lease, media, late, worker, faults>>

TimePasses ==
    \/ LeaseExpires
    \/ \E i \in DOMAIN ops : OperationLeaseExpires(i) \/ BackoffElapses(i)

(* MediaMTX keeps these configurations in memory: a restart or another API *)
(* user changes them.                                                      *)
MediaDrifts ==
    /\ Fault("drift")
    /\ \E c \in Cameras, p \in Profiles, cfg \in Config :
         media' = [media EXCEPT ![c][p] = cfg]
    /\ UNCHANGED <<client, camera, desired, actual, ops, lease, late, worker>>

LateRequestExecutes ==
    /\ \E c \in Cameras : \E request \in late[c] :
         /\ media' = [media EXCEPT ![c][request[1]] = request[2]]
         /\ late'  = [late  EXCEPT ![c] = @ \ {request}]
    /\ UNCHANGED <<client, camera, desired, actual, ops, lease, worker, faults>>

Environment == CrashAndRestart \/ TimePasses \/ MediaDrifts \/ LateRequestExecutes

-----------------------------------------------------------------------------
Init ==
    /\ client  = [c \in Cameras |-> "unpaired"]
    /\ camera  = [c \in Cameras |-> NoCamera]
    /\ desired = [c \in Cameras |-> NoDesired]
    /\ actual  = [c \in Cameras |-> NoActual]
    /\ ops     = <<>>
    /\ lease   = [owner |-> "none", live |-> FALSE]
    /\ media   = [c \in Cameras |-> Absent]
    /\ late    = [c \in Cameras |-> {}]
    /\ worker  = IdleWorker
    /\ faults  = 0

Next == HandlerStep \/ WorkerStep \/ Environment

(* The reconcile task runs at every tick, calls end (the HTTP client has a *)
(* timeout) and time passes; no handler is ever obliged to run.            *)
Fairness ==
    /\ WF_vars(WorkerStep)
    /\ WF_vars(LeaseExpires)
    /\ \A i \in 1..MaxOperations :
         /\ WF_vars(i \in DOMAIN ops /\ OperationLeaseExpires(i))
         /\ WF_vars(i \in DOMAIN ops /\ BackoffElapses(i))

Spec     == Init /\ [][Next]_vars
FairSpec == Spec /\ Fairness

-----------------------------------------------------------------------------
(* Properties                                                              *)

LeaseRow == [owner : {"none", "worker", "other"}, live : BOOLEAN]

(* Every table and the worker's locals keep their shape; an operation is   *)
(* never attempted more often than max_attempts.                           *)
TypeOK ==
    /\ client  \in [Cameras -> ClientStates]
    /\ camera  \in [Cameras -> CameraRow]
    /\ desired \in [Cameras -> DesiredRow]
    /\ actual  \in [Cameras -> [Profiles -> ActualRow]]
    /\ ops     \in Seq(OpRow)
    /\ \A i \in DOMAIN ops : ops[i].attempt <= MaxAttempts
    /\ lease   \in LeaseRow
    /\ media   \in [Cameras -> [Profiles -> Config]]
    /\ late    \in [Cameras -> SUBSET (Profiles \X Config)]
    /\ worker  \in WorkerRow
    /\ faults  \in 0..MaxFaults

(* The desired row of a camera always says what its camera row says: five  *)
(* handlers write both tables, and only some writes of the camera queue a  *)
(* media change.                                                           *)
DesiredMatchesCamera ==
    \A c \in Cameras :
        /\ camera[c].exists <=> desired[c].gen > 0
        /\ camera[c].exists =>
              /\ desired[c].present = camera[c].enabled
              /\ desired[c].sub     = camera[c].sub
              /\ desired[c].record  = camera[c].record

(* Media is wanted only for the camera a currently paired client shows: a  *)
(* rotated, revoked or removed one is never asked for again by any handler *)
(* that runs later.                                                        *)
OnlyPairedIsWanted ==
    \A c \in Cameras : desired[c].present => client[c] = "paired" /\ ~camera[c].deleted

(* A camera has at most one running or unknown operation (the schema's     *)
(* unique index never fires, so no claim or recovery fails on it).         *)
OneActiveOperation ==
    \A i, j \in DOMAIN ops :
        ops[i].cam = ops[j].cam /\ Active(i) /\ Active(j) => i = j

(* MediaMTX is called only for a running operation, and never for a camera *)
(* with an operation whose outcome is still unknown.                       *)
NoCallBesideAnUnknown ==
    Calling => /\ ops[worker.job].state = "running"
               /\ \A i \in OpsOf(CallTarget) : i # worker.job => ~Active(i)

(* The server grants a publish URL.                                        *)
PublishReady(c) ==
    /\ desired[c].present
    /\ \A p \in Profiles : (p = "main" \/ camera[c].sub) =>
          actual[c][p].present /\ actual[c][p].applied = desired[c].gen

(* A client is told to publish only to paths MediaMTX has configured as    *)
(* the current generation wants them (for MediaMTX that changes only when  *)
(* it is called).                                                          *)
PublishReadyIsServed ==
    \A c \in Cameras : PublishReady(c) =>
        \A p \in Profiles : Wanted(c, p) # "none" => media[c][p] = Wanted(c, p)

(* The client's end and the paths MediaMTX has for it.                     *)
Phase  == [c \in Cameras |-> CASE client[c] = "revoked" -> "revoked"
                               [] client[c] = "purged"  -> "deleted"
                               [] OTHER                 -> "open"]
Served == [c \in Cameras |-> {p \in Profiles : media[c][p] # "none"}]

Lifecycle == INSTANCE MediaLifecycle WITH Paths <- Profiles, phase <- Phase, served <- Served

(* A deleted client's media was gone when it was deleted and stays gone.   *)
DeletedOnlyWhenGone == Lifecycle!LifecycleSpec

Running(i) == i \in DOMAIN ops /\ ops[i].state = "running"

(* Recovery never loses an operation: one that runs stops running.         *)
RunningEnds ==
    \A i \in 1..MaxOperations : Running(i) ~> ~Running(i)

(* The loop waits for an administrator: an outcome is unknown, or the last *)
(* operation for the current generation is dead.                           *)
NeedsHuman(c) ==
    \E i \in OpsOf(c) :
        \/ ops[i].state = "unknown"
        \/ /\ Latest(i)
           /\ ops[i].gen = desired[c].gen
           /\ ops[i].state \in {"failed", "dead_letter"}

(* Once failures and changes stop, MediaMTX serves what is desired, unless *)
(* the loop waits for an administrator: no change, drift, crash or late    *)
(* request is forgotten.                                                   *)
Converges ==
    \A c \in Cameras : <>[](desired[c].gen > 0 => NeedsHuman(c) \/ ServedAsWanted(c))

(* A revoked client whose removal was applied and observed, with nothing   *)
(* left to run, can be deleted.                                            *)
RemovedCanBeDeleted ==
    \A c \in Cameras :
        (/\ client[c] = "revoked" /\ camera[c].exists
         /\ \E i \in OpsOf(c) : ops[i].gen = desired[c].gen /\ ops[i].state = "succeeded"
         /\ \A i \in OpsOf(c) : ops[i].state \in {"succeeded", "resolved"}
         /\ worker.pc = "idle"
         /\ \A p \in Profiles : ~actual[c][p].present)
        => PurgeAllowed(c)

=============================================================================
