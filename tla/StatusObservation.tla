--------------------------- MODULE StatusObservation ---------------------------
(***************************************************************************)
(* The status loop of background.rs: it reads the clock, lists MediaMTX's  *)
(* paths page by page, reads the cameras and writes what it saw, camera by *)
(* camera, while handlers and the reconciler's worker change the same rows.*)
(*                                                                         *)
(* Times are relative: left is observation_expires_at - now of a row (0:   *)
(* NULL or past), loop.age the time since observation_started_at, and      *)
(* loop.changed the cameras whose updated_at is later than it.  A writer   *)
(* reads the clock before it waits for the write lock, so that a change    *)
(* committed during an observation may carry an older time.                *)
(*                                                                         *)
(* MediaMTX is another program; it lists its paths in the order of their   *)
(* names, which are numbers here.  A camera is the number of its main      *)
(* path.  Nothing reads what is only remembered: when a path was last      *)
(* ready and last not (lastReady, lastUnready), which cameras such a late  *)
(* writer changed since the loop read them (loop.hidden), and over which of *)
(* its changes an observation was then written (overtaken).                *)
(***************************************************************************)
EXTENDS Integers, FiniteSets

CONSTANTS
    Paths,          \* MediaMTX path names, cameras' main paths among them
    Cameras,
    PathStates,     \* bound: what MediaMTX may report of a path
    PageSize,       \* 100: itemsPerPage
    Lifetime,       \* 3 status intervals and a request timeout
    Full            \* cameras whose history may have no room for an event

ASSUME ListingAssumption ==
    /\ Paths \subseteq Nat /\ IsFiniteSet(Paths) /\ Cameras \subseteq Paths
    /\ PathStates \subseteq {"absent", "idle", "ready"} /\ "absent" \in PathStates
    /\ PageSize \in Nat \ {0}
ASSUME LifetimeAssumption == Lifetime \in Nat \ {0}
ASSUME HistoryAssumption  == Full \subseteq Cameras

VARIABLES
    paths,          \* MediaMTX: the state of every path
    cameras,        \* the rows of cameras
    loop,           \* the status loop; "down": the process is not running
    alert,          \* the row of events that the last step inserted, or NoAlert
    lastReady,      \* how long ago a camera's path was last ready
    lastUnready,    \* and how long ago it last was not
    overtaken       \* cameras observed over a change that the loop did not see

memory == <<lastReady, lastUnready, overtaken>>
vars   == <<paths, cameras, loop, alert, memory>>

-----------------------------------------------------------------------------

Statuses == {"none", "pending", "disabled", "online", "offline", "error"}

(* listed: deleted_at IS NULL; observed: last_observed_at IS NOT NULL.     *)
Row == [listed : BOOLEAN, enabled : BOOLEAN, status : Statuses,
        observed : BOOLEAN, left : 0..Lifetime]

NoRow == [listed |-> FALSE, enabled |-> FALSE, status |-> "none",
          observed |-> FALSE, left |-> 0]

Exists(row) == row.status # "none"

(* observation_status_at: `fresh'; the console then shows the status.      *)
Fresh(row) == row.observed /\ row.left > 0

Ages == 0..(Lifetime + 1)         \* beyond a lifetime they are not told apart

(* What the loop keeps of a row it read.                                   *)
View(row) == [enabled |-> row.enabled, status |-> row.status]

Phases == {"down", "idle", "listing", "selecting", "writing", "failed"}

Rest(phase) == [phase |-> phase, age |-> 0, page |-> 0, expected |-> 0, seen |-> {},
                ready |-> {}, read |-> [c \in Cameras |-> View(NoRow)], todo |-> {},
                changed |-> {}, hidden |-> {}]

(* The step inserts no event.                                              *)
NoAlert == [camera |-> 0, previous |-> "none", status |-> "none"]
Silent  == alert' = NoAlert

Running   == loop.phase # "down"
Observing == loop.phase \notin {"down", "idle"}

-----------------------------------------------------------------------------
(* The inventory                                                           *)

Existing == {p \in Paths : paths[p] # "absent"}
Rank(p)  == Cardinality({q \in Existing : q < p})
Page(n)  == {p \in Existing : Rank(p) \div PageSize = n}

StartObservation ==
    /\ loop.phase = "idle"
    /\ loop' = [Rest("listing") EXCEPT !.expected = -1]
    /\ Silent /\ UNCHANGED <<paths, cameras, memory>>

LastPage == (loop.page + 1) * PageSize >= Cardinality(Existing)

(* One page.  The counts must not change between pages, and in the end all *)
(* names must be there, each of them once.                                 *)
FetchPage ==
    LET seen == loop.seen \cup Page(loop.page)
        next == [loop EXCEPT !.seen = seen, !.page = @ + 1, !.expected = Cardinality(Existing),
                             !.ready = @ \cup {p \in Page(loop.page) : paths[p] = "ready"}]
    IN  /\ loop.phase = "listing"
        /\ loop.expected \in {-1, Cardinality(Existing)}
        /\ LastPage => Cardinality(seen) = Cardinality(Existing)
        /\ loop' = IF LastPage THEN [next EXCEPT !.phase = "selecting"] ELSE next
        /\ Silent /\ UNCHANGED <<paths, cameras, memory>>

(* No answer, or an inventory that is not consistent.                      *)
InventoryFails ==
    /\ loop.phase = "listing"
    /\ loop' = Rest("failed")
    /\ Silent /\ UNCHANGED <<paths, cameras, memory>>

Stale == [c \in Cameras |-> [cameras[c] EXCEPT !.left = 0]]

(* invalidate_status_observations after a failed inventory.                *)
Invalidate ==
    /\ loop.phase = "failed"
    /\ cameras' = Stale
    /\ loop' = Rest("idle")
    /\ Silent /\ UNCHANGED <<paths, memory>>

-----------------------------------------------------------------------------
(* Writing what was seen                                                   *)

SelectCameras ==
    /\ loop.phase = "selecting"
    /\ loop' = [loop EXCEPT !.phase = "writing", !.read = [c \in Cameras |-> View(cameras[c])],
                            !.todo = {c \in Cameras : cameras[c].listed}]
    /\ Silent /\ UNCHANGED <<paths, cameras, memory>>

NewStatus(c) ==
    CASE ~loop.read[c].enabled                        -> "disabled"
      [] loop.read[c].enabled /\ c \in loop.ready    -> "online"
      [] loop.read[c].enabled /\ c \notin loop.ready -> "offline"

(* Slip: the lifetime counts from the moment it is written.                *)
RemainingFromNow == Lifetime

(* What is left of the lifetime; the age stops at it.                      *)
Remaining == Lifetime - loop.age

(* Slip: only a change of enabled is looked for.                           *)
StillAsReadByEnabled(c) == cameras[c].listed /\ cameras[c].enabled = loop.read[c].enabled

(* Slip: compared with a column that is NULL until the first observation.  *)
StillAsReadSince(c) ==
    /\ cameras[c].listed /\ cameras[c].enabled = loop.read[c].enabled
    /\ cameras[c].observed /\ c \notin loop.changed

(* WHERE enabled = ? AND deleted_at IS NULL AND updated_at <= ?            *)
StillAsRead(c) ==
    cameras[c].listed /\ cameras[c].enabled = loop.read[c].enabled /\ c \notin loop.changed

Observed(c, status) ==
    [cameras EXCEPT ![c].status = status, ![c].observed = TRUE, ![c].left = Remaining]

(* What the row became is known to have been read, or not.                 *)
Remember(c) ==
    /\ overtaken' = IF ~StillAsRead(c) THEN overtaken
                    ELSE IF c \in loop.hidden THEN overtaken \cup {c} ELSE overtaken \ {c}
    /\ UNCHANGED <<lastReady, lastUnready>>

First(c) == c \in loop.todo /\ \A other \in loop.todo : c <= other

Done(c) == IF loop.todo = {c} THEN Rest("idle") ELSE [loop EXCEPT !.todo = @ \ {c}]

(* The status it already had: only the times are written.                  *)
Confirm(c) ==
    /\ loop.phase = "writing" /\ First(c)
    /\ NewStatus(c) = loop.read[c].status
    /\ cameras' = IF StillAsRead(c) THEN Observed(c, cameras[c].status) ELSE cameras
    /\ loop' = Done(c) /\ Remember(c)
    /\ Silent /\ UNCHANGED paths

(* Slip: a camera that was never observed comes out with an event.         *)
AlertsFromPending(c) == NewStatus(c) # "disabled"

Alerts(c) == loop.read[c].status # "pending" /\ NewStatus(c) # "disabled"

Emitted(c) == [camera |-> c, previous |-> loop.read[c].status, status |-> NewStatus(c)]

(* Another status: row and event in one transaction.                       *)
Transit(c) ==
    /\ loop.phase = "writing" /\ First(c)
    /\ NewStatus(c) # loop.read[c].status
    /\ cameras' = IF StillAsRead(c) THEN Observed(c, NewStatus(c)) ELSE cameras
    /\ alert' = IF StillAsRead(c) /\ Alerts(c) THEN Emitted(c) ELSE NoAlert
    /\ loop' = Done(c) /\ Remember(c)
    /\ UNCHANGED paths

(* HistoryStorageCapacity: this observation is rolled back, the others go on. *)
RejectTransit(c) ==
    /\ loop.phase = "writing" /\ First(c) /\ c \in Full
    /\ NewStatus(c) # loop.read[c].status /\ StillAsRead(c) /\ Alerts(c)
    /\ loop' = Done(c)
    /\ Silent /\ UNCHANGED <<paths, cameras, memory>>

(* A statement fails (or, before it, a stored credential is invalid): the  *)
(* cycle ends with an error and the next begins at the next tick.          *)
CycleFails ==
    /\ Observing
    /\ loop' = Rest("idle")
    /\ Silent /\ UNCHANGED <<paths, cameras, memory>>

-----------------------------------------------------------------------------
(* Who else writes the rows                                                *)

(* A handler or the worker commits row for c.  One that read the clock     *)
(* before the observation began and then waited leaves an updated_at that  *)
(* does not tell, and takes away one that did.                             *)
Changed(c) == [loop EXCEPT !.changed = @ \cup {c}]
Hidden(c)  == [loop EXCEPT !.changed = @ \ {c}, !.hidden = @ \cup ({c} \cap loop.todo)]

Change(c, row) ==
    /\ Running
    /\ cameras' = [cameras EXCEPT ![c] = row]
    /\ loop' \in IF Observing THEN {Changed(c), Hidden(c)} ELSE {loop}
    /\ Silent /\ UNCHANGED <<paths, memory>>

(* CLIENT_CAMERA_UPSERT, for a camera the client's snapshot names.         *)
Report(c, enabled) ==
    LET row == cameras[c]
    IN  Change(c, IF Exists(row)
                  THEN [row EXCEPT !.listed = TRUE, !.enabled = enabled,
                                   !.status = IF enabled THEN @ ELSE "disabled",
                                   !.left = IF row.enabled = enabled THEN @ ELSE 0]
                  ELSE [NoRow EXCEPT !.listed = TRUE, !.enabled = enabled, !.status = "pending"])

(* update_client_authorization.                                            *)
Rotate(c) ==
    /\ cameras[c].listed
    /\ Change(c, [cameras[c] EXCEPT !.enabled = FALSE, !.status = "disabled"])

(* revoke_client, or a snapshot that no longer names the camera.           *)
Remove(c) ==
    /\ cameras[c].listed
    /\ Change(c, [cameras[c] EXCEPT !.listed = FALSE, !.enabled = FALSE, !.status = "disabled"])

(* finish_success of the current generation.                               *)
Applied(c) ==
    /\ Exists(cameras[c])
    /\ Change(c, [cameras[c] EXCEPT
          !.status = IF cameras[c].listed /\ cameras[c].enabled THEN "pending" ELSE "disabled",
          !.left = 0])

(* Slip: the state of the operation is written, no status of a camera.     *)
FailedRowNamed(row) == [row EXCEPT !.status = "failed", !.left = 0]

FailedRow(row) == [row EXCEPT !.status = "error", !.left = 0]

(* finish_failure of the current generation.                               *)
ApplyFails(c) == Exists(cameras[c]) /\ Change(c, FailedRow(cameras[c]))

-----------------------------------------------------------------------------
(* The process, MediaMTX and time                                          *)

Crash ==
    /\ Running
    /\ loop' = Rest("down")
    /\ Silent /\ UNCHANGED <<paths, cameras, memory>>

(* app.rs: nothing observed before the start counts as current.            *)
Start ==
    /\ ~Running
    /\ cameras' = Stale
    /\ loop' = Rest("idle")
    /\ Silent /\ UNCHANGED <<paths, memory>>

PathChanges(p, state) ==
    /\ paths[p] # state
    /\ paths' = [paths EXCEPT ![p] = state]
    /\ lastReady' = IF p \in Cameras /\ state = "ready"
                    THEN [lastReady EXCEPT ![p] = 0] ELSE lastReady
    /\ lastUnready' = IF p \in Cameras /\ state # "ready"
                      THEN [lastUnready EXCEPT ![p] = 0] ELSE lastUnready
    /\ Silent /\ UNCHANGED <<cameras, loop, overtaken>>

Older(age, bound) == IF age < bound THEN age + 1 ELSE age

Tick ==
    /\ cameras' = [c \in Cameras |-> [cameras[c] EXCEPT !.left = IF @ > 0 THEN @ - 1 ELSE 0]]
    /\ loop' = IF Observing THEN [loop EXCEPT !.age = Older(@, Lifetime)] ELSE loop
    /\ lastReady' = [c \in Cameras |->
          IF paths[c] = "ready" THEN 0 ELSE Older(lastReady[c], Lifetime + 1)]
    /\ lastUnready' = [c \in Cameras |->
          IF paths[c] # "ready" THEN 0 ELSE Older(lastUnready[c], Lifetime + 1)]
    /\ Silent /\ UNCHANGED <<paths, overtaken>>

-----------------------------------------------------------------------------

Init ==
    /\ paths = [p \in Paths |-> "absent"]
    /\ cameras = [c \in Cameras |-> NoRow]
    /\ loop = Rest("idle")
    /\ alert = NoAlert
    /\ lastReady = [c \in Cameras |-> Lifetime + 1]
    /\ lastUnready = [c \in Cameras |-> 0]
    /\ overtaken = {}

Write(c) == Confirm(c) \/ Transit(c) \/ RejectTransit(c)

Cycle == StartObservation \/ FetchPage \/ SelectCameras \/ \E c \in Cameras : Write(c)

Changes(c) ==
    \/ \E enabled \in BOOLEAN : Report(c, enabled)
    \/ Rotate(c) \/ Remove(c) \/ Applied(c) \/ ApplyFails(c)

Environment ==
    \/ Crash \/ Start \/ Tick
    \/ \E p \in Paths, state \in PathStates : PathChanges(p, state)

Next ==
    \/ Cycle \/ InventoryFails \/ Invalidate \/ CycleFails
    \/ \E c \in Cameras : Changes(c)
    \/ Environment

Spec == Init /\ [][Next]_vars

(* The process is started again, the loop goes on, and MediaMTX and the    *)
(* database now and then answer: no step of a cycle fails for ever.        *)
FairSpec ==
    /\ Spec
    /\ WF_vars(Start) /\ SF_vars(StartObservation)
    /\ WF_vars(InventoryFails \/ Invalidate \/ CycleFails)
    /\ SF_vars(FetchPage /\ ~LastPage) /\ SF_vars(FetchPage /\ LastPage)
    /\ SF_vars(SelectCameras)
    /\ \A c \in Cameras : SF_vars(Write(c))

-----------------------------------------------------------------------------
(* Properties                                                              *)

(* Rows, the loop's variables and what is remembered keep their shape.     *)
TypeOK ==
    /\ paths \in [Paths -> PathStates]
    /\ cameras \in [Cameras -> Row]
    /\ loop \in [phase : Phases, age : 0..Lifetime, page : Nat, expected : Int,
                 seen : SUBSET Paths, ready : SUBSET Paths,
                 read : [Cameras -> [enabled : BOOLEAN, status : Statuses]],
                 todo : SUBSET Cameras, changed : SUBSET Cameras, hidden : SUBSET Cameras]
    /\ alert \in {NoAlert} \cup [camera : Cameras, previous : Statuses, status : Statuses]
    /\ lastReady \in [Cameras -> Ages] /\ lastUnready \in [Cameras -> Ages]
    /\ overtaken \subseteq Cameras

(* A camera shown as online (a fresh observation) had a ready path no      *)
(* longer ago than the observation's age: not before it began, and never   *)
(* more than a lifetime ago, whoever wrote the row since and whatever      *)
(* failed, restarted or stood still.                                       *)
OnlineIsRecent ==
    \A c \in Cameras : Fresh(cameras[c]) /\ cameras[c].status = "online"
        => lastReady[c] <= Lifetime - cameras[c].left

(* What is shown as fresh of an enabled camera is what an observation made *)
(* of its path, and no status that the worker or a handler gave the row    *)
(* before, during or after it; one that is not enabled is shown as         *)
(* disabled.  Excepted is a camera whose latest observation was written    *)
(* over a change of a writer that had waited with an older clock.          *)
Derived(row) ==
    Fresh(row) => IF row.enabled THEN row.status \in {"online", "offline"}
                                 ELSE row.status = "disabled"
FreshIsDerived == \A c \in Cameras \ overtaken : Derived(cameras[c])

(* Whatever writers wait: an event is recorded only in the step that turns *)
(* a camera online or offline from another status, which the loop read and *)
(* which is known (it was observed, disabled or failed before, and is not  *)
(* pending); its row then has the new status, and is fresh unless the      *)
(* observation is already a lifetime old.                                  *)
Announces(c) ==
    /\ alert'.status \in {"online", "offline"}
    /\ alert'.previous \notin {"none", "pending", alert'.status}
    /\ alert'.previous = loop.read[c].status
    /\ cameras'[c].status = alert'.status
    /\ Fresh(cameras'[c]) \/ loop.age = Lifetime

ComesOut(c) ==
    /\ cameras[c].status \notin {"none", "pending", cameras'[c].status}
    /\ cameras'[c].status \in {"online", "offline"}

(* And of a camera that no late writer changed since the loop read it: an  *)
(* event names the status its row really had, and none is missing when it  *)
(* comes out online or offline.                                            *)
EventsTellTheTruth ==
    [][ /\ alert' # NoAlert =>
              /\ Announces(alert'.camera)
              /\ alert'.camera \notin loop.hidden => cameras[alert'.camera].status = alert'.previous
        /\ \A c \in Cameras \ loop.hidden :
              ComesOut(c) => alert' # NoAlert /\ alert'.camera = c ]_vars

(* After any failure or restart a camera that stays, that nothing changes  *)
(* during observations that take less than a lifetime, is fresh again and  *)
(* again, once paths stop coming and going and its events are accepted.    *)
BecomesFresh ==
    \A c \in Cameras :
        /\ <>[](cameras[c].listed /\ c \notin loop.changed \cup loop.hidden /\ loop.age < Lifetime)
        /\ <>[][Existing' = Existing /\ ~RejectTransit(c)]_vars
        => []<>Fresh(cameras[c])

(* A camera shown as offline was not ready at some time in its observation. *)
OfflineIsRecent ==
    \A c \in Cameras : Fresh(cameras[c]) /\ cameras[c].status = "offline"
        => lastUnready[c] <= Lifetime - cameras[c].left

=============================================================================
