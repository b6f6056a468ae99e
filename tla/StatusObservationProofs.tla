---------------------- MODULE StatusObservationProofs ----------------------
(***************************************************************************)
(* The safety properties of StatusObservation for any paths, cameras, page *)
(* size and lifetime, with writers that wait.  A row is online only as     *)
(* long as the loop says so, and the loop says so only of a path it found  *)
(* ready within its age (ReadyIsRecent).  That Confirm may keep the status *)
(* a row has now, and not the one that was read, is right because nobody   *)
(* else makes a row online (OnlineWasRead).  FreshIsDerived and what an    *)
(* event says of the row rest on UnchangedIsRead, of the cameras that no   *)
(* late writer changed since they were read.                               *)
(***************************************************************************)
EXTENDS StatusObservation, FiniteSetTheorems, TLAPS

LoopRow == [phase : Phases, age : 0..Lifetime, page : Nat, expected : Int,
            seen : SUBSET Paths, ready : SUBSET Paths,
            read : [Cameras -> [enabled : BOOLEAN, status : Statuses]],
            todo : SUBSET Cameras, changed : SUBSET Cameras, hidden : SUBSET Cameras]
Alert   == {NoAlert} \cup [camera : Cameras, previous : Statuses, status : Statuses]

ReadyIsRecent ==
    \A c \in Cameras :
        /\ paths[c] = "ready" => lastReady[c] = 0
        /\ Observing /\ loop.age < Lifetime /\ c \in loop.ready => lastReady[c] <= loop.age

OnlineWasRead ==
    \A c \in Cameras : loop.phase = "writing" /\ c \in loop.todo /\ cameras[c].status = "online"
        => loop.read[c].status = "online"

IInv == TypeOK /\ OnlineIsRecent /\ ReadyIsRecent /\ OnlineWasRead

-----------------------------------------------------------------------------
LEMMA TypeFacts ==
    ASSUME TypeOK
    PROVE  /\ paths \in [Paths -> PathStates] /\ cameras \in [Cameras -> Row] /\ loop \in LoopRow
           /\ alert \in Alert
           /\ lastReady \in [Cameras -> Ages] /\ lastUnready \in [Cameras -> Ages]
           /\ overtaken \subseteq Cameras
           /\ Lifetime \in Nat /\ Lifetime > 0 /\ Cameras \subseteq Paths
BY ListingAssumption, LifetimeAssumption DEF TypeOK, LoopRow, Alert

LEMMA NoRowIsARow == NoRow \in Row
BY LifetimeAssumption DEF NoRow, Row, Statuses

LEMMA RestIsALoop ==
    ASSUME NEW phase \in Phases
    PROVE  /\ Rest(phase) \in LoopRow /\ Rest(phase).phase = phase
           /\ Rest(phase).ready = {} /\ Rest(phase).todo = {}
<1>1. View(NoRow) \in [enabled : BOOLEAN, status : Statuses]
  BY DEF View, NoRow, Statuses
<1> QED  BY <1>1, LifetimeAssumption DEF Rest, LoopRow

LEMMA Initially == Init => IInv
<1> SUFFICES ASSUME Init PROVE IInv
  OBVIOUS
<1>1. loop \in LoopRow /\ loop.phase = "idle" /\ loop.ready = {}
  BY RestIsALoop DEF Init, Phases
<1>2. TypeOK
  BY <1>1, NoRowIsARow, ListingAssumption, LifetimeAssumption DEF Init, TypeOK, LoopRow, Ages
<1>3. OnlineIsRecent
  BY DEF Init, OnlineIsRecent, Fresh, NoRow
<1>4. ReadyIsRecent /\ OnlineWasRead
  BY <1>1, ListingAssumption DEF Init, ReadyIsRecent, OnlineWasRead
<1> QED  BY <1>2, <1>3, <1>4 DEF IInv

-----------------------------------------------------------------------------
(* Steps of the loop that leave the rows, or only make them stale.         *)

(* A cycle that ends, is given up or has not read the cameras yet.         *)
LEMMA LoopKeeps ==
    ASSUME IInv, loop' \in LoopRow,
           \A c \in Cameras : Observing' /\ loop'.age < Lifetime /\ c \in loop'.ready
              => lastReady[c] <= loop'.age,
           \A c \in Cameras : loop'.phase = "writing" /\ c \in loop'.todo
              => (cameras[c].status = "online" => loop'.read[c].status = "online"),
           cameras' = cameras \/ cameras' = Stale,
           Silent, UNCHANGED <<paths, memory>>
    PROVE  IInv'
<1>1. /\ cameras' \in [Cameras -> Row]
      /\ \A c \in Cameras : /\ cameras'[c].status = cameras[c].status
                            /\ Fresh(cameras'[c]) => cameras'[c] = cameras[c]
  <2>1. CASE cameras' = cameras
    BY <2>1, TypeFacts DEF IInv
  <2>2. CASE cameras' = Stale
    BY <2>2, TypeFacts DEF IInv, Stale, Row, Fresh
  <2> QED  BY <2>1, <2>2
<1>2. TypeOK'
  BY <1>1 DEF IInv, TypeOK, LoopRow, memory, Silent
<1>3. OnlineIsRecent'
  BY <1>1 DEF IInv, OnlineIsRecent, Fresh, memory
<1>4. ReadyIsRecent' /\ OnlineWasRead'
  BY <1>1 DEF IInv, ReadyIsRecent, OnlineWasRead, memory
<1> QED  BY <1>2, <1>3, <1>4 DEF IInv

LEMMA RestingKeeps ==
    ASSUME IInv, NEW phase \in Phases, loop' = Rest(phase), cameras' = cameras \/ cameras' = Stale,
           Silent, UNCHANGED <<paths, memory>>
    PROVE  IInv'
BY RestIsALoop, LoopKeeps

LEMMA StartKeeps == ASSUME IInv, StartObservation PROVE IInv'
<1>1. Rest("listing") \in LoopRow /\ Rest("listing").ready = {} /\ Rest("listing").phase = "listing"
  BY RestIsALoop DEF Phases
<1>2. loop' \in LoopRow /\ loop'.ready = {} /\ loop'.phase = "listing"
  BY <1>1 DEF StartObservation, LoopRow
<1> QED  BY <1>2, LoopKeeps DEF StartObservation

LEMMA FetchKeeps == ASSUME IInv, FetchPage PROVE IInv'
<1>1. /\ loop \in LoopRow /\ loop.phase = "listing"
      /\ Page(loop.page) \subseteq Paths /\ Cardinality(Existing) \in Int
  BY TypeFacts, ListingAssumption, FS_Subset, FS_CardinalityType DEF IInv, FetchPage, Page, Existing
<1> DEFINE found == {p \in Page(loop.page) : paths[p] = "ready"}
           next  == [loop EXCEPT !.seen = loop.seen \cup Page(loop.page), !.page = @ + 1,
                                 !.expected = Cardinality(Existing), !.ready = @ \cup found]
<1>2. /\ next \in LoopRow /\ next.ready = loop.ready \cup found /\ next.age = loop.age
      /\ next.phase = "listing" /\ found \subseteq Paths
  <2>1. found \subseteq Paths
    BY <1>1
  <2>2. /\ loop.seen \cup Page(loop.page) \in SUBSET Paths /\ loop.page + 1 \in Nat
        /\ loop.ready \cup found \in SUBSET Paths
    BY <1>1, <2>1 DEF LoopRow
  <2> HIDE DEF found
  <2> QED  BY <1>1, <2>1, <2>2 DEF LoopRow
<1>3. loop' = next \/ loop' = [next EXCEPT !.phase = "selecting"]
  BY DEF FetchPage
<1>4. \A c \in Cameras : c \in found => lastReady[c] = 0
  BY DEF IInv, ReadyIsRecent
<1> HIDE DEF next, found
<1>5. /\ loop' \in LoopRow /\ loop'.ready = loop.ready \cup found /\ loop'.age = loop.age
      /\ loop'.phase \in {"listing", "selecting"}
  BY <1>2, <1>3 DEF LoopRow, Phases
<1>6. \A c \in Cameras : Observing' /\ loop'.age < Lifetime /\ c \in loop'.ready => lastReady[c] <= loop'.age
  <2>1. loop.age \in Nat
    BY <1>1 DEF LoopRow
  <2> QED  BY <1>1, <1>4, <1>5, <2>1 DEF IInv, ReadyIsRecent, Observing
<1> QED  BY <1>5, <1>6, LoopKeeps DEF FetchPage

LEMMA SelectKeeps == ASSUME IInv, SelectCameras PROVE IInv'
<1> DEFINE read == [c \in Cameras |-> View(cameras[c])]
           todo == {c \in Cameras : cameras[c].listed}
<1>1. read \in [Cameras -> [enabled : BOOLEAN, status : Statuses]]
  BY TypeFacts DEF IInv, View, Row
<1>2. \A c \in Cameras : read[c].status = cameras[c].status
  BY DEF View
<1>3. loop' = [loop EXCEPT !.phase = "writing", !.read = read, !.todo = todo] /\ todo \subseteq Cameras
  BY DEF SelectCameras
<1> HIDE DEF read, todo
<1>4. /\ loop' \in LoopRow /\ loop'.ready = loop.ready /\ loop'.age = loop.age
      /\ loop'.phase = "writing" /\ loop'.read = read
  BY <1>1, <1>3, TypeFacts DEF IInv, LoopRow, Phases
<1>5. Observing
  BY DEF SelectCameras, Observing
<1> QED  BY <1>2, <1>4, <1>5, LoopKeeps DEF IInv, ReadyIsRecent, SelectCameras

-----------------------------------------------------------------------------
(* What the loop writes                                                    *)

LEMMA DoneLoop ==
    ASSUME IInv, NEW c \in Cameras, loop.phase = "writing", loop' = Done(c)
    PROVE  /\ loop' \in LoopRow
           /\ Observing' => loop'.phase = "writing" /\ loop'.ready = loop.ready /\ loop'.age = loop.age
                            /\ loop'.read = loop.read /\ loop'.changed = loop.changed
                            /\ loop'.hidden = loop.hidden
           /\ loop'.todo = loop.todo \ {c}
<1>1. CASE loop.todo = {c}
  <2>1. Rest("idle") \in LoopRow /\ Rest("idle").phase = "idle" /\ Rest("idle").todo = {}
    BY RestIsALoop DEF Phases
  <2> QED  BY <1>1, <2>1 DEF Done, Observing
<1>2. CASE loop.todo # {c}
  <2>1. loop' = [loop EXCEPT !.todo = @ \ {c}]
    BY <1>2 DEF Done
  <2> QED  BY <2>1, TypeFacts DEF IInv, LoopRow
<1> QED  BY <1>1, <1>2

LEMMA NewStatusIsRead ==
    ASSUME NEW c \in Cameras, loop.read[c].enabled \in BOOLEAN
    PROVE  /\ NewStatus(c) = IF ~loop.read[c].enabled THEN "disabled"
                             ELSE IF c \in loop.ready THEN "online" ELSE "offline"
           /\ NewStatus(c) \in Statuses
<1>1. CASE ~loop.read[c].enabled
  BY <1>1 DEF NewStatus, Statuses
<1>2. CASE loop.read[c].enabled /\ c \in loop.ready
  BY <1>2 DEF NewStatus, Statuses
<1>3. CASE loop.read[c].enabled /\ c \notin loop.ready
  BY <1>3 DEF NewStatus, Statuses
<1> QED  BY <1>1, <1>2, <1>3

LEMMA WriteKeeps == ASSUME IInv, NEW c \in Cameras, Write(c) PROVE IInv'
<1>1. /\ loop.phase = "writing" /\ c \in loop.todo /\ loop' = Done(c)
      /\ paths' = paths /\ lastReady' = lastReady /\ lastUnready' = lastUnready
      /\ overtaken' \in {overtaken, overtaken \cup {c}, overtaken \ {c}}
  BY DEF Write, Confirm, Transit, RejectTransit, First, memory, Remember
<1>2. /\ loop' \in LoopRow
      /\ Observing' => loop'.phase = "writing" /\ loop'.ready = loop.ready /\ loop'.age = loop.age
                       /\ loop'.read = loop.read
      /\ loop'.todo = loop.todo \ {c}
  BY <1>1, DoneLoop
<1>3. loop.read[c].enabled \in BOOLEAN /\ loop.age \in 0..Lifetime /\ loop.read[c].status \in Statuses
  BY TypeFacts DEF IInv, LoopRow
<1>4. Remaining \in 0..Lifetime /\ (Remaining > 0 => loop.age < Lifetime /\ Remaining = Lifetime - loop.age)
  BY <1>3, TypeFacts DEF IInv, Remaining
<1>5. \/ cameras' = cameras
      \/ \E status \in Statuses : /\ cameras' = Observed(c, status)
                                  /\ status = "online" => c \in loop.ready
  <2>1. cameras[c].status \in Statuses
    BY TypeFacts DEF IInv, Row
  <2>2. CASE Confirm(c) /\ StillAsRead(c)
    <3>1. cameras[c].status = "online" => c \in loop.ready
      <4>1. cameras[c].status = "online" => NewStatus(c) = "online"
        BY <1>1, <2>2 DEF IInv, OnlineWasRead, Confirm
      <4> QED  BY <1>3, <4>1, NewStatusIsRead
    <3> QED  BY <2>1, <2>2, <3>1 DEF Confirm
  <2>3. CASE Transit(c) /\ StillAsRead(c)
    BY <1>3, <2>3, NewStatusIsRead DEF Transit
  <2>4. CASE RejectTransit(c) \/ ~StillAsRead(c)
    BY <2>4 DEF Write, Confirm, Transit, RejectTransit
  <2> QED  BY <2>2, <2>3, <2>4 DEF Write
<1>6. /\ cameras' \in [Cameras -> Row]
      /\ \A d \in Cameras \ {c} : cameras'[d] = cameras[d]
      /\ \/ cameras'[c] = cameras[c]
         \/ /\ cameras'[c].left = Remaining
            /\ cameras'[c].status = "online" => c \in loop.ready
  <2>1. CASE cameras' = cameras
    BY <2>1, TypeFacts DEF IInv
  <2>2. ASSUME NEW status \in Statuses, cameras' = Observed(c, status), status = "online" => c \in loop.ready
        PROVE  <1>6!1 /\ <1>6!2 /\ cameras'[c].left = Remaining /\ cameras'[c].status = status
    <3> DEFINE row == [cameras[c] EXCEPT !.status = status, !.observed = TRUE, !.left = Remaining]
    <3>1. cameras[c] \in Row
      BY TypeFacts DEF IInv
    <3>2. row \in Row /\ row.left = Remaining /\ row.status = status
      BY <1>4, <3>1 DEF Row
    <3>3. cameras' = [cameras EXCEPT ![c] = row]
      BY <2>2 DEF Observed
    <3> HIDE DEF row
    <3> QED  BY <3>2, <3>3, TypeFacts DEF IInv
  <2> QED  BY <1>5, <2>1, <2>2
<1>7. alert' \in Alert /\ overtaken' \subseteq Cameras
  <2>1. alert' = NoAlert \/ alert' = Emitted(c)
    BY DEF Write, Confirm, Transit, RejectTransit, Silent
  <2>2. Emitted(c) \in Alert
    BY <1>3, NewStatusIsRead DEF Emitted, Alert
  <2> QED  BY <1>1, <2>1, <2>2, TypeFacts DEF IInv, Alert
<1>8. TypeOK'
  BY <1>1, <1>2, <1>6, <1>7 DEF IInv, TypeOK, LoopRow, Alert
<1>9. OnlineIsRecent'
  <2>1. ASSUME Fresh(cameras'[c]), cameras'[c].status = "online", cameras'[c].left = Remaining, c \in loop.ready
        PROVE  lastReady[c] <= Lifetime - cameras'[c].left
    <3>1. loop.age < Lifetime /\ Remaining = Lifetime - loop.age
      BY <1>4, <2>1 DEF Fresh
    <3>2. lastReady[c] <= loop.age
      BY <1>1, <2>1, <3>1 DEF IInv, ReadyIsRecent, Observing
    <3> QED  BY <1>3, <2>1, <3>1, <3>2, TypeFacts DEF IInv
  <2> QED  BY <1>1, <1>6, <2>1 DEF IInv, OnlineIsRecent, Fresh
<1>10. ReadyIsRecent'
  BY <1>1, <1>2 DEF IInv, ReadyIsRecent, Observing
<1>11. OnlineWasRead'
  BY <1>1, <1>2, <1>6 DEF IInv, OnlineWasRead, Observing
<1> QED  BY <1>8, <1>9, <1>10, <1>11 DEF IInv

-----------------------------------------------------------------------------
(* Handlers, the worker, MediaMTX and time                                 *)

(* A change by somebody else is noted as such, or hidden from the loop.    *)
LEMMA NoteChange ==
    ASSUME TypeOK, NEW c \in Cameras, NEW row, Change(c, row)
    PROVE  /\ loop' \in LoopRow /\ loop'.phase = loop.phase /\ loop'.age = loop.age
           /\ loop'.ready = loop.ready /\ loop'.read = loop.read /\ loop'.todo = loop.todo
           /\ Observing => /\ {c} \cap loop.todo \subseteq loop'.changed \cup loop'.hidden
                           /\ loop'.changed \cup {c} = loop.changed \cup {c}
                           /\ loop.hidden \subseteq loop'.hidden
                           /\ loop'.hidden \subseteq loop.hidden \cup {c}
<1>1. /\ loop.changed \cup {c} \in SUBSET Cameras /\ loop.changed \ {c} \in SUBSET Cameras
      /\ loop.hidden \cup ({c} \cap loop.todo) \in SUBSET Cameras
  BY TypeFacts DEF LoopRow
<1>2. CASE loop' = Changed(c)
  BY <1>1, <1>2, TypeFacts DEF Changed, LoopRow
<1>3. CASE loop' = Hidden(c)
  BY <1>1, <1>3, TypeFacts DEF Hidden, LoopRow
<1>4. CASE loop' = loop /\ ~Observing
  BY <1>4, TypeFacts
<1> QED  BY <1>2, <1>3, <1>4 DEF Change

(* A row that somebody else writes is not online unless it was, and its    *)
(* observation lasts no longer than before.                                *)
LEMMA ChangeKeeps ==
    ASSUME IInv, NEW c \in Cameras, NEW row \in Row, Change(c, row),
           row.status = "online" => cameras[c].status = "online",
           Fresh(row) => row.left = cameras[c].left /\ cameras[c].observed
    PROVE  IInv'
<1>1. /\ cameras' \in [Cameras -> Row] /\ cameras'[c] = row
      /\ \A d \in Cameras \ {c} : cameras'[d] = cameras[d]
  BY TypeFacts DEF IInv, Change
<1>2. /\ loop' \in LoopRow /\ loop'.phase = loop.phase /\ loop'.age = loop.age
      /\ loop'.ready = loop.ready /\ loop'.read = loop.read /\ loop'.todo = loop.todo
  BY NoteChange DEF IInv
<1>3. /\ paths' = paths /\ alert' = NoAlert /\ lastReady' = lastReady /\ lastUnready' = lastUnready
      /\ overtaken' = overtaken
  BY DEF Change, memory, Silent
<1>4. TypeOK'
  BY <1>1, <1>2, <1>3 DEF IInv, TypeOK, LoopRow
<1>5. OnlineIsRecent'
  BY <1>1, <1>3 DEF IInv, OnlineIsRecent, Fresh
<1>6. ReadyIsRecent' /\ OnlineWasRead'
  BY <1>1, <1>2, <1>3 DEF IInv, ReadyIsRecent, OnlineWasRead, Observing
<1> QED  BY <1>4, <1>5, <1>6 DEF IInv

LEMMA ChangesKeep == ASSUME IInv, NEW c \in Cameras, Changes(c) PROVE IInv'
<1>0. cameras[c] \in Row
  BY TypeFacts DEF IInv
<1>1. ASSUME NEW enabled \in BOOLEAN, Report(c, enabled) PROVE IInv'
  <2> DEFINE status == IF enabled THEN cameras[c].status ELSE "disabled"
             left   == IF cameras[c].enabled = enabled THEN cameras[c].left ELSE 0
             known  == [cameras[c] EXCEPT !.listed = TRUE, !.enabled = enabled,
                          !.status = status, !.left = left]
             new    == [NoRow EXCEPT !.listed = TRUE, !.enabled = enabled, !.status = "pending"]
  <2>1. /\ status \in Statuses /\ (status = "online" => cameras[c].status = "online")
        /\ left \in 0..Lifetime /\ (left > 0 => left = cameras[c].left)
    BY <1>0, LifetimeAssumption DEF Row, Statuses
  <2>2. Change(c, IF Exists(cameras[c]) THEN known ELSE new)
    BY <1>1 DEF Report
  <2> HIDE DEF status, left
  <2>3. CASE Exists(cameras[c])
    <3>1. known \in Row /\ known.status = status /\ known.left = left
          /\ known.observed = cameras[c].observed
      BY <1>0, <2>1 DEF Row
    <3>2. Change(c, known)
      BY <2>2, <2>3
    <3>3. cameras[c].observed \in BOOLEAN
      BY <1>0 DEF Row
    <3> HIDE DEF known
    <3>4. Fresh(known) => known.left = cameras[c].left /\ cameras[c].observed
      BY <2>1, <3>1 DEF Fresh
    <3> QED  BY <2>1, <3>1, <3>2, <3>4, ChangeKeeps
  <2>4. CASE ~Exists(cameras[c])
    <3>1. new \in Row /\ new.status = "pending" /\ new.left = 0
      BY NoRowIsARow DEF Row, Statuses, NoRow
    <3>2. Change(c, new)
      BY <2>2, <2>4
    <3> HIDE DEF new
    <3>3. ~Fresh(new)
      BY <3>1 DEF Fresh
    <3> QED  BY <3>1, <3>2, <3>3, ChangeKeeps
  <2> QED  BY <2>3, <2>4
<1>2. CASE Rotate(c)
  <2> DEFINE row == [cameras[c] EXCEPT !.enabled = FALSE, !.status = "disabled"]
  <2>1. /\ row \in Row /\ row.status = "disabled"
        /\ Fresh(row) => row.left = cameras[c].left /\ cameras[c].observed
    BY <1>0 DEF Row, Statuses, Fresh
  <2>2. Change(c, row)
    BY <1>2 DEF Rotate
  <2> HIDE DEF row
  <2> QED  BY <2>1, <2>2, ChangeKeeps
<1>3. CASE Remove(c)
  <2> DEFINE row == [cameras[c] EXCEPT !.listed = FALSE, !.enabled = FALSE, !.status = "disabled"]
  <2>1. /\ row \in Row /\ row.status = "disabled"
        /\ Fresh(row) => row.left = cameras[c].left /\ cameras[c].observed
    BY <1>0 DEF Row, Statuses, Fresh
  <2>2. Change(c, row)
    BY <1>3 DEF Remove
  <2> HIDE DEF row
  <2> QED  BY <2>1, <2>2, ChangeKeeps
<1>4. CASE Applied(c)
  <2> DEFINE status == IF cameras[c].listed /\ cameras[c].enabled THEN "pending" ELSE "disabled"
             row == [cameras[c] EXCEPT !.status = status, !.left = 0]
  <2>0. 0 \in 0..Lifetime
    BY LifetimeAssumption
  <2>1. status \in Statuses /\ status # "online"
    BY DEF Statuses
  <2>2. Change(c, row)
    BY <1>4 DEF Applied
  <2> HIDE DEF status
  <2>3. row \in Row /\ row.status = status /\ row.left = 0
    BY <1>0, <2>0, <2>1 DEF Row
  <2> HIDE DEF row
  <2>4. ~Fresh(row)
    BY <2>3 DEF Fresh
  <2> QED  BY <2>1, <2>2, <2>3, <2>4, ChangeKeeps
<1>5. CASE ApplyFails(c)
  <2> DEFINE row == FailedRow(cameras[c])
  <2>1. 0 \in 0..Lifetime /\ "error" \in Statuses
    BY LifetimeAssumption DEF Statuses
  <2>2. row \in Row /\ row.status = "error" /\ row.left = 0
    BY <1>0, <2>1 DEF FailedRow, Row
  <2>3. Change(c, row)
    BY <1>5 DEF ApplyFails
  <2> HIDE DEF row
  <2>4. ~Fresh(row)
    BY <2>2 DEF Fresh
  <2> QED  BY <2>2, <2>3, <2>4, ChangeKeeps
<1> QED  BY <1>1, <1>2, <1>3, <1>4, <1>5 DEF Changes

LEMMA PathChangesKeep ==
    ASSUME IInv, NEW p \in Paths, NEW state \in PathStates, PathChanges(p, state)
    PROVE  IInv'
<1>1. /\ paths' \in [Paths -> PathStates] /\ paths'[p] = state
      /\ \A q \in Paths \ {p} : paths'[q] = paths[q]
      /\ cameras' = cameras /\ loop' = loop /\ alert' = NoAlert /\ overtaken' = overtaken
  BY TypeFacts DEF IInv, PathChanges, Silent
<1>2. /\ lastReady' \in [Cameras -> Ages] /\ lastUnready' \in [Cameras -> Ages]
      /\ \A c \in Cameras : lastReady'[c] = lastReady[c] \/ lastReady'[c] = 0
      /\ p \in Cameras /\ state = "ready" => lastReady'[p] = 0
      /\ \A c \in Cameras \ {p} : lastReady'[c] = lastReady[c]
  BY TypeFacts DEF IInv, PathChanges, Ages
<1>3. TypeOK'
  BY <1>1, <1>2 DEF IInv, TypeOK
<1>4. OnlineIsRecent'
  <2>1. \A c \in Cameras : 0 <= Lifetime - cameras[c].left
    BY TypeFacts DEF IInv, Row
  <2> QED  BY <1>1, <1>2, <2>1 DEF IInv, OnlineIsRecent
<1>5. ReadyIsRecent'
  <2>1. loop.age \in Nat
    BY TypeFacts DEF IInv, LoopRow
  <2>2. ASSUME NEW c \in Cameras
        PROVE  /\ paths'[c] = "ready" => lastReady'[c] = 0
               /\ Observing /\ loop.age < Lifetime /\ c \in loop.ready => lastReady'[c] <= loop.age
    <3>1. CASE c = p
      <4>1. paths'[c] = "ready" => lastReady'[c] = 0
        BY <1>1, <1>2, <3>1
      <4> QED  BY <1>2, <2>1, <4>1 DEF IInv, ReadyIsRecent
    <3>2. CASE c # p
      BY <1>1, <1>2, <3>2, TypeFacts DEF IInv, ReadyIsRecent
    <3> QED  BY <3>1, <3>2
  <2> QED  BY <1>1, <2>2 DEF ReadyIsRecent, Observing
<1>6. OnlineWasRead'
  BY <1>1 DEF IInv, OnlineWasRead
<1> QED  BY <1>3, <1>4, <1>5, <1>6 DEF IInv

LEMMA TickKeeps == ASSUME IInv, Tick PROVE IInv'
<1>1. /\ cameras' \in [Cameras -> Row]
      /\ \A c \in Cameras : /\ cameras'[c].status = cameras[c].status
                            /\ cameras'[c].observed = cameras[c].observed
                            /\ cameras'[c].left = IF cameras[c].left > 0 THEN cameras[c].left - 1 ELSE 0
  <2> DEFINE left(c) == IF cameras[c].left > 0 THEN cameras[c].left - 1 ELSE 0
  <2>1. \A c \in Cameras : cameras[c] \in Row /\ left(c) \in 0..Lifetime
    BY TypeFacts DEF IInv, Row
  <2>2. cameras' = [c \in Cameras |-> [cameras[c] EXCEPT !.left = left(c)]]
    BY DEF Tick
  <2> HIDE DEF left
  <2>3. /\ cameras' \in [Cameras -> Row]
        /\ \A c \in Cameras : /\ cameras'[c].status = cameras[c].status
                              /\ cameras'[c].observed = cameras[c].observed
                              /\ cameras'[c].left = left(c)
    BY <2>1, <2>2 DEF Row
  <2> QED  BY <2>3 DEF left
<1>2. /\ lastReady' \in [Cameras -> Ages] /\ lastUnready' \in [Cameras -> Ages]
      /\ \A c \in Cameras : lastReady'[c] <= lastReady[c] + 1 /\ (paths[c] = "ready" => lastReady'[c] = 0)
  BY TypeFacts DEF IInv, Tick, Older, Ages
<1>3. /\ loop' \in LoopRow /\ loop'.phase = loop.phase /\ loop'.ready = loop.ready
      /\ loop'.read = loop.read /\ loop'.todo = loop.todo
      /\ loop'.changed = loop.changed /\ loop'.hidden = loop.hidden
      /\ Observing => loop'.age = IF loop.age < Lifetime THEN loop.age + 1 ELSE loop.age
  <2>1. loop \in LoopRow /\ loop.age \in 0..Lifetime /\ Older(loop.age, Lifetime) \in 0..Lifetime
    BY TypeFacts DEF IInv, LoopRow, Older
  <2> QED  BY <2>1 DEF Tick, LoopRow, Older
<1>4. paths' = paths /\ alert' = NoAlert /\ overtaken' = overtaken
  BY DEF Tick, Silent
<1>5. TypeOK'
  BY <1>1, <1>2, <1>3, <1>4 DEF IInv, TypeOK, LoopRow
<1>6. OnlineIsRecent'
  <2> SUFFICES ASSUME NEW c \in Cameras, Fresh(cameras'[c]), cameras'[c].status = "online"
               PROVE  lastReady'[c] <= Lifetime - cameras'[c].left
    BY DEF OnlineIsRecent
  <2>1. cameras[c].left \in Nat /\ cameras[c].left > 0 /\ cameras'[c].left = cameras[c].left - 1
    BY <1>1, TypeFacts DEF IInv, Fresh, Row
  <2>2. lastReady[c] <= Lifetime - cameras[c].left
    BY <1>1, <2>1 DEF IInv, OnlineIsRecent, Fresh
  <2>3. lastReady[c] \in Nat /\ lastReady'[c] \in Nat
    BY <1>2, TypeFacts DEF IInv, Ages
  <2> QED  BY <1>2, <2>1, <2>2, <2>3, TypeFacts DEF IInv
<1>7. ReadyIsRecent'
  <2>1. loop.age \in Nat /\ \A c \in Cameras : lastReady[c] \in Nat /\ lastReady'[c] \in Nat
    BY <1>2, TypeFacts DEF IInv, LoopRow, Ages
  <2> QED  BY <1>2, <1>3, <1>4, <2>1, TypeFacts DEF IInv, ReadyIsRecent, Observing
<1>8. OnlineWasRead'
  BY <1>1, <1>3 DEF IInv, OnlineWasRead
<1> QED  BY <1>5, <1>6, <1>7, <1>8 DEF IInv

-----------------------------------------------------------------------------
LEMMA Inductive == IInv /\ [Next]_vars => IInv'
<1> SUFFICES ASSUME IInv, [Next]_vars PROVE IInv'
  OBVIOUS
<1>1. CASE UNCHANGED vars
  BY <1>1 DEF vars, memory, IInv, TypeOK, OnlineIsRecent, ReadyIsRecent, OnlineWasRead, Observing
<1>2. CASE Cycle
  BY <1>2, StartKeeps, FetchKeeps, SelectKeeps, WriteKeeps DEF Cycle
<1>3. CASE InventoryFails \/ Invalidate \/ CycleFails \/ Crash \/ Start
  BY <1>3, RestingKeeps DEF InventoryFails, Invalidate, CycleFails, Crash, Start, Phases
<1>4. CASE \E c \in Cameras : Changes(c)
  BY <1>4, ChangesKeep
<1>5. CASE Tick \/ \E p \in Paths, state \in PathStates : PathChanges(p, state)
  BY <1>5, TickKeeps, PathChangesKeep
<1> QED  BY <1>1, <1>2, <1>3, <1>4, <1>5 DEF Next, Environment

(* Rows and the loop of background.rs keep their shape, and no observation *)
(* is written that would last longer than a lifetime from its start.       *)
THEOREM TypeCorrect == Spec => []TypeOK
<1>1. IInv => TypeOK
  BY DEF IInv
<1> QED  BY <1>1, Initially, Inductive, PTL DEF Spec

(* Whatever the number of cameras, the page size and the lifetime, and     *)
(* whoever writes the rows meanwhile: what refresh_statuses shows as online *)
(* was ready since that observation began.                                 *)
THEOREM OnlineStaysRecent == Spec => []OnlineIsRecent
<1>1. IInv => OnlineIsRecent
  BY DEF IInv
<1> QED  BY <1>1, Initially, Inductive, PTL DEF Spec

-----------------------------------------------------------------------------
(* What is shown is derived from what was observed                         *)

(* A row that was not changed since it was read is the one that was read;  *)
(* of those that were changed, the loop knows all but the hidden ones.     *)
Unchanged(c) ==
    loop.phase = "writing" /\ c \in loop.todo /\ c \notin loop.changed \cup loop.hidden

UnchangedIsRead == \A c \in Cameras : Unchanged(c) => cameras[c].status = loop.read[c].status

DInv == IInv /\ FreshIsDerived /\ UnchangedIsRead

LEMMA DerivedWrite ==
    ASSUME DInv, NEW c \in Cameras, Write(c)
    PROVE  FreshIsDerived' /\ UnchangedIsRead'
<1>1. /\ loop.phase = "writing" /\ c \in loop.todo /\ loop' = Done(c)
  BY DEF Write, Confirm, Transit, RejectTransit, First
<1>2. /\ Observing' => /\ loop'.read = loop.read /\ loop'.changed = loop.changed
                       /\ loop'.hidden = loop.hidden
      /\ loop'.todo = loop.todo \ {c}
  BY <1>1, DoneLoop DEF DInv
<1>3. /\ loop.read[c].enabled \in BOOLEAN /\ cameras[c] \in Row
      /\ cameras \in [Cameras -> Row]
  BY TypeFacts DEF DInv, IInv, LoopRow
<1>4. \/ cameras' = cameras /\ overtaken' = overtaken
      \/ /\ StillAsRead(c) /\ Remember(c)
         /\ \E status : /\ cameras' = Observed(c, status)
                        /\ c \notin loop.hidden => status = NewStatus(c)
  <2>1. CASE StillAsRead(c) /\ Confirm(c)
    <3>1. c \notin loop.hidden => cameras[c].status = NewStatus(c)
      BY <1>1, <2>1 DEF DInv, UnchangedIsRead, Unchanged, Confirm, StillAsRead
    <3> QED  BY <2>1, <3>1 DEF Confirm
  <2>2. CASE StillAsRead(c) /\ Transit(c)
    BY <2>2 DEF Transit
  <2>3. CASE RejectTransit(c) \/ ~StillAsRead(c)
    BY <2>3 DEF Write, Confirm, Transit, RejectTransit, Remember, memory
  <2> QED  BY <2>1, <2>2, <2>3 DEF Write
<1>5. /\ \A d \in Cameras \ {c} : cameras'[d] = cameras[d]
      /\ FreshIsDerived'
  <2>1. CASE cameras' = cameras /\ overtaken' = overtaken
    BY <2>1 DEF DInv, FreshIsDerived
  <2>2. ASSUME StillAsRead(c), Remember(c), NEW status, cameras' = Observed(c, status),
               c \notin loop.hidden => status = NewStatus(c)
        PROVE  <1>5!1 /\ <1>5!2
    <3>1. /\ cameras'[c].enabled = loop.read[c].enabled /\ cameras'[c].status = status
          /\ \A d \in Cameras \ {c} : cameras'[d] = cameras[d]
      BY <1>3, <2>2 DEF Observed, Row, StillAsRead
    <3>2. /\ c \in loop.hidden => c \in overtaken'
          /\ \A d \in Cameras \ {c} : d \notin overtaken' => d \notin overtaken
      BY <2>2 DEF Remember
    <3>3. c \notin loop.hidden => Derived(cameras'[c])
      <4>1. CASE loop.read[c].enabled
        BY <1>3, <2>2, <3>1, <4>1, NewStatusIsRead DEF Derived
      <4>2. CASE ~loop.read[c].enabled
        BY <1>3, <2>2, <3>1, <4>2, NewStatusIsRead DEF Derived
      <4> QED  BY <1>3, <4>1, <4>2
    <3>4. \A d \in Cameras \ {c} : d \notin overtaken => Derived(cameras[d])
      BY DEF DInv, FreshIsDerived
    <3>5. ASSUME NEW d \in Cameras \ overtaken'
          PROVE  Derived(cameras'[d])
      <4>1. CASE d = c
        BY <3>2, <3>3, <3>5, <4>1
      <4>2. CASE d # c
        <5>1. cameras'[d] = cameras[d] /\ Derived(cameras[d])
          BY <3>1, <3>2, <3>4, <3>5, <4>2
        <5> QED  BY <5>1
      <4> QED  BY <4>1, <4>2
    <3>6. FreshIsDerived'
      BY <3>5 DEF FreshIsDerived
    <3> QED  BY <3>1, <3>6
  <2> QED  BY <1>4, <2>1, <2>2
<1>6. UnchangedIsRead'
  <2>1. loop'.phase = "writing" => Observing'
    BY DEF Observing
  <2> QED  BY <1>1, <1>2, <1>5, <2>1 DEF DInv, UnchangedIsRead, Unchanged
<1> QED  BY <1>5, <1>6

LEMMA NotShown == ASSUME NEW row, row.left = 0 PROVE Derived(row)
<1>1. ~Fresh(row)
  BY DEF Fresh
<1> QED  BY <1>1 DEF Derived

(* A change of a row that keeps what it shows derived.                     *)
LEMMA DerivedChange ==
    ASSUME DInv, NEW c \in Cameras, NEW row, Change(c, row),
           Derived(cameras[c]) => Derived(row)
    PROVE  FreshIsDerived' /\ UnchangedIsRead'
<1>1. /\ cameras'[c] = row /\ \A d \in Cameras \ {c} : cameras'[d] = cameras[d]
      /\ overtaken' = overtaken
  BY TypeFacts DEF DInv, IInv, Change, memory
<1>2. FreshIsDerived'
  BY <1>1 DEF DInv, FreshIsDerived
<1>3. /\ loop'.phase = loop.phase /\ loop'.read = loop.read /\ loop'.todo = loop.todo
      /\ Observing => /\ {c} \cap loop.todo \subseteq loop'.changed \cup loop'.hidden
                      /\ loop'.changed \cup {c} = loop.changed \cup {c}
                      /\ loop.hidden \subseteq loop'.hidden
  BY NoteChange DEF DInv, IInv
<1>4. ASSUME NEW d \in Cameras, Unchanged(d)'
      PROVE  d # c /\ Unchanged(d)
  BY <1>3, <1>4 DEF Unchanged, Observing
<1> QED  BY <1>1, <1>2, <1>3, <1>4 DEF DInv, UnchangedIsRead, Unchanged

LEMMA DerivedChanges ==
    ASSUME DInv, NEW c \in Cameras, Changes(c)
    PROVE  FreshIsDerived' /\ UnchangedIsRead'
<1>0. cameras[c] \in Row
  BY TypeFacts DEF DInv, IInv
<1>1. ASSUME NEW enabled \in BOOLEAN, Report(c, enabled)
      PROVE  \E row : Change(c, row) /\ (Derived(cameras[c]) => Derived(row))
  <2> DEFINE status == IF enabled THEN cameras[c].status ELSE "disabled"
             left   == IF cameras[c].enabled = enabled THEN cameras[c].left ELSE 0
             known  == [cameras[c] EXCEPT !.listed = TRUE, !.enabled = enabled,
                          !.status = status, !.left = left]
             new    == [NoRow EXCEPT !.listed = TRUE, !.enabled = enabled, !.status = "pending"]
  <2>1. Change(c, IF Exists(cameras[c]) THEN known ELSE new)
    BY <1>1 DEF Report
  <2>2. CASE Exists(cameras[c])
    <3>1. known.enabled = enabled /\ known.status = status /\ known.left = left
          /\ known.observed = cameras[c].observed
      BY <1>0 DEF Row
    <3>2. Change(c, known)
      BY <2>1, <2>2
    <3> HIDE DEF known
    <3>3. ASSUME enabled = FALSE PROVE Derived(known)
      <4>1. known.enabled = FALSE /\ known.status = "disabled"
        BY <3>1, <3>3
      <4> QED  BY <4>1 DEF Derived
    <3>4. ASSUME enabled = TRUE, cameras[c].enabled = TRUE, Derived(cameras[c]) PROVE Derived(known)
      <4>1. /\ known.enabled = TRUE /\ known.status = cameras[c].status
            /\ known.left = cameras[c].left /\ known.observed = cameras[c].observed
        BY <3>1, <3>4
      <4>2. Fresh(known) => Fresh(cameras[c])
        BY <4>1 DEF Fresh
      <4> QED  BY <3>4, <4>1, <4>2 DEF Derived
    <3>5. ASSUME cameras[c].enabled # enabled PROVE Derived(known)
      <4>1. known.left = 0
        BY <3>1, <3>5
      <4> QED  BY <4>1, NotShown
    <3>6. Derived(cameras[c]) => Derived(known)
      BY <1>0, <3>3, <3>4, <3>5 DEF Row
    <3> QED  BY <3>2, <3>6
  <2>3. CASE ~Exists(cameras[c])
    <3>1. new.left = 0
      BY DEF NoRow
    <3>2. Change(c, new)
      BY <2>1, <2>3
    <3> HIDE DEF new
    <3>3. Derived(new)
      BY <3>1, NotShown
    <3> QED  BY <3>2, <3>3
  <2> QED  BY <2>2, <2>3
<1>2. CASE Rotate(c) \/ Remove(c)
  <2>1. PICK row : Change(c, row) /\ row.enabled = FALSE /\ row.status = "disabled"
    <3>1. CASE Rotate(c)
      <4> DEFINE row == [cameras[c] EXCEPT !.enabled = FALSE, !.status = "disabled"]
      <4>1. row.enabled = FALSE /\ row.status = "disabled" /\ Change(c, row)
        BY <1>0, <3>1 DEF Rotate, Row
      <4> HIDE DEF row
      <4> QED  BY <4>1
    <3>2. CASE Remove(c)
      <4> DEFINE row == [cameras[c] EXCEPT !.listed = FALSE, !.enabled = FALSE, !.status = "disabled"]
      <4>1. row.enabled = FALSE /\ row.status = "disabled" /\ Change(c, row)
        BY <1>0, <3>2 DEF Remove, Row
      <4> HIDE DEF row
      <4> QED  BY <4>1
    <3> QED  BY <1>2, <3>1, <3>2
  <2> QED  BY <2>1, DerivedChange DEF Derived
<1>3. CASE Applied(c) \/ ApplyFails(c)
  <2>1. PICK row : Change(c, row) /\ row.left = 0
    <3>1. CASE Applied(c)
      <4> DEFINE status == IF cameras[c].listed /\ cameras[c].enabled THEN "pending" ELSE "disabled"
                 row == [cameras[c] EXCEPT !.status = status, !.left = 0]
      <4>1. row.left = 0 /\ Change(c, row)
        BY <1>0, <3>1 DEF Applied, Row
      <4> HIDE DEF row
      <4> QED  BY <4>1
    <3>2. CASE ApplyFails(c)
      <4>1. FailedRow(cameras[c]).left = 0
        BY <1>0 DEF FailedRow, Row
      <4>2. Change(c, FailedRow(cameras[c]))
        BY <3>2 DEF ApplyFails
      <4> QED  BY <4>1, <4>2
    <3> QED  BY <1>3, <3>1, <3>2
  <2>2. Derived(row)
    BY <2>1, NotShown
  <2> QED  BY <2>1, <2>2, DerivedChange
<1> QED  BY <1>1, <1>2, <1>3, DerivedChange DEF Changes

LEMMA DerivedInductive ==
    ASSUME DInv, [Next]_vars
    PROVE  DInv'
<1> SUFFICES FreshIsDerived' /\ UnchangedIsRead'
  BY Inductive DEF DInv
<1>1. CASE UNCHANGED vars
  BY <1>1 DEF DInv, FreshIsDerived, UnchangedIsRead, Unchanged, vars, memory
<1>2. CASE StartObservation \/ FetchPage
  <2>1. CASE StartObservation
    BY <2>1 DEF StartObservation, Rest, DInv, FreshIsDerived, UnchangedIsRead, Unchanged, memory
  <2>2. CASE FetchPage
    <3>1. loop \in LoopRow
      BY TypeFacts DEF DInv, IInv
    <3>2. cameras' = cameras /\ overtaken' = overtaken /\ loop'.phase \in {"listing", "selecting"}
      BY <2>2, <3>1 DEF FetchPage, LoopRow, memory
    <3> QED  BY <3>2 DEF DInv, FreshIsDerived, UnchangedIsRead, Unchanged
  <2> QED  BY <1>2, <2>1, <2>2
<1>3. CASE SelectCameras
  <2>1. /\ cameras' = cameras /\ overtaken' = overtaken
        /\ \A c \in Cameras : loop'.read[c].status = cameras[c].status
    BY <1>3, TypeFacts DEF SelectCameras, View, DInv, IInv, LoopRow, memory
  <2> QED  BY <2>1 DEF DInv, FreshIsDerived, UnchangedIsRead
<1>4. CASE \E c \in Cameras : Write(c)
  BY <1>4, DerivedWrite
<1>5. CASE InventoryFails \/ Invalidate \/ CycleFails \/ Crash \/ Start
  <2>1. /\ loop'.phase # "writing" /\ overtaken' = overtaken
        /\ cameras' = cameras \/ cameras' = Stale
    BY <1>5, RestIsALoop DEF InventoryFails, Invalidate, CycleFails, Crash, Start, Phases, memory
  <2>2. \A c \in Cameras : Stale[c].left = 0
    BY TypeFacts DEF Stale, DInv, IInv, Row
  <2>3. \A c \in Cameras : Derived(Stale[c])
    BY <2>2 DEF Derived, Fresh
  <2> QED  BY <2>1, <2>3 DEF DInv, FreshIsDerived, UnchangedIsRead, Unchanged
<1>6. CASE \E c \in Cameras : Changes(c)
  BY <1>6, DerivedChanges
<1>7. CASE Tick
  <2>1. \A c \in Cameras : /\ cameras'[c].status = cameras[c].status
                           /\ cameras'[c].enabled = cameras[c].enabled
                           /\ cameras'[c].observed = cameras[c].observed
                           /\ cameras'[c].left > 0 => cameras[c].left > 0
    BY <1>7, TypeFacts DEF Tick, DInv, IInv, Row
  <2>2. FreshIsDerived'
    <3>0. overtaken' = overtaken
      BY <1>7 DEF Tick
    <3> SUFFICES ASSUME NEW c \in Cameras \ overtaken
                 PROVE  Derived(cameras'[c])
      BY <3>0 DEF FreshIsDerived
    <3>1. /\ cameras'[c].status = cameras[c].status /\ cameras'[c].enabled = cameras[c].enabled
          /\ cameras'[c].observed = cameras[c].observed
          /\ cameras'[c].left > 0 => cameras[c].left > 0
      BY <2>1
    <3>3. Fresh(cameras'[c]) => Fresh(cameras[c])
      BY <3>1, Zenon DEF Fresh
    <3>2. Derived(cameras[c])
      BY DEF DInv, FreshIsDerived
    <3> QED  BY <3>1, <3>2, <3>3 DEF Derived
  <2>3. /\ loop'.phase = loop.phase /\ loop'.read = loop.read /\ loop'.todo = loop.todo
        /\ loop'.changed = loop.changed /\ loop'.hidden = loop.hidden
    BY <1>7, TypeFacts DEF Tick, DInv, IInv, LoopRow
  <2>4. UnchangedIsRead
    BY DEF DInv
  <2>5. \A c \in Cameras : cameras'[c].status = cameras[c].status
    BY <2>1
  <2>6. UnchangedIsRead'
    BY <2>3, <2>4, <2>5 DEF UnchangedIsRead, Unchanged
  <2> QED  BY <2>2, <2>6
<1>8. CASE \E p \in Paths, state \in PathStates : PathChanges(p, state)
  BY <1>8 DEF PathChanges, DInv, FreshIsDerived, UnchangedIsRead, Unchanged
<1> QED  BY <1>1, <1>2, <1>3, <1>4, <1>5, <1>6, <1>7, <1>8 DEF Next, Cycle, Environment

LEMMA InitDerived == Init => DInv
BY Initially DEF Init, DInv, FreshIsDerived, UnchangedIsRead, Unchanged, Derived, Fresh, NoRow, Rest

(* However writers wait: what is shown as fresh of a camera is what        *)
(* refresh_statuses derived from its desired state and its path, and no    *)
(* status that the worker or a handler wrote meanwhile, unless the latest  *)
(* observation was written over a change that carried an older time.       *)
THEOREM FreshStaysDerived == Spec => []FreshIsDerived
<1>1. Init => DInv
  BY InitDerived
<1>2. DInv /\ [Next]_vars => DInv'
  BY DerivedInductive
<1>3. DInv => FreshIsDerived
  BY DEF DInv
<1> QED  BY <1>1, <1>2, <1>3, PTL DEF Spec

-----------------------------------------------------------------------------
(* Events                                                                  *)

(* What an event says of the step that records it, and which steps have to *)
(* record one.                                                             *)
SaysSo ==
    alert' # NoAlert =>
        /\ Announces(alert'.camera)
        /\ alert'.camera \notin loop.hidden => cameras[alert'.camera].status = alert'.previous
SaidOf(c)    == ComesOut(c) => alert' # NoAlert /\ alert'.camera = c
Reported     == SaysSo /\ \A c \in Cameras \ loop.hidden : SaidOf(c)

(* What the loop read are rows that exist: it reads those that are listed. *)
ListedExists == \A c \in Cameras : cameras[c].listed => Exists(cameras[c])
ReadExists   == \A c \in Cameras :
    loop.phase = "writing" /\ c \in loop.todo => loop.read[c].status # "none"

EInv == DInv /\ ListedExists /\ ReadExists

LEMMA ChangedExists ==
    ASSUME EInv, NEW c \in Cameras, Changes(c)
    PROVE  ListedExists' /\ ReadExists'
<1>0. cameras \in [Cameras -> Row]
  BY TypeFacts DEF EInv, DInv, IInv
<1>1. ASSUME NEW row, Change(c, row), row.listed => row.status # "none"
      PROVE  ListedExists' /\ ReadExists'
  <2>1. cameras'[c] = row /\ \A d \in Cameras \ {c} : cameras'[d] = cameras[d]
    BY <1>0, <1>1 DEF Change
  <2>2. loop'.phase = loop.phase /\ loop'.read = loop.read /\ loop'.todo = loop.todo
    BY <1>1, NoteChange DEF EInv, DInv, IInv
  <2>3. ListedExists'
    BY <1>1, <2>1 DEF EInv, ListedExists, Exists
  <2> QED  BY <2>2, <2>3 DEF EInv, ReadExists
<1>2. ASSUME NEW enabled \in BOOLEAN, Report(c, enabled)
      PROVE  ListedExists' /\ ReadExists'
  <2> DEFINE known == [cameras[c] EXCEPT !.listed = TRUE, !.enabled = enabled,
                         !.status = IF enabled THEN @ ELSE "disabled",
                         !.left = IF cameras[c].enabled = enabled THEN @ ELSE 0]
             new   == [NoRow EXCEPT !.listed = TRUE, !.enabled = enabled, !.status = "pending"]
  <2>1. Change(c, IF Exists(cameras[c]) THEN known ELSE new)
    BY <1>2 DEF Report
  <2>2. Exists(cameras[c]) => known.status # "none"
    BY <1>0 DEF Row, Exists
  <2>3. new.status = "pending"
    BY DEF NoRow
  <2> HIDE DEF known, new
  <2> QED  BY <1>1, <2>1, <2>2, <2>3
<1>3. CASE Rotate(c) \/ Remove(c)
  <2> DEFINE off  == [cameras[c] EXCEPT !.enabled = FALSE, !.status = "disabled"]
             gone == [cameras[c] EXCEPT !.listed = FALSE, !.enabled = FALSE, !.status = "disabled"]
  <2>1. Change(c, off) \/ Change(c, gone)
    BY <1>3 DEF Rotate, Remove
  <2>2. off.status = "disabled" /\ gone.status = "disabled"
    BY <1>0 DEF Row
  <2> HIDE DEF off, gone
  <2> QED  BY <1>1, <2>1, <2>2
<1>4. CASE Applied(c) \/ ApplyFails(c)
  <2> DEFINE done == [cameras[c] EXCEPT
                 !.status = IF cameras[c].listed /\ cameras[c].enabled THEN "pending" ELSE "disabled",
                 !.left = 0]
  <2>1. Change(c, done) \/ Change(c, FailedRow(cameras[c]))
    BY <1>4 DEF Applied, ApplyFails
  <2>2. done.status \in {"pending", "disabled"} /\ FailedRow(cameras[c]).status = "error"
    BY <1>0 DEF Row, FailedRow
  <2> HIDE DEF done
  <2> QED  BY <1>1, <2>1, <2>2
<1> QED  BY <1>2, <1>3, <1>4 DEF Changes

LEMMA WrittenExists ==
    ASSUME EInv, NEW c \in Cameras, Write(c)
    PROVE  ListedExists' /\ ReadExists'
<1>1. loop.phase = "writing" /\ loop' = Done(c)
  BY DEF Write, Confirm, Transit, RejectTransit
<1>2. /\ loop'.phase = "writing" => loop'.read = loop.read
      /\ loop'.todo = loop.todo \ {c}
  BY <1>1, DoneLoop DEF EInv, DInv, Observing
<1>3. /\ loop.read[c].enabled \in BOOLEAN /\ cameras[c] \in Row
      /\ cameras \in [Cameras -> Row]
  BY TypeFacts DEF EInv, DInv, IInv, LoopRow
<1>4. NewStatus(c) # "none"
  BY <1>3, NewStatusIsRead
<1>5. \/ cameras' = cameras
      \/ \E status : cameras' = Observed(c, status) /\ status # "none"
  <2>1. CASE Confirm(c) /\ StillAsRead(c)
    <3>1. cameras[c].status # "none"
      BY <2>1 DEF StillAsRead, EInv, ListedExists, Exists
    <3> QED  BY <2>1, <3>1 DEF Confirm
  <2>2. CASE Transit(c) /\ StillAsRead(c)
    BY <1>4, <2>2 DEF Transit
  <2>3. CASE RejectTransit(c) \/ ~StillAsRead(c)
    BY <2>3 DEF Write, Confirm, Transit, RejectTransit
  <2> QED  BY <2>1, <2>2, <2>3 DEF Write
<1>6. ListedExists'
  <2>1. CASE cameras' = cameras
    BY <2>1 DEF EInv, ListedExists, Exists
  <2>2. ASSUME NEW status, cameras' = Observed(c, status), status # "none"
        PROVE  ListedExists'
    <3>1. cameras'[c].status = status /\ \A d \in Cameras \ {c} : cameras'[d] = cameras[d]
      BY <1>3, <2>2 DEF Observed, Row
    <3> QED  BY <2>2, <3>1 DEF EInv, ListedExists, Exists
  <2> QED  BY <1>5, <2>1, <2>2
<1>7. ReadExists'
  BY <1>1, <1>2 DEF EInv, ReadExists
<1> QED  BY <1>6, <1>7

LEMMA ExistsInductive == EInv /\ [Next]_vars => EInv'
<1> SUFFICES ASSUME EInv, [Next]_vars PROVE ListedExists' /\ ReadExists'
  BY DerivedInductive DEF EInv
<1>0. cameras \in [Cameras -> Row] /\ loop \in LoopRow
  BY TypeFacts DEF EInv, DInv, IInv
<1>1. ASSUME \A c \in Cameras : /\ cameras'[c].listed = cameras[c].listed
                               /\ cameras'[c].status = cameras[c].status
      PROVE  ListedExists'
  BY <1>1 DEF EInv, ListedExists, Exists
<1>2. CASE UNCHANGED vars
  BY <1>2 DEF vars, EInv, ListedExists, Exists, ReadExists
<1>3. CASE StartObservation \/ FetchPage
  <2>1. cameras' = cameras /\ loop'.phase # "writing"
    <3>1. CASE StartObservation
      BY <3>1 DEF StartObservation, Rest
    <3>2. CASE FetchPage
      BY <1>0, <3>2 DEF FetchPage, LoopRow
    <3> QED  BY <1>3, <3>1, <3>2
  <2> QED  BY <1>1, <2>1 DEF ReadExists
<1>4. CASE SelectCameras
  <2>1. /\ cameras' = cameras /\ loop'.todo = {c \in Cameras : cameras[c].listed}
        /\ \A c \in Cameras : loop'.read[c].status = cameras[c].status
    BY <1>0, <1>4 DEF SelectCameras, View, LoopRow
  <2> QED  BY <1>1, <2>1 DEF EInv, ListedExists, ReadExists, Exists
<1>5. CASE \E c \in Cameras : Write(c)
  BY <1>5, WrittenExists
<1>6. CASE InventoryFails \/ Invalidate \/ CycleFails \/ Crash \/ Start
  <2>1. loop'.phase # "writing" /\ (cameras' = cameras \/ cameras' = Stale)
    BY <1>6, RestIsALoop DEF InventoryFails, Invalidate, CycleFails, Crash, Start, Phases
  <2>2. \A c \in Cameras : Stale[c].listed = cameras[c].listed /\ Stale[c].status = cameras[c].status
    BY <1>0 DEF Stale, Row
  <2>3. \A c \in Cameras : /\ cameras'[c].listed = cameras[c].listed
                           /\ cameras'[c].status = cameras[c].status
    BY <2>1, <2>2
  <2> QED  BY <1>1, <2>1, <2>3 DEF ReadExists
<1>7. CASE \E c \in Cameras : Changes(c)
  BY <1>7, ChangedExists
<1>8. CASE Tick
  <2>1. \A c \in Cameras : cameras'[c].listed = cameras[c].listed /\ cameras'[c].status = cameras[c].status
    BY <1>0, <1>8 DEF Tick, Row
  <2>2. loop'.phase = loop.phase /\ loop'.read = loop.read /\ loop'.todo = loop.todo
    BY <1>0, <1>8 DEF Tick, LoopRow
  <2> QED  BY <1>1, <2>1, <2>2 DEF EInv, ReadExists
<1>9. CASE \E p \in Paths, state \in PathStates : PathChanges(p, state)
  BY <1>9 DEF PathChanges, EInv, ListedExists, Exists, ReadExists
<1> QED  BY <1>2, <1>3, <1>4, <1>5, <1>6, <1>7, <1>8, <1>9 DEF Next, Cycle, Environment

(* A step that inserts no event and brings no camera online or offline     *)
(* owes none.                                                              *)
LEMMA NothingToReport ==
    ASSUME alert' = NoAlert,
           \A c \in Cameras : \/ cameras'[c].status = cameras[c].status
                              \/ cameras'[c].status \in {"none", "pending", "disabled", "error"}
    PROVE  Reported
BY DEF Reported, SaysSo, SaidOf, ComesOut

LEMMA TransitReports ==
    ASSUME EInv, NEW c \in Cameras, Transit(c)
    PROVE  Reported
<1>1. /\ cameras \in [Cameras -> Row] /\ loop.read[c].enabled \in BOOLEAN
      /\ loop.age \in 0..Lifetime /\ Lifetime \in Nat
      /\ loop.read[c].status \in Statuses
  BY TypeFacts DEF EInv, DInv, IInv, LoopRow
<1>2. CASE ~StillAsRead(c)
  BY <1>2, NothingToReport DEF Transit
<1>3. CASE StillAsRead(c)
  <2>1. loop.phase = "writing" /\ c \in loop.todo /\ c \notin loop.changed
    BY <1>3 DEF Transit, First, StillAsRead
  <2>2. /\ c \notin loop.hidden => cameras[c].status = loop.read[c].status
        /\ NewStatus(c) # loop.read[c].status
    BY <2>1 DEF EInv, DInv, UnchangedIsRead, Unchanged, Transit
  <2>3. /\ cameras'[c].status = NewStatus(c)
        /\ cameras'[c].observed = TRUE /\ cameras'[c].left = Lifetime - loop.age
        /\ \A d \in Cameras \ {c} : cameras'[d] = cameras[d]
    BY <1>1, <1>3 DEF Transit, Observed, Remaining, Row
  <2>4. Fresh(cameras'[c]) \/ loop.age = Lifetime
    BY <1>1, <2>3 DEF Fresh
  <2>5. loop.read[c].status # "none"
    BY <2>1 DEF EInv, ReadExists
  <2>6. NewStatus(c) \in {"online", "offline", "disabled"}
    BY <1>1, NewStatusIsRead
  <2>7. CASE Alerts(c)
    <3>1. alert' = Emitted(c)
      BY <1>3, <2>7 DEF Transit
    <3>2. /\ alert'.camera = c /\ alert'.previous = loop.read[c].status
          /\ alert'.status = NewStatus(c)
      BY <3>1 DEF Emitted
    <3>3. alert'.status \in {"online", "offline"} /\ alert'.previous # "pending"
      BY <2>6, <2>7, <3>2 DEF Alerts
    <3>4. Announces(c)
      BY <2>2, <2>3, <2>4, <2>5, <3>2, <3>3 DEF Announces
    <3>5. alert' # NoAlert
      BY <3>3 DEF NoAlert
    <3>6. \A d \in Cameras \ {c} : ~ComesOut(d)
      BY <2>3 DEF ComesOut
    <3> QED  BY <2>2, <3>2, <3>4, <3>5, <3>6 DEF Reported, SaysSo, SaidOf
  <2>8. CASE ~Alerts(c)
    <3>1. alert' = NoAlert /\ (loop.read[c].status = "pending" \/ NewStatus(c) = "disabled")
      BY <1>3, <2>8 DEF Transit, Alerts
    <3>2. \A d \in Cameras \ loop.hidden : ~ComesOut(d)
      BY <2>2, <2>3, <3>1 DEF ComesOut
    <3> QED  BY <3>1, <3>2 DEF Reported, SaysSo, SaidOf
  <2> QED  BY <2>7, <2>8
<1> QED  BY <1>2, <1>3

LEMMA WriteReports ==
    ASSUME EInv, NEW c \in Cameras, Write(c)
    PROVE  Reported
<1>1. cameras \in [Cameras -> Row]
  BY TypeFacts DEF EInv, DInv, IInv
<1>2. CASE Confirm(c)
  <2>1. \A d \in Cameras : cameras'[d].status = cameras[d].status
    BY <1>1, <1>2 DEF Confirm, Observed, Row
  <2> QED  BY <1>2, <2>1, NothingToReport DEF Confirm, Silent
<1>3. CASE RejectTransit(c)
  BY <1>3, NothingToReport DEF RejectTransit, Silent
<1> QED  BY <1>2, <1>3, TransitReports DEF Write

(* Handlers and the worker never make a camera online or offline.          *)
LEMMA ChangesOweNothing ==
    ASSUME IInv, NEW c \in Cameras, Changes(c)
    PROVE  Reported
<1>0. cameras \in [Cameras -> Row]
  BY TypeFacts DEF IInv
<1>1. ASSUME NEW row, Change(c, row),
             row.status \in {cameras[c].status, "pending", "disabled", "error"}
      PROVE  Reported
  <2>1. cameras' = [cameras EXCEPT ![c] = row] /\ alert' = NoAlert
    BY <1>1 DEF Change, Silent
  <2>2. \A d \in Cameras : cameras'[d].status = cameras[d].status
                           \/ cameras'[d].status \in {"none", "pending", "disabled", "error"}
    BY <1>0, <1>1, <2>1
  <2> QED  BY <2>1, <2>2, NothingToReport
<1>2. ASSUME NEW enabled \in BOOLEAN, Report(c, enabled)
      PROVE  Reported
  <2> DEFINE known == [cameras[c] EXCEPT !.listed = TRUE, !.enabled = enabled,
                         !.status = IF enabled THEN @ ELSE "disabled",
                         !.left = IF cameras[c].enabled = enabled THEN @ ELSE 0]
             new   == [NoRow EXCEPT !.listed = TRUE, !.enabled = enabled, !.status = "pending"]
  <2>1. Change(c, IF Exists(cameras[c]) THEN known ELSE new)
    BY <1>2 DEF Report
  <2>2. known.status \in {cameras[c].status, "disabled"}
    BY <1>0 DEF Row
  <2>3. new.status = "pending"
    BY DEF NoRow
  <2> HIDE DEF known, new
  <2> QED  BY <1>1, <2>1, <2>2, <2>3
<1>3. CASE Rotate(c) \/ Remove(c)
  <2> DEFINE off  == [cameras[c] EXCEPT !.enabled = FALSE, !.status = "disabled"]
             gone == [cameras[c] EXCEPT !.listed = FALSE, !.enabled = FALSE, !.status = "disabled"]
  <2>1. Change(c, off) \/ Change(c, gone)
    BY <1>3 DEF Rotate, Remove
  <2>2. off.status = "disabled" /\ gone.status = "disabled"
    BY <1>0 DEF Row
  <2> HIDE DEF off, gone
  <2> QED  BY <1>1, <2>1, <2>2
<1>4. CASE Applied(c) \/ ApplyFails(c)
  <2> DEFINE done == [cameras[c] EXCEPT
                 !.status = IF cameras[c].listed /\ cameras[c].enabled THEN "pending" ELSE "disabled",
                 !.left = 0]
  <2>1. Change(c, done) \/ Change(c, FailedRow(cameras[c]))
    BY <1>4 DEF Applied, ApplyFails
  <2>2. done.status \in {"pending", "disabled"} /\ FailedRow(cameras[c]).status = "error"
    BY <1>0 DEF Row, FailedRow
  <2> HIDE DEF done
  <2> QED  BY <1>1, <2>1, <2>2
<1> QED  BY <1>2, <1>3, <1>4 DEF Changes

LEMMA EveryStepReports ==
    ASSUME EInv, Next
    PROVE  Reported
<1>0. cameras \in [Cameras -> Row]
  BY TypeFacts DEF EInv, DInv, IInv
<1>1. CASE \E c \in Cameras : Write(c)
  BY <1>1, WriteReports
<1>2. CASE Invalidate \/ Start
  <2>1. alert' = NoAlert /\ cameras' = Stale
    BY <1>2 DEF Invalidate, Start, Silent
  <2>2. \A c \in Cameras : Stale[c].status = cameras[c].status
    BY <1>0 DEF Stale, Row
  <2> QED  BY <2>1, <2>2, NothingToReport
<1>3. CASE Tick
  <2>1. alert' = NoAlert /\ \A c \in Cameras : cameras'[c].status = cameras[c].status
    BY <1>0, <1>3 DEF Tick, Row, Silent
  <2> QED  BY <2>1, NothingToReport
<1>4. CASE \E c \in Cameras : Changes(c)
  BY <1>4, ChangesOweNothing DEF EInv, DInv
<1>5. CASE StartObservation \/ FetchPage \/ SelectCameras \/ InventoryFails \/ CycleFails \/ Crash
           \/ \E p \in Paths, state \in PathStates : PathChanges(p, state)
  <2>1. alert' = NoAlert /\ cameras' = cameras
    BY <1>5 DEF StartObservation, FetchPage, SelectCameras, InventoryFails, CycleFails, Crash,
                PathChanges, Silent
  <2> QED  BY <2>1, NothingToReport
<1> QED  BY <1>1, <1>2, <1>3, <1>4, <1>5 DEF Next, Cycle, Environment

(* For any cameras and page size and however writers wait: an event says   *)
(* to which status a camera went, from which one that was known, and its   *)
(* row shows it as fresh; of a camera that no late writer changed since it *)
(* was read it names the status the row had, and persist_status_observation *)
(* records one whenever it comes out online or offline.                    *)
THEOREM EventsAreTrue == Spec => EventsTellTheTruth
<1>1. Init => EInv
  BY InitDerived DEF Init, EInv, ListedExists, ReadExists, NoRow, Rest
<1>2. EInv /\ [Next]_vars => EInv'
  BY ExistsInductive
<1>3. EInv /\ [Next]_vars =>
        [ /\ alert' # NoAlert =>
                /\ Announces(alert'.camera)
                /\ alert'.camera \notin loop.hidden => cameras[alert'.camera].status = alert'.previous
          /\ \A c \in Cameras \ loop.hidden :
                ComesOut(c) => alert' # NoAlert /\ alert'.camera = c ]_vars
  BY EveryStepReports DEF Reported, SaysSo, SaidOf
<1> QED  BY <1>1, <1>2, <1>3, PTL DEF Spec, EventsTellTheTruth

=============================================================================
