------------------------ MODULE DeviceCommandsProofs -------------------------
(***************************************************************************)
(* What TLAPS proves of DeviceCommands, for any number of commands and     *)
(* pairings and any times and limits that satisfy its assumptions.         *)
(***************************************************************************)
EXTENDS DeviceCommands, FiniteSetTheorems, TLAPS

-----------------------------------------------------------------------------
(* Types                                                                   *)

(* What the snapshot's steps and the passing of time make of a row is a    *)
(* row.                                                                    *)
LEMMA RowsStayRows ==
    ASSUME NEW row \in Row
    PROVE  /\ \A status \in Statuses : Finish(row, status) \in Row
           /\ EndPending(row) \in Row /\ Forget(row) \in Row /\ CleanUp(row) \in Row
           /\ \A lag \in 0..MaxWait : Expire(row, lag) \in Row /\ Hand(row, lag) \in Row
           /\ Age(row) \in Row /\ LongAgo(row) \in Row
<1>1. /\ MaxWait \in Nat /\ Lifetime \in Nat /\ Grace \in Nat /\ MaxPairings \in Nat
  BY TimesAssumption, LimitsAssumption
<1>2. 0 \in 0..MaxPairings /\ 0 \in Never..Oldest /\ Never \in Never..Oldest
      /\ -MaxWait \in -MaxWait..Lifetime /\ Oldest \in Never..Oldest
  BY <1>1 DEF Never, Oldest
<1>3. \A status \in Statuses : Finish(row, status) \in Row
  BY <1>2 DEF Finish, Row
<1>4. Forget(row) \in Row
  BY <1>2 DEF Forget, NoRow, Row, Statuses
<1>5. \A lag \in 0..MaxWait : Hand(row, lag) \in Row
  BY <1>1 DEF Hand, Row, Never, Oldest
<1>6. Earlier(row.ttl) \in -MaxWait..Lifetime /\ Older(row.sent) \in Never..Oldest
  BY <1>1 DEF Earlier, Older, Row, Never, Oldest
<1>7. Age(row) \in Row
  BY <1>6 DEF Age, Row
<1>8. LongAgo(row) \in Row
  BY <1>2 DEF LongAgo, Row
<1>9. QED
  BY <1>3, <1>4, <1>5, <1>7, <1>8 DEF EndPending, CleanUp, Expire, Statuses

(* The rows a snapshot settles are rows.                                   *)
LEMMA SettledAreRows ==
    ASSUME TypeOK, NEW reports,
           \A id \in snapshot.results : device[id] \in Outcomes
    PROVE  Settled(reports) \in [Ids -> Row]
<1>1. SUFFICES ASSUME NEW id \in Ids PROVE Settle(id) \in Row
  BY RowsStayRows DEF Settled
<1>2. rows[id] \in Row /\ snapshot.lag \in 0..MaxWait
  BY DEF TypeOK, Report
<1>3. Expire(rows[id], snapshot.lag) \in Row
  BY <1>2, RowsStayRows
<1>4. id \in snapshot.results => StatusOf(device[id]) \in Statuses
  BY DEF StatusOf, Outcomes, Statuses
<1>5. Apply(Expire(rows[id], snapshot.lag), id, snapshot.results) \in Row
  BY <1>3, <1>4, RowsStayRows DEF Apply
<1>6. QED
  BY <1>5, RowsStayRows DEF Settle

(* A snapshot reports only what the device has done.                       *)
ResultsAreDone == \A id \in snapshot.results : device[id] \in Outcomes

Typed == TypeOK /\ ResultsAreDone

LEMMA TypedInit == Init => Typed
<1>1. MaxWait \in Nat /\ Lifetime \in Nat /\ MaxPairings \in Nat /\ Grace \in Nat
  BY TimesAssumption, LimitsAssumption
<1>2. NoRow \in Row
  BY <1>1 DEF NoRow, Row, Statuses, Kinds, Never, Oldest
<1>3. NoPtz \in Request /\ NoSnapshot \in Report
  BY <1>1 DEF NoPtz, Request, NoSnapshot, Report, Kinds
<1>4. QED
  BY <1>1, <1>2, <1>3 DEF Init, Typed, TypeOK, ResultsAreDone, NoSnapshot

LEMMA TypedNext == Typed /\ [Next]_vars => Typed'
<1> SUFFICES ASSUME Typed, [Next]_vars PROVE Typed'
  OBVIOUS
<1> USE DEF Typed
<1>0. /\ MaxWait \in Nat /\ Lifetime \in Nat /\ MaxPairings \in Nat /\ Grace \in Nat
      /\ MaxWait < Lifetime
  BY TimesAssumption, LimitsAssumption
<1>a. NoPtz \in Request /\ NoSnapshot \in Report
  BY <1>0 DEF NoPtz, Request, NoSnapshot, Report, Kinds
<1>1. ASSUME NEW kind \in Kinds, PtzChecks(kind) PROVE Typed'
  BY <1>0, <1>1 DEF PtzChecks, TypeOK, ResultsAreDone, Request
<1>2. ASSUME NEW id \in Ids, PtzInserts(id) PROVE Typed'
  <2>1. CleanRows \in [Ids -> Row]
    BY RowsStayRows DEF CleanRows, TypeOK
  <2>2. Lifetime - ptz.lag \in -MaxWait..Lifetime /\ Never \in Never..Oldest
    BY <1>0 DEF TypeOK, Request, Never, Oldest
  <2>3. [status |-> "pending", kind |-> ptz.kind, pairing |-> ptz.pairing,
         ttl |-> Lifetime - ptz.lag, sent |-> Never, old |-> FALSE] \in Row
    BY <2>2 DEF TypeOK, Request, Row, Statuses
  <2>4. rows' \in [Ids -> Row]
    BY <1>2, <2>1, <2>3 DEF PtzInserts
  <2>5. QED
    BY <1>2, <1>a, <2>4 DEF PtzInserts, TypeOK, ResultsAreDone
<1>3. CASE PtzFails
  BY <1>3, <1>a DEF PtzFails, TypeOK, ResultsAreDone
<1>4. CASE Pair
  BY <1>4, <1>0 DEF Pair, TypeOK, ResultsAreDone
<1>5. EndAll \in [Ids -> Row]
  BY RowsStayRows DEF EndAll, TypeOK
<1>6. CASE RotateAuthorization
  BY <1>5, <1>6 DEF RotateAuthorization, TypeOK, ResultsAreDone
<1>7. CASE RevokeClient
  BY <1>5, <1>7 DEF RevokeClient, TypeOK, ResultsAreDone
<1>8. CASE PurgeClient
  BY <1>8, RowsStayRows DEF PurgeClient, TypeOK, ResultsAreDone
<1>9. ASSUME NEW results \in SUBSET Ids, SnapshotStarts(results) PROVE Typed'
  BY <1>0, <1>9 DEF SnapshotStarts, TypeOK, ResultsAreDone, Report
<1>10. CASE Commits
  <2>1. PICK reports \in {"hidden", "shown", "online"}, capacity \in Capacities,
             arrives \in BOOLEAN : SnapshotCommits(reports, capacity, arrives)
    BY <1>10 DEF Commits
  <2>2. Settled(reports) \in [Ids -> Row]
    BY SettledAreRows DEF ResultsAreDone
  <2>3. \A id \in Ids : Hand(Settled(reports)[id], snapshot.lag) \in Row
    BY <2>2, RowsStayRows DEF TypeOK, Report
  <2>4. rows' \in [Ids -> Row]
    BY <2>1, <2>2, <2>3 DEF SnapshotCommits
  <2>5. device' \in [Ids -> {"unaware", "held"} \cup Outcomes]
    BY <2>1 DEF SnapshotCommits, TypeOK
  <2>6. QED
    BY <2>1, <2>4, <2>5, <1>a DEF SnapshotCommits, TypeOK, ResultsAreDone, NoSnapshot
<1>11. CASE SnapshotFails
  BY <1>11, <1>a DEF SnapshotFails, TypeOK, ResultsAreDone, NoSnapshot
<1>12. ASSUME NEW id \in Ids, NEW outcome \in Outcomes, DeviceActs(id, outcome) PROVE Typed'
  BY <1>12 DEF DeviceActs, TypeOK, ResultsAreDone, Report
<1>13. CASE Tick
  <2>1. rows' \in [Ids -> Row]
    BY <1>13, RowsStayRows DEF Tick, TypeOK
  <2>2. ptz' \in Request
    <3>1. CASE PtzWaits
      <4>1. ptz.lag + 1 \in 0..MaxWait
        BY <1>13, <3>1, <1>0 DEF Tick, TypeOK, Request
      <4>2. ptz' = [ptz EXCEPT !.lag = @ + 1]
        BY <1>13, <3>1 DEF Tick
      <4>3. QED
        BY <4>1, <4>2 DEF TypeOK, Request
    <3>2. CASE ~PtzWaits
      BY <1>13, <3>2 DEF Tick, TypeOK
    <3>3. QED
      BY <3>1, <3>2
  <2>4. snapshot' \in Report
    <3>1. CASE SnapshotWaits
      <4>1. snapshot.lag + 1 \in 0..MaxWait
        BY <1>13, <3>1, <1>0 DEF Tick, TypeOK, Report
      <4>2. snapshot' = [snapshot EXCEPT !.lag = @ + 1]
        BY <1>13, <3>1 DEF Tick
      <4>3. QED
        BY <4>1, <4>2 DEF TypeOK, Report
    <3>2. CASE ~SnapshotWaits
      BY <1>13, <3>2 DEF Tick, TypeOK
    <3>3. QED
      BY <3>1, <3>2
  <2>3. snapshot'.results = snapshot.results
    BY <1>13 DEF Tick, TypeOK, Report
  <2>5. QED
    BY <1>13, <2>1, <2>2, <2>3, <2>4 DEF Tick, TypeOK, ResultsAreDone
<1>14. CASE DayPasses
  BY <1>14, RowsStayRows DEF DayPasses, TypeOK, ResultsAreDone
<1>15. CASE ClientGoesQuiet
  BY <1>15 DEF ClientGoesQuiet, TypeOK, ResultsAreDone
<1>16. CASE UNCHANGED vars
  BY <1>16 DEF vars, TypeOK, ResultsAreDone
<1>17. QED
  BY <1>1, <1>2, <1>3, <1>4, <1>6, <1>7, <1>8, <1>9, <1>10, <1>11, <1>12, <1>13, <1>14, <1>15, <1>16
     DEF Next, Handler, Snapshot, Environment

(* Rows, handlers and what the device did keep their shape; a snapshot     *)
(* reports only results the device has.                                    *)
THEOREM CommandsTyped == Spec => []TypeOK
<1>1. Typed => TypeOK
  BY DEF Typed
<1>2. QED
  BY TypedInit, TypedNext, <1>1, PTL DEF Spec

-----------------------------------------------------------------------------
(* Receipts                                                                *)

(* The answer, status by status.                                           *)
LEMMA Answers ==
    ASSUME NEW row
    PROVE  /\ row.status = "pending" /\ row.sent = Never =>
                 Receipt(row) = IF row.ttl <= 0 THEN "expired" ELSE "queued"
           /\ row.status = "pending" /\ row.sent # Never =>
                 Receipt(row) = IF row.sent >= Grace THEN "unconfirmed" ELSE "awaiting_result"
           /\ row.status = "expired" =>
                 Receipt(row) = IF row.sent = Never THEN "expired" ELSE "unconfirmed"
           /\ row.status \in {"succeeded", "failed"} => Receipt(row) = row.status
           /\ row.status \in {"none", "deleted"} => Receipt(row) = "not_found"
  BY DEF Receipt, Pending

(* What keeps a final receipt: the same answer, or none once it is gone.   *)
Keeps(row, next) == Receipt(row) \in Final => Receipt(next) \in {Receipt(row), "not_found"}

(* What a snapshot's clock already showed as final is overdue for it.      *)
LEMMA FinalIsOverdue ==
    ASSUME NEW row \in Row, NEW lag \in 0..MaxWait, Pending(row), Receipt(Before(row, lag)) \in Final
    PROVE  Overdue(row, lag)
<1> DEFINE sent == IF row.sent = Never THEN Never ELSE IF row.sent > lag THEN row.sent - lag ELSE 0
<1>1. row.sent \in Int /\ row.ttl \in Int /\ lag \in Nat /\ Grace \in Nat /\ Grace > 0
  BY TimesAssumption DEF Row, Never, Oldest
<1>2. Before(row, lag) = [row EXCEPT !.ttl = row.ttl + lag, !.sent = sent]
  BY DEF Before
<1> HIDE DEF sent
<1>3. /\ Before(row, lag).status = "pending" /\ Before(row, lag).sent = sent
      /\ Before(row, lag).ttl = row.ttl + lag
  BY <1>2 DEF Row, Pending
<1>4. CASE row.sent = Never
  <2>1. sent = Never
    BY <1>4 DEF sent
  <2>2. Receipt(Before(row, lag)) = IF row.ttl + lag <= 0 THEN "expired" ELSE "queued"
    BY <1>3, <2>1, Answers
  <2> QED  BY <1>4, <2>2 DEF Final, Overdue
<1>5. CASE row.sent # Never
  <2>1. sent = IF row.sent > lag THEN row.sent - lag ELSE 0
    BY <1>5 DEF sent
  <2>2. sent # Never
    BY <1>1, <2>1 DEF Never
  <2>3. Receipt(Before(row, lag)) = IF sent >= Grace THEN "unconfirmed" ELSE "awaiting_result"
    BY <1>3, <2>2, Answers
  <2>4. sent >= Grace
    BY <2>3 DEF Final
  <2>5. row.sent - lag >= Grace
    BY <1>1, <2>1, <2>4
  <2> QED  BY <1>5, <2>5 DEF Overdue
<1> QED  BY <1>4, <1>5

(* However long a snapshot waited for the lock: none of its steps, and     *)
(* nothing that ends a command from outside, changes what was final when   *)
(* it read the clock.                                                      *)
LEMMA SettlingKeeps ==
    ASSUME TypeOK, NEW id \in Ids, NEW reports,
           Receipt(rows[id]) \in Final, Receipt(Before(rows[id], snapshot.lag)) \in Final
    PROVE  /\ Receipt(Settled(reports)[id]) \in {Receipt(rows[id]), "not_found"}
           /\ ~Pending(Settled(reports)[id])
<1> DEFINE row == rows[id]
           first == Expire(row, snapshot.lag)
           second == Apply(first, id, snapshot.results)
<1>1. row \in Row /\ snapshot.lag \in 0..MaxWait /\ Grace \in Nat
  BY TimesAssumption DEF TypeOK, Report
<1>2. row.sent \in Int /\ row.ttl \in Int /\ row.status \in Statuses
  BY <1>1, TimesAssumption DEF Row, Never, Oldest
<1>3. Receipt(first) = Receipt(row) /\ ~Pending(first)
  <2>1. CASE Pending(row)
    <3>1. Overdue(row, snapshot.lag)
      BY <1>1, <2>1, FinalIsOverdue
    <3>2. first = Finish(row, "expired")
      BY <3>1 DEF Expire
    <3>3. first.status = "expired" /\ (first.sent = Never <=> row.sent = Never)
      BY <3>2, <1>1 DEF Finish, Row, Never
    <3>4. QED
      <4>1. Receipt(first) = IF row.sent = Never THEN "expired" ELSE "unconfirmed"
        BY <3>3, Answers
      <4>2. Receipt(row) = IF row.sent = Never THEN "expired" ELSE "unconfirmed"
        BY <2>1, <1>2, Answers DEF Pending, Final
      <4>3. QED
        BY <4>1, <4>2, <3>3 DEF Pending
  <2>2. CASE ~Pending(row)
    BY <2>2, <1>1 DEF Expire, Overdue
  <2>3. QED
    BY <2>1, <2>2
<1>4. second = first
  BY <1>3 DEF Apply
<1>5. Receipt(CleanUp(second)) \in {Receipt(row), "not_found"} /\ ~Pending(CleanUp(second))
  <2>1. Receipt(Forget(second)) = "not_found" /\ ~Pending(Forget(second))
    BY DEF Forget, NoRow, Receipt, Pending
  <2>2. QED
    BY <1>3, <1>4, <2>1 DEF CleanUp
<1>6. Settle(id) = CleanUp(second)
  BY DEF Settle
<1>7. EndPending(Settle(id)) = Settle(id)
  BY <1>5, <1>6 DEF EndPending
<1>8. Settled(reports)[id] = Settle(id)
  BY <1>7 DEF Settled
<1>9. QED
  BY <1>5, <1>6, <1>8

(* Ending, deleting and ageing a row keeps its receipt too.                *)
LEMMA EndingKeeps ==
    ASSUME NEW row \in Row
    PROVE  /\ Keeps(row, row) /\ Keeps(row, EndPending(row)) /\ Keeps(row, Forget(row))
           /\ Keeps(row, CleanUp(row)) /\ Keeps(row, Age(row)) /\ Keeps(row, LongAgo(row))
<1>1. /\ row.sent \in Never..Oldest /\ row.ttl \in -MaxWait..Lifetime /\ row.status \in Statuses
      /\ MaxWait \in Nat /\ Grace \in Nat /\ Lifetime \in Nat /\ Oldest \in Nat /\ Oldest >= Grace
  BY TimesAssumption DEF Row, Oldest
<1>2. Receipt(Forget(row)) = "not_found"
  BY DEF Forget, NoRow, Receipt, Pending
<1>3. Keeps(row, EndPending(row))
  <2>1. CASE Pending(row) /\ Receipt(row) \in Final
    <3>1. /\ EndPending(row).status = "expired"
          /\ EndPending(row).sent = Never <=> row.sent = Never
      BY <2>1 DEF EndPending, Finish, Row, Never
    <3>2. QED
      <4>1. Receipt(EndPending(row)) = IF row.sent = Never THEN "expired" ELSE "unconfirmed"
        BY <3>1, Answers
      <4>2. Receipt(row) = IF row.sent = Never THEN "expired" ELSE "unconfirmed"
        BY <2>1, <1>1, Answers DEF Pending, Final
      <4>3. QED
        BY <4>1, <4>2 DEF Keeps
  <2>2. CASE ~(Pending(row) /\ Receipt(row) \in Final)
    BY <2>2 DEF EndPending, Keeps
  <2>3. QED
    BY <2>1, <2>2
<1>4. Keeps(row, CleanUp(row))
  BY <1>2 DEF CleanUp, Keeps
<1>5. Keeps(row, Age(row))
  <2>1. /\ Age(row).status = row.status
        /\ Age(row).ttl <= row.ttl /\ Age(row).ttl \in Int
        /\ Age(row).sent = Never <=> row.sent = Never
        /\ row.sent # Never => Age(row).sent \in Nat /\ Age(row).sent >= row.sent
        /\ ~Pending(row) => Age(row).sent = row.sent
    BY <1>1 DEF Age, Row, Earlier, Older, Never
  <2>2. CASE Pending(row)
    <3>1. row.sent = Never => Keeps(row, Age(row))
      BY <2>1, <2>2, <1>1, Answers DEF Keeps, Pending, Final
    <3>2. row.sent # Never => Keeps(row, Age(row))
      BY <2>1, <2>2, <1>1, Answers DEF Keeps, Pending, Final, Never
    <3>3. QED
      BY <3>1, <3>2
  <2>3. CASE ~Pending(row)
    <3>1. row.status \in {"none", "deleted", "succeeded", "failed", "expired"}
      BY <2>3, <1>1 DEF Pending, Statuses
    <3>2. Receipt(Age(row)) = Receipt(row)
      BY <2>1, <2>3, <3>1, Answers
    <3>3. QED
      BY <3>2 DEF Keeps
  <2>4. QED
    BY <2>2, <2>3
<1>6. Keeps(row, LongAgo(row))
  <2>1. CASE Pending(row)
    <3>1. LongAgo(row) = [row EXCEPT !.ttl = -MaxWait,
                                     !.sent = IF row.sent = Never THEN Never ELSE Oldest]
      BY <2>1 DEF LongAgo, Finished, Pending
    <3>2. /\ LongAgo(row).status = "pending" /\ LongAgo(row).ttl <= 0
          /\ LongAgo(row).sent = IF row.sent = Never THEN Never ELSE Oldest
      <4>1. LongAgo(row).status = row.status
        BY <3>1 DEF Row
      <4>2. LongAgo(row).ttl = -MaxWait
        BY <3>1 DEF Row
      <4>3. LongAgo(row).sent = IF row.sent = Never THEN Never ELSE Oldest
        BY <3>1 DEF Row
      <4>4. -MaxWait <= 0
        BY <1>1
      <4>5. QED
        BY <4>1, <4>2, <4>3, <4>4, <2>1, <1>1 DEF Pending
    <3>3. row.sent = Never => Keeps(row, LongAgo(row))
      BY <3>2, <2>1, <1>1, Answers DEF Keeps, Pending, Final
    <3>4. row.sent # Never => Keeps(row, LongAgo(row))
      BY <3>2, <2>1, <1>1, Answers DEF Keeps, Pending, Final, Never
    <3>5. QED
      BY <3>3, <3>4
  <2>2. CASE ~Pending(row)
    <3>1. row.status \in {"none", "deleted", "succeeded", "failed", "expired"}
      BY <2>2, <1>1 DEF Pending, Statuses
    <3>2. LongAgo(row).status = row.status /\ LongAgo(row).sent = row.sent
      BY <2>2, <3>1, <1>1 DEF LongAgo, Finished, Pending, Row
    <3>3. Receipt(LongAgo(row)) = Receipt(row)
      BY <3>1, <3>2, Answers
    <3>4. QED
      BY <3>3 DEF Keeps
  <2>3. QED
    BY <2>1, <2>2
<1>7. Keeps(row, row) /\ Keeps(row, Forget(row))
  BY <1>2 DEF Keeps
<1>8. QED
  BY <1>3, <1>4, <1>5, <1>6, <1>7

LEMMA EveryStepKeeps ==
    ASSUME TypeOK, [Next]_vars, NEW id \in Ids,
           Commits => Receipt(Before(rows[id], snapshot.lag)) \in Final
    PROVE  Keeps(rows[id], rows'[id])
<1>0. rows[id] \in Row
  BY DEF TypeOK
<1>1. ASSUME UNCHANGED rows PROVE Keeps(rows[id], rows'[id])
  BY <1>0, <1>1, EndingKeeps
<1>2. ASSUME NEW new \in Ids, PtzInserts(new) PROVE Keeps(rows[id], rows'[id])
  <2>1. CASE id = new
    BY <1>2, <2>1 DEF PtzInserts, NextId, Unused, Keeps, Receipt, Pending, Final
  <2>2. CASE id # new
    <3>1. rows'[id] = CleanUp(rows[id])
      BY <1>2, <2>2 DEF PtzInserts, CleanRows
    <3>2. QED
      BY <3>1, <1>0, EndingKeeps
  <2>3. QED
    BY <2>1, <2>2
<1>3. CASE RotateAuthorization \/ RevokeClient
  <2>1. rows'[id] = EndPending(rows[id])
    BY <1>3 DEF RotateAuthorization, RevokeClient, EndAll
  <2>2. QED
    BY <2>1, <1>0, EndingKeeps
<1>4. CASE PurgeClient
  <2>1. rows'[id] \in {Forget(rows[id]), rows[id]}
    BY <1>4 DEF PurgeClient
  <2>2. QED
    BY <2>1, <1>0, EndingKeeps
<1>5. CASE Commits
  <2>1. SUFFICES ASSUME Receipt(rows[id]) \in Final
                 PROVE  Receipt(rows'[id]) \in {Receipt(rows[id]), "not_found"}
    BY DEF Keeps
  <2>2. PICK reports \in {"hidden", "shown", "online"}, capacity \in Capacities,
             arrives \in BOOLEAN : SnapshotCommits(reports, capacity, arrives)
    BY <1>5 DEF Commits
  <2>3. PICK batch \in Batches(Settled(reports), capacity) :
             rows' = [i \in Ids |-> IF i \in batch THEN Hand(Settled(reports)[i], snapshot.lag)
                                     ELSE Settled(reports)[i]]
    BY <2>2 DEF SnapshotCommits
  <2>4. /\ Receipt(Settled(reports)[id]) \in {Receipt(rows[id]), "not_found"}
        /\ ~Pending(Settled(reports)[id])
    BY <1>5, <2>1, SettlingKeeps
  <2>5. id \notin batch
    BY <2>3, <2>4 DEF Batches, Due
  <2>6. QED
    BY <2>3, <2>4, <2>5
<1>6. CASE Tick
  <2>1. rows'[id] = Age(rows[id])
    BY <1>6 DEF Tick
  <2>2. QED
    BY <2>1, <1>0, EndingKeeps
<1>7. CASE DayPasses
  <2>1. rows'[id] = LongAgo(rows[id])
    BY <1>7 DEF DayPasses
  <2>2. QED
    BY <2>1, <1>0, EndingKeeps
<1>8. QED
  BY <1>1, <1>2, <1>3, <1>4, <1>5, <1>6, <1>7
     DEF Next, Handler, Snapshot, Environment, vars, PtzChecks, PtzFails, Pair, SnapshotStarts,
         SnapshotFails, DeviceActs, ClientGoesQuiet

(* For any number of commands and any times, however long transactions     *)
(* wait for the lock: a receipt that device_command_status showed as final *)
(* stays so until the row is deleted; a snapshot may only take back what   *)
(* became final after it read its clock.                                   *)
THEOREM ReceiptsAreFinal == Spec => ReceiptIsFinal
<1>1. Commits => SnapshotWaits /\ snapshot' = NoSnapshot
  BY DEF Commits, SnapshotCommits, Acceptable
<1>2. ASSUME TypeOK, [Next]_vars
      PROVE  [\A id \in Ids :
                /\ Receipt(rows[id]) \in Final
                /\ SnapshotWaits /\ snapshot' = NoSnapshot
                      => Receipt(Before(rows[id], snapshot.lag)) \in Final
                => Receipt(rows'[id]) \in {Receipt(rows[id]), "not_found"}]_vars
  BY <1>1, <1>2, EveryStepKeeps DEF Keeps
<1>3. QED
  BY <1>2, CommandsTyped, PTL DEF Spec, ReceiptIsFinal

-----------------------------------------------------------------------------
(* Truth of the answers                                                    *)

(* What is recorded of a command agrees with what the device made of it: a *)
(* command that was never handed out is unknown to the device, and a       *)
(* result is the device's own.                                             *)
Agrees(row, did) ==
    /\ row.status = "none" => did = "unaware"
    /\ row.status # "deleted" /\ row.sent = Never => did = "unaware"
    /\ row.status \in {"succeeded", "failed"} => row.sent # Never /\ did = row.status

RowsAgree == \A id \in Ids : Agrees(rows[id], device[id])

LEMMA EndingAgrees ==
    ASSUME NEW row \in Row, NEW did, Agrees(row, did)
    PROVE  /\ Agrees(EndPending(row), did) /\ Agrees(Forget(row), did) /\ Agrees(CleanUp(row), did)
           /\ Agrees(Age(row), did) /\ Agrees(LongAgo(row), did)
           /\ \A lag \in 0..MaxWait : Agrees(Expire(row, lag), did)
<1>1. Grace \in Nat /\ MaxWait \in Nat /\ row.sent \in Int /\ row.status \in Statuses
  BY TimesAssumption DEF Row, Never, Oldest
<1>2. Agrees(Finish(row, "expired"), did) \/ ~Pending(row)
  <2>1. Finish(row, "expired").status = "expired"
        /\ (Finish(row, "expired").sent = Never <=> row.sent = Never)
    BY <1>1 DEF Finish, Row, Never
  <2>2. QED
    BY <2>1 DEF Agrees, Pending
<1>3. Agrees(EndPending(row), did) /\ \A lag \in 0..MaxWait : Agrees(Expire(row, lag), did)
  BY <1>2 DEF EndPending, Expire, Overdue
<1>4. Agrees(Forget(row), did)
  BY DEF Agrees, Forget, NoRow
<1>5. Agrees(CleanUp(row), did)
  BY <1>4 DEF CleanUp
<1>6. Agrees(Age(row), did)
  <2>1. Age(row).status = row.status
    BY DEF Age, Row
  <2>2. Age(row).sent = Never <=> row.sent = Never
    BY <1>1 DEF Age, Row, Older, Never
  <2>3. QED
    BY <2>1, <2>2 DEF Agrees
<1>7. Agrees(LongAgo(row), did)
  <2>1. LongAgo(row).status = row.status
    BY DEF LongAgo, Row
  <2>2. LongAgo(row).sent = Never <=> row.sent = Never
    <3>1. Oldest # Never
      BY <1>1 DEF Oldest, Never
    <3>2. CASE row.status \in Finished
      BY <3>2 DEF LongAgo, Row, Finished, Pending
    <3>3. CASE Pending(row)
      <4>1. LongAgo(row).sent = IF row.sent = Never THEN Never ELSE Oldest
        BY <3>3 DEF LongAgo, Row, Pending, Finished
      <4>2. QED
        BY <4>1, <3>1
    <3>4. CASE row.status \notin Finished /\ ~Pending(row)
      BY <3>4 DEF LongAgo, Row
    <3>5. QED
      BY <3>2, <3>3, <3>4
  <2>3. QED
    BY <2>1, <2>2 DEF Agrees
<1>8. QED
  BY <1>3, <1>4, <1>5, <1>6, <1>7

(* A snapshot's results are recorded as the device reported them.          *)
LEMMA SettlingAgrees ==
    ASSUME Typed, RowsAgree, NEW reports, NEW id \in Ids
    PROVE  Agrees(Settled(reports)[id], device[id])
<1> DEFINE first == Expire(rows[id], snapshot.lag)
           second == Apply(first, id, snapshot.results)
<1>1. rows[id] \in Row /\ snapshot.lag \in 0..MaxWait /\ Agrees(rows[id], device[id])
  BY DEF Typed, TypeOK, Report, RowsAgree
<1>2. first \in Row /\ Agrees(first, device[id])
  BY <1>1, RowsStayRows, EndingAgrees
<1>3. second \in Row /\ Agrees(second, device[id])
  <2>1. CASE id \in snapshot.results /\ Pending(first) /\ first.sent # Never
    <3>1. device[id] \in Outcomes /\ StatusOf(device[id]) \in Statuses
      BY <2>1 DEF Typed, ResultsAreDone, StatusOf, Outcomes, Statuses
    <3>2. second = Finish(first, StatusOf(device[id])) /\ second \in Row
      BY <2>1, <3>1, <1>2, RowsStayRows DEF Apply
    <3>3. second.status = StatusOf(device[id]) /\ second.sent = 0
      BY <3>2, <2>1, <1>2 DEF Finish, Row
    <3>4. QED
      BY <3>1, <3>2, <3>3 DEF Agrees, StatusOf, Outcomes, Never
  <2>2. CASE ~(id \in snapshot.results /\ Pending(first) /\ first.sent # Never)
    BY <2>2, <1>2 DEF Apply
  <2>3. QED
    BY <2>1, <2>2
<1>4. Settle(id) \in Row /\ Agrees(Settle(id), device[id])
  BY <1>3, RowsStayRows, EndingAgrees DEF Settle
<1>5. QED
  BY <1>4, EndingAgrees DEF Settled

LEMMA AgreeInit == Init => RowsAgree
  BY DEF Init, RowsAgree, Agrees, NoRow

LEMMA AgreeNext == Typed /\ RowsAgree /\ [Next]_vars => RowsAgree'
<1> SUFFICES ASSUME Typed, RowsAgree, [Next]_vars PROVE RowsAgree'
  OBVIOUS
<1>0. \A id \in Ids : rows[id] \in Row /\ Agrees(rows[id], device[id])
  BY DEF Typed, TypeOK, RowsAgree
<1>1. ASSUME UNCHANGED <<rows, device>> PROVE RowsAgree'
  BY <1>0, <1>1 DEF RowsAgree
<1>2. ASSUME NEW new \in Ids, PtzInserts(new) PROVE RowsAgree'
  <2>1. SUFFICES ASSUME NEW id \in Ids PROVE Agrees(rows'[id], device[id])
    BY <1>2 DEF PtzInserts, RowsAgree
  <2>2. CASE id = new
    <3>1. rows'[id].status = "pending"
      BY <1>2, <2>2 DEF PtzInserts, CleanRows
    <3>2. device[id] = "unaware"
      BY <1>0, <1>2, <2>2 DEF Agrees, PtzInserts, NextId, Unused
    <3>3. QED
      BY <3>1, <3>2 DEF Agrees
  <2>3. CASE id # new
    <3>1. rows'[id] = CleanUp(rows[id])
      BY <1>2, <2>3 DEF PtzInserts, CleanRows
    <3>2. QED
      BY <3>1, <1>0, EndingAgrees
  <2>4. QED
    BY <2>2, <2>3
<1>3. CASE RotateAuthorization \/ RevokeClient
  BY <1>0, <1>3, EndingAgrees DEF RotateAuthorization, RevokeClient, EndAll, RowsAgree
<1>4. CASE PurgeClient
  BY <1>0, <1>4, EndingAgrees DEF PurgeClient, RowsAgree
<1>5. CASE Commits
  <2>1. PICK reports \in {"hidden", "shown", "online"}, capacity \in Capacities,
             arrives \in BOOLEAN : SnapshotCommits(reports, capacity, arrives)
    BY <1>5 DEF Commits
  <2>2. PICK batch \in Batches(Settled(reports), capacity) :
           /\ rows' = [i \in Ids |-> IF i \in batch THEN Hand(Settled(reports)[i], snapshot.lag)
                                     ELSE Settled(reports)[i]]
           /\ device' = [i \in Ids |-> IF arrives /\ i \in batch /\ device[i] = "unaware"
                                       THEN "held" ELSE device[i]]
    BY <2>1 DEF SnapshotCommits
  <2>3. SUFFICES ASSUME NEW id \in Ids PROVE Agrees(rows'[id], device'[id])
    BY DEF RowsAgree
  <2>4. /\ Agrees(Settled(reports)[id], device[id]) /\ Settled(reports)[id] \in Row
        /\ snapshot.lag \in 0..MaxWait
    BY SettlingAgrees, SettledAreRows DEF Typed, ResultsAreDone, TypeOK, Report
  <2>5. CASE id \in batch
    <3>1. Pending(Settled(reports)[id])
      BY <2>2, <2>5 DEF Batches, Due
    <3>2. rows'[id].status = "pending" /\ rows'[id].sent # Never
      BY <2>2, <2>4, <2>5, <3>1, TimesAssumption DEF Hand, Row, Pending, Never
    <3>3. QED
      BY <3>2 DEF Agrees
  <2>6. CASE id \notin batch
    BY <2>2, <2>4, <2>6
  <2>7. QED
    BY <2>5, <2>6
<1>6. ASSUME NEW done \in Ids, NEW outcome \in Outcomes, DeviceActs(done, outcome)
      PROVE  RowsAgree'
  BY <1>0, <1>6 DEF DeviceActs, RowsAgree, Agrees, Typed, TypeOK
<1>7. CASE Tick
  BY <1>0, <1>7, EndingAgrees DEF Tick, RowsAgree
<1>8. CASE DayPasses
  BY <1>0, <1>8, EndingAgrees DEF DayPasses, RowsAgree
<1>9. QED
  BY <1>1, <1>2, <1>3, <1>4, <1>5, <1>6, <1>7, <1>8
     DEF Next, Handler, Snapshot, Environment, vars, PtzChecks, PtzFails, Pair, SnapshotStarts,
         SnapshotFails, ClientGoesQuiet

(* Whatever answers are lost and however long handlers wait for the lock,  *)
(* a command reported as done was done so, and one that is queued or       *)
(* reported as expired before delivery never reached the device.           *)
THEOREM AnswersTrue == Spec => []AnswersAreTrue
<1>1. Typed /\ RowsAgree => AnswersAreTrue
  <2> SUFFICES ASSUME Typed, RowsAgree, NEW id \in Ids
               PROVE  /\ Receipt(rows[id]) \in {"succeeded", "failed"}
                            => device[id] = Receipt(rows[id])
                      /\ Receipt(rows[id]) \in {"queued", "expired"} => device[id] = "unaware"
    BY DEF AnswersAreTrue
  <2>1. rows[id].status \in Statuses /\ Agrees(rows[id], device[id])
    BY DEF Typed, TypeOK, Row, RowsAgree
  <2>2. QED
    BY <2>1, Answers DEF Agrees, Statuses
<1>2. QED
  BY <1>1, TypedInit, TypedNext, AgreeInit, AgreeNext, PTL DEF Spec

-----------------------------------------------------------------------------
(* Limits                                                                  *)

(* Subsets of the commands are finite, and smaller ones have fewer.        *)
LEMMA Counting ==
    /\ IsFiniteSet(Ids)
    /\ \A S, T : S \subseteq T /\ T \subseteq Ids =>
          /\ IsFiniteSet(S) /\ Cardinality(S) \in Nat /\ Cardinality(S) <= Cardinality(T)
          /\ \A id \in Ids : Cardinality(S \cup {id}) <= Cardinality(T) + 1
<1>1. IsFiniteSet(Ids)
  BY FS_Interval, LimitsAssumption DEF Ids
<1>2. SUFFICES ASSUME NEW S, NEW T, S \subseteq T, T \subseteq Ids
               PROVE  /\ IsFiniteSet(S) /\ Cardinality(S) \in Nat
                      /\ Cardinality(S) <= Cardinality(T)
                      /\ \A id \in Ids : Cardinality(S \cup {id}) <= Cardinality(T) + 1
  BY <1>1
<1>3. IsFiniteSet(T) /\ IsFiniteSet(S)
  BY <1>1, <1>2, FS_Subset
<1>4. Cardinality(S) \in Nat /\ Cardinality(T) \in Nat /\ Cardinality(S) <= Cardinality(T)
  BY <1>2, <1>3, FS_CardinalityType, FS_Subset
<1>5. \A id \in Ids : Cardinality(S \cup {id}) <= Cardinality(S) + 1
  <2>1. TAKE id \in Ids
  <2>2. Cardinality(S \cup {id}) \in {Cardinality(S), Cardinality(S) + 1}
    BY <1>3, FS_AddElement
  <2>3. QED
    BY <2>2, <1>4
<1>6. \A id \in Ids : IsFiniteSet(S \cup {id}) /\ Cardinality(S \cup {id}) \in Nat
  BY <1>3, FS_AddElement, FS_CardinalityType
<1>7. QED
  BY <1>3, <1>4, <1>5, <1>6

(* The commands of each kind the limits speak of.                          *)
ExistingIds == {id \in Ids : Exists(rows[id])}
PendingIds  == {id \in Ids : Pending(rows[id])}
MovingIds   == {id \in Ids : PendingMove(rows[id])}

LEMMA LimitsMeaning ==
    AdmissionLimits <=> /\ Cardinality(ExistingIds) <= OwnLimit
                        /\ Cardinality(PendingIds) <= PendingLimit
                        /\ Cardinality(MovingIds) <= PendingLimit - 1
  BY DEF AdmissionLimits, Count, ExistingIds, PendingIds, MovingIds

(* A step after which a row exists, waits or is a waiting move only if it  *)
(* did before.                                                             *)
Shrinks(row, next) ==
    /\ Exists(next) => Exists(row)
    /\ Pending(next) => Pending(row)
    /\ PendingMove(next) => PendingMove(row)

LEMMA EndingShrinks ==
    ASSUME NEW row \in Row
    PROVE  /\ Shrinks(row, EndPending(row)) /\ Shrinks(row, Forget(row))
           /\ Shrinks(row, CleanUp(row)) /\ Shrinks(row, Age(row)) /\ Shrinks(row, LongAgo(row))
           /\ \A lag \in 0..MaxWait : Shrinks(row, Expire(row, lag)) /\ Shrinks(row, Hand(row, lag))
           /\ \A status \in {"succeeded", "failed", "expired"} :
                 Pending(row) => Shrinks(row, Finish(row, status))
<1>1. \A status \in {"succeeded", "failed", "expired"} :
         Pending(row) => Shrinks(row, Finish(row, status))
  BY DEF Shrinks, Finish, Row, Exists, Pending, PendingMove, Finished
<1>2. Shrinks(row, EndPending(row)) /\ \A lag \in 0..MaxWait : Shrinks(row, Expire(row, lag))
  BY <1>1 DEF EndPending, Expire, Overdue, Shrinks
<1>3. Shrinks(row, Forget(row))
  BY DEF Shrinks, Forget, NoRow, Exists, Pending, PendingMove, Finished
<1>4. Shrinks(row, CleanUp(row))
  BY <1>3 DEF CleanUp, Shrinks
<1>5. Age(row).status = row.status /\ Age(row).kind = row.kind
  BY DEF Age, Row
<1>6. LongAgo(row).status = row.status /\ LongAgo(row).kind = row.kind
  BY DEF LongAgo, Row
<1>7. \A lag \in 0..MaxWait : Hand(row, lag).status = row.status /\ Hand(row, lag).kind = row.kind
  BY DEF Hand, Row
<1>8. QED
  BY <1>1, <1>2, <1>3, <1>4, <1>5, <1>6, <1>7 DEF Shrinks, Exists, Pending, PendingMove

LEMMA SettlingShrinks ==
    ASSUME Typed, NEW reports, NEW id \in Ids
    PROVE  Shrinks(rows[id], Settled(reports)[id])
<1> DEFINE first == Expire(rows[id], snapshot.lag)
           second == Apply(first, id, snapshot.results)
<1>1. rows[id] \in Row /\ snapshot.lag \in 0..MaxWait
  BY DEF Typed, TypeOK, Report
<1>2. first \in Row /\ Shrinks(rows[id], first)
  BY <1>1, RowsStayRows, EndingShrinks
<1>3. id \in snapshot.results => StatusOf(device[id]) \in {"succeeded", "failed", "expired"}
  BY DEF Typed, ResultsAreDone, StatusOf, Outcomes
<1>4. second \in Row /\ Shrinks(first, second)
  BY <1>2, <1>3, RowsStayRows, EndingShrinks DEF Apply, Shrinks, Statuses
<1>5. Settle(id) \in Row /\ Shrinks(second, Settle(id))
  BY <1>4, RowsStayRows, EndingShrinks DEF Settle
<1>6. Shrinks(Settle(id), Settled(reports)[id])
  BY <1>5, EndingShrinks DEF Settled, Shrinks
<1>7. QED
  BY <1>2, <1>4, <1>5, <1>6 DEF Shrinks

(* If every row shrinks, the limits still hold.                            *)
LEMMA ShrinkingFits ==
    ASSUME AdmissionLimits, \A id \in Ids : Shrinks(rows[id], rows'[id])
    PROVE  AdmissionLimits'
<1>1. /\ ExistingIds' \subseteq ExistingIds /\ PendingIds' \subseteq PendingIds
      /\ MovingIds' \subseteq MovingIds
  BY DEF Shrinks, ExistingIds, PendingIds, MovingIds
<1>2. ExistingIds \subseteq Ids /\ PendingIds \subseteq Ids /\ MovingIds \subseteq Ids
  BY DEF ExistingIds, PendingIds, MovingIds
<1>3. /\ Cardinality(ExistingIds') <= Cardinality(ExistingIds)
      /\ Cardinality(PendingIds') <= Cardinality(PendingIds)
      /\ Cardinality(MovingIds') <= Cardinality(MovingIds)
  BY <1>1, <1>2, Counting
<1>4. /\ Cardinality(ExistingIds) \in Nat /\ Cardinality(ExistingIds') \in Nat
      /\ Cardinality(PendingIds) \in Nat /\ Cardinality(PendingIds') \in Nat
      /\ Cardinality(MovingIds) \in Nat /\ Cardinality(MovingIds') \in Nat
  BY <1>1, <1>2, Counting
<1>5. PendingLimit \in Nat /\ OwnLimit \in Nat
  BY LimitsAssumption
<1>6. /\ Cardinality(ExistingIds') <= OwnLimit
      /\ Cardinality(PendingIds') <= PendingLimit
      /\ Cardinality(MovingIds') <= PendingLimit - 1
  BY <1>3, <1>4, <1>5, LimitsMeaning
<1>7. QED
  BY <1>6 DEF AdmissionLimits, Count, ExistingIds, PendingIds, MovingIds

(* An admitted command fits: the limits are checked on what the same       *)
(* transaction leaves after cleaning up.                                   *)
LEMMA InsertingFits ==
    ASSUME Typed, AdmissionLimits, NEW id \in Ids, PtzInserts(id)
    PROVE  AdmissionLimits'
<1> DEFINE E == {i \in Ids : Exists(CleanRows[i])}
           P == {i \in Ids : Pending(CleanRows[i])}
           M == {i \in Ids : PendingMove(CleanRows[i])}
<1>1. /\ Cardinality(E) < OwnLimit
      /\ Cardinality(P) < (IF ptz.kind = "stop" THEN PendingLimit ELSE PendingLimit - 1)
  BY DEF PtzInserts, Admitted, Count
<1>2. \A i \in Ids : i # id => rows'[i] = CleanRows[i]
  BY DEF PtzInserts, CleanRows
<1>3. rows'[id].status = "pending" /\ rows'[id].kind = ptz.kind
  BY DEF PtzInserts, CleanRows
<1>4. /\ ExistingIds' \subseteq E \cup {id} /\ PendingIds' \subseteq P \cup {id}
      /\ MovingIds' \subseteq M \cup {id}
      /\ ptz.kind = "stop" => MovingIds' \subseteq M
  BY <1>2, <1>3 DEF ExistingIds, PendingIds, MovingIds, PendingMove
<1>5. M \subseteq P /\ P \subseteq Ids /\ E \subseteq Ids /\ M \subseteq MovingIds
      /\ MovingIds \subseteq Ids /\ ptz.kind \in Kinds
  <2>1. \A i \in Ids : Shrinks(rows[i], CleanUp(rows[i]))
    BY EndingShrinks DEF Typed, TypeOK
  <2>2. M \subseteq MovingIds
    BY <2>1 DEF Shrinks, CleanRows, MovingIds
  <2>3. QED
    BY <2>2 DEF PendingMove, MovingIds, Typed, TypeOK, Request
<1>6. /\ Cardinality(E \cup {id}) <= Cardinality(E) + 1
      /\ Cardinality(P \cup {id}) <= Cardinality(P) + 1
      /\ Cardinality(M \cup {id}) <= Cardinality(P) + 1
      /\ Cardinality(M) <= Cardinality(MovingIds)
  BY <1>5, Counting
<1>7. /\ E \cup {id} \subseteq Ids /\ P \cup {id} \subseteq Ids /\ M \cup {id} \subseteq Ids
      /\ M \subseteq Ids
  BY <1>5
<1>8. /\ Cardinality(ExistingIds') <= Cardinality(E \cup {id})
      /\ Cardinality(PendingIds') <= Cardinality(P \cup {id})
      /\ Cardinality(MovingIds') <= Cardinality(M \cup {id})
      /\ ptz.kind = "stop" => Cardinality(MovingIds') <= Cardinality(M)
  BY <1>4, <1>7, Counting
<1>9. /\ Cardinality(E) \in Nat /\ Cardinality(P) \in Nat /\ Cardinality(M) \in Nat
      /\ Cardinality(E \cup {id}) \in Nat /\ Cardinality(P \cup {id}) \in Nat
      /\ Cardinality(M \cup {id}) \in Nat /\ Cardinality(MovingIds) \in Nat
  BY <1>5, <1>7, Counting
<1>10. /\ Cardinality(ExistingIds') \in Nat /\ Cardinality(PendingIds') \in Nat
       /\ Cardinality(MovingIds') \in Nat
  BY <1>4, <1>7, Counting
<1>11. PendingLimit \in Nat /\ OwnLimit \in Nat /\ Cardinality(MovingIds) <= PendingLimit - 1
  BY LimitsAssumption, LimitsMeaning
<1>12. /\ Cardinality(ExistingIds') <= OwnLimit
       /\ Cardinality(PendingIds') <= PendingLimit
       /\ Cardinality(MovingIds') <= PendingLimit - 1
  <2>1. CASE ptz.kind = "stop"
    BY <2>1, <1>1, <1>6, <1>8, <1>9, <1>10, <1>11
  <2>2. CASE ptz.kind # "stop"
    BY <2>2, <1>1, <1>6, <1>8, <1>9, <1>10, <1>11
  <2>3. QED
    BY <2>1, <2>2
<1>13. QED
  BY <1>12 DEF AdmissionLimits, Count, ExistingIds, PendingIds, MovingIds

LEMMA LimitsInit == Init => AdmissionLimits
<1> SUFFICES ASSUME Init PROVE AdmissionLimits
  OBVIOUS
<1>1. ExistingIds = {} /\ PendingIds = {} /\ MovingIds = {}
  BY DEF Init, NoRow, ExistingIds, PendingIds, MovingIds, Exists, Pending, PendingMove, Finished
<1>2. Cardinality({}) = 0
  BY FS_EmptySet
<1>3. QED
  BY <1>1, <1>2, LimitsMeaning, LimitsAssumption

LEMMA LimitsNext == Typed /\ AdmissionLimits /\ [Next]_vars => AdmissionLimits'
<1> SUFFICES ASSUME Typed, AdmissionLimits, [Next]_vars PROVE AdmissionLimits'
  OBVIOUS
<1>0. \A id \in Ids : rows[id] \in Row
  BY DEF Typed, TypeOK
<1>1. ASSUME UNCHANGED rows PROVE AdmissionLimits'
  BY <1>1, ShrinkingFits DEF Shrinks
<1>2. ASSUME NEW id \in Ids, PtzInserts(id) PROVE AdmissionLimits'
  BY <1>2, InsertingFits
<1>3. CASE RotateAuthorization \/ RevokeClient
  BY <1>0, <1>3, EndingShrinks, ShrinkingFits DEF RotateAuthorization, RevokeClient, EndAll
<1>4. CASE PurgeClient
  <2>1. \A id \in Ids : Shrinks(rows[id], rows'[id])
    BY <1>0, <1>4, EndingShrinks DEF PurgeClient, Shrinks
  <2>2. QED
    BY <2>1, ShrinkingFits
<1>5. CASE Commits
  <2>1. PICK reports \in {"hidden", "shown", "online"}, capacity \in Capacities,
             arrives \in BOOLEAN : SnapshotCommits(reports, capacity, arrives)
    BY <1>5 DEF Commits
  <2>2. PICK batch \in Batches(Settled(reports), capacity) :
           rows' = [i \in Ids |-> IF i \in batch THEN Hand(Settled(reports)[i], snapshot.lag)
                                   ELSE Settled(reports)[i]]
    BY <2>1 DEF SnapshotCommits
  <2>3. ASSUME NEW id \in Ids PROVE Shrinks(rows[id], rows'[id])
    <3>1. /\ Shrinks(rows[id], Settled(reports)[id]) /\ Settled(reports)[id] \in Row
          /\ snapshot.lag \in 0..MaxWait
      BY SettlingShrinks, SettledAreRows DEF Typed, ResultsAreDone, TypeOK, Report
    <3>2. Shrinks(Settled(reports)[id], Hand(Settled(reports)[id], snapshot.lag))
      BY <3>1, EndingShrinks
    <3>3. rows'[id] \in {Settled(reports)[id], Hand(Settled(reports)[id], snapshot.lag)}
      BY <2>2
    <3>4. QED
      BY <3>1, <3>2, <3>3 DEF Shrinks
  <2>4. QED
    BY <2>3, ShrinkingFits
<1>6. CASE Tick
  BY <1>0, <1>6, EndingShrinks, ShrinkingFits DEF Tick
<1>7. CASE DayPasses
  BY <1>0, <1>7, EndingShrinks, ShrinkingFits DEF DayPasses
<1>8. QED
  BY <1>1, <1>2, <1>3, <1>4, <1>5, <1>6, <1>7
     DEF Next, Handler, Snapshot, Environment, vars, PtzChecks, PtzFails, Pair, SnapshotStarts,
         SnapshotFails, DeviceActs, ClientGoesQuiet

(* However commands are queued, finished, expired and cleaned up, a client *)
(* never has more rows or more pending commands than the limits, and its   *)
(* pending moves leave a place for a stop.                                 *)
THEOREM LimitsHold == Spec => []AdmissionLimits
  BY TypedInit, TypedNext, LimitsInit, LimitsNext, PTL DEF Spec

=============================================================================
