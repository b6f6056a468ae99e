---------------------------- MODULE DeviceCommands ----------------------------
(***************************************************************************)
(* PTZ commands of one client's camera: the handler that queues a move or  *)
(* a stop, the client's snapshot that expires, settles and hands out       *)
(* commands, the receipt the web console polls, and what ends a command    *)
(* from outside (rotation, revocation, deletion, a camera no longer        *)
(* reported).                                                              *)
(*                                                                         *)
(* One action is one SQLite transaction; ptz and snapshot read the clock   *)
(* (and ptz its checks) before they wait for the write lock, so each is    *)
(* two actions with `lag', the age of that reading, between them.  Times   *)
(* are kept relative to the present clock: ttl is expires_at - now, sent   *)
(* is now - delivered_at.  created_at is expires_at minus a constant, so   *)
(* the larger ttl is the younger command.                                  *)
(*                                                                         *)
(* The client (device) is another program, modelled from what the server   *)
(* relies on: it knows a command by its id, looks at the deadline before   *)
(* it acts, takes commands in the order they were requested, and asks for  *)
(* the next snapshot after the answer to the last one or its failure.      *)
(***************************************************************************)
EXTENDS Integers, FiniteSets

CONSTANTS
    MaxCommands,    \* bound: commands requested in one behaviour
    MaxPairings,    \* bound: pairings in one behaviour
    Lifetime,       \* 10 s: how long a command may be handed out
    RetryAfter,     \* 5 s: a command without a result is handed out again
    Grace,          \* 60 s: how long a result is waited for
    MaxWait,        \* 5 s: the busy timeout, the longest wait for the lock
    OwnLimit,       \* 512: command rows of one client
    PendingLimit,   \* 128: pending commands of one client, one kept for a stop
    Capacities      \* how many commands a snapshot may ask for (0..100)

ASSUME TimesAssumption ==
    /\ Lifetime \in Nat /\ RetryAfter \in Nat /\ Grace \in Nat /\ MaxWait \in Nat
    /\ RetryAfter < Lifetime /\ MaxWait < Lifetime /\ Lifetime < Grace
ASSUME LimitsAssumption ==
    /\ MaxCommands \in Nat /\ MaxPairings \in Nat
    /\ OwnLimit \in Nat /\ PendingLimit \in Nat \ {0}
    /\ Capacities \subseteq Nat

VARIABLES
    client,     \* xcocs: state and how often it was paired
    camera,     \* cameras: hidden, shown, or shown, enabled and seen lately
    rows,       \* device_commands, by command id
    ptz,        \* the ptz handler after its checks
    snapshot,   \* the snapshot handler after it read the clock
    device      \* what the client has made of each command

database == <<client, camera, rows>>
vars     == <<client, camera, rows, ptz, snapshot, device>>

-----------------------------------------------------------------------------
(* Rows                                                                    *)

Ids      == 1..MaxCommands        \* in the order they are requested
Kinds    == {"move", "stop"}
Statuses == {"none", "pending", "succeeded", "failed", "expired", "deleted"}
Finished == {"succeeded", "failed", "expired"}
Outcomes == {"succeeded", "failed", "unknown"}

Never  == -1                      \* delivered_at IS NULL
Oldest == Grace + MaxWait         \* ages beyond it are not told apart

(* pairing is the credential a pending command was checked against; old,   *)
(* that finished_at is more than a day ago.                                *)
Row == [status : Statuses, kind : Kinds, pairing : 0..MaxPairings,
        ttl : -MaxWait..Lifetime, sent : Never..Oldest, old : BOOLEAN]

NoRow == [status |-> "none", kind |-> "move", pairing |-> 0,
          ttl |-> -MaxWait, sent |-> Never, old |-> FALSE]

Request == [kind : Kinds, pairing : 0..MaxPairings, lag : 0..MaxWait]
NoPtz   == [kind |-> "move", pairing |-> 0, lag |-> 0]

Report     == [pairing : 0..MaxPairings, results : SUBSET Ids, lag : 0..MaxWait]
NoSnapshot == [pairing |-> 0, results |-> {}, lag |-> 0]

Paired       == client.state = "paired"
PtzWaits     == ptz # NoPtz           \* a checked request has pairing > 0
SnapshotWaits == snapshot # NoSnapshot

Pending(row) == row.status = "pending"
Exists(row)  == row.status \in Finished \cup {"pending"}

(* Once a command is finished only whether it was handed out is read.      *)
Finish(row, status) ==
    [row EXCEPT !.status = status, !.pairing = 0,
                !.sent = IF row.sent = Never THEN Never ELSE 0]

EndPending(row) == IF Pending(row) THEN Finish(row, "expired") ELSE row
Forget(row)     == [NoRow EXCEPT !.status = "deleted", !.kind = row.kind, !.ttl = row.ttl]

CleanUp(row) == IF row.status \in Finished /\ row.old THEN Forget(row) ELSE row

(* What device_command_status answers of a row.                            *)
Receipt(row) ==
    CASE row.status \in {"succeeded", "failed"} -> row.status
      [] Pending(row) /\ row.sent = Never -> IF row.ttl <= 0 THEN "expired" ELSE "queued"
      [] Pending(row) /\ row.sent # Never ->
             IF row.sent >= Grace THEN "unconfirmed" ELSE "awaiting_result"
      [] row.status = "expired" -> IF row.sent = Never THEN "expired" ELSE "unconfirmed"
      [] OTHER -> "not_found"

Final    == {"succeeded", "failed", "expired", "unconfirmed"}
Receipts == Final \cup {"not_found", "queued", "awaiting_result"}

-----------------------------------------------------------------------------
(* Queueing                                                                *)

Unused(id) == rows[id].status = "none"
NextId(id) == Unused(id) /\ \A earlier \in Ids : earlier < id => ~Unused(earlier)

(* The checks: two reads outside any transaction that nothing the model    *)
(* keeps apart can come between.  A stop needs only a paired client, a     *)
(* move also a camera that is enabled and online.                          *)
PtzChecks(kind) ==
    /\ ~PtzWaits /\ \E id \in Ids : Unused(id)
    /\ camera # "hidden" /\ Paired
    /\ kind = "move" => camera = "online"
    /\ ptz' = [kind |-> kind, pairing |-> client.pairing, lag |-> 0]
    /\ UNCHANGED <<client, camera, rows, snapshot, device>>

Count(r, P(_)) == Cardinality({id \in Ids : P(r[id])})

(* Slip: a move may take the last pending place.                           *)
AdmittedAlike(r, kind) == Count(r, Exists) < OwnLimit /\ Count(r, Pending) < PendingLimit

Admitted(r, kind) ==
    /\ Count(r, Exists) < OwnLimit
    /\ Count(r, Pending) < (IF kind = "stop" THEN PendingLimit ELSE PendingLimit - 1)

CleanRows == [id \in Ids |-> CleanUp(rows[id])]

(* The transaction: clean up, reserve, insert.                             *)
PtzInserts(id) ==
    /\ PtzWaits /\ NextId(id) /\ client.state # "purged"
    /\ Admitted(CleanRows, ptz.kind)
    /\ rows' = [CleanRows EXCEPT ![id] =
                  [status |-> "pending", kind |-> ptz.kind, pairing |-> ptz.pairing,
                   ttl |-> Lifetime - ptz.lag, sent |-> Never, old |-> FALSE]]
    /\ ptz' = NoPtz
    /\ UNCHANGED <<client, camera, snapshot, device>>

(* Refused, locked out, out of room for the audit row or of the limits all *)
(* clients share: nothing is kept.                                         *)
PtzFails ==
    /\ PtzWaits
    /\ ptz' = NoPtz
    /\ UNCHANGED <<client, camera, rows, snapshot, device>>

-----------------------------------------------------------------------------
(* Snapshots                                                               *)

(* The client sends what it knows of commands that are done.               *)
SnapshotStarts(results) ==
    /\ ~SnapshotWaits /\ Paired
    /\ \A id \in results : device[id] \in Outcomes
    /\ snapshot' = [pairing |-> client.pairing, results |-> results, lag |-> 0]
    /\ UNCHANGED <<client, camera, rows, ptz, device>>

(* Slip: a command that was handed out never expires.                      *)
OverdueUndelivered(row, lag) == Pending(row) /\ row.sent = Never /\ row.ttl + lag <= 0

Overdue(row, lag) ==
    /\ Pending(row)
    /\ IF row.sent = Never THEN row.ttl + lag <= 0 ELSE row.sent - lag >= Grace

Expire(row, lag) == IF Overdue(row, lag) THEN Finish(row, "expired") ELSE row

(* Slip: an unknown outcome is stored as it was reported.                  *)
StatusAsReported(outcome) == outcome

StatusOf(outcome) == IF outcome = "unknown" THEN "expired" ELSE outcome

Apply(row, id, results) ==
    IF id \in results /\ Pending(row) /\ row.sent # Never
    THEN Finish(row, StatusOf(device[id])) ELSE row

(* Slip: results are accepted before what is overdue expires.              *)
SettleLate(id) == CleanUp(Expire(Apply(rows[id], id, snapshot.results), snapshot.lag))

Settle(id) == CleanUp(Apply(Expire(rows[id], snapshot.lag), id, snapshot.results))

(* A camera the snapshot does not name takes its commands with it.         *)
Settled(reports) ==
    [id \in Ids |-> IF camera # "hidden" /\ reports = "hidden"
                    THEN EndPending(Settle(id)) ELSE Settle(id)]

Due(row, lag) ==
    /\ Pending(row)
    /\ row.ttl + lag > 0
    /\ row.sent = Never \/ row.sent - lag >= RetryAfter

(* The commands an answer carries: as many as are due and asked for, the   *)
(* oldest first; in what order equally old ones come is not determined.    *)
Batches(r, capacity) ==
    LET due == {id \in Ids : Due(r[id], snapshot.lag)}
    IN  {batch \in SUBSET due :
            /\ Cardinality(batch) = IF Cardinality(due) < capacity THEN Cardinality(due) ELSE capacity
            /\ \A id \in batch, left \in due \ batch : r[id].ttl <= r[left].ttl}

(* Slip: the hand-out is not recorded.                                     *)
HandUnrecorded(row, lag) == row

Hand(row, lag) == [row EXCEPT !.sent = lag]

(* The credential that it was sent with still is the client's.             *)
Acceptable == SnapshotWaits /\ Paired /\ snapshot.pairing = client.pairing

(* The transaction, in the code's order: authenticate, expire, accept the  *)
(* results, clean up, update or hide the camera, hand out.  The answer may *)
(* be lost after the commit.                                               *)
SnapshotCommits(reports, capacity, arrives) ==
    /\ Acceptable
    /\ camera' = reports
    /\ \E batch \in Batches(Settled(reports), capacity) :
          /\ rows' = [id \in Ids |-> IF id \in batch THEN Hand(Settled(reports)[id], snapshot.lag)
                                     ELSE Settled(reports)[id]]
          /\ device' = [id \in Ids |-> IF arrives /\ id \in batch /\ device[id] = "unaware"
                                       THEN "held" ELSE device[id]]
    /\ snapshot' = NoSnapshot
    /\ UNCHANGED <<client, ptz>>

(* Refused (the credential was replaced meanwhile), locked out or failed.  *)
SnapshotFails ==
    /\ SnapshotWaits
    /\ snapshot' = NoSnapshot
    /\ UNCHANGED <<client, camera, rows, ptz, device>>

(* The client takes the next command and checks its deadline first.        *)
DeviceActs(id, outcome) ==
    /\ device[id] = "held"
    /\ \A earlier \in Ids : earlier < id => device[earlier] # "held"
    /\ rows[id].ttl <= 0 => outcome = "failed"
    /\ device' = [device EXCEPT ![id] = outcome]
    /\ UNCHANGED <<client, camera, rows, ptz, snapshot>>

-----------------------------------------------------------------------------
(* What ends commands from outside                                         *)

EndAll == [id \in Ids |-> EndPending(rows[id])]

Pair ==
    /\ client.state = "unpaired" /\ client.pairing < MaxPairings
    /\ client' = [state |-> "paired", pairing |-> client.pairing + 1]
    /\ UNCHANGED <<camera, rows, ptz, snapshot, device>>

RotateAuthorization ==
    /\ client.state \in {"unpaired", "paired"}
    /\ client' = [client EXCEPT !.state = "unpaired"]
    /\ rows' = EndAll
    /\ camera' = IF camera = "hidden" THEN "hidden" ELSE "shown"
    /\ UNCHANGED <<ptz, snapshot, device>>

RevokeClient ==
    /\ client.state \in {"unpaired", "paired"}
    /\ client' = [client EXCEPT !.state = "revoked"]
    /\ rows' = EndAll
    /\ camera' = "hidden"
    /\ UNCHANGED <<ptz, snapshot, device>>

PurgeClient ==
    /\ client.state = "revoked"
    /\ client' = [client EXCEPT !.state = "purged"]
    /\ rows' = [id \in Ids |-> IF Exists(rows[id]) THEN Forget(rows[id]) ELSE rows[id]]
    /\ UNCHANGED <<camera, ptz, snapshot, device>>

-----------------------------------------------------------------------------
(* Time                                                                    *)

Earlier(ttl) == IF ttl > -MaxWait THEN ttl - 1 ELSE ttl
Older(sent)  == IF sent = Never \/ sent = Oldest THEN sent ELSE sent + 1

Age(row) == [row EXCEPT !.ttl  = Earlier(row.ttl),
                        !.sent = IF Pending(row) THEN Older(row.sent) ELSE row.sent]

(* A unit of time passes, unless a handler must first give up waiting.     *)
Tick ==
    /\ PtzWaits => ptz.lag < MaxWait
    /\ SnapshotWaits => snapshot.lag < MaxWait
    /\ rows' = [id \in Ids |-> Age(rows[id])]
    /\ ptz' = IF PtzWaits THEN [ptz EXCEPT !.lag = @ + 1] ELSE ptz
    /\ snapshot' = IF SnapshotWaits THEN [snapshot EXCEPT !.lag = @ + 1] ELSE snapshot
    /\ UNCHANGED <<client, camera, device>>

LongAgo(row) ==
    CASE row.status \in Finished -> [row EXCEPT !.old = TRUE, !.ttl = -MaxWait]
      [] Pending(row) -> [row EXCEPT !.ttl = -MaxWait, !.sent = IF @ = Never THEN Never ELSE Oldest]
      [] OTHER -> [row EXCEPT !.ttl = -MaxWait]

(* More than a day passes with nothing asked of the server.                *)
DayPasses ==
    /\ ~PtzWaits /\ ~SnapshotWaits
    /\ rows' = [id \in Ids |-> LongAgo(rows[id])]
    /\ camera' = IF camera = "hidden" THEN "hidden" ELSE "shown"
    /\ UNCHANGED <<client, ptz, snapshot, device>>

(* The client's last snapshot is too old for a move.                       *)
ClientGoesQuiet ==
    /\ camera = "online" /\ camera' = "shown"
    /\ UNCHANGED <<client, rows, ptz, snapshot, device>>

-----------------------------------------------------------------------------

Init ==
    /\ client = [state |-> "unpaired", pairing |-> 0]
    /\ camera = "hidden"
    /\ rows = [id \in Ids |-> NoRow]
    /\ ptz = NoPtz /\ snapshot = NoSnapshot
    /\ device = [id \in Ids |-> "unaware"]

Handler ==
    \/ \E kind \in Kinds : PtzChecks(kind)
    \/ \E id \in Ids : PtzInserts(id)
    \/ PtzFails
    \/ Pair \/ RotateAuthorization \/ RevokeClient \/ PurgeClient

Commits ==
    \E reports \in {"hidden", "shown", "online"}, capacity \in Capacities, arrives \in BOOLEAN :
        SnapshotCommits(reports, capacity, arrives)

Snapshot ==
    \/ \E results \in SUBSET Ids : SnapshotStarts(results)
    \/ Commits \/ SnapshotFails

Environment ==
    \/ \E id \in Ids, outcome \in Outcomes : DeviceActs(id, outcome)
    \/ Tick \/ DayPasses \/ ClientGoesQuiet

Next == Handler \/ Snapshot \/ Environment

Spec == Init /\ [][Next]_vars

(* No row has an age that still counts.                                    *)
Aged == \A id \in Ids : Age(rows[id]) = rows[id]

(* Time goes on as long as it makes a difference, handlers end, and a      *)
(* client that stays paired keeps sending snapshots that now and then      *)
(* succeed.  This is weak fairness of ending a handler and of starting a   *)
(* snapshot, said of the states those steps lead to, and strong fairness   *)
(* of Commits, which can be taken when a snapshot is acceptable.           *)
FairSpec ==
    /\ Spec
    /\ []<>~Aged => []<><<Tick>>_vars
    /\ []<>~PtzWaits /\ []<>~SnapshotWaits
    /\ []<>(SnapshotWaits \/ ~Paired)
    /\ []<>Acceptable => []<><<Commits>>_vars

-----------------------------------------------------------------------------
(* Properties                                                              *)

(* Every row, handler and receipt keeps its shape.                         *)
TypeOK ==
    /\ client \in [state : {"unpaired", "paired", "revoked", "purged"}, pairing : 0..MaxPairings]
    /\ camera \in {"hidden", "shown", "online"}
    /\ rows \in [Ids -> Row]
    /\ ptz \in Request
    /\ snapshot \in Report
    /\ device \in [Ids -> {"unaware", "held"} \cup Outcomes]

PendingMove(row) == Pending(row) /\ row.kind = "move"

(* The limits hold whatever finishes, expires or is cleaned up, and moves  *)
(* that wait never take the place kept for a stop.                         *)
AdmissionLimits ==
    /\ Count(rows, Exists) <= OwnLimit
    /\ Count(rows, Pending) <= PendingLimit
    /\ Count(rows, PendingMove) <= PendingLimit - 1

(* A pending row as the clock showed it lag ago.                           *)
Before(row, lag) ==
    [row EXCEPT !.ttl = @ + lag,
                !.sent = IF @ = Never THEN Never ELSE IF @ > lag THEN @ - lag ELSE 0]

(* A receipt that was final (even one computed from a pending row's age)   *)
(* never says anything else: no retry, late result, expiry or rotation     *)
(* changes it, until the row is deleted.  A snapshot that has waited for   *)
(* the lock keeps those that were final when it read the clock; one that   *)
(* became final since it may take back.                                    *)
ReceiptIsFinal ==
    [][\A id \in Ids :
          /\ Receipt(rows[id]) \in Final
          /\ SnapshotWaits /\ snapshot' = NoSnapshot
                => Receipt(Before(rows[id], snapshot.lag)) \in Final
          => Receipt(rows'[id]) \in {Receipt(rows[id]), "not_found"}]_vars

(* An answer is true: a command reported as done was done so by the        *)
(* device, and one reported as expired before delivery never reached it.   *)
AnswersAreTrue ==
    \A id \in Ids :
        /\ Receipt(rows[id]) \in {"succeeded", "failed"} => device[id] = Receipt(rows[id])
        /\ Receipt(rows[id]) \in {"queued", "expired"} => device[id] = "unaware"

(* Every command of a client that stays paired is settled, whatever        *)
(* answers are lost.                                                       *)
EverySettles ==
    \A id \in Ids : Pending(rows[id]) ~> (~Pending(rows[id]) \/ ~Paired)

(* As long as no stop was queued, one would be admitted: moves alone never *)
(* crowd it out.                                                           *)
StopIsAdmitted ==
    (\A id \in Ids : Exists(rows[id]) => rows[id].kind = "move") => Admitted(CleanRows, "stop")

=============================================================================
