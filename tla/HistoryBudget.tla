----------------------------- MODULE HistoryBudget -----------------------------
(***************************************************************************)
(* The budget of rows for events, audit rows, media operations and their   *)
(* audit outbox (history.rs).  What is new asks for room in its own        *)
(* transaction; what was accepted never asks again: its transitions, their *)
(* projections by the audit loop and its manual resolution use the room    *)
(* that its admission put aside.                                           *)
(*                                                                         *)
(* One action is one transaction, in which counting and inserting cannot   *)
(* be separated.  Rows are counted, not kept: an operation is one row, has *)
(* `facts' rows in the outbox and `projected' of them also in audit_logs.  *)
(* The limits on bytes and on free space follow the same scheme and are    *)
(* left to the file system.  The operation store is external; each of its  *)
(* transitions writes one fact.                                            *)
(***************************************************************************)
EXTENDS Integers, FiniteSets

CONSTANTS
    Owners,         \* cameras
    NoOwner,        \* rows of no camera
    Operations,     \* bound: media operations of one behaviour
    Limit,          \* 1 000 000: rows in all
    OwnerLimit,     \* 100 000: rows of one camera
    Reserve,        \* 64: rows put aside for each outstanding operation
    MaxAttempts     \* 8

ASSUME OwnersAssumption == NoOwner \notin Owners /\ IsFiniteSet(Owners) /\ IsFiniteSet(Operations)
ASSUME LimitsAssumption ==
    /\ Limit \in Nat /\ OwnerLimit \in Nat /\ Reserve \in Nat /\ MaxAttempts \in Nat \ {0}
    \* "Eight attempts, final/unknown reconciliation and their outbox
    \* projections fit inside 64 future rows per outstanding operation."
    /\ 4 * MaxAttempts + 6 <= Reserve

VARIABLES
    kept,           \* events and audit rows other than projections, by owner
    ops,            \* _common_operations with their outbox rows
    flushing        \* the audit loop has not failed since the start

vars == <<kept, ops, flushing>>

-----------------------------------------------------------------------------

States      == {"none", "pending", "running", "succeeded", "unknown", "dead_letter", "resolved"}
Outstanding == {"pending", "running", "unknown", "dead_letter"}

Operation == [owner : Owners \cup {NoOwner}, state : States, attempt : 0..MaxAttempts,
              facts : Nat, projected : Nat]

Absent == [owner |-> NoOwner, state |-> "none", attempt |-> 0, facts |-> 0, projected |-> 0]

Stored == {i \in Operations : ops[i].state # "none"}
Of(o)  == {i \in Stored : ops[i].owner = o}

(* How many rows there are if every i in S has n[i].                       *)
Total(S, n) == Cardinality(UNION {{i} \X (1..n[i]) : i \in S})

Rows        == [i \in Operations |-> 1 + ops[i].facts + ops[i].projected]
Undelivered == [i \in Operations |-> ops[i].facts - ops[i].projected]

AllRows    == Total(Owners \cup {NoOwner}, kept) + Total(Stored, Rows)
OwnRows(o) == kept[o] + Total(Of(o), Rows)

(* Slip: a finished operation gives back its projections too.              *)
ReservedWhileOutstanding(S) ==
    Reserve * Cardinality({i \in S : ops[i].state \in Outstanding})

(* What is put aside: future transitions of what is outstanding, and the   *)
(* projection of every fact that was not delivered.                        *)
Reserved(S) ==
    Reserve * Cardinality({i \in S : ops[i].state \in Outstanding}) + Total(S, Undelivered)

(* The operation, its first fact and that fact's projection.               *)
Added(new) == IF new THEN Reserve + 3 ELSE 1

(* Slip: a camera may use all that is left for the others.                 *)
AdmittedInAll(o, new) == AllRows + Reserved(Stored) + Added(new) <= Limit

(* reserve_with.                                                           *)
Admitted(o, new) ==
    /\ AllRows + Reserved(Stored) + Added(new) <= Limit
    /\ o # NoOwner => OwnRows(o) + Reserved(Of(o)) + Added(new) <= OwnerLimit

-----------------------------------------------------------------------------
(* What asks for room                                                      *)

(* emit_event_in, write_audit_in.                                          *)
Record(o) ==
    /\ Admitted(o, FALSE)
    /\ kept' = [kept EXCEPT ![o] = @ + 1]
    /\ UNCHANGED <<ops, flushing>>

(* enqueue_operation_in, by handlers and by the drift observation.         *)
Enqueue(i, o) ==
    /\ ops[i].state = "none" /\ Admitted(o, TRUE)
    /\ ops' = [ops EXCEPT ![i] = [Absent EXCEPT !.owner = o, !.state = "pending", !.facts = 1]]
    /\ UNCHANGED <<kept, flushing>>

-----------------------------------------------------------------------------
(* What does not                                                           *)

(* Every transition writes a fact.                                         *)
Becomes(i, state) == [ops EXCEPT ![i].state = state, ![i].facts = @ + 1]

NoneActive(o) == \A i \in Of(o) : ops[i].state \notin {"running", "unknown"}

(* claim_next_operation: one operation of a camera at a time.              *)
Claim(i) ==
    /\ ops[i].state = "pending" /\ NoneActive(ops[i].owner)
    /\ ops' = [Becomes(i, "running") EXCEPT ![i].attempt = @ + 1]
    /\ UNCHANGED <<kept, flushing>>

(* finish_success, finish_superseded, finish_failure, abandon_claim and    *)
(* recover_expired; a rejected last attempt is a dead letter.              *)
Finish(i, state) ==
    /\ ops[i].state = "running"
    /\ state = "pending" => ops[i].attempt < MaxAttempts
    /\ state = "dead_letter" => ops[i].attempt = MaxAttempts
    /\ ops' = Becomes(i, state)
    /\ UNCHANGED <<kept, flushing>>

Outcomes == {"succeeded", "pending", "dead_letter", "unknown"}

(* resolve_media_operation: the transition and an audit row of its own.    *)
Resolve(i, state) ==
    /\ \/ state = "resolved" /\ ops[i].state \in {"unknown", "dead_letter"}
       \/ state = "dead_letter" /\ ops[i].state = "unknown"
    /\ ops' = Becomes(i, state)
    /\ kept' = [kept EXCEPT ![ops[i].owner] = @ + 1]
    /\ UNCHANGED flushing

(* Slip: the projection is inserted without looking for its receipt.       *)
ProjectAgain(i) ==
    /\ flushing /\ i \in Stored
    /\ ops' = [ops EXCEPT ![i].projected = @ + 1]
    /\ UNCHANGED <<kept, flushing>>

(* Slip: only finished operations are projected.                           *)
ProjectFinished(i) ==
    /\ flushing /\ i \in Stored /\ Undelivered[i] > 0 /\ ops[i].state \notin Outstanding
    /\ ops' = [ops EXCEPT ![i].projected = @ + 1]
    /\ UNCHANGED <<kept, flushing>>

(* flush_operation_audit: one fact, inserted and acknowledged together.    *)
Project(i) ==
    /\ flushing /\ i \in Stored /\ Undelivered[i] > 0
    /\ ops' = [ops EXCEPT ![i].projected = @ + 1]
    /\ UNCHANGED <<kept, flushing>>

(* A delivery that fails ends operation_audit_loop until the next start.   *)
FlushFails ==
    /\ flushing /\ flushing' = FALSE
    /\ UNCHANGED <<kept, ops>>

(* purge_revoked_client_in: events of the camera (as many as there are)    *)
(* lose their owner, operations and audit rows stay.                       *)
PurgeCamera(o, events) ==
    /\ kept' = [kept EXCEPT ![o] = @ - events, ![NoOwner] = @ + events]
    /\ UNCHANGED <<ops, flushing>>

(* The process ends and starts again: recover_interrupted_operations.      *)
Restart ==
    /\ flushing' = TRUE
    /\ ops' = [i \in Operations |->
                 IF ops[i].state = "running"
                 THEN [ops[i] EXCEPT !.state = "unknown", !.facts = @ + 1] ELSE ops[i]]
    /\ UNCHANGED kept

-----------------------------------------------------------------------------

Init ==
    /\ kept = [o \in Owners \cup {NoOwner} |-> 0]
    /\ ops = [i \in Operations |-> Absent]
    /\ flushing = TRUE

Progress(i) ==
    \/ Claim(i) \/ Project(i)
    \/ \E state \in Outcomes : Finish(i, state)
    \/ \E state \in {"resolved", "dead_letter"} : Resolve(i, state)

Next ==
    \/ \E o \in Owners \cup {NoOwner} : Record(o)
    \/ \E i \in Operations, o \in Owners : Enqueue(i, o)
    \/ \E i \in Operations : Progress(i)
    \/ \E o \in Owners : \E events \in 1..kept[o] : PurgeCamera(o, events)
    \/ FlushFails \/ Restart

Spec == Init /\ [][Next]_vars

(* The audit loop goes on as long as it has not failed.                    *)
FairSpec == Spec /\ \A i \in Operations : WF_vars(Project(i))

-----------------------------------------------------------------------------
(* Properties                                                              *)

TypeOK ==
    /\ kept \in [Owners \cup {NoOwner} -> 0..Limit]
    /\ ops \in [Operations -> Operation]
    /\ flushing \in BOOLEAN
    /\ \A i \in Operations : ops[i].projected <= ops[i].facts

(* However many operations are outstanding, however long their attempts,   *)
(* recoveries and resolutions get, and whatever the audit loop is behind:  *)
(* the history never has more rows than its limit, although only what is   *)
(* new asks for room.                                                      *)
HistoryFits == AllRows <= Limit

(* The same for every camera, also when others fill the history.           *)
OwnersFit == \A o \in Owners : OwnRows(o) <= OwnerLimit

(* Every fact gets its audit row unless the audit loop has failed.         *)
FactsAreProjected ==
    \A i \in Operations : Undelivered[i] > 0 ~> (Undelivered[i] = 0 \/ ~flushing)

=============================================================================
