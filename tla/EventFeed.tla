------------------------------- MODULE EventFeed -------------------------------
(***************************************************************************)
(* How a page of the web console follows the server: the status loop       *)
(* records an event, then announces it in a broadcast channel; event_stream *)
(* forwards what its receiver gets, or asks for a resync and ends if the   *)
(* receiver lagged; the page's EventSource connects again; every           *)
(* announcement asks createSnapshotRefresh for the lists, which coalesces, *)
(* and loadLogs for the visible logs.  A visible page also asks by a timer.*)
(*                                                                         *)
(* A list is the number of events that were recorded when the server read  *)
(* it.  Callbacks of the page are atomic, requests are not: one is sent,   *)
(* read by the server and settled in steps of their own.  The stream       *)
(* carries one message at a time, the others wait in the receiver.  The    *)
(* broadcast channel, EventSource and fetch are external.                  *)
(***************************************************************************)
EXTENDS Naturals, FiniteSets

CONSTANTS
    Loaders,       \* the lists of a snapshot; system status is one like cameras
    Capacity,      \* 256: messages the channel keeps for a receiver
    MaxEvents      \* bound: events recorded

ASSUME LoadersAssumption  == "clients" \in Loaders /\ IsFiniteSet(Loaders)
ASSUME CapacityAssumption == Capacity \in Nat \ {0} /\ MaxEvents \in Nat

VARIABLES
    recorded,   \* events in SQLite
    server,     \* whether it runs, and whether an event is committed but not yet announced
    receiver,   \* of event_stream: whether it is there, its unread messages, whether it lagged
    wire,       \* what the stream carries to the page
    refused,    \* EventSource has given up
    batch,      \* createSnapshotRefresh: inFlight, queued, this batch's failure and loads
    own,        \* a call of loadClients outside of a batch
    newest,     \* whose call holds the generation of clientRequestId
    page,       \* [lists of a snapshot -> what is shown]
    asked,      \* recorded when a snapshot was last asked for
    logs        \* the log view: its state, what it read, recorded when it was last loaded

vars == <<recorded, server, receiver, wire, refused, batch, own, newest, page, asked, logs>>
stream == <<receiver, wire, refused>>
snapshot == <<batch, own, newest, page, asked>>

-----------------------------------------------------------------------------

Versions == 0..MaxEvents

(* A request: not made, sent, read by the server, or over; what was read.  *)
Request == [at : {"none", "sent", "read", "failed"}, seen : Versions]
None == [at |-> "none", seen |-> 0]
Sent == [at |-> "sent", seen |-> 0]
Read(r) == [r EXCEPT !.at = "read", !.seen = recorded]
Pending(r) == r.at \in {"sent", "read"}

NoReceiver == [there |-> FALSE, unread |-> 0, lagged |-> FALSE]
Idle == [running |-> FALSE, queued |-> FALSE, failed |-> FALSE, loads |-> [l \in Loaders |-> None]]
LeftLogs == [state |-> "left", seen |-> 0, asked |-> 0]

Init ==
    /\ recorded = 0
    /\ server = [up |-> TRUE, announcing |-> FALSE]
    /\ receiver = NoReceiver
    /\ wire = "none"
    /\ refused = FALSE
    /\ batch = Idle
    /\ own = None
    /\ newest = "batch"
    /\ page = [l \in Loaders |-> 0]
    /\ asked = 0
    /\ logs = LeftLogs

-----------------------------------------------------------------------------
(* The server                                                              *)

(* persist_status_observation commits the event.                           *)
Record ==
    /\ server.up /\ ~server.announcing /\ recorded < MaxEvents
    /\ recorded' = recorded + 1
    /\ server' = [server EXCEPT !.announcing = TRUE]
    /\ UNCHANGED <<stream, snapshot, logs>>

(* Slip: a channel without a limit.                                        *)
ReceivesAlways == [receiver EXCEPT !.unread = @ + 1]

(* The oldest message is overwritten if the receiver has not read it.      *)
Receives ==
    IF receiver.unread = Capacity THEN [receiver EXCEPT !.lagged = TRUE]
                                  ELSE [receiver EXCEPT !.unread = @ + 1]

(* state.events.send, which perhaps nobody hears.                          *)
Announce ==
    /\ server.announcing
    /\ server' = [server EXCEPT !.announcing = FALSE]
    /\ receiver' = IF receiver.there THEN Receives ELSE receiver
    /\ UNCHANGED <<recorded, wire, refused, snapshot, logs>>

(* event_stream subscribes before its response begins and the page opens.  *)
Connect ==
    /\ ~refused /\ server.up /\ ~receiver.there /\ wire = "none"
    /\ receiver' = [NoReceiver EXCEPT !.there = TRUE]
    /\ wire' = "open"
    /\ UNCHANGED <<recorded, server, refused, snapshot, logs>>

(* recv: Lagged comes before the messages that are left, and ends it all.  *)
Forward ==
    /\ receiver.there /\ wire = "none" /\ (receiver.unread > 0 \/ receiver.lagged)
    /\ IF receiver.lagged
       THEN wire' = "resync" /\ receiver' = NoReceiver
       ELSE wire' = "event" /\ receiver' = [receiver EXCEPT !.unread = @ - 1]
    /\ UNCHANGED <<recorded, server, refused, snapshot, logs>>

(* The connection ends, and with it what it still carried.                 *)
Break ==
    /\ receiver.there \/ wire # "none"
    /\ receiver' = NoReceiver
    /\ wire' = "none"
    /\ UNCHANGED <<recorded, server, refused, snapshot, logs>>

(* The process ends, perhaps between commit and announcement.              *)
Crash ==
    /\ server.up
    /\ server' = [up |-> FALSE, announcing |-> FALSE]
    /\ receiver' = NoReceiver
    /\ wire' = "none"
    /\ UNCHANGED <<recorded, refused, snapshot, logs>>

Start ==
    /\ ~server.up
    /\ server' = [server EXCEPT !.up = TRUE]
    /\ UNCHANGED <<recorded, stream, snapshot, logs>>

(* An answer other than 200, of the proxy for instance: EventSource does   *)
(* not try again.                                                          *)
Refused ==
    /\ ~refused /\ ~receiver.there /\ wire = "none"
    /\ refused' = TRUE
    /\ UNCHANGED <<recorded, server, receiver, wire, snapshot, logs>>

-----------------------------------------------------------------------------
(* The snapshot                                                            *)

NewBatch == [Idle EXCEPT !.running = TRUE, !.loads = [l \in Loaders |-> Sent]]

(* Slip: a call during a batch shares it.                                  *)
RefreshShared ==
    /\ asked' = recorded
    /\ IF batch.running
       THEN UNCHANGED <<batch, newest>>
       ELSE batch' = NewBatch /\ newest' = "batch"
    /\ UNCHANGED <<own, page>>

(* The function that createSnapshotRefresh returns.                        *)
Refresh ==
    /\ asked' = recorded
    /\ IF batch.running
       THEN batch' = [batch EXCEPT !.queued = TRUE] /\ UNCHANGED newest
       ELSE batch' = NewBatch /\ newest' = "batch"
    /\ UNCHANGED <<own, page>>

(* One load of a batch is over; the last one ends the batch or begins the  *)
(* one that was queued.                                                    *)
Over(l, failed) ==
    LET loads == [batch.loads EXCEPT ![l] = None]
        wrong == batch.failed \/ failed
    IN  IF \E k \in Loaders : Pending(loads[k])
        THEN batch' = [batch EXCEPT !.loads = loads, !.failed = wrong] /\ UNCHANGED newest
        ELSE IF batch.queued
        THEN batch' = NewBatch /\ newest' = "batch"
        ELSE batch' = [Idle EXCEPT !.failed = wrong] /\ UNCHANGED newest

ReadLoad(l) ==
    /\ server.up /\ batch.loads[l].at = "sent"
    /\ batch' = [batch EXCEPT !.loads[l] = Read(@)]
    /\ UNCHANGED <<recorded, server, stream, own, newest, page, asked, logs>>

(* Slip: whatever arrives is shown.                                        *)
CurrentAlways(l, caller) == TRUE

(* loadClients shows only what its last call brings.                       *)
Current(l, caller) == l = "clients" => newest = caller

LoadArrives(l) ==
    /\ batch.loads[l].at = "read"
    /\ page' = IF Current(l, "batch") THEN [page EXCEPT ![l] = batch.loads[l].seen] ELSE page
    /\ Over(l, FALSE)
    /\ UNCHANGED <<recorded, server, stream, own, asked, logs>>

(* No answer, or none in time; loadClients keeps the failure of a call     *)
(* that is not the last to itself.                                         *)
LoadFails(l) ==
    /\ Pending(batch.loads[l])
    /\ Over(l, Current(l, "batch"))
    /\ UNCHANGED <<recorded, server, stream, own, page, asked, logs>>

(* createClient, rotate and remove: `await changed()'.  A call of theirs    *)
(* still under way changes nothing any more: it is not the last.           *)
OwnLoad ==
    /\ own' = Sent /\ newest' = "own"
    /\ UNCHANGED <<recorded, server, stream, batch, page, asked, logs>>

OwnRead ==
    /\ server.up /\ own.at = "sent"
    /\ own' = Read(own)
    /\ UNCHANGED <<recorded, server, stream, batch, newest, page, asked, logs>>

OwnArrives ==
    /\ own.at = "read"
    /\ own' = None
    /\ page' = IF Current("clients", "own") THEN [page EXCEPT !["clients"] = own.seen] ELSE page
    /\ UNCHANGED <<recorded, server, stream, batch, newest, asked, logs>>

OwnFails ==
    /\ Pending(own)
    /\ own' = [None EXCEPT !.at = "failed"]
    /\ UNCHANGED <<recorded, server, stream, batch, newest, page, asked, logs>>

-----------------------------------------------------------------------------
(* The logs                                                                *)

(* loadLogs aborts the call before it and shows nothing until it is done.  *)
LoadLogs == [state |-> "sent", seen |-> 0, asked |-> recorded]

(* Slip: a call in progress is left to finish.                             *)
FollowingOnce ==
    CASE logs.state \in {"left", "failed"} -> logs
      [] logs.state \in {"sent", "read"}   -> [logs EXCEPT !.asked = recorded]
      [] OTHER -> LoadLogs

(* refreshVisibleLogs: not after a failure, which waits for the user.      *)
Following == IF logs.state \in {"left", "failed"} THEN logs ELSE LoadLogs

(* The view is opened, or asked to load again.                             *)
ShowLogs ==
    /\ logs' = LoadLogs
    /\ UNCHANGED <<recorded, server, stream, snapshot>>

LeaveLogs ==
    /\ logs' = LeftLogs
    /\ UNCHANGED <<recorded, server, stream, snapshot>>

ReadLogs ==
    /\ server.up /\ logs.state = "sent"
    /\ logs' = [logs EXCEPT !.state = "read", !.seen = recorded]
    /\ UNCHANGED <<recorded, server, stream, snapshot>>

LogsArrive ==
    /\ logs.state = "read"
    /\ logs' = [logs EXCEPT !.state = "shown"]
    /\ UNCHANGED <<recorded, server, stream, snapshot>>

LogsFail ==
    /\ logs.state \in {"sent", "read"}
    /\ logs' = [LeftLogs EXCEPT !.state = "failed"]
    /\ UNCHANGED <<recorded, server, stream, snapshot>>

-----------------------------------------------------------------------------
(* The page                                                                *)

(* Slip: a stream that opens is up to date.                                *)
ReceiveUnlessOpen ==
    /\ wire # "none"
    /\ wire' = "none"
    /\ IF wire = "open" THEN UNCHANGED snapshot ELSE Refresh
    /\ logs' = IF wire = "open" THEN logs ELSE Following
    /\ UNCHANGED <<recorded, server, receiver, refused>>

(* The listeners of `open', `system-event' and `resync-required'.          *)
Receive ==
    /\ wire # "none"
    /\ wire' = "none"
    /\ Refresh
    /\ logs' = IF wire = "open" THEN logs ELSE Following
    /\ UNCHANGED <<recorded, server, receiver, refused>>

(* Every 15 s, unless the document is hidden; or the header's button.      *)
TimerFires ==
    /\ Refresh
    /\ UNCHANGED <<recorded, server, stream, logs>>

-----------------------------------------------------------------------------

Loading(l) == ReadLoad(l) \/ LoadArrives(l) \/ LoadFails(l)

Next ==
    \/ Record \/ Announce \/ Connect \/ Forward \/ Break \/ Crash \/ Start \/ Refused
    \/ \E l \in Loaders : Loading(l)
    \/ OwnLoad \/ OwnRead \/ OwnArrives \/ OwnFails
    \/ ShowLogs \/ LeaveLogs \/ ReadLogs \/ LogsArrive \/ LogsFail
    \/ Receive \/ TimerFires

Spec == Init /\ [][Next]_vars

-----------------------------------------------------------------------------
(* Properties                                                              *)

(* All variables keep their shape; a receiver has at most Capacity         *)
(* messages to read.                                                       *)
TypeOK ==
    /\ recorded \in Versions /\ asked \in Versions
    /\ server \in [up : BOOLEAN, announcing : BOOLEAN]
    /\ receiver \in [there : BOOLEAN, unread : 0..Capacity, lagged : BOOLEAN]
    /\ wire \in {"none", "open", "event", "resync"}
    /\ refused \in BOOLEAN
    /\ batch \in [running : BOOLEAN, queued : BOOLEAN, failed : BOOLEAN, loads : [Loaders -> Request]]
    /\ own \in Request /\ newest \in {"batch", "own"}
    /\ page \in [Loaders -> Versions]
    /\ logs \in [state : {"left", "sent", "read", "shown", "failed"}, seen : Versions, asked : Versions]

(* A list a batch brought: not one whose place a later call of loadClients *)
(* took, which is under way or failed.                                     *)
Brought(l) == l = "clients" => newest = "batch" \/ own.at = "none"

(* When the promise of a refresh is resolved, what is shown was read after *)
(* the refresh was asked for, however many calls it was shared between.    *)
AskedIsShown ==
    ~batch.running /\ ~batch.failed => \A l \in Loaders : Brought(l) => page[l] >= asked

(* Once everything in an open stream has been taken care of, the page      *)
(* shows every event, whatever was lost while no stream was open, or       *)
(* overwritten in the channel.                                             *)
Quiet == receiver.there /\ receiver.unread = 0 /\ ~receiver.lagged /\ wire = "none" /\ ~server.announcing

NothingMissed ==
    Quiet /\ ~batch.running /\ ~batch.failed => \A l \in Loaders : Brought(l) => page[l] = recorded

(* The open logs show everything the page has heard of, unless they say    *)
(* that they could not be loaded.                                          *)
LogsFollow == logs.state = "shown" => logs.seen >= logs.asked

(* No list ever goes back to an older state, although answers overtake     *)
(* each other.                                                             *)
NeverBack == [][\A l \in Loaders : page'[l] >= page[l]]_vars

=============================================================================
