--------------------------- MODULE EventFeedProofs ---------------------------
(***************************************************************************)
(* The properties of EventFeed, for any lists, any capacity of the channel *)
(* and any number of events.                                               *)
(*                                                                         *)
(* The invariant has two halves.  StreamInv is the promise of the stream:  *)
(* a receiver that has nothing left to say has said it, so the page asked  *)
(* after the last announcement.  TakenInv is the promise of the refresh:   *)
(* whoever takes care of a list read it, or will, after that.              *)
(***************************************************************************)
EXTENDS EventFeed, TLAPS

USE LoadersAssumption, CapacityAssumption

(* Nothing is read before it is recorded.                                  *)
SeenInv ==
    /\ asked <= recorded /\ own.seen <= recorded
    /\ \A l \in Loaders : page[l] <= recorded /\ batch.loads[l].seen <= recorded

(* A receiver without anything to forward has been asked about everything *)
(* that was announced.                                                     *)
StreamInv ==
    receiver.there /\ receiver.unread = 0 /\ ~receiver.lagged /\ wire = "none"
        => recorded <= (IF server.announcing THEN asked + 1 ELSE asked)

(* A request that brings what was asked for, if it brings anything.        *)
Good(r) == r.at = "sent" \/ (r.at = "read" /\ r.seen >= asked)

(* The list is on its way, has been brought, or whoever was to bring it    *)
(* failed.                                                                 *)
TakenByOwn ==
    \/ Good(own) \/ own.at = "failed"
    \/ own.at = "none" /\ page["clients"] >= asked
TakenByBatch(l) ==
    \/ Good(batch.loads[l])
    \/ ~Pending(batch.loads[l]) /\ (batch.failed \/ page[l] >= asked)

OwnInv == newest = "own" /\ ~batch.queued => TakenByOwn
TakenInv == ~batch.queued => \A l \in Loaders : Current(l, "batch") => TakenByBatch(l)

(* No batch, no load.                                                      *)
BatchInv == ~batch.running => ~batch.queued /\ \A l \in Loaders : ~Pending(batch.loads[l])

(* What will be shown is not older than what is.                           *)
FreshInv ==
    /\ \A l \in Loaders : batch.loads[l].at = "read" /\ Current(l, "batch") => batch.loads[l].seen >= page[l]
    /\ own.at = "read" /\ newest = "own" => own.seen >= page["clients"]

LogsInv ==
    /\ logs.asked <= recorded
    /\ logs.state \in {"read", "shown"} => logs.seen >= logs.asked

IInv == TypeOK /\ SeenInv /\ StreamInv /\ OwnInv /\ TakenInv /\ BatchInv /\ FreshInv /\ LogsInv

-----------------------------------------------------------------------------

LEMMA InitHolds == Init => IInv
<1>. SUFFICES ASSUME Init PROVE IInv
  OBVIOUS
<1>. 0 \in Versions
  BY DEF Versions
<1>0. None \in Request /\ 0 \in 0..Capacity
  BY DEF None, Request
<1>1. TypeOK
  <2>1. receiver \in [there : BOOLEAN, unread : 0..Capacity, lagged : BOOLEAN]
    BY <1>0 DEF Init, NoReceiver
  <2>2. batch \in [running : BOOLEAN, queued : BOOLEAN, failed : BOOLEAN, loads : [Loaders -> Request]]
    BY <1>0 DEF Init, Idle
  <2>3. logs \in [state : {"left", "sent", "read", "shown", "failed"}, seen : Versions, asked : Versions]
    BY DEF Init, LeftLogs
  <2>. QED  BY <1>0, <2>1, <2>2, <2>3 DEF Init, TypeOK
<1>2. SeenInv /\ StreamInv /\ LogsInv
  BY DEF Init, SeenInv, StreamInv, LogsInv, NoReceiver, Idle, None, LeftLogs
<1>3. OwnInv /\ TakenInv /\ BatchInv /\ FreshInv
  BY DEF Init, OwnInv, TakenInv, BatchInv, FreshInv, TakenByBatch, Pending, Idle, None
<1>. QED  BY <1>1, <1>2, <1>3 DEF IInv

(* The server and the stream do not touch what the page has.               *)
LEMMA SnapshotKept ==
    ASSUME IInv, UNCHANGED snapshot, recorded' \in Versions, recorded <= recorded'
    PROVE  SeenInv' /\ OwnInv' /\ TakenInv' /\ BatchInv' /\ FreshInv'
<1>. USE DEF snapshot
<1>1. SeenInv'
  BY DEF IInv, TypeOK, SeenInv, Versions, Request
<1>2. OwnInv'
  BY DEF IInv, OwnInv, TakenByOwn, Good
<1>3. TakenInv'
  BY DEF IInv, TakenInv, TakenByBatch, Good, Pending, Current
<1>4. BatchInv' /\ FreshInv'
  BY DEF IInv, BatchInv, FreshInv, Pending, Current
<1>. QED  BY <1>1, <1>2, <1>3, <1>4

LEMMA LogsKept ==
    ASSUME IInv, UNCHANGED logs, recorded' \in Versions, recorded <= recorded'
    PROVE  LogsInv'
  BY DEF IInv, TypeOK, LogsInv, Versions

LEMMA ServerKeeps ==
    ASSUME IInv, Record \/ Announce \/ Connect \/ Forward \/ Break \/ Crash \/ Start \/ Refused
    PROVE  IInv'
<1>1. UNCHANGED snapshot /\ UNCHANGED logs
  BY DEF Record, Announce, Connect, Forward, Break, Crash, Start, Refused
<1>2. recorded' \in Versions /\ recorded <= recorded'
  BY DEF Record, Announce, Connect, Forward, Break, Crash, Start, Refused, IInv, TypeOK, Versions
<1>3. SeenInv' /\ OwnInv' /\ TakenInv' /\ BatchInv' /\ FreshInv'
  BY <1>1, <1>2, SnapshotKept
<1>4. LogsInv'
  BY <1>1, <1>2, LogsKept
<1>. DEFINE Servers == [up : BOOLEAN, announcing : BOOLEAN]
<1>5. server' \in Servers
  <2>1. server \in Servers
    BY DEF IInv, TypeOK
  <2>2. /\ \A b \in BOOLEAN : [server EXCEPT !.announcing = b] \in Servers
        /\ [server EXCEPT !.up = TRUE] \in Servers
        /\ [up |-> FALSE, announcing |-> FALSE] \in Servers
    BY <2>1
  <2>. HIDE DEF Servers
  <2>. QED  BY <2>1, <2>2 DEF Record, Announce, Connect, Forward, Break, Crash, Start, Refused, stream
<1>. DEFINE Receivers == [there : BOOLEAN, unread : 0..Capacity, lagged : BOOLEAN]
<1>6. receiver' \in Receivers
  <2>1. NoReceiver \in Receivers /\ [NoReceiver EXCEPT !.there = TRUE] \in Receivers
    <3>1. 0 \in 0..Capacity
      OBVIOUS
    <3>. QED  BY <3>1 DEF NoReceiver
  <2>2. receiver \in Receivers
    BY DEF IInv, TypeOK
  <2>3. CASE Announce
    <3>1. receiver.unread # Capacity => receiver.unread + 1 \in 0..Capacity
      BY <2>2
    <3>2. Receives \in Receivers
      BY <2>2, <3>1 DEF Receives
    <3>. QED  BY <2>2, <2>3, <3>2 DEF Announce
  <2>4. CASE Forward
    <3>1. receiver.unread > 0 => receiver.unread - 1 \in 0..Capacity
      BY <2>2
    <3>2. receiver.unread > 0 => [receiver EXCEPT !.unread = @ - 1] \in Receivers
      BY <2>2, <3>1
    <3>. QED  BY <2>1, <2>4, <3>2 DEF Forward
  <2>5. CASE Connect \/ Break \/ Crash
    BY <2>1, <2>5 DEF Connect, Break, Crash
  <2>6. CASE Record \/ Start \/ Refused
    BY <2>2, <2>6 DEF Record, Start, Refused, stream
  <2>. QED  BY <2>3, <2>4, <2>5, <2>6
<1>7. wire' \in {"none", "open", "event", "resync"} /\ refused' \in BOOLEAN
  BY DEF Record, Announce, Connect, Forward, Break, Crash, Start, Refused, IInv, TypeOK, stream
<1>8. TypeOK'
  BY <1>1, <1>2, <1>5, <1>6, <1>7 DEF IInv, TypeOK, snapshot
<1>9. StreamInv'
  <2>1. CASE Record
    BY <2>1 DEF Record, IInv, TypeOK, StreamInv, stream, snapshot, Versions
  <2>2. CASE Announce
    BY <2>2 DEF Announce, IInv, TypeOK, StreamInv, Receives, snapshot, Versions
  <2>3. CASE Connect
    BY <2>3 DEF Connect, StreamInv
  <2>4. CASE Forward
    BY <2>4 DEF Forward, StreamInv
  <2>5. CASE Break \/ Crash
    BY <2>5 DEF Break, Crash, StreamInv, NoReceiver
  <2>6. CASE Start
    BY <2>6 DEF Start, IInv, TypeOK, StreamInv, stream, snapshot
  <2>7. CASE Refused
    BY <2>7 DEF Refused, IInv, StreamInv, snapshot
  <2>. QED  BY <2>1, <2>2, <2>3, <2>4, <2>5, <2>6, <2>7
<1>. QED  BY <1>3, <1>4, <1>8, <1>9 DEF IInv

LEMMA LogActionsKeep ==
    ASSUME IInv, ShowLogs \/ LeaveLogs \/ ReadLogs \/ LogsArrive \/ LogsFail
    PROVE  IInv'
<1>1. UNCHANGED <<recorded, server, stream, snapshot>>
  BY DEF ShowLogs, LeaveLogs, ReadLogs, LogsArrive, LogsFail
<1>2. SeenInv' /\ OwnInv' /\ TakenInv' /\ BatchInv' /\ FreshInv'
  BY <1>1, SnapshotKept DEF IInv, TypeOK, Versions
<1>3. StreamInv'
  BY <1>1 DEF IInv, StreamInv, stream, snapshot
<1>. DEFINE Views == [state : {"left", "sent", "read", "shown", "failed"}, seen : Versions, asked : Versions]
<1>4. logs \in Views /\ recorded \in Versions /\ 0 \in Versions /\ recorded \in Nat
  BY DEF IInv, TypeOK, Versions
<1>5. logs' \in Views /\ LogsInv'
  <2>1. CASE ShowLogs
    BY <1>1, <1>4, <2>1 DEF ShowLogs, LoadLogs, LogsInv
  <2>2. CASE LeaveLogs \/ LogsFail
    BY <1>1, <1>4, <2>2 DEF LeaveLogs, LogsFail, LeftLogs, LogsInv
  <2>3. CASE ReadLogs
    BY <1>1, <1>4, <2>3 DEF ReadLogs, LogsInv, IInv
  <2>4. CASE LogsArrive
    BY <1>1, <1>4, <2>4 DEF LogsArrive, LogsInv, IInv
  <2>. QED  BY <2>1, <2>2, <2>3, <2>4
<1>6. TypeOK'
  BY <1>1, <1>5 DEF IInv, TypeOK, stream, snapshot
<1>. QED  BY <1>2, <1>3, <1>5, <1>6 DEF IInv

-----------------------------------------------------------------------------
(* The refresh                                                             *)

Batches == [running : BOOLEAN, queued : BOOLEAN, failed : BOOLEAN, loads : [Loaders -> Request]]

LEMMA RequestTypes ==
    /\ None \in Request /\ Sent \in Request
    /\ Idle \in Batches /\ NewBatch \in Batches
    /\ \A b \in BOOLEAN : [Idle EXCEPT !.failed = b] \in Batches
<1>. 0 \in Versions
  BY DEF Versions
<1>1. None \in Request /\ Sent \in Request
  BY DEF None, Sent, Request
<1>2. Idle \in Batches
  BY <1>1 DEF Idle, Batches
<1>3. [l \in Loaders |-> Sent] \in [Loaders -> Request]
  BY <1>1
<1>4. NewBatch \in Batches
  BY <1>2, <1>3 DEF NewBatch, Batches
<1>5. \A b \in BOOLEAN : [Idle EXCEPT !.failed = b] \in Batches
  BY <1>2 DEF Batches
<1>. QED  BY <1>1, <1>2, <1>4, <1>5

(* A batch that begins takes care of every list.                           *)
LEMMA NewBatchTakes ==
    ASSUME batch' = NewBatch, newest' = "batch"
    PROVE  OwnInv' /\ TakenInv' /\ BatchInv'
           /\ \A l \in Loaders : batch'.loads[l] = Sent
<1>1. batch'.running /\ \A l \in Loaders : batch'.loads[l] = Sent
  BY DEF NewBatch, Idle
<1>. QED  BY <1>1 DEF OwnInv, TakenInv, TakenByBatch, Good, BatchInv, Sent

LEMMA RefreshKeeps ==
    ASSUME IInv, Refresh, UNCHANGED recorded
    PROVE  /\ batch' \in Batches /\ newest' \in {"batch", "own"} /\ asked' \in Versions
           /\ asked' = recorded
           /\ SeenInv' /\ OwnInv' /\ TakenInv' /\ BatchInv' /\ FreshInv'
<1>0. /\ asked' = recorded /\ UNCHANGED <<own, page>>
      /\ recorded \in Versions /\ batch \in Batches /\ newest \in {"batch", "own"}
  BY DEF Refresh, IInv, TypeOK, Batches
<1>1. CASE batch.running
  <2>1. batch' = [batch EXCEPT !.queued = TRUE] /\ newest' = newest
    BY <1>1 DEF Refresh
  <2>2. batch' \in Batches /\ batch'.queued /\ batch'.running /\ batch'.loads = batch.loads
    <3>1. batch' \in Batches
      BY <1>0, <2>1 DEF Batches
    <3>2. batch'.queued = TRUE /\ batch'.running = batch.running /\ batch'.loads = batch.loads
      BY <1>0, <2>1 DEF Batches
    <3>. QED  BY <1>1, <3>1, <3>2
  <2>3. OwnInv' /\ TakenInv' /\ BatchInv'
    BY <1>1, <2>2 DEF OwnInv, TakenInv, BatchInv
  <2>4. SeenInv' /\ FreshInv'
    BY <1>0, <2>1, <2>2 DEF IInv, SeenInv, FreshInv, TypeOK, Versions, Current
  <2>. QED  BY <1>0, <2>1, <2>2, <2>3, <2>4
<1>2. CASE ~batch.running
  <2>1. batch' = NewBatch /\ newest' = "batch"
    BY <1>2 DEF Refresh
  <2>2. OwnInv' /\ TakenInv' /\ BatchInv' /\ \A l \in Loaders : batch'.loads[l] = Sent
    BY <2>1, NewBatchTakes
  <2>3. SeenInv' /\ FreshInv'
    BY <1>0, <2>1, <2>2 DEF IInv, SeenInv, FreshInv, TypeOK, Versions, Sent
  <2>. QED  BY <1>0, <2>1, <2>2, <2>3, RequestTypes
<1>. QED  BY <1>1, <1>2

LEMMA PageAsks ==
    ASSUME IInv, Receive \/ TimerFires
    PROVE  IInv'
<1>1. Refresh /\ UNCHANGED <<recorded, server, receiver, refused>>
  BY DEF Receive, TimerFires, stream
<1>2. /\ batch' \in Batches /\ newest' \in {"batch", "own"} /\ asked' \in Versions
      /\ asked' = recorded
      /\ SeenInv' /\ OwnInv' /\ TakenInv' /\ BatchInv' /\ FreshInv'
  BY <1>1, RefreshKeeps
<1>3. wire' \in {"none", "open", "event", "resync"}
  BY DEF Receive, TimerFires, stream, IInv, TypeOK
<1>. DEFINE Views == [state : {"left", "sent", "read", "shown", "failed"}, seen : Versions, asked : Versions]
<1>4. logs' \in Views /\ LogsInv'
  <2>1. logs \in Views /\ recorded \in Versions /\ 0 \in Versions /\ recorded \in Nat
    BY DEF IInv, TypeOK, Versions
  <2>2. LoadLogs \in Views /\ LoadLogs.asked = recorded /\ LoadLogs.state = "sent"
    BY <2>1 DEF LoadLogs
  <2>3. logs' = logs \/ logs' = LoadLogs
    BY DEF Receive, TimerFires, Following
  <2>. QED  BY <1>1, <2>1, <2>2, <2>3 DEF IInv, LogsInv
<1>5. TypeOK'
  BY <1>1, <1>2, <1>3, <1>4 DEF IInv, TypeOK, Refresh, Batches
<1>6. StreamInv'
  <2>1. server \in [up : BOOLEAN, announcing : BOOLEAN] /\ recorded \in Nat
    BY DEF IInv, TypeOK, Versions
  <2>. QED  BY <1>1, <1>2, <2>1 DEF StreamInv
<1>. QED  BY <1>2, <1>4, <1>5, <1>6 DEF IInv

-----------------------------------------------------------------------------
(* One load of a batch is over                                             *)

(* What the load that is over leaves behind: the list is taken care of.    *)
LEMMA OverKeeps ==
    ASSUME IInv, NEW l \in Loaders, NEW failed \in BOOLEAN,
           Pending(batch.loads[l]), Over(l, failed),
           UNCHANGED <<recorded, own, asked>>,
           page' \in [Loaders -> Versions],
           \A k \in Loaders : page[k] <= page'[k] /\ page'[k] <= recorded,
           \A k \in Loaders : k # l => page'[k] = page[k],
           ~Current(l, "batch") => page' = page,
           Current(l, "batch") /\ ~batch.queued => failed \/ page'[l] >= asked
    PROVE  /\ batch' \in Batches /\ newest' \in {"batch", "own"}
           /\ SeenInv' /\ OwnInv' /\ TakenInv' /\ BatchInv' /\ FreshInv'
<1>. DEFINE loads == [batch.loads EXCEPT ![l] = None]
            wrong == batch.failed \/ failed
<1>0. /\ batch \in Batches /\ newest \in {"batch", "own"} /\ batch.running
      /\ recorded \in Versions /\ asked \in Versions /\ own \in Request
      /\ page \in [Loaders -> Versions]
  BY DEF IInv, TypeOK, BatchInv, Batches
<1>1. /\ loads \in [Loaders -> Request] /\ wrong \in BOOLEAN
      /\ loads[l] = None /\ ~Pending(loads[l])
      /\ \A k \in Loaders : k # l => loads[k] = batch.loads[k]
  <2>1. loads \in [Loaders -> Request]
    BY <1>0, RequestTypes DEF Batches
  <2>2. loads[l] = None /\ \A k \in Loaders : k # l => loads[k] = batch.loads[k]
    BY <1>0 DEF Batches
  <2>3. ~Pending(None)
    BY DEF None, Pending
  <2>. HIDE DEF loads
  <2>. QED  BY <2>1, <2>2, <2>3
<1>2. Over(l, failed) <=>
        IF \E k \in Loaders : Pending(loads[k])
        THEN batch' = [batch EXCEPT !.loads = loads, !.failed = wrong] /\ UNCHANGED newest
        ELSE IF batch.queued
        THEN batch' = NewBatch /\ newest' = "batch"
        ELSE batch' = [Idle EXCEPT !.failed = wrong] /\ UNCHANGED newest
  BY DEF Over
<1>. HIDE DEF loads, wrong
(* Own calls and lists of the others are as before. *)
<1>3. newest' = newest /\ (batch'.queued = batch.queued) => OwnInv'
  <2>1. "clients" \in Loaders
    OBVIOUS
  <2>2. newest = "own" => page'["clients"] = page["clients"]
    BY <2>1 DEF Current
  <2>. QED  BY <2>2 DEF IInv, OwnInv, TakenByOwn, Good
(* A list is taken care of by what is left of the batch. *)
<1>4. ASSUME ~batch.queued, NEW k \in Loaders, Current(k, "batch")
      PROVE  \/ Good(loads[k])
             \/ ~Pending(loads[k]) /\ (wrong \/ page'[k] >= asked)
  <2>1. CASE k = l
    BY <1>1, <1>4, <2>1 DEF wrong
  <2>2. CASE k # l
    BY <1>1, <1>4, <2>2 DEF IInv, TakenInv, TakenByBatch, wrong
  <2>. QED  BY <2>1, <2>2
<1>5. CASE \E k \in Loaders : Pending(loads[k])
  <2>1. batch' = [batch EXCEPT !.loads = loads, !.failed = wrong] /\ newest' = newest
    BY <1>2, <1>5
  <2>2. /\ batch' \in Batches
        /\ batch'.loads = loads /\ batch'.failed = wrong
        /\ batch'.queued = batch.queued /\ batch'.running = batch.running
    BY <1>0, <1>1, <2>1 DEF Batches
  <2>3. SeenInv'
    BY <1>0, <1>1, <2>2 DEF IInv, SeenInv, None, Versions
  <2>4. TakenInv'
    BY <1>0, <1>4, <2>1, <2>2 DEF TakenInv, TakenByBatch, Good, Current
  <2>5. BatchInv'
    BY <1>0, <2>2 DEF BatchInv
  <2>6. FreshInv'
    BY <1>1, <2>1, <2>2 DEF IInv, FreshInv, Current, None
  <2>. QED  BY <1>0, <1>3, <2>1, <2>2, <2>3, <2>4, <2>5, <2>6
<1>6. CASE ~(\E k \in Loaders : Pending(loads[k])) /\ batch.queued
  <2>1. batch' = NewBatch /\ newest' = "batch"
    BY <1>2, <1>6
  <2>2. OwnInv' /\ TakenInv' /\ BatchInv' /\ \A k \in Loaders : batch'.loads[k] = Sent
    BY <2>1, NewBatchTakes
  <2>3. SeenInv' /\ FreshInv'
    BY <1>0, <2>1, <2>2 DEF IInv, SeenInv, FreshInv, Versions, Sent
  <2>. QED  BY <2>1, <2>2, <2>3, RequestTypes
<1>7. CASE ~(\E k \in Loaders : Pending(loads[k])) /\ ~batch.queued
  <2>1. batch' = [Idle EXCEPT !.failed = wrong] /\ newest' = newest
    BY <1>2, <1>7
  <2>2. /\ batch'.failed = wrong /\ batch'.queued = FALSE /\ batch'.running = FALSE
        /\ \A k \in Loaders : batch'.loads[k] = None
    BY <1>0, <1>1, <2>1 DEF Idle
  <2>3. SeenInv'
    BY <1>0, <2>2 DEF IInv, SeenInv, None, Versions
  <2>4. TakenInv'
    <3>1. \A k \in Loaders : ~Pending(None) /\ (Current(k, "batch") => wrong \/ page'[k] >= asked)
      BY <1>4, <1>7 DEF None, Pending, Good
    <3>. QED  BY <2>1, <2>2, <3>1 DEF TakenInv, TakenByBatch, Current
  <2>5. BatchInv'
    BY <2>2 DEF BatchInv, None, Pending
  <2>6. FreshInv'
    <3>1. newest = "own" => page'["clients"] = page["clients"]
      BY DEF Current
    <3>. QED  BY <2>1, <2>2, <3>1 DEF IInv, FreshInv, None
  <2>7. batch' \in Batches
    BY <1>1, <2>1, RequestTypes
  <2>8. OwnInv'
    <3>1. batch.queued = FALSE
      BY <1>0, <1>7 DEF Batches
    <3>. QED  BY <1>3, <2>1, <2>2, <3>1
  <2>. QED  BY <1>0, <2>1, <2>3, <2>4, <2>5, <2>6, <2>7, <2>8
<1>. QED  BY <1>5, <1>6, <1>7

(* What stays as it was when only the snapshot changes.                    *)
LEMMA OthersKept ==
    ASSUME IInv, UNCHANGED <<recorded, server, stream, asked, logs>>,
           batch' \in Batches, own' \in Request, newest' \in {"batch", "own"},
           page' \in [Loaders -> Versions]
    PROVE  TypeOK' /\ StreamInv' /\ LogsInv'
  BY DEF IInv, TypeOK, StreamInv, LogsInv, stream, Batches

LEMMA LoadingKeeps ==
    ASSUME IInv, NEW l \in Loaders, Loading(l)
    PROVE  IInv' /\ \A k \in Loaders : page[k] <= page'[k]
<1>0. /\ batch \in Batches /\ batch.loads \in [Loaders -> Request] /\ own \in Request
      /\ newest \in {"batch", "own"} /\ recorded \in Nat /\ recorded \in Versions
      /\ asked \in Nat /\ page \in [Loaders -> Versions] /\ page \in [Loaders -> Nat]
  BY DEF IInv, TypeOK, Batches, Versions
<1>1. CASE ReadLoad(l)
  <2>1. /\ batch.loads[l].at = "sent" /\ batch' = [batch EXCEPT !.loads[l] = Read(@)]
        /\ UNCHANGED <<recorded, server, stream, own, newest, page, asked, logs>>
    BY <1>1 DEF ReadLoad
  <2>2. /\ Read(batch.loads[l]) \in Request
        /\ Read(batch.loads[l]).at = "read" /\ Read(batch.loads[l]).seen = recorded
    BY <1>0 DEF Read, Request
  <2>3. /\ batch' \in Batches
        /\ batch'.queued = batch.queued /\ batch'.running = batch.running /\ batch'.failed = batch.failed
        /\ batch'.loads[l] = Read(batch.loads[l])
        /\ \A k \in Loaders : k # l => batch'.loads[k] = batch.loads[k]
    BY <1>0, <2>1, <2>2 DEF Batches
  <2>4. SeenInv' /\ FreshInv'
    BY <1>0, <2>1, <2>2, <2>3 DEF IInv, SeenInv, FreshInv, Current
  <2>5. OwnInv'
    BY <2>1, <2>3 DEF IInv, OwnInv, TakenByOwn, Good
  <2>6. TakenInv'
    <3>. SUFFICES ASSUME ~batch'.queued, NEW k \in Loaders, Current(k, "batch")'
                  PROVE  TakenByBatch(k)'
      BY DEF TakenInv
    <3>1. ~batch.queued /\ Current(k, "batch")
      BY <2>1, <2>3 DEF Current
    <3>2. CASE k = l
      BY <1>0, <2>1, <2>2, <2>3, <3>2 DEF IInv, SeenInv, TakenByBatch, Good
    <3>3. CASE k # l
      BY <2>1, <2>3, <3>1, <3>3 DEF IInv, TakenInv, TakenByBatch, Good
    <3>. QED  BY <3>2, <3>3
  <2>7. BatchInv'
    <3>1. batch.running
      BY <2>1 DEF IInv, BatchInv, Pending
    <3>. QED  BY <2>3, <3>1 DEF BatchInv
  <2>8. TypeOK' /\ StreamInv' /\ LogsInv'
    BY <1>0, <2>1, <2>3, OthersKept
  <2>. QED  BY <1>0, <2>1, <2>4, <2>5, <2>6, <2>7, <2>8 DEF IInv
<1>2. CASE LoadArrives(l)
  <2>1. /\ batch.loads[l].at = "read" /\ Over(l, FALSE)
        /\ page' = IF Current(l, "batch") THEN [page EXCEPT ![l] = batch.loads[l].seen] ELSE page
        /\ UNCHANGED <<recorded, server, stream, own, asked, logs>>
    BY <1>2 DEF LoadArrives
  <2>2. batch.loads[l].seen \in Versions /\ batch.loads[l].seen \in Nat /\ batch.loads[l].seen <= recorded
    BY <1>0 DEF IInv, SeenInv, Request, Versions
  <2>3. /\ page' \in [Loaders -> Versions]
        /\ \A k \in Loaders : k # l => page'[k] = page[k]
        /\ Current(l, "batch") => page'[l] = batch.loads[l].seen
        /\ ~Current(l, "batch") => page' = page
    BY <1>0, <2>1, <2>2
  <2>4. \A k \in Loaders : page[k] <= page'[k] /\ page'[k] <= recorded
    <3>. TAKE k \in Loaders
    <3>1. page[k] <= recorded /\ page[k] \in Nat
      BY <1>0 DEF IInv, SeenInv
    <3>2. k = l /\ Current(l, "batch") => page[l] <= batch.loads[l].seen
      BY <2>1 DEF IInv, FreshInv
    <3>. QED  BY <2>2, <2>3, <3>1, <3>2
  <2>5. Current(l, "batch") /\ ~batch.queued => page'[l] >= asked
    BY <2>1, <2>3 DEF IInv, TakenInv, TakenByBatch, Good, Pending
  <2>6. Pending(batch.loads[l])
    BY <2>1 DEF Pending
  <2>7. /\ batch' \in Batches /\ newest' \in {"batch", "own"}
        /\ SeenInv' /\ OwnInv' /\ TakenInv' /\ BatchInv' /\ FreshInv'
    BY <2>1, <2>3, <2>4, <2>5, <2>6, OverKeeps
  <2>8. TypeOK' /\ StreamInv' /\ LogsInv'
    BY <1>0, <2>1, <2>3, <2>7, OthersKept
  <2>. QED  BY <2>4, <2>7, <2>8 DEF IInv
<1>3. CASE LoadFails(l)
  <2>1. /\ Pending(batch.loads[l]) /\ Over(l, Current(l, "batch"))
        /\ UNCHANGED <<recorded, server, stream, own, page, asked, logs>>
    BY <1>3 DEF LoadFails
  <2>2. \A k \in Loaders : page[k] <= page'[k] /\ page'[k] <= recorded
    BY <1>0, <2>1 DEF IInv, SeenInv
  <2>3. Current(l, "batch") \in BOOLEAN
    BY DEF Current
  <2>4. /\ batch' \in Batches /\ newest' \in {"batch", "own"}
        /\ SeenInv' /\ OwnInv' /\ TakenInv' /\ BatchInv' /\ FreshInv'
    <3>. DEFINE failed == Current(l, "batch")
    <3>1. failed \in BOOLEAN /\ Over(l, failed) /\ (Current(l, "batch") => failed)
      BY <2>1, <2>3
    <3>. HIDE DEF failed
    <3>. QED  BY <1>0, <2>1, <2>2, <3>1, OverKeeps
  <2>5. TypeOK' /\ StreamInv' /\ LogsInv'
    BY <1>0, <2>1, <2>4, OthersKept
  <2>. QED  BY <2>2, <2>4, <2>5 DEF IInv
<1>. QED  BY <1>1, <1>2, <1>3 DEF Loading

LEMMA OwnKeeps ==
    ASSUME IInv, OwnLoad \/ OwnRead \/ OwnArrives \/ OwnFails
    PROVE  IInv' /\ \A k \in Loaders : page[k] <= page'[k]
<1>0. /\ batch \in Batches /\ own \in Request /\ "clients" \in Loaders
      /\ newest \in {"batch", "own"} /\ recorded \in Nat /\ recorded \in Versions
      /\ asked \in Nat /\ page \in [Loaders -> Versions] /\ page \in [Loaders -> Nat]
  BY DEF IInv, TypeOK, Batches, Versions
<1>1. UNCHANGED <<recorded, server, stream, batch, asked, logs>>
  BY DEF OwnLoad, OwnRead, OwnArrives, OwnFails
<1>2. own' \in Request /\ own'.seen <= recorded /\ newest' \in {"batch", "own"}
  <2>1. 0 \in Versions /\ 0 <= recorded
    BY <1>0 DEF Versions
  <2>2. /\ None \in Request /\ None.seen <= recorded
        /\ Sent \in Request /\ Sent.seen <= recorded
    BY <1>0, <2>1 DEF None, Sent, Request
  <2>3. [None EXCEPT !.at = "failed"] \in Request /\ [None EXCEPT !.at = "failed"].seen <= recorded
    <3>1. [None EXCEPT !.at = "failed"] = [at |-> "failed", seen |-> 0]
      BY DEF None
    <3>. QED  BY <2>1, <3>1 DEF Request
  <2>4. Read(own) \in Request /\ Read(own).seen <= recorded
    <3>1. Read(own) \in Request /\ Read(own).seen = recorded
      BY <1>0 DEF Read, Request
    <3>. QED  BY <1>0, <3>1
  <2>5. own' \in Request /\ own'.seen <= recorded
    BY <2>2, <2>3, <2>4 DEF OwnLoad, OwnRead, OwnArrives, OwnFails
  <2>. QED  BY <1>0, <2>5 DEF OwnLoad, OwnRead, OwnArrives, OwnFails
<1>3. /\ page' \in [Loaders -> Versions]
      /\ \A k \in Loaders : k # "clients" \/ newest # "own" => page'[k] = page[k]
      /\ \A k \in Loaders : page[k] <= page'[k] /\ page'[k] <= recorded
  <2>1. CASE OwnArrives
    <3>1. own.seen \in Versions /\ own.seen \in Nat /\ own.seen <= recorded
      BY <1>0 DEF IInv, SeenInv, Request, Versions
    <3>2. /\ page' \in [Loaders -> Versions]
          /\ \A k \in Loaders : k # "clients" \/ newest # "own" => page'[k] = page[k]
          /\ newest = "own" => page'["clients"] = own.seen
      BY <1>0, <2>1, <3>1 DEF OwnArrives, Current
    <3>3. newest = "own" => page["clients"] <= own.seen
      BY <2>1 DEF OwnArrives, IInv, FreshInv
    <3>4. \A k \in Loaders : page[k] <= page'[k] /\ page'[k] <= recorded
      BY <1>0, <3>1, <3>2, <3>3 DEF IInv, SeenInv
    <3>. QED  BY <3>2, <3>4
  <2>2. CASE ~OwnArrives
    BY <1>0, <2>2 DEF OwnLoad, OwnRead, OwnFails, IInv, SeenInv
  <2>. QED  BY <2>1, <2>2
<1>4. SeenInv'
  BY <1>1, <1>2, <1>3 DEF IInv, SeenInv
<1>5. TypeOK' /\ StreamInv' /\ LogsInv'
  BY <1>0, <1>1, <1>2, <1>3, OthersKept
<1>6. BatchInv'
  BY <1>1 DEF IInv, BatchInv
<1>7. TakenInv' /\ \A k \in Loaders : Current(k, "batch")' => page'[k] = page[k] /\ Current(k, "batch")
  <2>1. newest' = newest \/ newest' = "own"
    BY DEF OwnLoad, OwnRead, OwnArrives, OwnFails
  <2>2. \A k \in Loaders : Current(k, "batch")' => page'[k] = page[k] /\ Current(k, "batch")
    BY <1>3, <2>1 DEF Current
  <2>. QED  BY <1>1, <2>2 DEF IInv, TakenInv, TakenByBatch, Good
<1>8. OwnInv' /\ (own'.at = "read" /\ newest' = "own" => own'.seen >= page'["clients"])
  <2>1. CASE OwnLoad
    BY <2>1 DEF OwnLoad, OwnInv, TakenByOwn, Good, Sent
  <2>2. CASE OwnRead
    <3>1. own'.at = "read" /\ own'.seen = recorded /\ newest' = newest
      BY <1>0, <2>2 DEF OwnRead, Read, Request
    <3>. QED  BY <1>0, <1>1, <1>3, <3>1 DEF IInv, SeenInv, OwnInv, TakenByOwn, Good
  <2>3. CASE OwnArrives
    <3>1. /\ own.at = "read" /\ own'.at = "none" /\ newest' = newest
          /\ newest = "own" => page'["clients"] = own.seen
      BY <1>0, <2>3 DEF OwnArrives, None, Current
    <3>. QED  BY <1>1, <3>1 DEF IInv, OwnInv, TakenByOwn, Good
  <2>4. CASE OwnFails
    BY <2>4 DEF OwnFails, OwnInv, TakenByOwn, None
  <2>. QED  BY <2>1, <2>2, <2>3, <2>4
<1>9. FreshInv'
  BY <1>1, <1>7, <1>8 DEF IInv, FreshInv
<1>. QED  BY <1>3, <1>4, <1>5, <1>6, <1>7, <1>8, <1>9 DEF IInv

-----------------------------------------------------------------------------

LEMMA NextHolds == IInv /\ [Next]_vars => IInv'
<1>. SUFFICES ASSUME IInv, [Next]_vars PROVE IInv'
  OBVIOUS
<1>1. CASE Record \/ Announce \/ Connect \/ Forward \/ Break \/ Crash \/ Start \/ Refused
  BY <1>1, ServerKeeps
<1>2. CASE \E l \in Loaders : Loading(l)
  BY <1>2, LoadingKeeps
<1>3. CASE OwnLoad \/ OwnRead \/ OwnArrives \/ OwnFails
  BY <1>3, OwnKeeps
<1>4. CASE ShowLogs \/ LeaveLogs \/ ReadLogs \/ LogsArrive \/ LogsFail
  BY <1>4, LogActionsKeep
<1>5. CASE Receive \/ TimerFires
  BY <1>5, PageAsks
<1>6. CASE UNCHANGED vars
  <2>1. /\ UNCHANGED <<recorded, server, stream, asked, logs>> /\ UNCHANGED snapshot
        /\ recorded \in Versions /\ recorded <= recorded'
    BY <1>6 DEF vars, stream, snapshot, IInv, TypeOK, Versions
  <2>2. SeenInv' /\ OwnInv' /\ TakenInv' /\ BatchInv' /\ FreshInv'
    BY <2>1, SnapshotKept
  <2>3. TypeOK' /\ StreamInv' /\ LogsInv'
    BY <2>1, OthersKept DEF snapshot, IInv, TypeOK, Batches
  <2>. QED  BY <2>2, <2>3 DEF IInv
<1>. QED  BY <1>1, <1>2, <1>3, <1>4, <1>5, <1>6 DEF Next

THEOREM Invariance == Spec => []IInv
  BY InitHolds, NextHolds, PTL DEF Spec

(* All variables keep their shape, and a receiver never has more messages  *)
(* to read than the channel keeps.                                         *)
THEOREM TypeCorrect == Spec => []TypeOK
<1>1. IInv => TypeOK
  BY DEF IInv
<1>. QED  BY <1>1, Invariance, PTL

(* Without a batch every list that was brought is as new as what was asked. *)
LEMMA BroughtIsNew ==
    ASSUME IInv, ~batch.running, ~batch.failed, NEW l \in Loaders, Brought(l)
    PROVE  page[l] >= asked
<1>1. ~batch.queued /\ ~Pending(batch.loads[l])
  BY DEF IInv, BatchInv
<1>2. CASE Current(l, "batch")
  BY <1>1, <1>2 DEF IInv, TakenInv, TakenByBatch, Good, Pending
<1>3. CASE ~Current(l, "batch")
  <2>1. l = "clients" /\ newest = "own" /\ own.at = "none"
    BY <1>3 DEF Current, Brought, IInv, TypeOK
  <2>. QED  BY <1>1, <2>1 DEF IInv, OwnInv, TakenByOwn, Good
<1>. QED  BY <1>2, <1>3

(* A refresh that resolves has shown what was read after it was asked for: *)
(* createSnapshotRefresh gives its callers a promise that is older than    *)
(* their call, and runs another batch before it keeps it.                  *)
THEOREM RefreshKeepsItsPromise == Spec => []AskedIsShown
<1>1. IInv => AskedIsShown
  BY BroughtIsNew DEF AskedIsShown
<1>. QED  BY <1>1, Invariance, PTL

(* A quiet stream has made the page ask after the last announcement.       *)
THEOREM NothingIsMissed == Spec => []NothingMissed
<1>1. IInv => NothingMissed
  <2>. SUFFICES ASSUME IInv, Quiet, ~batch.running, ~batch.failed, NEW l \in Loaders, Brought(l)
                PROVE  page[l] = recorded
    BY DEF NothingMissed
  <2>1. recorded <= asked
    BY DEF Quiet, IInv, StreamInv
  <2>2. page[l] >= asked
    BY BroughtIsNew
  <2>3. page[l] <= recorded /\ page[l] \in Nat /\ recorded \in Nat /\ asked \in Nat
    BY DEF IInv, SeenInv, TypeOK, Versions
  <2>. QED  BY <2>1, <2>2, <2>3
<1>. QED  BY <1>1, Invariance, PTL

(* loadLogs begins again when the page hears of something meanwhile.       *)
THEOREM LogsAreCurrent == Spec => []LogsFollow
<1>1. IInv => LogsFollow
  BY DEF IInv, LogsInv, LogsFollow
<1>. QED  BY <1>1, Invariance, PTL

(* The generation of loadClients keeps an overtaken answer from the page.  *)
THEOREM ListsGoForward == Spec => NeverBack
<1>. DEFINE Forth == \A l \in Loaders : page'[l] >= page[l]
<1>1. IInv /\ [Next]_vars => [Forth]_vars
  <2>. SUFFICES ASSUME IInv, Next PROVE Forth
    OBVIOUS
  <2>0. page \in [Loaders -> Nat]
    BY DEF IInv, TypeOK, Versions
  <2>1. CASE \E l \in Loaders : Loading(l)
    BY <2>1, LoadingKeeps, NextHolds, <2>0 DEF IInv, TypeOK, Versions
  <2>2. CASE OwnLoad \/ OwnRead \/ OwnArrives \/ OwnFails
    BY <2>2, OwnKeeps, <2>0 DEF IInv, TypeOK, Versions
  <2>3. CASE page' = page
    BY <2>0, <2>3
  <2>4. Record \/ Announce \/ Connect \/ Forward \/ Break \/ Crash \/ Start \/ Refused => page' = page
    BY DEF Record, Announce, Connect, Forward, Break, Crash, Start, Refused, snapshot
  <2>5. ShowLogs \/ LeaveLogs \/ ReadLogs \/ LogsArrive \/ LogsFail \/ Receive \/ TimerFires => page' = page
    BY DEF ShowLogs, LeaveLogs, ReadLogs, LogsArrive, LogsFail, Receive, TimerFires, Refresh, snapshot
  <2>. QED  BY <2>1, <2>2, <2>3, <2>4, <2>5 DEF Next
<1>. QED  BY <1>1, Invariance, PTL DEF Spec, NeverBack

=============================================================================
