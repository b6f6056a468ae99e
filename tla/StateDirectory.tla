--------------------------- MODULE StateDirectory ---------------------------
(***************************************************************************)
(* The files a server shares with the other commands of its program and    *)
(* with maintenance tools: data directories with their database, runtime   *)
(* directories with app.pid, and the advisory locks of both.  Processes    *)
(* run `run` (app::serve), `init`, `doctor` or an external restore tool,   *)
(* several at a time; any of them may be killed between two steps, which   *)
(* frees its locks and nothing else.  An administrator may once replace or *)
(* hard-link a database without any lock, and the deploy scripts remove an *)
(* app.pid some time after they looked for its process.                    *)
(***************************************************************************)
EXTENDS Naturals, FiniteSets

CONSTANTS
    Processes,
    Service,     \* the process slot that xcos.service supervises
    Dirs,        \* directories: each may hold a database, an app.pid, or both
    Layouts,     \* <<data directory, runtime directory>> of the configurations in use
    None,        \* no process, no directory
    MaxFiles,    \* bound: database files that exist at a time
    Scripted,    \* runtime directories whose server the deploy scripts start and stop
    Copies,      \* the defects that a copy put in place may have
    Touches      \* bound: whether the administrator may do so: 0 or 1

(* What a check of the database looks at.                                  *)
Defects == {"structure", "lease", "integrity", "administrators", "credentials", "codes", "cameras"}

ASSUME ConstantsAssumption ==
    /\ None \notin Processes \cup Dirs
    /\ Service \in Processes
    /\ Layouts \subseteq Dirs \X Dirs
    /\ MaxFiles \in Nat /\ Touches \in Nat
    /\ Copies \subseteq SUBSET Defects
    /\ Scripted \subseteq Dirs

VARIABLES
    dir,       \* [Dirs -> database file in place or 0, app.pid, maintenance pending, empty]
    file,      \* [file -> its defects]
    held,      \* [Processes -> the locks held, <<directory, mode>>]
    proc,      \* [Processes -> next step, directories, file identities]
    scripts,   \* directories where a script has found no server running
    touched    \* how often the administrator put a file in place

vars == <<dir, file, held, proc, scripts, touched>>

Files == 1..MaxFiles
Modes == {"instance", "shared", "exclusive"}

(* A process: its next step, its data and runtime directories, the file    *)
(* identity it recorded, the file its connections are open on, and the     *)
(* staging file it fills; 0 for none.                                      *)
Steps == {"idle", "checked", "locked", "identified", "named", "validated", "open", "verified",
          "serving", "closing", "dropping", "releasing",
          "asking", "inspecting", "probing", "writing",
          "created", "preparing", "staged", "filled",
          "restoring", "emptied", "restored"}
Idle == [pc |-> "idle", data |-> None, runtime |-> None, seen |-> 0, pool |-> 0, stage |-> 0]

Init ==
    /\ dir = [d \in Dirs |-> [db |-> 0, pid |-> None, pending |-> FALSE, empty |-> TRUE]]
    /\ file = [f \in Files |-> {}]
    /\ held = [p \in Processes |-> {}]
    /\ proc = [p \in Processes |-> Idle]
    /\ scripts = {}
    /\ touched = 0

-----------------------------------------------------------------------------
(* Files and locks                                                         *)

At(p, pc)   == proc[p].pc = pc
Data(p)     == proc[p].data
Runtime(p)  == proc[p].runtime
Go(p, pc)   == proc' = [proc EXCEPT ![p].pc = pc]
Placed(d)   == dir[d].db

(* A regular file with one name.                                           *)
Single(d) == Placed(d) # 0 /\ \A e \in Dirs \ {d} : Placed(e) # Placed(d)

Referenced(f) ==
    \/ \E d \in Dirs : Placed(d) = f
    \/ \E p \in Processes : f \in {proc[p].seen, proc[p].pool, proc[p].stage}
Unused == {f \in Files : ~Referenced(f)}
NewFile == CHOOSE f \in Unused : TRUE

(* The locks of a directory: an instance lock takes .state-instance.lock   *)
(* exclusively and .state-maintenance.lock shared; the other two modes are *)
(* those of .state-maintenance.lock.                                       *)
Conflict(a, b) == "exclusive" \in {a, b} \/ (a = "instance" /\ b = "instance")
CanLock(p, d, mode) ==
    \A q \in Processes \ {p}, other \in Modes : <<d, other>> \in held[q] => ~Conflict(mode, other)
TakeLock(p, d, mode) == held' = [held EXCEPT ![p] = @ \cup {<<d, mode>>}]
CanBeInstance(p, d) == ~dir[d].pending /\ CanLock(p, d, "instance")

(* The checks of a database, each on a private copy or on open connections. *)
StructureSound(f)   == "structure" \notin file[f]
LeaseSound(f)       == "lease" \notin file[f]
Current(f)          == StructureSound(f) /\ LeaseSound(f)
Intact(f)           == "integrity" \notin file[f]
Administered(f)     == "administrators" \notin file[f]
CredentialsOpen(f)  == "credentials" \notin file[f]
CodesMatch(f)       == CredentialsOpen(f) /\ "codes" \notin file[f]
CamerasReadable(f)  == "cameras" \notin file[f]

(* A private copy of the database in place is taken and has its current    *)
(* structure.                                                              *)
Snapshot(d) == Single(d) /\ Current(Placed(d))

(* Slip: the lock files stay locked.                                       *)
EndsLocked(p) ==
    /\ proc' = [proc EXCEPT ![p] = Idle]
    /\ UNCHANGED held

(* The process ends: locks and connections go with it.                     *)
Ends(p) ==
    /\ proc' = [proc EXCEPT ![p] = Idle]
    /\ held' = [held EXCEPT ![p] = {}]

-----------------------------------------------------------------------------
(* run: app::serve                                                         *)

(* Missing or unknown data is rejected before any lock or file is touched. *)
Run(p, d, r) ==
    /\ At(p, "idle")
    /\ Snapshot(d)
    /\ proc' = [proc EXCEPT ![p] = [Idle EXCEPT !.pc = "checked", !.data = d, !.runtime = r]]
    /\ UNCHANGED <<dir, file, held, scripts, touched>>

(* Slip: only the data directory is locked.                                *)
LockRuntimeNever(p) == UNCHANGED held

(* ApplicationLock::acquire, in three steps: the data directory's lock, the *)
(* identity of the database found there, then the runtime directory's lock *)
(* unless it is the same directory, and app.pid.                           *)
LockData(p) ==
    /\ At(p, "checked")
    /\ CanBeInstance(p, Data(p))
    /\ TakeLock(p, Data(p), "instance")
    /\ Go(p, "locked")
    /\ UNCHANGED <<dir, file, scripts, touched>>

Identifiable(p) == Placed(Data(p)) = 0 \/ Single(Data(p))
Identify(p) ==
    /\ At(p, "locked")
    /\ Identifiable(p)
    /\ proc' = [proc EXCEPT ![p].pc = "identified", ![p].seen = Placed(Data(p))]
    /\ UNCHANGED <<dir, file, held, scripts, touched>>

LockRuntime(p) ==
    IF Runtime(p) = Data(p) THEN UNCHANGED held ELSE TakeLock(p, Runtime(p), "instance")

(* Slip: an app.pid that is there is taken for a running server's.         *)
RuntimeFreeOnce(p) ==
    /\ Runtime(p) = Data(p) \/ CanBeInstance(p, Runtime(p))
    /\ dir[Runtime(p)].pid = None

RuntimeFree(p) == Runtime(p) = Data(p) \/ CanBeInstance(p, Runtime(p))

WritePid(p) ==
    /\ At(p, "identified")
    /\ RuntimeFree(p)
    /\ LockRuntime(p)
    /\ dir' = [dir EXCEPT ![Runtime(p)].pid = p, ![Runtime(p)].empty = FALSE]
    /\ Go(p, "named")
    /\ UNCHANGED <<file, scripts, touched>>

(* Everything is checked on a copy taken under the lock.                   *)
Valid(f) ==
    /\ Intact(f) /\ Administered(f)
    /\ CredentialsOpen(f) /\ CamerasReadable(f)
Validate(p) ==
    /\ At(p, "named")
    /\ Snapshot(Data(p)) /\ Valid(Placed(Data(p)))
    /\ Go(p, "validated")
    /\ UNCHANGED <<dir, file, held, scripts, touched>>

OpenPool(p) ==
    /\ At(p, "validated")
    /\ Snapshot(Data(p))
    /\ proc' = [proc EXCEPT ![p].pc = "open", ![p].pool = Placed(Data(p))]
    /\ UNCHANGED <<dir, file, held, scripts, touched>>

(* Slip: the identity is not compared.                                     *)
SameDatabaseByName(p) == Single(Data(p))

(* validate_open_database: the path still names the file found under the   *)
(* lock, and nothing else does.                                            *)
SameDatabase(p) ==
    /\ Single(Data(p))
    /\ proc[p].seen # 0 => Placed(Data(p)) = proc[p].seen
VerifyOpen(p) ==
    /\ At(p, "open")
    /\ SameDatabase(p)
    /\ proc' = [proc EXCEPT ![p].pc = "verified", ![p].seen = 0]
    /\ UNCHANGED <<dir, file, held, scripts, touched>>

(* What can be checked again on the pool is; then interrupted work of the  *)
(* previous server is recovered and the server listens.                    *)
ValidAgain(f) == Administered(f) /\ CamerasReadable(f) /\ CodesMatch(f)
Serve(p) ==
    /\ At(p, "verified")
    /\ ValidAgain(proc[p].pool)
    /\ Go(p, "serving")
    /\ UNCHANGED <<dir, file, held, scripts, touched>>

(* A failed step ends the process; what has been acquired is given back in *)
(* the order of its owners: connections, app.pid, locks.                   *)
GiveUp(p) ==
    /\ proc[p].pc \in {"checked", "locked", "identified"}
    /\ Ends(p)
    /\ UNCHANGED <<dir, file, scripts, touched>>
DropOwner(p) ==
    /\ proc[p].pc \in {"named", "validated"}
    /\ Go(p, "dropping")
    /\ UNCHANGED <<dir, file, held, scripts, touched>>

(* Slip: shutdown drops the lock before it closes the pool.                *)
QuiesceUnlocked(p) ==
    /\ proc[p].pc \in {"open", "verified", "serving"}
    /\ held' = [held EXCEPT ![p] = {}]
    /\ Go(p, "closing")
    /\ UNCHANGED <<dir, file, scripts, touched>>

(* A failure behind open_pool, or a shutdown that drained its requests and *)
(* commits: the pool is closed first, and only then the lock dropped.      *)
Quiesce(p) ==
    /\ proc[p].pc \in {"open", "verified", "serving"}
    /\ Go(p, "closing")
    /\ UNCHANGED <<dir, file, held, scripts, touched>>
ClosePool(p) ==
    /\ At(p, "closing")
    /\ proc' = [proc EXCEPT ![p].pc = "dropping", ![p].pool = 0]
    /\ UNCHANGED <<dir, file, held, scripts, touched>>

(* ApplicationLock::drop: app.pid is removed if it is still the file this  *)
(* process wrote, and the locks are freed after that.                      *)
RemovePid(p) ==
    /\ At(p, "dropping")
    /\ dir' = [dir EXCEPT ![Runtime(p)].pid = IF @ = p THEN None ELSE @]
    /\ Go(p, "releasing")
    /\ UNCHANGED <<file, held, scripts, touched>>
Release(p) ==
    /\ At(p, "releasing")
    /\ Ends(p)
    /\ UNCHANGED <<dir, file, scripts, touched>>

-----------------------------------------------------------------------------
(* init: a staging file is filled and published where no database is       *)

(* The directory is created, or found empty: nothing is locked yet.        *)
CreateDirectory(p, d) ==
    /\ At(p, "idle")
    /\ dir[d].empty
    /\ proc' = [proc EXCEPT ![p] = [Idle EXCEPT !.pc = "created", !.data = d]]
    /\ UNCHANGED <<dir, file, held, scripts, touched>>

LockMaintenance(p) ==
    /\ At(p, "created")
    /\ ~dir[Data(p)].pending
    /\ CanLock(p, Data(p), "exclusive")
    /\ TakeLock(p, Data(p), "exclusive")
    /\ dir' = [dir EXCEPT ![Data(p)].empty = FALSE]
    /\ Go(p, "preparing")
    /\ UNCHANGED <<file, scripts, touched>>

(* Slip: the database is initialised under its final name.                 *)
StageInPlace(p) ==
    /\ At(p, "preparing")
    /\ Placed(Data(p)) = 0
    /\ Unused # {}
    /\ proc' = [proc EXCEPT ![p].pc = "staged", ![p].stage = NewFile]
    /\ file' = [file EXCEPT ![NewFile] = {"administrators"}]
    /\ dir' = [dir EXCEPT ![Data(p)].db = NewFile]
    /\ UNCHANGED <<held, scripts, touched>>

(* The schema is committed in one transaction to a new file.               *)
Stage(p) ==
    /\ At(p, "preparing")
    /\ Placed(Data(p)) = 0
    /\ Unused # {}
    /\ proc' = [proc EXCEPT ![p].pc = "staged", ![p].stage = NewFile]
    /\ file' = [file EXCEPT ![NewFile] = {"administrators"}]
    /\ UNCHANGED <<dir, held, scripts, touched>>

Bootstrap(p) ==
    /\ At(p, "staged")
    /\ Current(proc[p].stage)
    /\ file' = [file EXCEPT ![proc[p].stage] = @ \ {"administrators"}]
    /\ Go(p, "filled")
    /\ UNCHANGED <<dir, held, scripts, touched>>

(* The finished file takes the database's name unless that name exists.    *)
Publish(p) ==
    /\ At(p, "filled")
    /\ Placed(Data(p)) = 0
    /\ dir' = [dir EXCEPT ![Data(p)].db = proc[p].stage]
    /\ proc' = [proc EXCEPT ![p].pc = "releasing", ![p].stage = 0]
    /\ UNCHANGED <<file, held, scripts, touched>>

(* Any step may fail: the staging file is removed and the lock freed.      *)
AbandonInit(p) ==
    /\ proc[p].pc \in {"created", "preparing", "staged", "filled"}
    /\ Ends(p)
    /\ UNCHANGED <<dir, file, scripts, touched>>

-----------------------------------------------------------------------------
(* doctor                                                                  *)

DoctorAsks(p, d) ==
    /\ At(p, "idle")
    /\ ~dir[d].pending
    /\ proc' = [proc EXCEPT ![p] = [Idle EXCEPT !.pc = "asking", !.data = d]]
    /\ UNCHANGED <<dir, file, held, scripts, touched>>

DoctorLocks(p) ==
    /\ At(p, "asking")
    /\ CanLock(p, Data(p), "shared")
    /\ TakeLock(p, Data(p), "shared")
    /\ dir' = [dir EXCEPT ![Data(p)].empty = FALSE]
    /\ Go(p, "inspecting")
    /\ UNCHANGED <<file, scripts, touched>>

DoctorInspects(p) ==
    /\ At(p, "inspecting")
    /\ Snapshot(Data(p)) /\ Intact(Placed(Data(p))) /\ CredentialsOpen(Placed(Data(p)))
    /\ Go(p, "probing")
    /\ UNCHANGED <<dir, file, held, scripts, touched>>

(* A row is inserted and rolled back on a connection of its own; that the  *)
(* path named one file throughout decides only what the doctor reports.    *)
ProbeConnects(p) ==
    /\ At(p, "probing")
    /\ Single(Data(p))
    /\ proc' = [proc EXCEPT ![p].pc = "writing", ![p].pool = Placed(Data(p))]
    /\ UNCHANGED <<dir, file, held, scripts, touched>>
ProbeCloses(p) ==
    /\ At(p, "writing")
    /\ proc' = [proc EXCEPT ![p].pc = "releasing", ![p].pool = 0]
    /\ UNCHANGED <<dir, file, held, scripts, touched>>

DoctorFails(p) ==
    /\ proc[p].pc \in {"asking", "inspecting", "probing"}
    /\ Ends(p)
    /\ UNCHANGED <<dir, file, scripts, touched>>

-----------------------------------------------------------------------------
(* Outside the program                                                     *)

(* A copy takes the place of the database.                                 *)
PutCopy(d) ==
    /\ Unused # {}
    /\ \E defects \in Copies : file' = [file EXCEPT ![NewFile] = defects]
    /\ dir' = [dir EXCEPT ![d].db = NewFile]

(* A restore tool holds the data directory exclusively, then the runtime   *)
(* directory.  The pending file makes what a killed one left unusable until *)
(* another finishes it.                                                    *)
RestoreLocks(p, d, r) ==
    /\ At(p, "idle")
    /\ CanLock(p, d, "exclusive") /\ CanLock(p, r, "exclusive")
    /\ proc' = [proc EXCEPT ![p] = [Idle EXCEPT !.pc = "restoring", !.data = d, !.runtime = r]]
    /\ held' = [held EXCEPT ![p] = {<<d, "exclusive">>, <<r, "exclusive">>}]
    /\ dir' = [dir EXCEPT ![d].pending = TRUE, ![d].empty = FALSE, ![r].empty = FALSE]
    /\ UNCHANGED <<file, scripts, touched>>
RestoreEmpties(p) ==
    /\ At(p, "restoring")
    /\ dir' = [dir EXCEPT ![Data(p)].db = 0]
    /\ Go(p, "emptied")
    /\ UNCHANGED <<file, held, scripts, touched>>
RestoreFills(p) ==
    /\ At(p, "emptied")
    /\ PutCopy(Data(p))
    /\ Go(p, "restored")
    /\ UNCHANGED <<held, scripts, touched>>
RestoreEnds(p) ==
    /\ At(p, "restored")
    /\ dir' = [dir EXCEPT ![Data(p)].pending = FALSE]
    /\ Ends(p)
    /\ UNCHANGED <<file, scripts, touched>>

(* A kill, a power failure, or a shutdown whose drain timed out: app.pid   *)
(* and staging files stay.                                                 *)
Killed(p) ==
    /\ ~At(p, "idle")
    /\ Ends(p)
    /\ UNCHANGED <<dir, file, scripts, touched>>

(* A script finds no app.pid, or that of a process that is gone; seconds   *)
(* later it removes the app.pid that is there then.                        *)
FindNoServer(d) ==
    /\ d \notin scripts
    /\ \A p \in Processes : dir[d].pid = p => At(p, "idle")
    /\ scripts' = scripts \cup {d}
    /\ UNCHANGED <<dir, file, held, proc, touched>>
ClearPid(d) ==
    /\ d \in scripts
    /\ scripts' = scripts \ {d}
    /\ dir' = [dir EXCEPT ![d].pid = None]
    /\ UNCHANGED <<file, held, proc, touched>>

(* The administrator moves a copy over the database, or links it.          *)
ReplaceByHand(d) ==
    /\ touched < Touches /\ Placed(d) # 0
    /\ touched' = touched + 1
    /\ PutCopy(d)
    /\ UNCHANGED <<held, proc, scripts>>
LinkByHand(d, e) ==
    /\ touched < Touches /\ Placed(d) # 0 /\ Placed(e) = 0
    /\ touched' = touched + 1
    /\ dir' = [dir EXCEPT ![e].db = Placed(d), ![e].empty = FALSE]
    /\ UNCHANGED <<file, held, proc, scripts>>

-----------------------------------------------------------------------------

Starts(p) ==
    \/ LockData(p) \/ Identify(p) \/ WritePid(p) \/ Validate(p)
    \/ OpenPool(p) \/ VerifyOpen(p) \/ Serve(p)
Fails(p) ==
    \/ GiveUp(p) \/ DropOwner(p) \/ Quiesce(p) \/ AbandonInit(p) \/ DoctorFails(p)
Stops(p) == ClosePool(p) \/ RemovePid(p) \/ Release(p)
Inits(p) == LockMaintenance(p) \/ Stage(p) \/ Bootstrap(p) \/ Publish(p)
Examines(p) == DoctorLocks(p) \/ DoctorInspects(p) \/ ProbeConnects(p) \/ ProbeCloses(p)
Restores(p) == RestoreEmpties(p) \/ RestoreFills(p) \/ RestoreEnds(p)

Next ==
    \/ \E p \in Processes, l \in Layouts : Run(p, l[1], l[2]) \/ RestoreLocks(p, l[1], l[2])
    \/ \E p \in Processes, d \in Dirs : CreateDirectory(p, d) \/ DoctorAsks(p, d)
    \/ \E p \in Processes :
          \/ Starts(p) \/ Fails(p) \/ Stops(p) \/ Inits(p) \/ Examines(p) \/ Restores(p)
          \/ Killed(p)
    \/ \E d \in Scripted : FindNoServer(d) \/ ClearPid(d)
    \/ \E d \in Dirs : ReplaceByHand(d)
    \/ \E d, e \in Dirs : LinkByHand(d, e)

Spec == Init /\ [][Next]_vars

(* A process that is neither idle nor serving goes on until it is, and the *)
(* supervisor starts its server again (Restart=on-failure, every five      *)
(* seconds), whatever else is run in between.  This is the fairness of the *)
(* steps of a process, weak, and of Run, strong, said of the states that   *)
(* they lead to.                                                           *)
Startable(p) == At(p, "idle") /\ \E l \in Layouts : Snapshot(l[1])
FairSpec ==
    /\ Spec
    /\ \A p \in Processes : []<>(proc[p].pc \in {"idle", "serving"})
    /\ []<>Startable(Service) => []<>At(Service, "checked")

-----------------------------------------------------------------------------
(* Properties                                                              *)

(* Directories, files, locks and processes keep their shape, and a process *)
(* that has ended holds nothing.                                           *)
TypeOK ==
    /\ dir \in [Dirs -> [db : Files \cup {0}, pid : Processes \cup {None},
                         pending : BOOLEAN, empty : BOOLEAN]]
    /\ file \in [Files -> SUBSET Defects]
    /\ held \in [Processes -> SUBSET (Dirs \X Modes)]
    /\ proc \in [Processes -> [pc : Steps, data : Dirs \cup {None}, runtime : Dirs \cup {None},
                               seen : Files \cup {0}, pool : Files \cup {0}, stage : Files \cup {0}]]
    /\ scripts \subseteq Scripted
    /\ touched \in 0..Touches
    /\ \A p \in Processes : At(p, "idle") => held[p] = {} /\ proc[p] = Idle

Probing(p)   == At(p, "writing")
Server(p)    == proc[p].pool # 0 /\ ~Probing(p)
Restoring(p) == proc[p].pc \in {"restoring", "emptied", "restored"}

(* From the moment a server opens its pool until it has closed it, through *)
(* every failed start and shutdown, no other server has the same data or   *)
(* runtime directory in use, and no restore is at work or left unfinished  *)
(* there; and a restore never meets the doctor's connection.               *)
UsersExclude ==
    /\ \A p, q \in Processes : p # q /\ Server(p) /\ Server(q) =>
          {Data(p), Runtime(p)} \cap {Data(q), Runtime(q)} = {}
    /\ \A p \in Processes : Server(p) => ~dir[Data(p)].pending
    /\ \A p, q \in Processes : Restoring(q) /\ proc[p].pool # 0 => Data(p) # Data(q)

(* From when it has written app.pid until it begins to give it up, the     *)
(* file in a process's runtime directory is its own, or it is gone since a *)
(* script that had found no server there removed it: no earlier owner      *)
(* removes it, no later one replaces it, and it is never another's.        *)
Named(p) == proc[p].pc \in {"named", "validated", "open", "verified", "serving", "closing", "dropping"}
Cleared(d) == d \in scripts /\ d \notin scripts'
PidIsMine ==
    [][\A p \in Processes : Named(p)' =>
          LET now == dir'[Runtime(p)'].pid
          IN  \/ now = p
              \/ now = None /\ (Cleared(Runtime(p)) \/ (Named(p) /\ dir[Runtime(p)].pid = None))]_vars

(* What is served passed every check, although the checks were made on a   *)
(* copy taken before the pool was opened by its path; and nobody else      *)
(* serves it, under whatever name an administrator linked it to.           *)
ServedIsChecked ==
    \A p \in Processes : At(p, "serving") => file[proc[p].pool] = {}
ServedAlone ==
    \A p, q \in Processes : At(p, "serving") /\ p # q /\ Server(q) => proc[q].pool # proc[p].pool
ServedIsSound == ServedIsChecked /\ ServedAlone

(* init never replaces a database, and one that it publishes is complete,  *)
(* wherever it or another init is killed.                                  *)
InitPublishesWhole ==
    [][\A d \in Dirs : dir'[d].db # dir[d].db =>
          \/ touched' # touched
          \/ \E p \in Processes : Restoring(p) /\ Data(p) = d
          \/ dir[d].db = 0 /\ file'[dir'[d].db] = {}]_vars

(* Whatever was killed, and wherever: once nobody else is at work, every   *)
(* database in place is sound and nothing ends a server without need, a    *)
(* server that is started again comes to serve.  No lock, app.pid, staging *)
(* file or directory left behind keeps it from that.                       *)
Undisturbed(p) ==
    /\ \A q \in Processes \ {p} : At(q, "idle")
    /\ \A d \in Dirs : Single(d) /\ file[Placed(d)] = {} /\ ~dir[d].pending
MayGoOn(p) ==
    \/ At(p, "checked")    /\ CanBeInstance(p, Data(p))
    \/ At(p, "locked")     /\ Identifiable(p)
    \/ At(p, "identified") /\ RuntimeFree(p)
    \/ At(p, "named")      /\ Snapshot(Data(p)) /\ Valid(Placed(Data(p)))
    \/ At(p, "validated")  /\ Snapshot(Data(p))
    \/ At(p, "open")       /\ SameDatabase(p)
    \/ At(p, "verified")   /\ ValidAgain(proc[p].pool)
    \/ At(p, "serving")
NeedlessEnd(p) == (Killed(p) \/ Fails(p)) /\ MayGoOn(p)
ServiceReturns ==
    <>[]Undisturbed(Service) /\ <>[][~NeedlessEnd(Service)]_vars => []<>At(Service, "serving")

=============================================================================
