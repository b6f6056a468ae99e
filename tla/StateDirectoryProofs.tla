----------------------- MODULE StateDirectoryProofs -----------------------
(***************************************************************************)
(* TypeOK, UsersExclude and PidIsMine for any processes and directories.   *)
(* The first two are not inductive, and the third is said of a step: they  *)
(* follow from which locks a process holds at each of its steps            *)
(* (Placement) and from the locks' excluding each other (Exclusion).       *)
(* Then InitPublishesWhole and ServedIsSound, from what each process knows *)
(* of the files in place (FInv) and, for a file that nobody else serves,   *)
(* from the places of the files served (AInv).                             *)
(***************************************************************************)
EXTENDS StateDirectory, TLAPS

DirRow  == [db : Files \cup {0}, pid : Processes \cup {None}, pending : BOOLEAN, empty : BOOLEAN]
ProcRow == [pc : Steps, data : Dirs \cup {None}, runtime : Dirs \cup {None},
            seen : Files \cup {0}, pool : Files \cup {0}, stage : Files \cup {0}]

(* Steps at which a server has written app.pid and holds its runtime       *)
(* directory's lock, those at which it holds its data directory's, those   *)
(* of doctor under the shared lock, and those with an open connection.     *)
NamedSteps == {"named", "validated", "open", "verified", "serving", "closing", "dropping"}
Owners     == {"locked", "identified"} \cup NamedSteps
Sharers    == {"inspecting", "probing", "writing"}
Connected  == {"open", "verified", "serving", "closing", "writing"}

Holds(p, d, mode) == d \in Dirs /\ <<d, mode>> \in held[p]

Placement(p) ==
    /\ ~At(p, "idle") => Data(p) \in Dirs
    /\ At(p, "checked") => Runtime(p) \in Dirs
    /\ proc[p].pc \in Owners =>
          /\ Holds(p, Data(p), "instance")
          /\ Runtime(p) \in Dirs
          /\ ~dir[Data(p)].pending
    /\ proc[p].pc \in NamedSteps => Holds(p, Runtime(p), "instance") /\ dir[Runtime(p)].pid \in {p, None}
    /\ proc[p].pc \in Sharers => Holds(p, Data(p), "shared")
    /\ Restoring(p) => Holds(p, Data(p), "exclusive")
    /\ proc[p].pool # 0 => proc[p].pc \in Connected

Exclusion ==
    \A p, q \in Processes, d \in Dirs, mode, other \in Modes :
        p # q /\ <<d, mode>> \in held[p] /\ <<d, other>> \in held[q] => ~Conflict(mode, other)

IInv ==
    /\ TypeOK
    /\ \A p \in Processes : Placement(p)
    /\ Exclusion

USE DEF Modes, Conflict

-----------------------------------------------------------------------------
(* A new file is one of the files.                                         *)
LEMMA NewFileIsAFile == Unused # {} => NewFile \in Files
BY DEF Unused, NewFile

(* A lock that can be taken keeps the locks apart.                         *)
LEMMA TakingKeepsExclusion ==
    ASSUME held \in [Processes -> SUBSET (Dirs \X Modes)], Exclusion,
           NEW p \in Processes, NEW d \in Dirs, NEW mode \in Modes,
           CanLock(p, d, mode), TakeLock(p, d, mode)
    PROVE  Exclusion'
<1> SUFFICES ASSUME NEW a \in Processes, NEW b \in Processes, NEW e \in Dirs,
                    NEW m \in Modes, NEW o \in Modes,
                    a # b, <<e, m>> \in held'[a], <<e, o>> \in held'[b]
             PROVE  ~Conflict(m, o)
  BY DEF Exclusion
<1>1. \A q \in Processes : \A x : x \in held'[q] => x \in held[q] \/ (q = p /\ x = <<d, mode>>)
  BY DEF TakeLock
<1>2. CASE a # p /\ b # p
  <2>1. <<e, m>> \in held[a] /\ <<e, o>> \in held[b]
    BY <1>1, <1>2
  <2> QED  BY <2>1 DEF Exclusion
<1>3. CASE a = p /\ b # p
  <2>1. <<e, o>> \in held[b]
    BY <1>1, <1>3
  <2>2. CASE <<e, m>> \in held[a]
    BY <2>1, <2>2 DEF Exclusion
  <2>3. CASE e = d /\ m = mode
    BY <2>1, <2>3, <1>3 DEF CanLock
  <2> QED  BY <1>1, <2>2, <2>3
<1>4. CASE a # p /\ b = p
  <2>1. <<e, m>> \in held[a]
    BY <1>1, <1>4
  <2>2. CASE <<e, o>> \in held[b]
    BY <2>1, <2>2 DEF Exclusion
  <2>3. CASE e = d /\ o = mode
    BY <2>1, <2>3, <1>4 DEF CanLock
  <2> QED  BY <1>1, <2>2, <2>3
<1> QED  BY <1>2, <1>3, <1>4

(* Locks that are freed keep them apart, and so do those that stay.        *)
LEMMA FewerKeepExclusion ==
    ASSUME Exclusion, \A q \in Processes : held'[q] \subseteq held[q]
    PROVE  Exclusion'
BY DEF Exclusion

(* What a process relies on stays as long as the process and its locks do, *)
(* no directory it has locked gets pending maintenance, and no app.pid of  *)
(* another is put in place of its own.                                     *)
LEMMA BystanderKept ==
    ASSUME TypeOK, NEW q \in Processes, Placement(q), proc'[q] = proc[q], held'[q] = held[q],
           \A d \in Dirs : <<d, "instance">> \in held[q] /\ dir'[d].pending => dir[d].pending,
           \A d \in Dirs : proc[q].pc \in NamedSteps /\ <<d, "instance">> \in held[q] /\ dir[d].pid \in {q, None}
                              => dir'[d].pid \in {q, None}
    PROVE  Placement(q)'
BY DEF Placement, At, Data, Runtime, Holds, Restoring, Owners, NamedSteps, Sharers, Connected

(* A process that ends holds nothing and disturbs nobody.                  *)
LEMMA EndingIsSafe ==
    ASSUME IInv, NEW p \in Processes, Ends(p), UNCHANGED <<file, scripts, touched>>,
           dir' \in [Dirs -> DirRow],
           \A d \in Dirs : dir'[d].pid = dir[d].pid /\ (dir'[d].pending => dir[d].pending)
    PROVE  IInv'
<1>0. Idle \in ProcRow /\ Idle.pc = "idle" /\ Idle.pool = 0
  BY DEF Idle, ProcRow, Steps
<1>1. proc'[p] = Idle /\ held'[p] = {} /\ \A q \in Processes \ {p} : proc'[q] = proc[q] /\ held'[q] = held[q]
  BY DEF IInv, TypeOK, Ends
<1>2. proc' \in [Processes -> ProcRow] /\ held' \in [Processes -> SUBSET (Dirs \X Modes)]
  BY <1>0 DEF IInv, TypeOK, Ends, ProcRow
<1>3. TypeOK'
  BY <1>1, <1>2 DEF IInv, TypeOK, At, DirRow, ProcRow
<1>4. \A q \in Processes \ {p} : Placement(q)'
  BY <1>1, BystanderKept DEF IInv
<1>5. Placement(p)'
  BY <1>0, <1>1 DEF Placement, At, Restoring, Owners, NamedSteps, Sharers, Connected
<1>6. Exclusion'
  BY <1>1, FewerKeepExclusion DEF IInv
<1> QED  BY <1>3, <1>4, <1>5, <1>6 DEF IInv

-----------------------------------------------------------------------------
(* What a step has to show.                                                *)

LEMMA TypeFacts ==
    ASSUME IInv
    PROVE  /\ dir \in [Dirs -> DirRow] /\ file \in [Files -> SUBSET Defects]
           /\ held \in [Processes -> SUBSET (Dirs \X Modes)] /\ proc \in [Processes -> ProcRow]
           /\ touched \in 0..Touches /\ scripts \subseteq Scripted
BY DEF IInv, TypeOK, DirRow, ProcRow

(* A step of process p that leaves the others' locks alone, and what they  *)
(* rely on, preserves the invariant if p's own place is right.             *)
LEMMA StepIsSafe ==
    ASSUME IInv, NEW p \in Processes,
           dir' \in [Dirs -> DirRow], file' \in [Files -> SUBSET Defects],
           held' \in [Processes -> SUBSET (Dirs \X Modes)], proc' \in [Processes -> ProcRow],
           touched' = touched, scripts' = scripts, proc'[p].pc # "idle",
           \A q \in Processes \ {p} : proc'[q] = proc[q] /\ held'[q] = held[q],
           \A q \in Processes \ {p}, d \in Dirs :
              <<d, "instance">> \in held[q] /\ dir'[d].pending => dir[d].pending,
           \A q \in Processes \ {p}, d \in Dirs :
              proc[q].pc \in NamedSteps /\ <<d, "instance">> \in held[q] /\ dir[d].pid \in {q, None}
                 => dir'[d].pid \in {q, None},
           Placement(p)', Exclusion'
    PROVE  IInv'
<1>1. TypeOK'
  BY TypeFacts DEF IInv, TypeOK, At, DirRow, ProcRow
<1>2. \A q \in Processes \ {p} : Placement(q)'
  BY BystanderKept DEF IInv
<1> QED  BY <1>1, <1>2 DEF IInv

(* The same of a step that changes no lock, and of the directories at most *)
(* the database and whether they are empty.                                *)
LEMMA MoveIsSafe ==
    ASSUME IInv, NEW p \in Processes,
           dir' \in [Dirs -> DirRow], file' \in [Files -> SUBSET Defects],
           proc' \in [Processes -> ProcRow], held' = held, proc'[p].pc # "idle",
           touched' = touched, scripts' = scripts,
           \A q \in Processes \ {p} : proc'[q] = proc[q],
           \A d \in Dirs : dir'[d].pid = dir[d].pid /\ dir'[d].pending = dir[d].pending,
           Placement(p)'
    PROVE  IInv'
<1>1. Exclusion'
  BY FewerKeepExclusion DEF IInv
<1> QED  BY <1>1, StepIsSafe, TypeFacts

(* A process that only moves on to step pc, with the same directories, is  *)
(* in its place if its locks fit that step.                                *)
LEMMA MovedRow ==
    ASSUME IInv, NEW p \in Processes, NEW pc \in Steps, Go(p, pc)
    PROVE  /\ proc' \in [Processes -> ProcRow] /\ proc'[p].pc = pc
           /\ proc'[p].data = proc[p].data /\ proc'[p].runtime = proc[p].runtime
           /\ proc'[p].seen = proc[p].seen /\ proc'[p].pool = proc[p].pool
           /\ proc'[p].stage = proc[p].stage
           /\ \A q \in Processes \ {p} : proc'[q] = proc[q]
BY TypeFacts DEF Go, ProcRow

(* The same with one of the file identities it keeps.                      *)
GoSeen(p, pc, f)  == proc' = [proc EXCEPT ![p].pc = pc, ![p].seen = f]
GoPool(p, pc, f)  == proc' = [proc EXCEPT ![p].pc = pc, ![p].pool = f]
GoStage(p, pc, f) == proc' = [proc EXCEPT ![p].pc = pc, ![p].stage = f]

LEMMA SeenRow ==
    ASSUME IInv, NEW p \in Processes, NEW pc \in Steps, NEW f \in Files \cup {0},
           GoSeen(p, pc, f)
    PROVE  /\ proc' \in [Processes -> ProcRow] /\ proc'[p].pc = pc /\ proc'[p].seen = f
           /\ proc'[p].data = proc[p].data /\ proc'[p].runtime = proc[p].runtime
           /\ proc'[p].pool = proc[p].pool /\ proc'[p].stage = proc[p].stage
           /\ \A q \in Processes \ {p} : proc'[q] = proc[q]
<1> DEFINE row == [proc[p] EXCEPT !.pc = pc, !.seen = f]
<1>1. /\ row \in ProcRow /\ row.pc = pc /\ row.seen = f
      /\ row.data = proc[p].data /\ row.runtime = proc[p].runtime
      /\ row.pool = proc[p].pool /\ row.stage = proc[p].stage
  BY TypeFacts DEF ProcRow
<1>2. proc' = [proc EXCEPT ![p] = row]
  BY DEF GoSeen
<1> HIDE DEF row
<1> QED  BY <1>1, <1>2, TypeFacts

LEMMA PoolRow ==
    ASSUME IInv, NEW p \in Processes, NEW pc \in Steps, NEW f \in Files \cup {0},
           GoPool(p, pc, f)
    PROVE  /\ proc' \in [Processes -> ProcRow] /\ proc'[p].pc = pc /\ proc'[p].pool = f
           /\ proc'[p].data = proc[p].data /\ proc'[p].runtime = proc[p].runtime
           /\ proc'[p].seen = proc[p].seen /\ proc'[p].stage = proc[p].stage
           /\ \A q \in Processes \ {p} : proc'[q] = proc[q]
<1> DEFINE row == [proc[p] EXCEPT !.pc = pc, !.pool = f]
<1>1. /\ row \in ProcRow /\ row.pc = pc /\ row.pool = f
      /\ row.data = proc[p].data /\ row.runtime = proc[p].runtime
      /\ row.seen = proc[p].seen /\ row.stage = proc[p].stage
  BY TypeFacts DEF ProcRow
<1>2. proc' = [proc EXCEPT ![p] = row]
  BY DEF GoPool
<1> HIDE DEF row
<1> QED  BY <1>1, <1>2, TypeFacts

LEMMA StageRow ==
    ASSUME IInv, NEW p \in Processes, NEW pc \in Steps, NEW f \in Files \cup {0},
           GoStage(p, pc, f)
    PROVE  /\ proc' \in [Processes -> ProcRow] /\ proc'[p].pc = pc /\ proc'[p].stage = f
           /\ proc'[p].data = proc[p].data /\ proc'[p].runtime = proc[p].runtime
           /\ proc'[p].seen = proc[p].seen /\ proc'[p].pool = proc[p].pool
           /\ \A q \in Processes \ {p} : proc'[q] = proc[q]
<1> DEFINE row == [proc[p] EXCEPT !.pc = pc, !.stage = f]
<1>1. /\ row \in ProcRow /\ row.pc = pc /\ row.stage = f
      /\ row.data = proc[p].data /\ row.runtime = proc[p].runtime
      /\ row.seen = proc[p].seen /\ row.pool = proc[p].pool
  BY TypeFacts DEF ProcRow
<1>2. proc' = [proc EXCEPT ![p] = row]
  BY DEF GoStage
<1> HIDE DEF row
<1> QED  BY <1>1, <1>2, TypeFacts

-----------------------------------------------------------------------------
(* run                                                                     *)

LEMMA RunIsSafe ==
    ASSUME IInv, NEW p \in Processes, NEW d \in Dirs, NEW r \in Dirs, Run(p, d, r)
    PROVE  IInv'
<1>1. /\ proc' \in [Processes -> ProcRow] /\ proc'[p].pc = "checked" /\ proc'[p].pool = 0
      /\ proc'[p].data = d /\ proc'[p].runtime = r
      /\ \A q \in Processes \ {p} : proc'[q] = proc[q]
  BY TypeFacts DEF Run, Idle, ProcRow, Steps
<1>2. Placement(p)'
  BY <1>1 DEF Placement, At, Data, Runtime, Restoring, Owners, NamedSteps, Sharers, Connected
<1> QED  BY <1>1, <1>2, MoveIsSafe, TypeFacts DEF Run

LEMMA LockDataIsSafe ==
    ASSUME IInv, NEW p \in Processes, LockData(p)
    PROVE  IInv'
<1>1. Data(p) \in Dirs /\ Runtime(p) \in Dirs /\ proc[p].pool = 0
  BY DEF IInv, LockData, Placement, At, Connected
<1>2. /\ proc' \in [Processes -> ProcRow] /\ proc'[p].pc = "locked" /\ proc'[p].pool = 0
      /\ proc'[p].data = Data(p) /\ proc'[p].runtime = Runtime(p)
      /\ \A q \in Processes \ {p} : proc'[q] = proc[q]
  BY <1>1, MovedRow DEF LockData, Steps, Data, Runtime
<1>3. /\ held' \in [Processes -> SUBSET (Dirs \X Modes)] /\ <<Data(p), "instance">> \in held'[p]
      /\ \A q \in Processes \ {p} : held'[q] = held[q]
  BY <1>1, TypeFacts DEF LockData, TakeLock
<1>4. Exclusion'
  BY <1>1, TakingKeepsExclusion, TypeFacts DEF LockData, CanBeInstance, IInv
<1>5. ~dir[Data(p)].pending /\ dir' = dir /\ file' = file /\ touched' = touched /\ scripts' = scripts
  BY DEF LockData, CanBeInstance
<1>6. Placement(p)'
  BY <1>1, <1>2, <1>3, <1>5
     DEF Placement, At, Data, Runtime, Holds, Restoring, Owners, NamedSteps, Sharers, Connected
<1> QED  BY <1>2, <1>3, <1>4, <1>5, <1>6, StepIsSafe, TypeFacts

(* A server that goes from one of its steps to the next before it opens    *)
(* the pool or after, and one that fails.                                  *)
LEMMA ServerMoves ==
    ASSUME IInv, NEW p \in Processes,
           Identify(p) \/ Validate(p) \/ OpenPool(p) \/ VerifyOpen(p) \/ Serve(p)
              \/ DropOwner(p) \/ Quiesce(p) \/ ClosePool(p)
    PROVE  IInv'
<1>0. /\ Identify(p) => proc[p].pc = "locked" /\ proc'[p].pc = "identified"
      /\ Validate(p) => proc[p].pc = "named" /\ proc'[p].pc = "validated"
      /\ OpenPool(p) => proc[p].pc = "validated" /\ proc'[p].pc = "open"
      /\ VerifyOpen(p) => proc[p].pc = "open" /\ proc'[p].pc = "verified"
      /\ Serve(p) => proc[p].pc = "verified" /\ proc'[p].pc = "serving"
      /\ DropOwner(p) => proc[p].pc \in {"named", "validated"} /\ proc'[p].pc = "dropping"
      /\ Quiesce(p) => proc[p].pc \in {"open", "verified", "serving"} /\ proc'[p].pc = "closing"
      /\ ClosePool(p) => proc[p].pc = "closing" /\ proc'[p].pc = "dropping"
  BY TypeFacts DEF Identify, Validate, OpenPool, VerifyOpen, Serve, DropOwner, Quiesce, ClosePool,
         At, Go, ProcRow
<1>1. proc[p].pc \in Owners /\ proc'[p].pc \in Owners \ {"locked"}
  BY <1>0 DEF Owners, NamedSteps
<1>2. proc[p].pc \notin NamedSteps => proc'[p].pc \notin NamedSteps
  BY <1>0 DEF NamedSteps
<1>3. Placed(Data(p)) \in Files \cup {0}
  BY <1>1, TypeFacts DEF IInv, Placement, Holds, Placed, DirRow
<1>4. /\ proc' \in [Processes -> ProcRow]
      /\ proc'[p].data = Data(p) /\ proc'[p].runtime = Runtime(p)
      /\ \A q \in Processes \ {p} : proc'[q] = proc[q]
      /\ proc'[p].pool = (IF OpenPool(p) THEN Placed(Data(p)) ELSE IF ClosePool(p) THEN 0 ELSE proc[p].pool)
  <2>1. CASE \E pc \in Steps : Go(p, pc) /\ proc'[p].pool = proc[p].pool /\ ~OpenPool(p) /\ ~ClosePool(p)
    BY <2>1, MovedRow DEF Data, Runtime
  <2>2. CASE Identify(p)
    <3>1. GoSeen(p, "identified", Placed(Data(p)))
      BY <2>2 DEF Identify, GoSeen
    <3> QED  BY <1>0, <1>3, <2>2, <3>1, SeenRow DEF Steps, Data, Runtime
  <2>3. CASE OpenPool(p)
    <3>1. GoPool(p, "open", Placed(Data(p)))
      BY <2>3 DEF OpenPool, GoPool
    <3> QED  BY <1>3, <2>3, <3>1, PoolRow DEF Steps, Data, Runtime
  <2>4. CASE VerifyOpen(p)
    <3>1. GoSeen(p, "verified", 0)
      BY <2>4 DEF VerifyOpen, GoSeen
    <3> QED  BY <1>0, <2>4, <3>1, SeenRow DEF Steps, Data, Runtime
  <2>5. CASE ClosePool(p)
    <3>1. GoPool(p, "dropping", 0)
      BY <2>5 DEF ClosePool, GoPool
    <3> QED  BY <1>0, <2>5, <3>1, PoolRow DEF Steps, Data, Runtime
  <2>6. CASE Validate(p) \/ Serve(p) \/ DropOwner(p) \/ Quiesce(p)
    <3>1. PICK pc \in Steps : Go(p, pc)
      BY <2>6 DEF Validate, Serve, DropOwner, Quiesce, Steps
    <3> QED  BY <1>0, <2>1, <2>6, <3>1, MovedRow
  <2> QED  BY <2>2, <2>3, <2>4, <2>5, <2>6
<1>5. proc'[p].pool # 0 => proc'[p].pc \in Connected
  <2>1. proc[p].pool # 0 => proc[p].pc \in Connected
    BY DEF IInv, Placement
  <2> QED  BY <1>0, <1>4, <2>1 DEF Connected
<1>6. dir' = dir /\ file' = file /\ held' = held /\ touched' = touched /\ scripts' = scripts
  BY DEF Identify, Validate, OpenPool, VerifyOpen, Serve, DropOwner, Quiesce, ClosePool
<1>7. Placement(p)'
  BY <1>1, <1>2, <1>4, <1>5, <1>6
     DEF IInv, Placement, At, Data, Runtime, Holds, Restoring, Owners, NamedSteps, Sharers
<1> QED  BY <1>1, <1>4, <1>6, <1>7, MoveIsSafe, TypeFacts DEF Owners, NamedSteps

(* app.pid is written under the runtime directory's lock, so that it is    *)
(* nobody else's that could still need it.                                 *)
LEMMA WritePidIsSafe ==
    ASSUME IInv, NEW p \in Processes, WritePid(p)
    PROVE  IInv'
<1>1. /\ Data(p) \in Dirs /\ Runtime(p) \in Dirs /\ proc[p].pool = 0 /\ ~dir[Data(p)].pending
      /\ <<Data(p), "instance">> \in held[p]
  BY DEF IInv, WritePid, Placement, At, Connected, Owners, NamedSteps, Holds
<1>2. /\ proc' \in [Processes -> ProcRow] /\ proc'[p].pc = "named" /\ proc'[p].pool = 0
      /\ proc'[p].data = Data(p) /\ proc'[p].runtime = Runtime(p)
      /\ \A q \in Processes \ {p} : proc'[q] = proc[q]
  BY <1>1, MovedRow DEF WritePid, Steps, Data, Runtime
<1>3. /\ held' \in [Processes -> SUBSET (Dirs \X Modes)]
      /\ <<Data(p), "instance">> \in held'[p] /\ <<Runtime(p), "instance">> \in held'[p]
      /\ \A q \in Processes \ {p} : held'[q] = held[q]
      /\ Exclusion'
  <2>1. CASE Runtime(p) = Data(p)
    BY <1>1, <2>1, TypeFacts, FewerKeepExclusion DEF IInv, WritePid, LockRuntime
  <2>2. CASE Runtime(p) # Data(p)
    <3>1. TakeLock(p, Runtime(p), "instance") /\ CanLock(p, Runtime(p), "instance")
      BY <2>2 DEF WritePid, LockRuntime, RuntimeFree, CanBeInstance
    <3>2. Exclusion'
      BY <1>1, <3>1, TakingKeepsExclusion, TypeFacts DEF IInv
    <3> QED  BY <1>1, <3>1, <3>2, TypeFacts DEF TakeLock
  <2> QED  BY <2>1, <2>2
<1>4. /\ dir' \in [Dirs -> DirRow] /\ dir'[Runtime(p)].pid = p
      /\ \A d \in Dirs : dir'[d].pending = dir[d].pending
      /\ \A d \in Dirs \ {Runtime(p)} : dir'[d] = dir[d]
  <2> DEFINE row == [dir[Runtime(p)] EXCEPT !.pid = p, !.empty = FALSE]
  <2>1. row \in DirRow /\ row.pid = p /\ row.pending = dir[Runtime(p)].pending
    BY <1>1, TypeFacts DEF DirRow
  <2>2. dir' = [dir EXCEPT ![Runtime(p)] = row]
    BY <1>1, TypeFacts DEF WritePid
  <2> HIDE DEF row
  <2> QED  BY <1>1, <2>1, <2>2, TypeFacts
<1>5. \A q \in Processes \ {p} : <<Runtime(p), "instance">> \notin held[q]
  BY <1>1, <1>3 DEF Exclusion
<1>6. Placement(p)'
  BY <1>1, <1>2, <1>3, <1>4
     DEF Placement, At, Data, Runtime, Holds, Restoring, Owners, NamedSteps, Sharers, Connected
<1>7. file' = file /\ touched' = touched /\ scripts' = scripts
  BY DEF WritePid
<1> QED  BY <1>1, <1>2, <1>3, <1>4, <1>5, <1>6, <1>7, StepIsSafe, TypeFacts

LEMMA RemovePidIsSafe ==
    ASSUME IInv, NEW p \in Processes, RemovePid(p)
    PROVE  IInv'
<1>1. proc[p].pool = 0 /\ Data(p) \in Dirs
  BY DEF IInv, RemovePid, Placement, At, Connected
<1>2. /\ proc' \in [Processes -> ProcRow] /\ proc'[p].pc = "releasing" /\ proc'[p].pool = 0
      /\ proc'[p].data = Data(p)
      /\ \A q \in Processes \ {p} : proc'[q] = proc[q]
  BY <1>1, MovedRow DEF RemovePid, Steps, Data
<1>3. /\ dir' \in [Dirs -> DirRow]
      /\ \A d \in Dirs : dir'[d].pending = dir[d].pending
      /\ \A d \in Dirs : dir'[d].pid = dir[d].pid \/ dir[d].pid = p
  <2>1. PICK pid \in Processes \cup {None} :
           /\ dir' = [dir EXCEPT ![Runtime(p)].pid = pid]
           /\ Runtime(p) \in Dirs => pid = dir[Runtime(p)].pid \/ dir[Runtime(p)].pid = p
    BY TypeFacts DEF RemovePid, DirRow
  <2> QED  BY <2>1, TypeFacts DEF DirRow
<1>4. Placement(p)'
  BY <1>1, <1>2 DEF Placement, At, Data, Restoring, Owners, NamedSteps, Sharers, Connected
<1>5. Exclusion' /\ held' = held /\ file' = file /\ touched' = touched /\ scripts' = scripts
  BY FewerKeepExclusion DEF RemovePid, IInv
<1>6. \A q \in Processes \ {p}, d \in Dirs : dir[d].pid \in {q, None} => dir'[d].pid \in {q, None}
  BY <1>3, ConstantsAssumption
<1> QED  BY <1>1, <1>2, <1>3, <1>4, <1>5, <1>6, StepIsSafe, TypeFacts

-----------------------------------------------------------------------------
(* init and doctor                                                         *)

(* The first step of either: nothing is locked.                            *)
LEMMA CommandStarts ==
    ASSUME IInv, NEW p \in Processes, NEW d \in Dirs, CreateDirectory(p, d) \/ DoctorAsks(p, d)
    PROVE  IInv'
<1>1. /\ proc' \in [Processes -> ProcRow] /\ proc'[p].pc \in {"created", "asking"}
      /\ proc'[p].pool = 0 /\ proc'[p].data = d
      /\ \A q \in Processes \ {p} : proc'[q] = proc[q]
  <2>1. CASE CreateDirectory(p, d)
    BY <2>1, TypeFacts DEF CreateDirectory, Idle, ProcRow, Steps
  <2>2. CASE DoctorAsks(p, d)
    BY <2>2, TypeFacts DEF DoctorAsks, Idle, ProcRow, Steps
  <2> QED  BY <2>1, <2>2
<1>2. Placement(p)'
  BY <1>1 DEF Placement, At, Data, Restoring, Owners, NamedSteps, Sharers, Connected
<1> QED  BY <1>1, <1>2, MoveIsSafe, TypeFacts DEF CreateDirectory, DoctorAsks

(* The second: the maintenance lock of the data directory, in one mode or  *)
(* the other.                                                              *)
LEMMA CommandLocks ==
    ASSUME IInv, NEW p \in Processes, LockMaintenance(p) \/ DoctorLocks(p)
    PROVE  IInv'
<1>0. PICK mode \in Modes : /\ CanLock(p, Data(p), mode) /\ TakeLock(p, Data(p), mode)
                            /\ \/ mode = "exclusive" /\ Go(p, "preparing") /\ At(p, "created")
                               \/ mode = "shared" /\ Go(p, "inspecting") /\ At(p, "asking")
  BY DEF LockMaintenance, DoctorLocks
<1>1. Data(p) \in Dirs /\ proc[p].pool = 0
  BY <1>0 DEF IInv, Placement, At, Connected
<1>2. /\ proc' \in [Processes -> ProcRow] /\ proc'[p].pool = 0 /\ proc'[p].data = Data(p)
      /\ \A q \in Processes \ {p} : proc'[q] = proc[q]
      /\ proc'[p].pc = "preparing" \/ (proc'[p].pc = "inspecting" /\ mode = "shared")
  BY <1>0, <1>1, MovedRow DEF Steps, Data
<1>3. /\ held' \in [Processes -> SUBSET (Dirs \X Modes)] /\ <<Data(p), mode>> \in held'[p]
      /\ \A q \in Processes \ {p} : held'[q] = held[q]
  BY <1>0, <1>1, TypeFacts DEF TakeLock
<1>4. Exclusion'
  BY <1>0, <1>1, TakingKeepsExclusion, TypeFacts DEF IInv
<1>5. /\ dir' \in [Dirs -> DirRow] /\ file' = file /\ touched' = touched /\ scripts' = scripts
      /\ \A d \in Dirs : dir'[d].pid = dir[d].pid /\ dir'[d].pending = dir[d].pending
  <2> DEFINE row == [dir[Data(p)] EXCEPT !.empty = FALSE]
  <2>1. dir' = [dir EXCEPT ![Data(p)] = row] /\ file' = file /\ touched' = touched /\ scripts' = scripts
    BY DEF LockMaintenance, DoctorLocks
  <2>2. row \in DirRow /\ row.pid = dir[Data(p)].pid /\ row.pending = dir[Data(p)].pending
    BY <1>1, TypeFacts DEF DirRow
  <2> HIDE DEF row
  <2> QED  BY <1>1, <2>1, <2>2, TypeFacts
<1>6. Placement(p)'
  BY <1>1, <1>2, <1>3
     DEF Placement, At, Data, Holds, Restoring, Owners, NamedSteps, Sharers, Connected
<1> QED  BY <1>2, <1>3, <1>4, <1>5, <1>6, StepIsSafe, TypeFacts

(* Then both go on under it.                                               *)
LEMMA CommandMoves ==
    ASSUME IInv, NEW p \in Processes,
           Stage(p) \/ Bootstrap(p) \/ Publish(p) \/ DoctorInspects(p) \/ ProbeConnects(p) \/ ProbeCloses(p)
    PROVE  IInv'
<1>0. /\ Stage(p) => proc[p].pc = "preparing" /\ proc'[p].pc = "staged"
      /\ Bootstrap(p) => proc[p].pc = "staged" /\ proc'[p].pc = "filled"
      /\ Publish(p) => proc[p].pc = "filled" /\ proc'[p].pc = "releasing"
      /\ DoctorInspects(p) => proc[p].pc = "inspecting" /\ proc'[p].pc = "probing"
      /\ ProbeConnects(p) => proc[p].pc = "probing" /\ proc'[p].pc = "writing"
      /\ ProbeCloses(p) => proc[p].pc = "writing" /\ proc'[p].pc = "releasing"
  BY TypeFacts DEF Stage, Bootstrap, Publish, DoctorInspects, ProbeConnects, ProbeCloses, At, Go, ProcRow
<1>1. Data(p) \in Dirs
  BY <1>0 DEF IInv, Placement, At
<1>2. /\ proc' \in [Processes -> ProcRow] /\ proc'[p].data = Data(p)
      /\ proc'[p].pool \in {0, proc[p].pool} \/ ProbeConnects(p)
      /\ \A q \in Processes \ {p} : proc'[q] = proc[q]
  <2>1. CASE Stage(p)
    <3>1. GoStage(p, "staged", NewFile) /\ NewFile \in Files
      BY <2>1, NewFileIsAFile DEF Stage, GoStage
    <3> QED  BY <3>1, StageRow DEF Steps, Data
  <2>2. CASE Bootstrap(p) \/ DoctorInspects(p)
    BY <2>2, MovedRow DEF Bootstrap, DoctorInspects, Steps, Data
  <2>3. CASE Publish(p)
    <3>1. GoStage(p, "releasing", 0)
      BY <2>3 DEF Publish, GoStage
    <3> QED  BY <3>1, StageRow DEF Steps, Data
  <2>4. CASE ProbeConnects(p)
    <3>1. Placed(Data(p)) \in Files \cup {0}
      BY <1>1, TypeFacts DEF Placed, DirRow
    <3>2. GoPool(p, "writing", Placed(Data(p)))
      BY <2>4 DEF ProbeConnects, GoPool
    <3> QED  BY <2>4, <3>1, <3>2, PoolRow DEF Steps, Data
  <2>5. CASE ProbeCloses(p)
    <3>1. GoPool(p, "releasing", 0)
      BY <2>5 DEF ProbeCloses, GoPool
    <3> QED  BY <3>1, PoolRow DEF Steps, Data
  <2> QED  BY <2>1, <2>2, <2>3, <2>4, <2>5
<1>3. proc'[p].pool # 0 => proc'[p].pc = "writing"
  <2>1. ProbeCloses(p) => GoPool(p, "releasing", 0)
    BY DEF ProbeCloses, GoPool
  <2>2. ProbeCloses(p) => proc'[p].pool = 0
    BY <2>1, PoolRow DEF Steps
  <2>3. proc[p].pool # 0 => proc[p].pc \in Connected
    BY DEF IInv, Placement
  <2> QED  BY <1>0, <1>2, <2>2, <2>3 DEF Connected
<1>4. file' \in [Files -> SUBSET Defects]
  BY TypeFacts DEF Stage, Bootstrap, Publish, DoctorInspects, ProbeConnects, ProbeCloses, Defects
<1>5. /\ dir' \in [Dirs -> DirRow]
      /\ \A d \in Dirs : dir'[d].pid = dir[d].pid /\ dir'[d].pending = dir[d].pending
  <2>1. CASE Publish(p)
    BY <1>1, <2>1, TypeFacts DEF Publish, DirRow, ProcRow
  <2>2. CASE ~Publish(p)
    BY <2>2, TypeFacts DEF Stage, Bootstrap, DoctorInspects, ProbeConnects, ProbeCloses
  <2> QED  BY <2>1, <2>2
<1>6. held' = held /\ touched' = touched /\ scripts' = scripts
  BY DEF Stage, Bootstrap, Publish, DoctorInspects, ProbeConnects, ProbeCloses
<1>7. Placement(p)'
  BY <1>0, <1>1, <1>2, <1>3, <1>6
     DEF IInv, Placement, At, Data, Holds, Restoring, Owners, NamedSteps, Sharers, Connected
<1> QED  BY <1>0, <1>2, <1>4, <1>5, <1>6, <1>7, MoveIsSafe

-----------------------------------------------------------------------------
(* Outside the program                                                     *)

LEMMA CopyIsAFile ==
    ASSUME IInv, NEW d \in Dirs, PutCopy(d)
    PROVE  /\ dir' \in [Dirs -> DirRow] /\ file' \in [Files -> SUBSET Defects]
           /\ \A e \in Dirs : dir'[e].pid = dir[e].pid /\ dir'[e].pending = dir[e].pending
<1>1. NewFile \in Files
  BY NewFileIsAFile DEF PutCopy
<1>2. file' \in [Files -> SUBSET Defects]
  BY TypeFacts, ConstantsAssumption DEF PutCopy
<1> QED  BY <1>1, <1>2, TypeFacts DEF PutCopy, DirRow

(* A restore finds no server in its way: the exclusive lock excludes an    *)
(* instance lock on the same directory.                                    *)
LEMMA RestoreLocksIsSafe ==
    ASSUME IInv, NEW p \in Processes, NEW d \in Dirs, NEW r \in Dirs, RestoreLocks(p, d, r)
    PROVE  IInv'
<1>1. /\ proc' \in [Processes -> ProcRow] /\ proc'[p].pc = "restoring" /\ proc'[p].pool = 0
      /\ proc'[p].data = d /\ \A q \in Processes \ {p} : proc'[q] = proc[q]
  BY TypeFacts DEF RestoreLocks, Idle, ProcRow, Steps
<1>2. /\ held' \in [Processes -> SUBSET (Dirs \X Modes)]
      /\ held'[p] = {<<d, "exclusive">>, <<r, "exclusive">>}
      /\ \A q \in Processes \ {p} : held'[q] = held[q]
  BY TypeFacts DEF RestoreLocks
<1>3. \A q \in Processes \ {p}, mode \in Modes : <<d, mode>> \notin held[q] /\ <<r, mode>> \notin held[q]
  BY DEF RestoreLocks, CanLock
<1>4. Exclusion'
  <2> SUFFICES ASSUME NEW a \in Processes, NEW b \in Processes, NEW e \in Dirs,
                      NEW m \in Modes, NEW o \in Modes,
                      a # b, <<e, m>> \in held'[a], <<e, o>> \in held'[b]
               PROVE  ~Conflict(m, o)
    BY DEF Exclusion
  <2>1. CASE a = p
    BY <1>2, <1>3, <2>1
  <2>2. CASE b = p
    BY <1>2, <1>3, <2>2
  <2>3. CASE a # p /\ b # p
    <3>1. <<e, m>> \in held[a] /\ <<e, o>> \in held[b]
      BY <1>2, <2>3
    <3> QED  BY <3>1 DEF IInv, Exclusion
  <2> QED  BY <2>1, <2>2, <2>3
<1>5. /\ dir' \in [Dirs -> DirRow] /\ file' = file /\ touched' = touched /\ scripts' = scripts
      /\ \A e \in Dirs : dir'[e].pid = dir[e].pid
      /\ \A e \in Dirs \ {d} : dir'[e].pending = dir[e].pending
  <2> DEFINE marked == [dir EXCEPT ![d].pending = TRUE]
             used   == [marked EXCEPT ![d].empty = FALSE]
  <2>1. marked \in [Dirs -> DirRow] /\ \A e \in Dirs \ {d} : marked[e] = dir[e]
    BY TypeFacts DEF DirRow
  <2>2. marked[d].pid = dir[d].pid
    BY TypeFacts DEF DirRow
  <2> HIDE DEF marked
  <2>3. /\ used \in [Dirs -> DirRow]
        /\ \A e \in Dirs : used[e].pid = marked[e].pid /\ used[e].pending = marked[e].pending
    BY <2>1 DEF DirRow
  <2>4. dir' = [used EXCEPT ![r].empty = FALSE]
    BY DEF RestoreLocks, marked
  <2> HIDE DEF used
  <2>5. /\ dir' \in [Dirs -> DirRow]
        /\ \A e \in Dirs : dir'[e].pid = used[e].pid /\ dir'[e].pending = used[e].pending
    BY <2>3, <2>4 DEF DirRow
  <2>6. \A e \in Dirs : dir'[e].pid = marked[e].pid /\ dir'[e].pending = marked[e].pending
    BY <2>3, <2>5
  <2>7. \A e \in Dirs : dir'[e].pid = dir[e].pid
    BY <2>1, <2>2, <2>6
  <2>8. \A e \in Dirs \ {d} : dir'[e].pending = dir[e].pending
    BY <2>1, <2>6
  <2>9. file' = file /\ touched' = touched /\ scripts' = scripts
    BY DEF RestoreLocks
  <2> QED  BY <2>5, <2>7, <2>8, <2>9
<1>6. Placement(p)'
  BY <1>1, <1>2 DEF Placement, At, Data, Holds, Restoring, Owners, NamedSteps, Sharers, Connected
<1> QED  BY <1>1, <1>2, <1>3, <1>4, <1>5, <1>6, StepIsSafe, TypeFacts

LEMMA RestoreMoves ==
    ASSUME IInv, NEW p \in Processes, RestoreEmpties(p) \/ RestoreFills(p)
    PROVE  IInv'
<1>1. proc[p].pc \in {"restoring", "emptied"} /\ Data(p) \in Dirs /\ proc[p].pool = 0
  BY DEF IInv, Placement, RestoreEmpties, RestoreFills, At, Connected
<1>2. /\ proc' \in [Processes -> ProcRow] /\ proc'[p].pc \in {"emptied", "restored"}
      /\ proc'[p].data = Data(p) /\ proc'[p].pool = 0
      /\ \A q \in Processes \ {p} : proc'[q] = proc[q]
  BY <1>1, MovedRow DEF RestoreEmpties, RestoreFills, Steps, Data
<1>3. /\ dir' \in [Dirs -> DirRow] /\ file' \in [Files -> SUBSET Defects]
      /\ \A e \in Dirs : dir'[e].pid = dir[e].pid /\ dir'[e].pending = dir[e].pending
  <2>1. CASE RestoreEmpties(p)
    BY <2>1, TypeFacts DEF RestoreEmpties, DirRow
  <2>2. CASE RestoreFills(p)
    BY <1>1, <2>2, CopyIsAFile DEF RestoreFills
  <2> QED  BY <2>1, <2>2
<1>4. held' = held /\ touched' = touched /\ scripts' = scripts
  BY DEF RestoreEmpties, RestoreFills
<1>5. Placement(p)'
  BY <1>1, <1>2, <1>4
     DEF IInv, Placement, At, Data, Holds, Restoring, Owners, NamedSteps, Sharers, Connected
<1> QED  BY <1>2, <1>3, <1>4, <1>5, MoveIsSafe

LEMMA RestoreEndsIsSafe ==
    ASSUME IInv, NEW p \in Processes, RestoreEnds(p)
    PROVE  IInv'
<1>1. Data(p) \in Dirs
  BY DEF IInv, Placement, RestoreEnds, At
<1>2. /\ dir' \in [Dirs -> DirRow]
      /\ \A d \in Dirs : dir'[d].pid = dir[d].pid /\ (dir'[d].pending => dir[d].pending)
  BY <1>1, TypeFacts DEF RestoreEnds, DirRow
<1> QED  BY <1>2, EndingIsSafe DEF RestoreEnds

(* What a failure, a kill or a clean end does: nothing but end.            *)
LEMMA EndsAreSafe ==
    ASSUME IInv, NEW p \in Processes,
           GiveUp(p) \/ AbandonInit(p) \/ DoctorFails(p) \/ Release(p) \/ Killed(p)
    PROVE  IInv'
<1>1. Ends(p) /\ dir' = dir /\ file' = file /\ touched' = touched /\ scripts' = scripts
  BY DEF GiveUp, AbandonInit, DoctorFails, Release, Killed
<1> QED  BY <1>1, EndingIsSafe, TypeFacts

(* The scripts' steps, and the administrator's, leave every process and    *)
(* lock as it is and put no app.pid anywhere.                              *)
ByScript(d) == d \in Scripted /\ (FindNoServer(d) \/ ClearPid(d))

LEMMA ByHandIsSafe ==
    ASSUME IInv, NEW d \in Dirs, NEW e \in Dirs, ByScript(d) \/ ReplaceByHand(d) \/ LinkByHand(d, e)
    PROVE  IInv'
<1>1. /\ dir' \in [Dirs -> DirRow] /\ file' \in [Files -> SUBSET Defects]
      /\ held' = held /\ proc' = proc /\ touched' \in 0..Touches /\ scripts' \subseteq Scripted
      /\ \A c \in Dirs : dir'[c].pending = dir[c].pending
      /\ \A c \in Dirs : dir'[c].pid \in {dir[c].pid, None}
  <2>1. CASE ByScript(d)
    <3>1. CASE FindNoServer(d)
      BY <2>1, <3>1, TypeFacts DEF ByScript, FindNoServer
    <3>2. CASE ClearPid(d)
      BY <3>2, TypeFacts DEF ClearPid, DirRow
    <3> QED  BY <2>1, <3>1, <3>2 DEF ByScript
  <2>2. CASE ReplaceByHand(d)
    <3>1. touched' \in 0..Touches
      BY <2>2, TypeFacts, ConstantsAssumption DEF ReplaceByHand
    <3> QED  BY <2>2, <3>1, CopyIsAFile, TypeFacts DEF ReplaceByHand
  <2>3. CASE LinkByHand(d, e)
    <3>1. touched' \in 0..Touches
      BY <2>3, TypeFacts, ConstantsAssumption DEF LinkByHand
    <3> DEFINE placed == [dir EXCEPT ![e].db = Placed(d)]
    <3>2. /\ placed \in [Dirs -> DirRow]
          /\ \A c \in Dirs : placed[c].pid = dir[c].pid /\ placed[c].pending = dir[c].pending
      BY TypeFacts DEF DirRow, Placed
    <3>3. dir' = [placed EXCEPT ![e].empty = FALSE]
      BY <2>3 DEF LinkByHand, Placed
    <3> HIDE DEF placed
    <3>4. /\ dir' \in [Dirs -> DirRow]
          /\ \A c \in Dirs : dir'[c].pid = placed[c].pid /\ dir'[c].pending = placed[c].pending
      BY <3>2, <3>3 DEF DirRow
    <3>5. file' = file /\ held' = held /\ proc' = proc /\ scripts' = scripts
      BY <2>3 DEF LinkByHand
    <3> QED  BY <3>1, <3>2, <3>4, <3>5, TypeFacts
  <2> QED  BY <2>1, <2>2, <2>3
<1>2. TypeOK'
  BY <1>1, TypeFacts DEF IInv, TypeOK, At, DirRow, ProcRow
<1>3. \A q \in Processes : Placement(q)'
  <2> SUFFICES ASSUME NEW q \in Processes PROVE Placement(q)'
    OBVIOUS
  <2>1. \A c \in Dirs : dir[c].pid \in {q, None} => dir'[c].pid \in {q, None}
    BY <1>1
  <2> QED  BY <1>1, <2>1, BystanderKept DEF IInv
<1>4. Exclusion'
  BY <1>1, FewerKeepExclusion DEF IInv
<1> QED  BY <1>2, <1>3, <1>4 DEF IInv

-----------------------------------------------------------------------------
(* The invariant, and what follows from it                                 *)

LEMMA Initially == Init => IInv
<1> SUFFICES ASSUME Init PROVE IInv
  OBVIOUS
<1>0. Idle \in ProcRow /\ Idle.pc = "idle" /\ Idle.pool = 0
  BY DEF Idle, ProcRow, Steps
<1>1. TypeOK
  BY <1>0, ConstantsAssumption DEF Init, TypeOK, At, ProcRow
<1>2. \A p \in Processes : Placement(p)
  BY <1>0 DEF Init, Placement, At, Restoring, Owners, NamedSteps, Sharers, Connected
<1>3. Exclusion
  BY DEF Init, Exclusion
<1> QED  BY <1>1, <1>2, <1>3 DEF IInv

(* A script's step is one of those of ByHandIsSafe.                        *)
LEMMA ScriptsStep ==
    ASSUME NEW d \in Scripted, FindNoServer(d) \/ ClearPid(d)
    PROVE  d \in Dirs /\ ByScript(d)
BY ConstantsAssumption DEF ByScript

LEMMA Inductive == IInv /\ [Next]_vars => IInv'
<1> SUFFICES ASSUME IInv, [Next]_vars PROVE IInv'
  OBVIOUS
<1>1. CASE UNCHANGED vars
  <2>1. dir' = dir /\ file' = file /\ held' = held /\ proc' = proc
        /\ scripts' = scripts /\ touched' = touched
    BY <1>1 DEF vars
  <2> QED  BY <2>1 DEF IInv, TypeOK, Placement, Exclusion, At, Data, Runtime, Holds, Restoring
<1>2. ASSUME NEW p \in Processes, NEW l \in Layouts, Run(p, l[1], l[2]) \/ RestoreLocks(p, l[1], l[2])
      PROVE  IInv'
  <2>1. l[1] \in Dirs /\ l[2] \in Dirs
    BY ConstantsAssumption
  <2> QED  BY <1>2, <2>1, RunIsSafe, RestoreLocksIsSafe
<1>3. ASSUME NEW p \in Processes, Starts(p)
      PROVE  IInv'
  BY <1>3, LockDataIsSafe, WritePidIsSafe, ServerMoves DEF Starts
<1>4. ASSUME NEW p \in Processes, Fails(p) \/ Killed(p)
      PROVE  IInv'
  BY <1>4, EndsAreSafe, ServerMoves DEF Fails
<1>5. ASSUME NEW p \in Processes, Stops(p)
      PROVE  IInv'
  BY <1>5, EndsAreSafe, ServerMoves, RemovePidIsSafe DEF Stops
<1>6. ASSUME NEW p \in Processes, Inits(p) \/ Examines(p)
      PROVE  IInv'
  BY <1>6, CommandLocks, CommandMoves DEF Inits, Examines
<1>7. ASSUME NEW p \in Processes, Restores(p)
      PROVE  IInv'
  BY <1>7, RestoreMoves, RestoreEndsIsSafe DEF Restores
<1>8. ASSUME NEW d \in Scripted, FindNoServer(d) \/ ClearPid(d)
      PROVE  IInv'
  BY <1>8, ByHandIsSafe, ScriptsStep
<1> QED
  BY <1>1, <1>2, <1>3, <1>4, <1>5, <1>6, <1>7, <1>8, CommandStarts, ByHandIsSafe DEF Next

(* The directories, files, locks and processes keep their shape, whatever  *)
(* is killed: the state of app::serve, cli.rs and runtime_lock.rs.         *)
THEOREM TypeCorrect == Spec => []TypeOK
<1>1. IInv => TypeOK
  BY DEF IInv
<1> QED  BY <1>1, Initially, Inductive, PTL DEF Spec

LEMMA ServersOwn ==
    ASSUME IInv, NEW p \in Processes, Server(p)
    PROVE  /\ Data(p) \in Dirs /\ Runtime(p) \in Dirs /\ ~dir[Data(p)].pending
           /\ <<Data(p), "instance">> \in held[p] /\ <<Runtime(p), "instance">> \in held[p]
BY DEF IInv, Placement, Server, Probing, At, Holds, Connected, NamedSteps, Owners

(* Two servers never have a directory in common, no restore is at work or  *)
(* left unfinished where a server has its pool open, and none is at work   *)
(* where doctor has its connection: what ApplicationLock and the           *)
(* maintenance locks are for, for any number of processes, directories and *)
(* kills.  Doctor may write what a killed restore left: it asks for the    *)
(* pending file before it has its lock, and not again under it.            *)
THEOREM UsersAreExclusive == Spec => []UsersExclude
<1>1. IInv => UsersExclude
  <2> SUFFICES ASSUME IInv PROVE UsersExclude
    OBVIOUS
  <2>1. ASSUME NEW p \in Processes, NEW q \in Processes, p # q, Server(p), Server(q)
        PROVE  {Data(p), Runtime(p)} \cap {Data(q), Runtime(q)} = {}
    <3>1. \A d \in Dirs : ~(<<d, "instance">> \in held[p] /\ <<d, "instance">> \in held[q])
      BY <2>1 DEF IInv, Exclusion
    <3> QED  BY <2>1, <3>1, ServersOwn
  <2>2. ASSUME NEW p \in Processes, NEW q \in Processes, Restoring(q), proc[p].pool # 0
        PROVE  Data(p) # Data(q)
    <3>1. p # q
      BY <2>2 DEF IInv, Placement, Restoring, Connected
    <3>2. Data(q) \in Dirs /\ <<Data(q), "exclusive">> \in held[q]
      BY <2>2 DEF IInv, Placement, Holds
    <3>3. \E mode \in Modes : <<Data(p), mode>> \in held[p]
      BY <2>2 DEF IInv, Placement, Holds, Connected, Owners, NamedSteps, Sharers
    <3> QED  BY <3>1, <3>2, <3>3 DEF IInv, Exclusion
  <2> QED  BY <2>1, <2>2, ServersOwn DEF UsersExclude
<1> QED  BY <1>1, Initially, Inductive, PTL DEF Spec

(* An app.pid changes only where a process writes or removes its own, or a *)
(* script clears it.                                                       *)
LEMMA PidChanges ==
    ASSUME IInv, Next, NEW d \in Dirs
    PROVE  \/ dir'[d].pid = dir[d].pid
           \/ Cleared(d)
           \/ \E q \in Processes : RemovePid(q) /\ dir[d].pid = q
           \/ \E q \in Processes : WritePid(q) /\ dir'[d].pid = q
<1> DEFINE Same == dir'[d].pid = dir[d].pid
<1>1. ASSUME NEW p \in Processes, NEW l \in Layouts, Run(p, l[1], l[2]) \/ RestoreLocks(p, l[1], l[2])
      PROVE  Same
  BY <1>1, TypeFacts, ConstantsAssumption DEF Run, RestoreLocks, DirRow
<1>2. ASSUME NEW p \in Processes, NEW e \in Dirs, CreateDirectory(p, e) \/ DoctorAsks(p, e)
      PROVE  Same
  BY <1>2 DEF CreateDirectory, DoctorAsks
<1>3. ASSUME NEW p \in Processes, Starts(p) \/ Fails(p) \/ Killed(p), ~WritePid(p)
      PROVE  Same
  BY <1>3 DEF Starts, Fails, Killed, LockData, Identify, Validate, OpenPool, VerifyOpen, Serve,
              GiveUp, DropOwner, Quiesce, AbandonInit, DoctorFails
<1>4. ASSUME NEW p \in Processes, WritePid(p)
      PROVE  Same \/ dir'[d].pid = p
  BY <1>4, TypeFacts DEF WritePid, DirRow
<1>5. ASSUME NEW p \in Processes, Stops(p)
      PROVE  Same \/ (RemovePid(p) /\ dir[d].pid = p)
  BY <1>5, TypeFacts DEF Stops, ClosePool, RemovePid, Release, DirRow
<1>6. ASSUME NEW p \in Processes, Inits(p) \/ Examines(p)
      PROVE  Same
  BY <1>6, TypeFacts DEF Inits, LockMaintenance, Stage, Bootstrap, Publish,
                         Examines, DoctorLocks, DoctorInspects, ProbeConnects, ProbeCloses, DirRow
<1>7. ASSUME NEW p \in Processes, Restores(p)
      PROVE  Same
  BY <1>7, TypeFacts DEF Restores, RestoreEmpties, RestoreFills, RestoreEnds, PutCopy, DirRow
<1>8. ASSUME NEW e \in Scripted, FindNoServer(e) \/ ClearPid(e)
      PROVE  Same \/ Cleared(d)
  BY <1>8, TypeFacts DEF FindNoServer, ClearPid, Cleared, DirRow
<1>9. ASSUME NEW e \in Dirs, NEW f \in Dirs, ReplaceByHand(e) \/ LinkByHand(e, f)
      PROVE  Same
  BY <1>9, TypeFacts DEF ReplaceByHand, LinkByHand, PutCopy, DirRow
<1> HIDE DEF Same
<1> QED
  <2>1. Same \/ ~Same
    OBVIOUS
  <2> QED
    BY <1>1, <1>2, <1>3, <1>4, <1>5, <1>6, <1>7, <1>8, <1>9 DEF Next, Starts, Same

(* A step that gives one process a new row leaves the others theirs.       *)
LEMMA OtherRow ==
    ASSUME IInv, NEW p \in Processes, NEW q \in Processes, NEW row,
           proc' = [proc EXCEPT ![q] = row]
    PROVE  proc'[p] = (IF p = q THEN row ELSE proc[p])
BY TypeFacts

(* A process that has its app.pid after a step had it before, or wrote it. *)
LEMMA NamedBefore ==
    ASSUME IInv, Next, NEW p \in Processes, Named(p)'
    PROVE  \/ WritePid(p)
           \/ Named(p) /\ Runtime(p)' = Runtime(p) /\ ~RemovePid(p)
<1> DEFINE Goal == WritePid(p) \/ (Named(p) /\ Runtime(p)' = Runtime(p) /\ ~RemovePid(p))
<1>1. proc'[p].pc \in NamedSteps /\ proc'[p].pc # "releasing"
      /\ (proc[p].pc \in NamedSteps => Named(p))
  BY DEF Named, NamedSteps
<1>2. ~RemovePid(p)
  BY <1>1, TypeFacts DEF RemovePid, Go, ProcRow
<1>3. proc'[p].pc = proc[p].pc /\ proc'[p].runtime = proc[p].runtime => Goal
  BY <1>1, <1>2 DEF Runtime
<1>4. ASSUME NEW q \in Processes, NEW l \in Layouts, Run(q, l[1], l[2]) \/ RestoreLocks(q, l[1], l[2])
      PROVE  Goal
  <2>1. CASE Run(q, l[1], l[2])
    <3>1. proc'[p].pc = "checked" \/ proc'[p] = proc[p]
      BY <2>1, OtherRow DEF Run, Idle
    <3> QED  BY <1>1, <1>3, <3>1 DEF NamedSteps
  <2>2. CASE RestoreLocks(q, l[1], l[2])
    <3>1. proc'[p].pc = "restoring" \/ proc'[p] = proc[p]
      BY <2>2, OtherRow DEF RestoreLocks, Idle
    <3> QED  BY <1>1, <1>3, <3>1 DEF NamedSteps
  <2> QED  BY <1>4, <2>1, <2>2
<1>5. ASSUME NEW q \in Processes, NEW e \in Dirs, CreateDirectory(q, e) \/ DoctorAsks(q, e)
      PROVE  Goal
  <2>1. CASE CreateDirectory(q, e)
    <3>1. proc'[p].pc = "created" \/ proc'[p] = proc[p]
      BY <2>1, OtherRow DEF CreateDirectory, Idle
    <3> QED  BY <1>1, <1>3, <3>1 DEF NamedSteps
  <2>2. CASE DoctorAsks(q, e)
    <3>1. proc'[p].pc = "asking" \/ proc'[p] = proc[p]
      BY <2>2, OtherRow DEF DoctorAsks, Idle
    <3> QED  BY <1>1, <1>3, <3>1 DEF NamedSteps
  <2> QED  BY <1>5, <2>1, <2>2
<1>6. ASSUME NEW q \in Processes, Starts(q) \/ Quiesce(q) \/ DropOwner(q) \/ ClosePool(q)
      PROVE  Goal
  <2>1. CASE q # p
    BY <1>3, <1>6, <2>1, TypeFacts
       DEF Starts, LockData, Identify, WritePid, Validate, OpenPool, VerifyOpen, Serve,
           Quiesce, DropOwner, ClosePool, Go, ProcRow
  <2>2. CASE q = p
    BY <1>1, <1>2, <1>6, <2>2, TypeFacts
       DEF Starts, LockData, Identify, Validate, OpenPool, VerifyOpen, Serve,
           Quiesce, DropOwner, ClosePool, At, Go, Runtime, NamedSteps, ProcRow
  <2> QED  BY <2>1, <2>2
<1>7. ASSUME NEW q \in Processes, Ends(q)
      PROVE  Goal
  BY <1>1, <1>3, <1>7, TypeFacts DEF Ends, NamedSteps, Idle, ProcRow
<1>8. ASSUME NEW q \in Processes, RemovePid(q) \/ Inits(q) \/ Examines(q)
      PROVE  Goal
  BY <1>1, <1>3, <1>8, TypeFacts
     DEF RemovePid, Inits, LockMaintenance, Stage, Bootstrap, Publish,
         Examines, DoctorLocks, DoctorInspects, ProbeConnects, ProbeCloses, Go, NamedSteps, ProcRow
<1>9. ASSUME NEW q \in Processes, RestoreEmpties(q) \/ RestoreFills(q)
      PROVE  Goal
  BY <1>1, <1>3, <1>9, TypeFacts DEF RestoreEmpties, RestoreFills, Go, NamedSteps, ProcRow
<1>10. ASSUME NEW q \in Processes, Starts(q) \/ Fails(q) \/ Stops(q) \/ Restores(q) \/ Killed(q)
       PROVE  Goal
  BY <1>6, <1>7, <1>8, <1>9, <1>10
     DEF Fails, GiveUp, AbandonInit, DoctorFails, Stops, Release, Restores, RestoreEnds, Killed
<1>11. proc' = proc => Goal
  BY <1>3
<1>12. ASSUME NEW d \in Dirs, NEW e \in Dirs, ByScript(d) \/ ReplaceByHand(d) \/ LinkByHand(d, e)
       PROVE  proc' = proc
  BY <1>12 DEF ByScript, FindNoServer, ClearPid, ReplaceByHand, LinkByHand
<1> HIDE DEF Goal
<1>13. Goal
  BY <1>4, <1>5, <1>8, <1>10, <1>11, <1>12, ScriptsStep DEF Next
<1> QED  BY <1>13 DEF Goal

(* From when a server has written app.pid until it begins to give it up    *)
(* (ApplicationLock::acquire and drop), nobody else writes or removes it,  *)
(* except a script that had found no server.                               *)
THEOREM PidStaysMine == Spec => PidIsMine
<1>1. IInv /\ IInv' /\ [Next]_vars => [\A p \in Processes : Named(p)' =>
          LET now == dir'[Runtime(p)'].pid
          IN  \/ now = p
              \/ now = None /\ (Cleared(Runtime(p)) \/ (Named(p) /\ dir[Runtime(p)].pid = None))]_vars
  <2> SUFFICES ASSUME IInv, IInv', Next, NEW p \in Processes, Named(p)'
               PROVE  LET now == dir'[Runtime(p)'].pid
                      IN  \/ now = p
                          \/ now = None /\ (Cleared(Runtime(p)) \/ (Named(p) /\ dir[Runtime(p)].pid = None))
    OBVIOUS
  <2>1. Runtime(p)' \in Dirs /\ dir'[Runtime(p)'].pid \in {p, None}
    BY DEF IInv, Placement, Named, NamedSteps, Owners
  <2>2. CASE WritePid(p)
    <3>1. Runtime(p)' = Runtime(p)
      BY <2>2, MovedRow DEF WritePid, Runtime, Steps
    <3>2. dir'[Runtime(p)].pid = p
      BY <2>1, <2>2, <3>1, TypeFacts DEF WritePid, DirRow
    <3> QED  BY <3>1, <3>2
  <2>3. CASE Named(p) /\ Runtime(p)' = Runtime(p) /\ ~RemovePid(p)
    <3>1. dir[Runtime(p)].pid \in {p, None}
      BY <2>3 DEF IInv, Placement, Named, NamedSteps
    <3>2. \/ dir'[Runtime(p)].pid = dir[Runtime(p)].pid
          \/ Cleared(Runtime(p))
          \/ \E q \in Processes : RemovePid(q) /\ dir[Runtime(p)].pid = q
          \/ \E q \in Processes : WritePid(q) /\ dir'[Runtime(p)].pid = q
      BY <2>1, <2>3, PidChanges
    <3>3. ASSUME NEW q \in Processes, RemovePid(q), dir[Runtime(p)].pid = q
          PROVE  FALSE
      <4>1. q = p
        BY <3>1, <3>3, ConstantsAssumption
      <4> QED  BY <2>3, <3>3, <4>1
    <3>4. ASSUME NEW q \in Processes, dir'[Runtime(p)].pid = q
          PROVE  q = p
      BY <2>1, <2>3, <3>4, ConstantsAssumption
    <3>5. dir'[Runtime(p)].pid = p \/ dir'[Runtime(p)].pid = None
      BY <2>1, <2>3
    <3>6. dir'[Runtime(p)].pid = p \/ Cleared(Runtime(p)) \/ dir'[Runtime(p)].pid = dir[Runtime(p)].pid
      BY <3>2, <3>3, <3>4
    <3> QED  BY <2>3, <3>5, <3>6
  <2> QED  BY <2>2, <2>3, NamedBefore
<1> QED  BY <1>1, Initially, Inductive, PTL DEF Spec, PidIsMine

-----------------------------------------------------------------------------
(* Which files are in place, served and staged.                            *)
(*                                                                         *)
(* Found: a server that checked its directory finds a database there       *)
(* under its lock, and a restore at work is marked as such.  Sound: as     *)
(* long as the path names the file recorded under the lock, that file is   *)
(* the one validated and the one opened; and what is served was checked.   *)
(* Staged: a staging file is in nobody else's hands until it is published. *)

Opened == {"open", "verified", "serving", "closing"}

Found(p) ==
    /\ At(p, "checked") => Placed(Data(p)) # 0 \/ dir[Data(p)].pending
    /\ proc[p].pc \in Owners \cup {"restored"} => Placed(Data(p)) # 0
    /\ Restoring(p) => dir[Data(p)].pending

Checked(f) == Current(f) /\ Valid(f)
Sound(p) ==
    /\ proc[p].pc \in {"identified", "named", "validated", "open"} => proc[p].seen # 0
    /\ proc[p].pc \in {"validated", "open"} /\ Placed(Data(p)) = proc[p].seen
          => Checked(proc[p].seen)
    /\ At(p, "open") /\ Placed(Data(p)) = proc[p].seen => proc[p].pool = proc[p].seen
    /\ proc[p].pc \in Opened => proc[p].pool # 0
    /\ proc[p].pc \in {"verified", "serving"} => Checked(proc[p].pool)
    /\ At(p, "serving") => CodesMatch(proc[p].pool)

Apart(f, p) ==
    /\ \A d \in Dirs : Placed(d) # f
    /\ f \notin {proc[p].seen, proc[p].pool}
    /\ \A q \in Processes \ {p} : f \notin {proc[q].seen, proc[q].pool, proc[q].stage}
Staged(p) ==
    /\ proc[p].stage # 0 => proc[p].pc \in {"staged", "filled"} /\ Apart(proc[p].stage, p)
    /\ At(p, "staged") => proc[p].stage # 0 /\ file[proc[p].stage] = {"administrators"}
    /\ At(p, "filled") => proc[p].stage # 0 /\ file[proc[p].stage] = {}

FilesOf(p) == Found(p) /\ Sound(p) /\ Staged(p)
FInv == \A p \in Processes : FilesOf(p)

(* Whoever stands by keeps what it has, as long as its database is not     *)
(* taken away or put in its file's place, what it works on is not written, *)
(* and its staging file stays its own.                                     *)
LEMMA BystanderKeepsFiles ==
    ASSUME NEW q \in Processes, FilesOf(q), proc'[q] = proc[q],
           proc[q] \in ProcRow,
           ~At(q, "idle") => Data(q) \in Dirs,
           proc[q].pc \in Owners \cup {"restored"} => dir'[Data(q)].db # 0,
           At(q, "checked") => dir'[Data(q)].db # 0 \/ dir'[Data(q)].pending,
           Restoring(q) => dir'[Data(q)].pending,
           proc[q].pc \in {"validated", "open"} /\ dir'[Data(q)].db = proc[q].seen
              => dir[Data(q)].db = proc[q].seen,
           \A f \in Files : f \in {proc[q].seen, proc[q].pool, proc[q].stage} => file'[f] = file[f],
           proc[q].stage # 0 => Apart(proc[q].stage, q)'
    PROVE  FilesOf(q)'
<1>1. Found(q)'
  BY DEF Found, At, Data, Placed, Restoring
<1>2. Sound(q)'
  <2>1. proc[q].seen \in Files \cup {0} /\ proc[q].pool \in Files \cup {0}
    BY DEF ProcRow
  <2>2. \A f \in Files : f \in {proc[q].seen, proc[q].pool}
           => (Checked(f) => Checked(f)') /\ (CodesMatch(f) => CodesMatch(f)')
    BY DEF Checked, Current, StructureSound, LeaseSound, Valid, Intact, Administered,
           CredentialsOpen, CamerasReadable, CodesMatch
  <2>3. Sound(q)
    BY DEF FilesOf
  <2>4. proc'[q].seen = proc[q].seen /\ proc'[q].pool = proc[q].pool /\ proc'[q].pc = proc[q].pc
        /\ Placed(Data(q))' = dir'[Data(q)].db
    BY DEF Placed, Data
  <2> QED  BY <2>1, <2>2, <2>3, <2>4 DEF Sound, At, Placed, Opened
<1>3. Staged(q)'
  <2>1. proc[q].stage \in Files \cup {0}
    BY DEF ProcRow
  <2>2. Staged(q)
    BY DEF FilesOf
  <2>3. proc'[q].stage # 0 => Apart(proc[q].stage, q)'
    OBVIOUS
  <2> QED  BY <2>1, <2>2, <2>3 DEF Staged, At, Apart
<1> QED  BY <1>1, <1>2, <1>3 DEF FilesOf

(* A staging file stays apart if nobody else takes a file that was in the  *)
(* hands of a process, and it is put in no place.                          *)
LEMMA StaysApart ==
    ASSUME NEW q \in Processes, FilesOf(q), proc[q].stage # 0,
           proc'[q].seen = proc[q].seen, proc'[q].pool = proc[q].pool, proc'[q].stage = proc[q].stage,
           \A r \in Processes \ {q} : \A f \in {proc'[r].seen, proc'[r].pool, proc'[r].stage} :
              \/ f = 0 \/ f \in {proc[r].seen, proc[r].pool, proc[r].stage}
              \/ (\E d \in Dirs : Placed(d) = f) \/ ~Referenced(f),
           \A d \in Dirs : dir'[d].db # proc[q].stage
    PROVE  Apart(proc[q].stage, q)'
<1>1. Apart(proc[q].stage, q)
  BY DEF FilesOf, Staged
<1>2. Referenced(proc[q].stage)
  BY DEF Referenced
<1>3. \A r \in Processes \ {q} : proc[q].stage \notin {proc'[r].seen, proc'[r].pool, proc'[r].stage}
  <2> SUFFICES ASSUME NEW r \in Processes \ {q},
                      proc[q].stage \in {proc'[r].seen, proc'[r].pool, proc'[r].stage}
               PROVE  FALSE
    OBVIOUS
  <2>1. proc[q].stage \notin {proc[r].seen, proc[r].pool, proc[r].stage} /\ \A d \in Dirs : Placed(d) # proc[q].stage
    BY <1>1 DEF Apart
  <2> QED  BY <1>2, <2>1
<1>4. proc[q].stage \notin {proc'[q].seen, proc'[q].pool}
  BY <1>1 DEF Apart
<1>5. \A d \in Dirs : Placed(d)' # proc[q].stage
  BY DEF Placed
<1> QED  BY <1>3, <1>4, <1>5 DEF Apart

(* The rows that a step of p leaves alone, and the files it takes in hand. *)
OnlyMoves(p) ==
    /\ \A q \in Processes \ {p} : proc'[q] = proc[q]
    /\ \A f \in {proc'[p].seen, proc'[p].pool, proc'[p].stage} :
          \/ f = 0 \/ f \in {proc[p].seen, proc[p].pool, proc[p].stage}
          \/ (\E d \in Dirs : Placed(d) = f) \/ ~Referenced(f)
SamePlaces == \A d \in Dirs : dir'[d].db = dir[d].db /\ dir'[d].pending = dir[d].pending

LEMMA OthersKeepFiles ==
    ASSUME IInv, FInv, NEW p \in Processes, OnlyMoves(p), SamePlaces,
           \A q \in Processes \ {p}, f \in Files :
              f \in {proc[q].seen, proc[q].pool, proc[q].stage} => file'[f] = file[f]
    PROVE  \A q \in Processes \ {p} : FilesOf(q)'
<1> SUFFICES ASSUME NEW q \in Processes \ {p} PROVE FilesOf(q)'
  OBVIOUS
<1>1. FilesOf(q) /\ proc'[q] = proc[q] /\ proc[q] \in ProcRow /\ (~At(q, "idle") => Data(q) \in Dirs)
  BY TypeFacts DEF FInv, OnlyMoves, IInv, Placement
<1>2. ASSUME proc[q].stage # 0 PROVE Apart(proc[q].stage, q)'
  <2>1. \A d \in Dirs : dir'[d].db # proc[q].stage
    BY <1>1, <1>2 DEF SamePlaces, FilesOf, Staged, Apart, Placed
  <2>2. \A r \in Processes \ {q} : \A f \in {proc'[r].seen, proc'[r].pool, proc'[r].stage} :
              \/ f = 0 \/ f \in {proc[r].seen, proc[r].pool, proc[r].stage}
              \/ (\E d \in Dirs : Placed(d) = f) \/ ~Referenced(f)
    BY DEF OnlyMoves
  <2> QED  BY <1>1, <1>2, <2>1, <2>2, StaysApart
<1>3. ~At(q, "idle") => dir'[Data(q)].db = Placed(Data(q)) /\ dir'[Data(q)].pending = dir[Data(q)].pending
  BY <1>1 DEF SamePlaces, Placed
<1>4. /\ proc[q].pc \in Owners \cup {"restored"} => dir'[Data(q)].db # 0
      /\ At(q, "checked") => dir'[Data(q)].db # 0 \/ dir'[Data(q)].pending
      /\ Restoring(q) => dir'[Data(q)].pending
  BY <1>1, <1>3 DEF FilesOf, Found, At, Owners, NamedSteps, Restoring
<1>5. proc[q].pc \in {"validated", "open"} /\ dir'[Data(q)].db = proc[q].seen
         => dir[Data(q)].db = proc[q].seen
  BY <1>3 DEF At, Placed
<1> QED  BY <1>1, <1>2, <1>4, <1>5, BystanderKeepsFiles

LEMMA QuietStep ==
    ASSUME IInv, FInv, NEW p \in Processes, OnlyMoves(p), SamePlaces, file' = file, FilesOf(p)'
    PROVE  FInv'
BY OthersKeepFiles DEF FInv

-----------------------------------------------------------------------------
(* Servers                                                                 *)

(* Nobody but init has a staging file.                                     *)
LEMMA NoStage ==
    ASSUME FInv, NEW p \in Processes, proc[p].pc \notin {"staged", "filled"}
    PROVE  proc[p].stage = 0
BY DEF FInv, FilesOf, Staged

LEMMA RunFindsFile ==
    ASSUME IInv, FInv, NEW p \in Processes, NEW d \in Dirs, NEW r \in Dirs, Run(p, d, r)
    PROVE  FInv'
<1>1. /\ proc'[p].pc = "checked" /\ proc'[p].pool = 0 /\ proc'[p].seen = 0 /\ proc'[p].stage = 0
      /\ proc'[p].data = d /\ \A q \in Processes \ {p} : proc'[q] = proc[q]
  BY TypeFacts DEF Run, Idle
<1>2. Placed(d) # 0 /\ dir' = dir /\ file' = file
  BY DEF Run, Snapshot, Single
<1>3. FilesOf(p)'
  BY <1>1, <1>2 DEF FilesOf, Found, Sound, Staged, At, Data, Placed, Restoring, Owners, NamedSteps, Opened
<1> QED  BY <1>1, <1>2, <1>3, QuietStep DEF OnlyMoves, SamePlaces

LEMMA LockDataFindsFile ==
    ASSUME IInv, FInv, NEW p \in Processes, LockData(p)
    PROVE  FInv'
<1>1. proc[p].pc = "checked" /\ dir' = dir /\ file' = file /\ Go(p, "locked") /\ ~dir[Data(p)].pending
  BY DEF LockData, At, CanBeInstance
<1>2. /\ proc'[p].pc = "locked" /\ proc'[p].data = proc[p].data /\ proc'[p].seen = proc[p].seen
      /\ proc'[p].pool = proc[p].pool /\ proc'[p].stage = 0
      /\ \A q \in Processes \ {p} : proc'[q] = proc[q]
  BY <1>1, MovedRow, NoStage DEF Steps
<1>3. Placed(Data(p)) # 0
  BY <1>1 DEF FInv, FilesOf, Found, At
<1>4. FilesOf(p)'
  BY <1>1, <1>2, <1>3 DEF FilesOf, Found, Sound, Staged, At, Data, Placed, Restoring, Owners, NamedSteps, Opened
<1> QED  BY <1>1, <1>2, <1>4, QuietStep DEF OnlyMoves, SamePlaces

(* The identity recorded is that of the file in place.                     *)
LEMMA IdentifyRecordsFile ==
    ASSUME IInv, FInv, NEW p \in Processes, Identify(p)
    PROVE  FInv'
<1>1. proc[p].pc = "locked" /\ dir' = dir /\ file' = file /\ GoSeen(p, "identified", Placed(Data(p)))
  BY DEF Identify, At, GoSeen
<1>2. Data(p) \in Dirs /\ Placed(Data(p)) \in Files /\ Placed(Data(p)) # 0
  BY <1>1, TypeFacts DEF IInv, Placement, FInv, FilesOf, Found, Owners, DirRow, Placed, At
<1>3. /\ proc'[p].pc = "identified" /\ proc'[p].data = proc[p].data /\ proc'[p].seen = Placed(Data(p))
      /\ proc'[p].pool = proc[p].pool /\ proc'[p].stage = 0
      /\ \A q \in Processes \ {p} : proc'[q] = proc[q]
  BY <1>1, <1>2, SeenRow, NoStage DEF Steps
<1>4. FilesOf(p)'
  BY <1>1, <1>2, <1>3
     DEF FilesOf, Found, Sound, Staged, At, Data, Placed, Restoring, Owners, NamedSteps, Opened
<1> QED  BY <1>1, <1>2, <1>3, <1>4, QuietStep DEF OnlyMoves, SamePlaces

(* app.pid and the other files of a directory are not its database.        *)
LEMMA PlacesStay ==
    ASSUME IInv, NEW p \in Processes,
           WritePid(p) \/ RemovePid(p) \/ LockMaintenance(p) \/ DoctorLocks(p)
    PROVE  SamePlaces
<1>1. CASE WritePid(p)
  <2> DEFINE named == [dir EXCEPT ![Runtime(p)].pid = p]
  <2>1. \A d \in Dirs : /\ named[d].db = dir[d].db /\ named[d].pending = dir[d].pending
                        /\ named[d] \in [db : Files \cup {0}, pid : Processes \cup {None},
                                         pending : BOOLEAN, empty : BOOLEAN]
    BY TypeFacts DEF DirRow
  <2>2. dir' = [named EXCEPT ![Runtime(p)].empty = FALSE] /\ DOMAIN named = Dirs
    BY <1>1, TypeFacts DEF WritePid
  <2> HIDE DEF named
  <2> QED  BY <2>1, <2>2 DEF SamePlaces
<1>2. CASE RemovePid(p)
  BY <1>2, TypeFacts DEF RemovePid, SamePlaces, DirRow
<1>3. CASE LockMaintenance(p) \/ DoctorLocks(p)
  <2>1. dir' = [dir EXCEPT ![Data(p)].empty = FALSE]
    BY <1>3 DEF LockMaintenance, DoctorLocks
  <2> QED  BY <2>1, TypeFacts DEF SamePlaces, DirRow
<1> QED  BY <1>1, <1>2, <1>3

LEMMA WritePidKeepsFiles ==
    ASSUME IInv, FInv, NEW p \in Processes, WritePid(p)
    PROVE  FInv'
<1>1. proc[p].pc = "identified" /\ file' = file /\ Go(p, "named") /\ SamePlaces
  BY PlacesStay DEF WritePid, At
<1>2. /\ proc'[p].pc = "named" /\ proc'[p].data = proc[p].data /\ proc'[p].seen = proc[p].seen
      /\ proc'[p].pool = proc[p].pool /\ proc'[p].stage = 0
      /\ \A q \in Processes \ {p} : proc'[q] = proc[q]
  BY <1>1, MovedRow, NoStage DEF Steps
<1>3. Placed(Data(p)) # 0 /\ proc[p].seen # 0 /\ Data(p) \in Dirs
  BY <1>1 DEF FInv, FilesOf, Found, Sound, At, Owners, IInv, Placement
<1>4. FilesOf(p)'
  BY <1>1, <1>2, <1>3
     DEF FilesOf, Found, Sound, Staged, At, Data, Placed, Restoring, SamePlaces, Opened
<1> QED  BY <1>1, <1>2, <1>4, QuietStep DEF OnlyMoves

(* What was validated is the file recorded, if the path still names it.    *)
LEMMA ValidateChecksFile ==
    ASSUME IInv, FInv, NEW p \in Processes, Validate(p)
    PROVE  FInv'
<1>1. proc[p].pc = "named" /\ dir' = dir /\ file' = file /\ Go(p, "validated") /\ Placed(Data(p)) # 0
  BY DEF Validate, At, Snapshot, Single
<1>2. /\ proc'[p].pc = "validated" /\ proc'[p].data = proc[p].data /\ proc'[p].seen = proc[p].seen
      /\ proc'[p].pool = proc[p].pool /\ proc'[p].stage = 0
      /\ \A q \in Processes \ {p} : proc'[q] = proc[q]
  BY <1>1, MovedRow, NoStage DEF Steps
<1>3. proc[p].seen # 0 /\ Checked(Placed(Data(p)))
  BY <1>1 DEF FInv, FilesOf, Sound, Validate, Snapshot, Checked
<1>4. Checked(Placed(Data(p)))'
  BY <1>1, <1>2, <1>3
     DEF Checked, Current, StructureSound, LeaseSound, Valid, Intact, Administered,
         CredentialsOpen, CamerasReadable, Placed, Data
<1>5. FilesOf(p)'
  BY <1>1, <1>2, <1>3, <1>4 DEF FilesOf, Found, Sound, Staged, At, Data, Placed, Restoring, Opened
<1> QED  BY <1>1, <1>2, <1>5, QuietStep DEF OnlyMoves, SamePlaces

(* What is opened is the file in place.                                    *)
LEMMA OpenPoolOpensFile ==
    ASSUME IInv, FInv, NEW p \in Processes, OpenPool(p)
    PROVE  FInv'
<1>1. /\ proc[p].pc = "validated" /\ dir' = dir /\ file' = file
      /\ GoPool(p, "open", Placed(Data(p))) /\ Placed(Data(p)) # 0
  BY DEF OpenPool, At, GoPool, Snapshot, Single
<1>2. Data(p) \in Dirs /\ Placed(Data(p)) \in Files
  BY <1>1, TypeFacts DEF IInv, Placement, DirRow, Placed, At
<1>3. /\ proc'[p].pc = "open" /\ proc'[p].data = proc[p].data /\ proc'[p].seen = proc[p].seen
      /\ proc'[p].pool = Placed(Data(p)) /\ proc'[p].stage = 0
      /\ \A q \in Processes \ {p} : proc'[q] = proc[q]
  BY <1>1, <1>2, PoolRow, NoStage DEF Steps
<1>4. proc[p].seen # 0 /\ (Placed(Data(p)) = proc[p].seen => Checked(proc[p].seen))
  BY <1>1 DEF FInv, FilesOf, Sound
<1>5. Checked(proc[p].seen) => Checked(proc[p].seen)'
  BY <1>1, <1>3
     DEF Checked, Current, StructureSound, LeaseSound, Valid, Intact, Administered,
         CredentialsOpen, CamerasReadable
<1>6. FilesOf(p)'
  BY <1>1, <1>3, <1>4, <1>5 DEF FilesOf, Found, Sound, Staged, At, Data, Placed, Restoring
<1> QED  BY <1>1, <1>2, <1>3, <1>6, QuietStep DEF OnlyMoves, SamePlaces

(* The comparison with the recorded file makes it the one that was checked. *)
LEMMA VerifyOpenComparesFile ==
    ASSUME IInv, FInv, NEW p \in Processes, VerifyOpen(p)
    PROVE  FInv'
<1>1. proc[p].pc = "open" /\ dir' = dir /\ file' = file /\ GoSeen(p, "verified", 0)
  BY DEF VerifyOpen, At, GoSeen
<1>2. /\ proc'[p].pc = "verified" /\ proc'[p].data = proc[p].data /\ proc'[p].seen = 0
      /\ proc'[p].pool = proc[p].pool /\ proc'[p].stage = 0
      /\ \A q \in Processes \ {p} : proc'[q] = proc[q]
  BY <1>1, SeenRow, NoStage DEF Steps
<1>3. Placed(Data(p)) # 0 /\ proc[p].pool # 0 /\ Checked(proc[p].pool)
  BY <1>1 DEF FInv, FilesOf, Sound, At, VerifyOpen, SameDatabase, Single
<1>4. Checked(proc[p].pool)'
  BY <1>1, <1>2, <1>3
     DEF Checked, Current, StructureSound, LeaseSound, Valid, Intact, Administered,
         CredentialsOpen, CamerasReadable
<1>5. FilesOf(p)'
  BY <1>1, <1>2, <1>3, <1>4 DEF FilesOf, Found, Sound, Staged, At, Data, Placed, Restoring
<1> QED  BY <1>1, <1>2, <1>5, QuietStep DEF OnlyMoves, SamePlaces

LEMMA ServeChecksCodes ==
    ASSUME IInv, FInv, NEW p \in Processes, Serve(p)
    PROVE  FInv'
<1>1. proc[p].pc = "verified" /\ dir' = dir /\ file' = file /\ Go(p, "serving") /\ CodesMatch(proc[p].pool)
  BY DEF Serve, At, ValidAgain
<1>2. /\ proc'[p].pc = "serving" /\ proc'[p].data = proc[p].data /\ proc'[p].seen = proc[p].seen
      /\ proc'[p].pool = proc[p].pool /\ proc'[p].stage = 0
      /\ \A q \in Processes \ {p} : proc'[q] = proc[q]
  BY <1>1, MovedRow, NoStage DEF Steps
<1>3. Placed(Data(p)) # 0 /\ proc[p].pool # 0 /\ Checked(proc[p].pool)
  BY <1>1 DEF FInv, FilesOf, Found, Sound, Owners, NamedSteps, Opened
<1>4. Checked(proc[p].pool)' /\ CodesMatch(proc[p].pool)'
  BY <1>1, <1>2, <1>3
     DEF Checked, Current, StructureSound, LeaseSound, Valid, Intact, Administered,
         CredentialsOpen, CamerasReadable, CodesMatch
<1>5. FilesOf(p)'
  BY <1>1, <1>2, <1>3, <1>4 DEF FilesOf, Found, Sound, Staged, At, Data, Placed, Restoring
<1> QED  BY <1>1, <1>2, <1>5, QuietStep DEF OnlyMoves, SamePlaces

(* A server that stops still finds its database under its lock.            *)
LEMMA StopsKeepFiles ==
    ASSUME IInv, FInv, NEW p \in Processes,
           DropOwner(p) \/ Quiesce(p) \/ ClosePool(p) \/ RemovePid(p)
    PROVE  FInv'
<1>1. /\ proc[p].pc \in NamedSteps /\ file' = file
      /\ \/ Go(p, "dropping") \/ (Go(p, "closing") /\ proc[p].pc \in Opened)
         \/ GoPool(p, "dropping", 0) \/ Go(p, "releasing")
  <2>1. CASE DropOwner(p)
    BY <2>1 DEF DropOwner, NamedSteps
  <2>4. CASE Quiesce(p)
    BY <2>4 DEF Quiesce, NamedSteps, Opened
  <2>2. CASE ClosePool(p)
    BY <2>2 DEF ClosePool, At, GoPool, NamedSteps
  <2>3. CASE RemovePid(p)
    BY <2>3 DEF RemovePid, At, NamedSteps
  <2> QED  BY <2>1, <2>2, <2>3, <2>4
<1>2. /\ proc'[p].pc \in {"dropping", "closing", "releasing"}
      /\ proc'[p].pc = "closing" => proc[p].pc \in Opened /\ proc'[p].pool = proc[p].pool
      /\ proc'[p].data = proc[p].data /\ proc'[p].seen = proc[p].seen
      /\ proc'[p].pool \in {0, proc[p].pool} /\ proc'[p].stage = proc[p].stage
      /\ \A q \in Processes \ {p} : proc'[q] = proc[q]
  <2>1. CASE \E pc \in {"dropping", "releasing"} : Go(p, pc)
    BY <2>1, MovedRow DEF Steps
  <2>2. CASE Go(p, "closing") /\ proc[p].pc \in Opened
    BY <2>2, MovedRow DEF Steps
  <2>3. CASE GoPool(p, "dropping", 0)
    BY <2>3, PoolRow DEF Steps
  <2> QED  BY <1>1, <2>1, <2>2, <2>3
<1>3. SamePlaces
  BY PlacesStay DEF DropOwner, Quiesce, ClosePool, SamePlaces
<1>4. /\ Placed(Data(p)) # 0 /\ Data(p) \in Dirs /\ (proc[p].pc \in Opened => proc[p].pool # 0)
      /\ proc[p].stage = 0
  BY <1>1, NoStage DEF FInv, FilesOf, Found, Sound, At, Owners, NamedSteps, IInv, Placement
<1>5. Found(p)'
  BY <1>2, <1>3, <1>4 DEF Found, At, Data, Placed, Restoring, SamePlaces
<1>6. Sound(p)'
  BY <1>2, <1>4 DEF Sound, At, Opened
<1>7. Staged(p)'
  BY <1>2, <1>4 DEF Staged, At
<1> QED  BY <1>1, <1>2, <1>3, <1>5, <1>6, <1>7, QuietStep DEF OnlyMoves, FilesOf

-----------------------------------------------------------------------------
(* Ends, doctor and init                                                   *)

(* Who ends has no file in hand, and disturbs nobody's if it leaves the    *)
(* directories as they are.                                                *)
LEMMA EndedHasNoFile ==
    ASSUME IInv, NEW p \in Processes, Ends(p)
    PROVE  FilesOf(p)' /\ OnlyMoves(p)
<1>1. /\ proc'[p].pc = "idle" /\ proc'[p].seen = 0 /\ proc'[p].pool = 0 /\ proc'[p].stage = 0
      /\ \A q \in Processes \ {p} : proc'[q] = proc[q]
  BY TypeFacts DEF Ends, Idle
<1> QED  BY <1>1 DEF FilesOf, Found, Sound, Staged, At, Restoring, Owners, NamedSteps, Opened, OnlyMoves

LEMMA EndsKeepFiles ==
    ASSUME IInv, FInv, NEW p \in Processes,
           GiveUp(p) \/ AbandonInit(p) \/ DoctorFails(p) \/ Release(p) \/ Killed(p)
    PROVE  FInv'
<1>1. Ends(p) /\ dir' = dir /\ file' = file
  BY DEF GiveUp, AbandonInit, DoctorFails, Release, Killed
<1> QED  BY <1>1, EndedHasNoFile, QuietStep DEF SamePlaces

(* Steps at which a process relies on no file.                             *)
Careless == {"asking", "inspecting", "probing", "writing", "created", "preparing", "releasing"}

LEMMA CarelessHasFiles ==
    ASSUME NEW p \in Processes, proc'[p].pc \in Careless, proc'[p].stage = 0
    PROVE  FilesOf(p)'
BY DEF Careless, FilesOf, Found, Sound, Staged, At, Restoring, Owners, NamedSteps, Opened

LEMMA CommandsStartWithoutFiles ==
    ASSUME IInv, FInv, NEW p \in Processes, NEW d \in Dirs, CreateDirectory(p, d) \/ DoctorAsks(p, d)
    PROVE  FInv'
<1>1. /\ proc'[p].pc \in Careless /\ proc'[p].seen = 0 /\ proc'[p].pool = 0 /\ proc'[p].stage = 0
      /\ \A q \in Processes \ {p} : proc'[q] = proc[q]
  BY TypeFacts DEF CreateDirectory, DoctorAsks, Idle, Careless
<1>2. dir' = dir /\ file' = file
  BY DEF CreateDirectory, DoctorAsks
<1> QED  BY <1>1, <1>2, CarelessHasFiles, QuietStep DEF OnlyMoves, SamePlaces

LEMMA CommandsKeepFiles ==
    ASSUME IInv, FInv, NEW p \in Processes,
           LockMaintenance(p) \/ DoctorLocks(p) \/ DoctorInspects(p)
    PROVE  FInv'
<1>1. \E pc \in Careless : Go(p, pc)
  BY DEF LockMaintenance, DoctorLocks, DoctorInspects, Careless
<1>2. proc[p].pc \notin {"staged", "filled"} /\ file' = file
  BY DEF LockMaintenance, DoctorLocks, DoctorInspects, At
<1>3. /\ proc'[p].pc \in Careless /\ proc'[p].seen = proc[p].seen /\ proc'[p].pool = proc[p].pool
      /\ proc'[p].stage = 0 /\ \A q \in Processes \ {p} : proc'[q] = proc[q]
  BY <1>1, <1>2, MovedRow, NoStage DEF Careless, Steps
<1>4. SamePlaces
  BY PlacesStay DEF DoctorInspects, SamePlaces
<1> QED  BY <1>2, <1>3, <1>4, CarelessHasFiles, QuietStep DEF OnlyMoves

LEMMA ProbeKeepsFiles ==
    ASSUME IInv, FInv, NEW p \in Processes, ProbeConnects(p) \/ ProbeCloses(p)
    PROVE  FInv'
<1>1. /\ proc[p].pc \in {"probing", "writing"} /\ dir' = dir /\ file' = file
      /\ \/ GoPool(p, "writing", Placed(Data(p)))
         \/ GoPool(p, "releasing", 0)
  BY DEF ProbeConnects, ProbeCloses, At, GoPool
<1>2. Data(p) \in Dirs /\ Placed(Data(p)) \in Files \cup {0}
  BY <1>1, TypeFacts DEF IInv, Placement, DirRow, Placed, At
<1>3. /\ proc'[p].pc \in Careless /\ proc'[p].seen = proc[p].seen
      /\ proc'[p].pool \in {0, Placed(Data(p))} /\ proc'[p].stage = 0
      /\ \A q \in Processes \ {p} : proc'[q] = proc[q]
  <2>1. proc[p].stage = 0
    BY <1>1, NoStage
  <2>2. CASE GoPool(p, "writing", Placed(Data(p)))
    BY <1>2, <2>1, <2>2, PoolRow DEF Careless, Steps
  <2>3. CASE GoPool(p, "releasing", 0)
    BY <2>1, <2>3, PoolRow DEF Careless, Steps
  <2> QED  BY <1>1, <2>2, <2>3
<1> QED  BY <1>1, <1>2, <1>3, CarelessHasFiles, QuietStep DEF OnlyMoves, SamePlaces

(* A new file was in nobody's hands and in no place.                       *)
LEMMA NewFileIsUnused ==
    ASSUME Unused # {}
    PROVE  NewFile \in Files /\ ~Referenced(NewFile)
BY DEF Unused, NewFile

(* The staging file is new: init prepares a database that only it has.     *)
LEMMA StageIsApart ==
    ASSUME IInv, FInv, NEW p \in Processes, Stage(p)
    PROVE  FInv'
<1>0. PICK f \in Files : f = NewFile /\ ~Referenced(f)
  BY NewFileIsUnused DEF Stage
<1>1. /\ proc[p].pc = "preparing" /\ dir' = dir /\ GoStage(p, "staged", f)
      /\ file' = [file EXCEPT ![f] = {"administrators"}]
  BY <1>0 DEF Stage, At, GoStage
<1>2. /\ proc'[p].pc = "staged" /\ proc'[p].data = proc[p].data /\ proc'[p].seen = proc[p].seen
      /\ proc'[p].pool = proc[p].pool /\ proc'[p].stage = f
      /\ \A q \in Processes \ {p} : proc'[q] = proc[q]
  BY <1>1, <1>0, StageRow DEF Steps
<1>3. file'[f] = {"administrators"} /\ \A g \in Files \ {f} : file'[g] = file[g]
  BY <1>1, <1>0, TypeFacts
<1>4. \A q \in Processes \ {p} : FilesOf(q)'
  <2>1. \A q \in Processes : f \notin {proc[q].seen, proc[q].pool, proc[q].stage}
    BY <1>0 DEF Referenced
  <2> QED  BY <1>0, <1>1, <1>2, <1>3, <2>1, OthersKeepFiles DEF OnlyMoves, SamePlaces
<1>5. Apart(f, p)'
  <2>1. \A d \in Dirs : Placed(d)' # f
    BY <1>1, <1>0 DEF Referenced, Placed
  <2>2. f \notin {proc'[p].seen, proc'[p].pool}
    BY <1>0, <1>2 DEF Referenced
  <2>3. \A q \in Processes \ {p} : f \notin {proc'[q].seen, proc'[q].pool, proc'[q].stage}
    BY <1>0, <1>2 DEF Referenced
  <2> QED  BY <2>1, <2>2, <2>3 DEF Apart
<1>6. Staged(p)'
  BY <1>0, <1>2, <1>3, <1>5 DEF Staged, At, Files
<1>7. Found(p)' /\ Sound(p)'
  BY <1>2 DEF Found, Sound, At, Restoring, Owners, NamedSteps, Opened
<1> QED  BY <1>4, <1>6, <1>7 DEF FInv, FilesOf

(* Steps that change one directory's database or its mark.                 *)
TakesNothing ==
    \A r \in Processes :
       {proc'[r].seen, proc'[r].pool, proc'[r].stage} \subseteq {0, proc[r].seen, proc[r].pool, proc[r].stage}
OneChanges(d) == \A e \in Dirs \ {d} : dir'[e].db = dir[e].db /\ dir'[e].pending = dir[e].pending

LEMMA OneDirectoryChanges ==
    ASSUME IInv, FInv, NEW q \in Processes, NEW d \in Dirs, OneChanges(d), TakesNothing,
           proc'[q] = proc[q],
           \A f \in Files : f \in {proc[q].seen, proc[q].pool, proc[q].stage} => file'[f] = file[f],
           proc[q].stage # 0 => dir'[d].db # proc[q].stage,
           proc[q].pc \in Owners \cup {"restored"} /\ Data(q) = d => dir'[d].db # 0,
           At(q, "checked") /\ Data(q) = d => dir'[d].db # 0 \/ dir'[d].pending,
           Restoring(q) /\ Data(q) = d => dir'[d].pending,
           proc[q].pc \in {"validated", "open"} /\ Data(q) = d /\ dir'[d].db = proc[q].seen
              => dir[d].db = proc[q].seen
    PROVE  FilesOf(q)'
<1>1. FilesOf(q) /\ proc[q] \in ProcRow /\ (~At(q, "idle") => Data(q) \in Dirs)
  BY TypeFacts DEF FInv, IInv, Placement
<1>2. ASSUME proc[q].stage # 0 PROVE Apart(proc[q].stage, q)'
  <2>1. \A e \in Dirs : dir'[e].db # proc[q].stage
    BY <1>1, <1>2 DEF OneChanges, FilesOf, Staged, Apart, Placed
  <2>2. \A r \in Processes \ {q} : \A f \in {proc'[r].seen, proc'[r].pool, proc'[r].stage} :
              f = 0 \/ f \in {proc[r].seen, proc[r].pool, proc[r].stage}
    BY DEF TakesNothing
  <2> QED  BY <1>1, <1>2, <2>1, <2>2, StaysApart
<1>3. ~At(q, "idle") /\ Data(q) # d =>
         dir'[Data(q)].db = Placed(Data(q)) /\ dir'[Data(q)].pending = dir[Data(q)].pending
  BY <1>1 DEF OneChanges, Placed
<1>4. Found(q)
  BY <1>1 DEF FilesOf
<1>5. proc[q].pc \in Owners \cup {"restored"} => dir'[Data(q)].db # 0
  BY <1>3, <1>4 DEF Found, At, Owners, NamedSteps
<1>6. At(q, "checked") => dir'[Data(q)].db # 0 \/ dir'[Data(q)].pending
  BY <1>3, <1>4 DEF Found, At
<1>7. Restoring(q) => dir'[Data(q)].pending
  BY <1>3, <1>4 DEF Found, At, Restoring
<1>8. proc[q].pc \in {"validated", "open"} /\ dir'[Data(q)].db = proc[q].seen
         => dir[Data(q)].db = proc[q].seen
  BY <1>3 DEF At, Placed
<1> QED  BY <1>1, <1>2, <1>5, <1>6, <1>7, <1>8, BystanderKeepsFiles

(* The administrator account completes the staging file.                   *)
LEMMA BootstrapCompletes ==
    ASSUME IInv, FInv, NEW p \in Processes, Bootstrap(p)
    PROVE  FInv'
<1>1. /\ proc[p].pc = "staged" /\ dir' = dir /\ Go(p, "filled")
      /\ file' = [file EXCEPT ![proc[p].stage] = @ \ {"administrators"}]
  BY DEF Bootstrap, At
<1>2. /\ proc[p].stage \in Files /\ Apart(proc[p].stage, p) /\ proc[p].stage # 0
      /\ file[proc[p].stage] = {"administrators"}
  BY <1>1, TypeFacts DEF FInv, FilesOf, Staged, At, ProcRow
<1>3. /\ proc'[p].pc = "filled" /\ proc'[p].data = proc[p].data /\ proc'[p].seen = proc[p].seen
      /\ proc'[p].pool = proc[p].pool /\ proc'[p].stage = proc[p].stage
      /\ \A q \in Processes \ {p} : proc'[q] = proc[q]
  BY <1>1, MovedRow DEF Steps
<1>4. file'[proc[p].stage] = {} /\ \A g \in Files \ {proc[p].stage} : file'[g] = file[g]
  BY <1>1, <1>2, TypeFacts
<1>5. \A q \in Processes \ {p} : FilesOf(q)'
  <2>1. \A q \in Processes \ {p} : proc[p].stage \notin {proc[q].seen, proc[q].pool, proc[q].stage}
    BY <1>2 DEF Apart
  <2> QED  BY <1>1, <1>3, <1>4, <2>1, OthersKeepFiles DEF OnlyMoves, SamePlaces
<1>6. Apart(proc[p].stage, p)'
  BY <1>1, <1>2, <1>3 DEF Apart, Placed
<1>7. Found(p)' /\ Sound(p)'
  BY <1>3 DEF Found, Sound, At, Restoring, Owners, NamedSteps, Opened
<1>8. Staged(p)'
  BY <1>2, <1>3, <1>4, <1>6 DEF Staged, At
<1> QED  BY <1>5, <1>7, <1>8 DEF FInv, FilesOf

(* Nobody serves from a directory that has no database, so publishing one  *)
(* takes no server's place.                                                *)
LEMMA PublishFillsPlace ==
    ASSUME IInv, FInv, NEW p \in Processes, Publish(p)
    PROVE  FInv'
<1>1. /\ proc[p].pc = "filled" /\ file' = file /\ GoStage(p, "releasing", 0) /\ Placed(Data(p)) = 0
      /\ dir' = [dir EXCEPT ![Data(p)].db = proc[p].stage]
  BY DEF Publish, At, GoStage
<1>2. proc[p].stage \in Files /\ Apart(proc[p].stage, p) /\ proc[p].stage # 0 /\ Data(p) \in Dirs
  BY <1>1, TypeFacts DEF FInv, FilesOf, Staged, At, ProcRow, IInv, Placement
<1>3. /\ proc'[p].pc = "releasing" /\ proc'[p].seen = proc[p].seen
      /\ proc'[p].pool = proc[p].pool /\ proc'[p].stage = 0
      /\ \A q \in Processes \ {p} : proc'[q] = proc[q]
  BY <1>1, StageRow DEF Steps
<1>4. OneChanges(Data(p)) /\ dir'[Data(p)].db = proc[p].stage
      /\ dir'[Data(p)].pending = dir[Data(p)].pending
  BY <1>1, <1>2, TypeFacts DEF OneChanges, DirRow
<1>5. TakesNothing
  BY <1>3 DEF TakesNothing
<1>6. ASSUME NEW q \in Processes \ {p} PROVE FilesOf(q)'
  <2>1. proc[q].stage # proc[p].stage
    BY <1>2 DEF Apart
  <2>2. Found(q)
    BY DEF FInv, FilesOf
  <2>3. Data(q) = Data(p) => proc[q].pc \notin Owners \cup {"restored"}
    BY <1>1, <2>2 DEF Found
  <2>4. Restoring(q) /\ Data(q) = Data(p) => dir'[Data(p)].pending
    BY <1>4, <2>2 DEF Found
  <2> QED  BY <1>1, <1>2, <1>3, <1>4, <1>5, <2>1, <2>3, <2>4, OneDirectoryChanges DEF Owners, NamedSteps
<1>7. FilesOf(p)'
  BY <1>3, CarelessHasFiles DEF Careless
<1> QED  BY <1>6, <1>7 DEF FInv

(* A copy that is put in place is a new file: nobody takes it for the one  *)
(* it recorded.                                                            *)
LEMMA CopyIsNew ==
    ASSUME IInv, NEW d \in Dirs, PutCopy(d)
    PROVE  \E f \in Files :
              /\ ~Referenced(f) /\ dir'[d].db = f /\ dir'[d].pending = dir[d].pending
              /\ OneChanges(d) /\ \A g \in Files \ {f} : file'[g] = file[g]
<1>1. PICK f \in Files : f = NewFile /\ ~Referenced(f)
  BY NewFileIsUnused DEF PutCopy
<1>2. dir' = [dir EXCEPT ![d].db = f]
  BY <1>1 DEF PutCopy
<1>3. PICK defects \in Copies : file' = [file EXCEPT ![f] = defects]
  BY <1>1 DEF PutCopy
<1>4. dir'[d].db = f /\ dir'[d].pending = dir[d].pending /\ OneChanges(d)
  BY <1>1, <1>2, TypeFacts DEF OneChanges, DirRow
<1>5. \A g \in Files \ {f} : file'[g] = file[g]
  BY <1>3, TypeFacts
<1> QED  BY <1>1, <1>4, <1>5

LEMMA CopyDisturbsNobody ==
    ASSUME IInv, FInv, NEW d \in Dirs, PutCopy(d), TakesNothing,
           NEW q \in Processes, proc'[q] = proc[q]
    PROVE  FilesOf(q)'
<1>1. PICK f \in Files :
              /\ ~Referenced(f) /\ dir'[d].db = f /\ dir'[d].pending = dir[d].pending
              /\ OneChanges(d) /\ \A g \in Files \ {f} : file'[g] = file[g]
  BY CopyIsNew
<1>2. f \notin {proc[q].seen, proc[q].pool, proc[q].stage} /\ f # 0
  BY <1>1 DEF Referenced, Files
<1>3. Restoring(q) /\ Data(q) = d => dir'[d].pending
  BY <1>1 DEF FInv, FilesOf, Found
<1> QED  BY <1>1, <1>2, <1>3, OneDirectoryChanges

LEMMA RestoreFillsPlace ==
    ASSUME IInv, FInv, NEW p \in Processes, RestoreFills(p)
    PROVE  FInv'
<1>1. proc[p].pc = "emptied" /\ PutCopy(Data(p)) /\ Go(p, "restored")
  BY DEF RestoreFills, At
<1>2. Data(p) \in Dirs /\ dir[Data(p)].pending /\ proc[p].stage = 0
  BY <1>1, NoStage DEF IInv, Placement, At, FInv, FilesOf, Found, Restoring
<1>3. /\ proc'[p].pc = "restored" /\ proc'[p].data = proc[p].data /\ proc'[p].seen = proc[p].seen
      /\ proc'[p].pool = proc[p].pool /\ proc'[p].stage = 0
      /\ \A q \in Processes \ {p} : proc'[q] = proc[q]
  BY <1>1, <1>2, MovedRow DEF Steps
<1>4. TakesNothing
  BY <1>3 DEF TakesNothing
<1>5. \A q \in Processes \ {p} : FilesOf(q)'
  BY <1>1, <1>2, <1>3, <1>4, CopyDisturbsNobody
<1>6. dir'[Data(p)].db # 0 /\ dir'[Data(p)].pending
  BY <1>1, <1>2, CopyIsNew DEF Files
<1>7. FilesOf(p)'
  BY <1>3, <1>6 DEF FilesOf, Found, Sound, Staged, At, Data, Placed, Restoring, Owners, NamedSteps, Opened
<1> QED  BY <1>5, <1>7 DEF FInv

(* A restore and whoever else holds a lock are in different directories.   *)
LEMMA RestoreIsAlone ==
    ASSUME IInv, NEW p \in Processes, NEW q \in Processes \ {p}, Restoring(p),
           proc[q].pc \in Owners \/ Restoring(q)
    PROVE  Data(q) # Data(p)
<1>1. Holds(p, Data(p), "exclusive")
  BY DEF IInv, Placement
<1>2. Holds(q, Data(q), "instance") \/ Holds(q, Data(q), "exclusive")
  BY DEF IInv, Placement
<1> QED  BY <1>1, <1>2 DEF IInv, Exclusion, Holds

LEMMA RestoreLocksMarks ==
    ASSUME IInv, FInv, NEW p \in Processes, NEW d \in Dirs, NEW r \in Dirs, RestoreLocks(p, d, r)
    PROVE  FInv'
<1>1. /\ proc'[p].pc = "restoring" /\ proc'[p].pool = 0 /\ proc'[p].seen = 0 /\ proc'[p].stage = 0
      /\ proc'[p].data = d /\ \A q \in Processes \ {p} : proc'[q] = proc[q]
  BY TypeFacts DEF RestoreLocks, Idle
<1>2. /\ \A e \in Dirs : dir'[e].db = dir[e].db
      /\ dir'[d].pending /\ \A e \in Dirs \ {d} : dir'[e].pending = dir[e].pending
  <2> DEFINE marked == [dir EXCEPT ![d].pending = TRUE]
             used   == [marked EXCEPT ![d].empty = FALSE]
  <2>1. /\ marked \in [Dirs -> DirRow] /\ \A e \in Dirs \ {d} : marked[e] = dir[e]
        /\ marked[d].db = dir[d].db /\ marked[d].pending = TRUE
    BY TypeFacts DEF DirRow
  <2> HIDE DEF marked
  <2>2. /\ used \in [Dirs -> DirRow]
        /\ \A e \in Dirs : used[e].db = marked[e].db /\ used[e].pending = marked[e].pending
    BY <2>1 DEF DirRow
  <2>3. dir' = [used EXCEPT ![r].empty = FALSE]
    BY DEF RestoreLocks, marked
  <2> HIDE DEF used
  <2>4. \A e \in Dirs : dir'[e].db = used[e].db /\ dir'[e].pending = used[e].pending
    BY <2>2, <2>3 DEF DirRow
  <2>5. \A e \in Dirs : dir'[e].db = marked[e].db /\ dir'[e].pending = marked[e].pending
    BY <2>2, <2>4
  <2> QED  BY <2>1, <2>5
<1>3. file' = file
  BY DEF RestoreLocks
<1>4. OneChanges(d) /\ TakesNothing
  BY <1>1, <1>2 DEF OneChanges, TakesNothing
<1>5. ASSUME NEW q \in Processes \ {p} PROVE FilesOf(q)'
  <2>1. FilesOf(q)
    BY DEF FInv
  <2>2. proc[q].stage # 0 => dir'[d].db # proc[q].stage
    BY <1>2, <2>1 DEF FilesOf, Staged, Apart, Placed
  <2>3. proc[q].pc \in Owners \cup {"restored"} /\ Data(q) = d => dir'[d].db # 0
    BY <1>2, <2>1 DEF FilesOf, Found, Placed
  <2> QED  BY <1>1, <1>2, <1>3, <1>4, <2>2, <2>3, OneDirectoryChanges
<1>6. FilesOf(p)'
  BY <1>1, <1>2 DEF FilesOf, Found, Sound, Staged, At, Data, Restoring, Owners, NamedSteps, Opened
<1> QED  BY <1>5, <1>6 DEF FInv

LEMMA RestoreMovesKeepFiles ==
    ASSUME IInv, FInv, NEW p \in Processes, RestoreEmpties(p) \/ RestoreEnds(p)
    PROVE  FInv'
<1>1. Restoring(p) /\ Data(p) \in Dirs /\ file' = file /\ proc[p].pc \notin {"staged", "filled"}
  BY DEF RestoreEmpties, RestoreEnds, Restoring, At, IInv, Placement
<1>2. dir[Data(p)].pending /\ proc[p].stage = 0
  BY <1>1, NoStage DEF FInv, FilesOf, Found
<1>3. CASE RestoreEmpties(p)
  <2>1. /\ proc'[p].pc = "emptied" /\ proc'[p].data = proc[p].data /\ proc'[p].seen = proc[p].seen
        /\ proc'[p].pool = proc[p].pool /\ proc'[p].stage = proc[p].stage
        /\ \A q \in Processes \ {p} : proc'[q] = proc[q]
    BY <1>3, MovedRow DEF RestoreEmpties, Steps
  <2>2. OneChanges(Data(p)) /\ dir'[Data(p)].db = 0 /\ dir'[Data(p)].pending
    BY <1>1, <1>2, <1>3, TypeFacts DEF RestoreEmpties, OneChanges, DirRow
  <2>3. TakesNothing
    BY <2>1 DEF TakesNothing
  <2>4. \A q \in Processes \ {p} : FilesOf(q)'
    <3> SUFFICES ASSUME NEW q \in Processes \ {p} PROVE FilesOf(q)'
      OBVIOUS
    <3>1. proc[q].pc \in Owners \cup {"restored"} => Data(q) # Data(p)
      BY <1>1, RestoreIsAlone DEF Restoring
    <3> QED  BY <1>1, <2>1, <2>2, <2>3, <3>1, OneDirectoryChanges DEF Owners, NamedSteps
  <2>5. FilesOf(p)'
    BY <1>2, <2>1, <2>2
       DEF FilesOf, Found, Sound, Staged, At, Data, Restoring, Owners, NamedSteps, Opened
  <2> QED  BY <2>4, <2>5 DEF FInv
<1>4. CASE RestoreEnds(p)
  <2>1. /\ OneChanges(Data(p)) /\ dir'[Data(p)].db = dir[Data(p)].db
    BY <1>1, <1>4, TypeFacts DEF RestoreEnds, OneChanges, DirRow
  <2>2. FilesOf(p)' /\ OnlyMoves(p) /\ Ends(p)
    BY <1>4, EndedHasNoFile DEF RestoreEnds
  <2>3. \A q \in Processes \ {p} : proc'[q] = proc[q]
    BY <2>2 DEF OnlyMoves
  <2>4. TakesNothing
    BY <2>2, <2>3, TypeFacts DEF TakesNothing, Ends, Idle
  <2>5. dir[Data(p)].db # 0
    BY <1>4 DEF RestoreEnds, At, FInv, FilesOf, Found, Placed
  <2>6. \A q \in Processes \ {p} : FilesOf(q)'
    <3> SUFFICES ASSUME NEW q \in Processes \ {p} PROVE FilesOf(q)'
      OBVIOUS
    <3>1. Restoring(q) => Data(q) # Data(p)
      BY <1>1, RestoreIsAlone
    <3>2. proc[q].stage # 0 => dir'[Data(p)].db # proc[q].stage
      BY <1>1, <2>1 DEF FInv, FilesOf, Staged, Apart, Placed
    <3> QED  BY <1>1, <2>1, <2>3, <2>4, <2>5, <3>1, <3>2, OneDirectoryChanges
  <2> QED  BY <2>2, <2>6 DEF FInv
<1> QED  BY <1>3, <1>4

(* By hand a database is moved over another, or linked where none was.     *)
LEMMA ByHandKeepsFiles ==
    ASSUME IInv, FInv, NEW d \in Dirs, NEW e \in Dirs,
           ByScript(d) \/ ReplaceByHand(d) \/ LinkByHand(d, e)
    PROVE  FInv'
<1> SUFFICES ASSUME NEW q \in Processes PROVE FilesOf(q)'
  BY DEF FInv
<1>1. proc' = proc /\ TakesNothing
  BY DEF ByScript, FindNoServer, ClearPid, ReplaceByHand, LinkByHand, TakesNothing
<1>2. FilesOf(q)
  BY DEF FInv
<1>3. CASE ByScript(d)
  <2>1. /\ OneChanges(d) /\ file' = file
        /\ dir'[d].db = dir[d].db /\ dir'[d].pending = dir[d].pending
    BY <1>3, TypeFacts DEF ByScript, FindNoServer, ClearPid, OneChanges, DirRow
  <2>2. proc[q].stage # 0 => dir'[d].db # proc[q].stage
    BY <1>2, <2>1 DEF FilesOf, Staged, Apart, Placed
  <2>3. Found(q)
    BY <1>2 DEF FilesOf
  <2> QED  BY <1>1, <2>1, <2>2, <2>3, OneDirectoryChanges DEF Found, Placed
<1>4. CASE ReplaceByHand(d)
  BY <1>1, <1>4, CopyDisturbsNobody DEF ReplaceByHand
<1>5. CASE LinkByHand(d, e)
  <2> DEFINE placed == [dir EXCEPT ![e].db = Placed(d)]
  <2>1. /\ placed \in [Dirs -> DirRow] /\ placed[e].db = Placed(d) /\ placed[e].pending = dir[e].pending
        /\ \A c \in Dirs \ {e} : placed[c] = dir[c]
    BY TypeFacts DEF DirRow, Placed
  <2>2. dir' = [placed EXCEPT ![e].empty = FALSE] /\ file' = file /\ Placed(d) # 0 /\ Placed(e) = 0
    BY <1>5 DEF LinkByHand, Placed
  <2> HIDE DEF placed
  <2>3. /\ OneChanges(e)
        /\ dir'[e].db = Placed(d) /\ dir'[e].pending = dir[e].pending
    BY <2>1, <2>2 DEF OneChanges, DirRow
  <2>4. proc[q].stage # 0 => dir'[e].db # proc[q].stage
    BY <1>2, <2>3 DEF FilesOf, Staged, Apart
  <2>5. /\ proc[q].pc \in Owners => Data(q) # e
        /\ Restoring(q) /\ Data(q) = e => dir'[e].pending
    BY <1>2, <2>2, <2>3 DEF FilesOf, Found
  <2> QED  BY <1>1, <2>2, <2>3, <2>4, <2>5, OneDirectoryChanges DEF Owners, NamedSteps
<1> QED  BY <1>3, <1>4, <1>5

LEMMA FilesInitially == Init => FInv
<1> SUFFICES ASSUME Init, NEW p \in Processes PROVE FilesOf(p)
  BY DEF FInv
<1>1. proc[p].pc = "idle" /\ proc[p].stage = 0
  BY DEF Init, Idle
<1> QED  BY <1>1 DEF FilesOf, Found, Sound, Staged, At, Restoring, Owners, NamedSteps, Opened

LEMMA FilesInductive == IInv /\ FInv /\ [Next]_vars => FInv'
<1> SUFFICES ASSUME IInv, FInv, [Next]_vars PROVE FInv'
  OBVIOUS
<1>1. CASE UNCHANGED vars
  <2>1. dir' = dir /\ file' = file /\ proc' = proc
    BY <1>1 DEF vars
  <2>2. ASSUME NEW p \in Processes PROVE FilesOf(p)'
    <3>1. FilesOf(p)
      BY DEF FInv
    <3>2. \A f : (Checked(f) <=> Checked(f)') /\ (CodesMatch(f) <=> CodesMatch(f)') /\ (Apart(f, p) <=> Apart(f, p)')
      BY <2>1 DEF Checked, Current, StructureSound, LeaseSound, Valid, Intact, Administered,
                  CredentialsOpen, CamerasReadable, CodesMatch, Apart, Placed
    <3> QED  BY <2>1, <3>1, <3>2 DEF FilesOf, Found, Sound, Staged, At, Data, Placed, Restoring
  <2> QED  BY <2>2 DEF FInv
<1>2. ASSUME NEW p \in Processes, NEW l \in Layouts, Run(p, l[1], l[2]) \/ RestoreLocks(p, l[1], l[2])
      PROVE  FInv'
  <2>1. l[1] \in Dirs /\ l[2] \in Dirs
    BY ConstantsAssumption
  <2> QED  BY <1>2, <2>1, RunFindsFile, RestoreLocksMarks
<1>3. ASSUME NEW p \in Processes, Starts(p)
      PROVE  FInv'
  BY <1>3, LockDataFindsFile, IdentifyRecordsFile, WritePidKeepsFiles, ValidateChecksFile,
     OpenPoolOpensFile, VerifyOpenComparesFile, ServeChecksCodes DEF Starts
<1>4. ASSUME NEW p \in Processes, Fails(p) \/ Killed(p) \/ Stops(p)
      PROVE  FInv'
  BY <1>4, EndsKeepFiles, StopsKeepFiles DEF Fails, Stops
<1>5. ASSUME NEW p \in Processes, Inits(p) \/ Examines(p)
      PROVE  FInv'
  BY <1>5, CommandsKeepFiles, ProbeKeepsFiles, StageIsApart, BootstrapCompletes, PublishFillsPlace
     DEF Inits, Examines
<1>6. ASSUME NEW p \in Processes, Restores(p)
      PROVE  FInv'
  BY <1>6, RestoreFillsPlace, RestoreMovesKeepFiles DEF Restores
<1> QED
  BY <1>1, <1>2, <1>3, <1>4, <1>5, <1>6, CommandsStartWithoutFiles, ByHandKeepsFiles, ScriptsStep DEF Next

(* Whatever is moved or linked by hand between the steps of a start, a     *)
(* server only serves a file that passed every check (app::serve and       *)
(* ApplicationLock::validate_open_database).                               *)
THEOREM ServedFilesAreChecked == Spec => []ServedIsChecked
<1>1. Init => IInv /\ FInv
  BY Initially, FilesInitially
<1>2. IInv /\ FInv /\ [Next]_vars => IInv' /\ FInv'
  BY Inductive, FilesInductive
<1>3. IInv /\ FInv => ServedIsChecked
  <2> SUFFICES ASSUME IInv, FInv, NEW p \in Processes, At(p, "serving")
               PROVE  file[proc[p].pool] = {}
    BY DEF ServedIsChecked
  <2>1. Checked(proc[p].pool) /\ CodesMatch(proc[p].pool) /\ proc[p].pool # 0
    BY DEF FInv, FilesOf, Sound, At, Opened
  <2>2. file[proc[p].pool] \subseteq Defects
    BY <2>1, TypeFacts DEF ProcRow
  <2> QED  BY <2>1, <2>2 DEF Checked, Current, StructureSound, LeaseSound, Valid, Intact, Administered,
              CredentialsOpen, CamerasReadable, CodesMatch, Defects
<1> QED  BY <1>1, <1>2, <1>3, PTL DEF Spec

-----------------------------------------------------------------------------
(* Which steps give a directory another database                           *)

SameDatabases == \A d \in Dirs : dir'[d].db = dir[d].db

LEMMA WhoChangesDatabases ==
    ASSUME IInv, [Next]_vars
    PROVE  \/ SameDatabases /\ touched' = touched
           \/ \E p \in Processes : Publish(p) \/ RestoreEmpties(p) \/ RestoreFills(p)
           \/ \E d, e \in Dirs : ReplaceByHand(d) \/ LinkByHand(d, e)
<1>1. dir' = dir => SameDatabases
  BY DEF SameDatabases
<1>2. ASSUME NEW p \in Processes, NEW d \in Dirs, NEW r \in Dirs, Run(p, d, r) \/ RestoreLocks(p, d, r)
      PROVE  SameDatabases /\ touched' = touched
  <2>1. CASE Run(p, d, r)
    BY <1>1, <2>1 DEF Run
  <2>2. CASE RestoreLocks(p, d, r)
    <3> DEFINE marked == [dir EXCEPT ![d].pending = TRUE]
               used   == [marked EXCEPT ![d].empty = FALSE]
    <3>1. marked \in [Dirs -> DirRow] /\ \A e \in Dirs : marked[e].db = dir[e].db
      BY TypeFacts DEF DirRow
    <3> HIDE DEF marked
    <3>2. used \in [Dirs -> DirRow] /\ \A e \in Dirs : used[e].db = marked[e].db
      BY <3>1 DEF DirRow
    <3>3. dir' = [used EXCEPT ![r].empty = FALSE] /\ touched' = touched
      BY <2>2 DEF RestoreLocks, marked
    <3> HIDE DEF used
    <3>4. \A e \in Dirs : dir'[e].db = used[e].db
      BY <3>2, <3>3 DEF DirRow
    <3> QED  BY <3>1, <3>2, <3>3, <3>4 DEF SameDatabases
  <2> QED  BY <1>2, <2>1, <2>2
<1>3. ASSUME NEW p \in Processes, WritePid(p) \/ RemovePid(p) \/ LockMaintenance(p) \/ DoctorLocks(p)
      PROVE  SameDatabases /\ touched' = touched
  <2>1. touched' = touched
    BY <1>3 DEF WritePid, RemovePid, LockMaintenance, DoctorLocks
  <2> QED  BY <1>3, <2>1, PlacesStay DEF SamePlaces, SameDatabases
<1>4. ASSUME NEW p \in Processes, RestoreEnds(p)
      PROVE  SameDatabases /\ touched' = touched
  BY <1>4, TypeFacts DEF RestoreEnds, SameDatabases, DirRow
<1>5. ASSUME NEW d \in Dirs, ByScript(d)
      PROVE  SameDatabases /\ touched' = touched
  BY <1>5, TypeFacts DEF ByScript, FindNoServer, ClearPid, SameDatabases, DirRow
<1>6. ASSUME NEW p \in Processes,
             Starts(p) \/ Fails(p) \/ Stops(p) \/ Inits(p) \/ Examines(p) \/ Restores(p) \/ Killed(p),
             ~(Publish(p) \/ RestoreEmpties(p) \/ RestoreFills(p))
      PROVE  SameDatabases /\ touched' = touched
  <2>1. CASE LockData(p) \/ Identify(p) \/ Validate(p) \/ OpenPool(p) \/ VerifyOpen(p) \/ Serve(p)
    BY <1>1, <2>1 DEF LockData, Identify, Validate, OpenPool, VerifyOpen, Serve
  <2>2. CASE Fails(p) \/ Killed(p) \/ ClosePool(p) \/ Release(p)
    BY <1>1, <2>2 DEF Fails, GiveUp, DropOwner, Quiesce, AbandonInit, DoctorFails, Killed, ClosePool, Release
  <2>3. CASE Stage(p) \/ Bootstrap(p) \/ DoctorInspects(p) \/ ProbeConnects(p) \/ ProbeCloses(p)
    BY <1>1, <2>3 DEF Stage, Bootstrap, DoctorInspects, ProbeConnects, ProbeCloses
  <2> QED  BY <1>3, <1>4, <1>6, <2>1, <2>2, <2>3 DEF Starts, Stops, Inits, Examines, Restores
<1>7. ASSUME NEW p \in Processes, NEW d \in Dirs, CreateDirectory(p, d) \/ DoctorAsks(p, d)
      PROVE  SameDatabases /\ touched' = touched
  BY <1>1, <1>7 DEF CreateDirectory, DoctorAsks
<1>8. CASE UNCHANGED vars
  BY <1>1, <1>8 DEF vars
<1>9. \A l \in Layouts : l[1] \in Dirs /\ l[2] \in Dirs
  BY ConstantsAssumption
<1> QED  BY <1>2, <1>5, <1>6, <1>7, <1>8, <1>9, ScriptsStep DEF Next

(* init puts a database only where none is, and a complete one: it is the  *)
(* staging file that initialize_with_administrator filled and nobody else  *)
(* touched, wherever this or another init was killed.                      *)
THEOREM InitIsWhole == Spec => InitPublishesWhole
<1> DEFINE Whole == \A d \in Dirs : dir'[d].db # dir[d].db =>
          \/ touched' # touched
          \/ \E p \in Processes : Restoring(p) /\ Data(p) = d
          \/ dir[d].db = 0 /\ file'[dir'[d].db] = {}
<1>1. Init => IInv /\ FInv
  BY Initially, FilesInitially
<1>2. IInv /\ FInv /\ [Next]_vars => IInv' /\ FInv'
  BY Inductive, FilesInductive
<1>3. IInv /\ FInv /\ [Next]_vars => Whole
  <2> SUFFICES ASSUME IInv, FInv, [Next]_vars, NEW d \in Dirs, dir'[d].db # dir[d].db, touched' = touched
               PROVE  \/ \E p \in Processes : Restoring(p) /\ Data(p) = d
                      \/ dir[d].db = 0 /\ file'[dir'[d].db] = {}
    OBVIOUS
  <2>1. ASSUME NEW p \in Processes, Publish(p)
        PROVE  dir[d].db = 0 /\ file'[dir'[d].db] = {}
    <3>1. file[proc[p].stage] = {} /\ Data(p) \in Dirs
      BY <2>1 DEF Publish, FInv, FilesOf, Staged, IInv, Placement, At
    <3>2. d = Data(p) /\ dir'[d].db = proc[p].stage
      BY <2>1, <3>1, TypeFacts DEF Publish, DirRow
    <3> QED  BY <2>1, <3>1, <3>2 DEF Publish, Placed
  <2>2. ASSUME NEW p \in Processes, RestoreEmpties(p) \/ RestoreFills(p)
        PROVE  Restoring(p) /\ Data(p) = d
    <3>1. Restoring(p) /\ Data(p) \in Dirs
      BY <2>2 DEF RestoreEmpties, RestoreFills, Restoring, At, IInv, Placement
    <3>2. OneChanges(Data(p))
      <4>1. CASE RestoreEmpties(p)
        BY <3>1, <4>1, TypeFacts DEF RestoreEmpties, OneChanges, DirRow
      <4>2. CASE RestoreFills(p)
        BY <3>1, <4>2, CopyIsNew DEF RestoreFills
      <4> QED  BY <2>2, <4>1, <4>2
    <3> QED  BY <3>1, <3>2 DEF OneChanges
  <2>3. ~SameDatabases
    BY DEF SameDatabases
  <2>4. ~ \E c, e \in Dirs : ReplaceByHand(c) \/ LinkByHand(c, e)
    <3>1. touched \in Nat
      BY TypeFacts, ConstantsAssumption
    <3>2. touched + 1 # touched
      BY <3>1
    <3> QED  BY <3>2 DEF ReplaceByHand, LinkByHand
  <2> QED  BY <2>1, <2>2, <2>3, <2>4, WhoChangesDatabases
<1> QED  BY <1>1, <1>2, <1>3, PTL DEF Spec, InitPublishesWhole

-----------------------------------------------------------------------------
(* Who serves a file is alone with it                                      *)
(*                                                                         *)
(* Until something is done by hand every database has one place.  A server *)
(* that opened its pool keeps its place, and after a copy was moved over   *)
(* its database the file it serves has no place at all.  So two servers    *)
(* with one file would be in one directory, or one of them would have      *)
(* opened a file with two places, which it refuses.                        *)

Distinct ==
    touched = 0 => \A d, e \in Dirs : d # e /\ Placed(d) # 0 => Placed(d) # Placed(e)
AtHome(p) == proc[p].pc \in Opened =>
    \/ Placed(Data(p)) = proc[p].pool
    \/ touched # 0 /\ \A d \in Dirs : Placed(d) # proc[p].pool
Alone ==
    \A p, q \in Processes :
       p # q /\ proc[p].pc \in Opened /\ proc[q].pc \in Opened => proc[p].pool # proc[q].pool
AInv == Distinct /\ (\A p \in Processes : AtHome(p)) /\ Alone

(* What every step but OpenPool does: no server opens another pool.        *)
KeepsServers ==
    \A p \in Processes : proc'[p].pc \in Opened =>
       /\ proc[p].pc \in Opened /\ proc'[p].pool = proc[p].pool /\ proc'[p].data = proc[p].data

(* How the steps change the row of their process.                          *)
RowChanges(p) ==
    \/ Ends(p)
    \/ \E pc \in Steps : Go(p, pc) /\ (pc \in Opened => proc[p].pc \in Opened)
    \/ \E pc \in Steps, f \in Files \cup {0} :
          \/ GoSeen(p, pc, f) /\ (pc \in Opened => proc[p].pc \in Opened)
          \/ GoPool(p, pc, f) /\ pc \notin Opened
          \/ GoStage(p, pc, f) /\ pc \notin Opened

LEMMA RowChangesKeep ==
    ASSUME IInv, NEW p \in Processes, RowChanges(p)
    PROVE  KeepsServers
<1>1. CASE Ends(p)
  BY <1>1, TypeFacts DEF Ends, Idle, KeepsServers, Opened
<1>2. ASSUME NEW pc \in Steps, Go(p, pc), pc \in Opened => proc[p].pc \in Opened
      PROVE  KeepsServers
  BY <1>2, MovedRow DEF KeepsServers
<1>3. ASSUME NEW pc \in Steps, NEW f \in Files \cup {0}, GoSeen(p, pc, f),
             pc \in Opened => proc[p].pc \in Opened
      PROVE  KeepsServers
  BY <1>3, SeenRow DEF KeepsServers
<1>4. ASSUME NEW pc \in Steps, NEW f \in Files \cup {0}, GoPool(p, pc, f), pc \notin Opened
      PROVE  KeepsServers
  BY <1>4, PoolRow DEF KeepsServers
<1>5. ASSUME NEW pc \in Steps, NEW f \in Files \cup {0}, GoStage(p, pc, f), pc \notin Opened
      PROVE  KeepsServers
  BY <1>5, StageRow DEF KeepsServers
<1> QED  BY <1>1, <1>2, <1>3, <1>4, <1>5 DEF RowChanges

LEMMA WhoKeepsServers ==
    ASSUME IInv, [Next]_vars, ~ \E p \in Processes : OpenPool(p)
    PROVE  KeepsServers
<1>1. ASSUME NEW p \in Processes, NEW d \in Dirs, NEW r \in Dirs,
             Run(p, d, r) \/ RestoreLocks(p, d, r) \/ CreateDirectory(p, d) \/ DoctorAsks(p, d)
      PROVE  KeepsServers
  <2>1. /\ proc'[p].pc \in {"checked", "restoring", "created", "asking"}
        /\ \A q \in Processes \ {p} : proc'[q] = proc[q]
    <3>1. CASE Run(p, d, r)
      BY <3>1, TypeFacts DEF Run, Idle
    <3>2. CASE RestoreLocks(p, d, r)
      BY <3>2, TypeFacts DEF RestoreLocks, Idle
    <3>3. CASE CreateDirectory(p, d)
      BY <3>3, TypeFacts DEF CreateDirectory, Idle
    <3>4. CASE DoctorAsks(p, d)
      BY <3>4, TypeFacts DEF DoctorAsks, Idle
    <3> QED  BY <1>1, <3>1, <3>2, <3>3, <3>4
  <2> QED  BY <2>1 DEF KeepsServers, Opened
<1>2. ASSUME NEW p \in Processes, LockData(p) \/ WritePid(p) \/ Validate(p) \/ Serve(p)
      PROVE  RowChanges(p)
  BY <1>2 DEF LockData, WritePid, Validate, Serve, RowChanges, Steps, Opened, At
<1>3. ASSUME NEW p \in Processes, Identify(p)
      PROVE  RowChanges(p)
  <2>1. GoSeen(p, "identified", Placed(Data(p))) /\ Placed(Data(p)) \in Files \cup {0}
    BY <1>3, TypeFacts DEF Identify, GoSeen, IInv, Placement, At, Placed, DirRow
  <2> QED  BY <2>1 DEF RowChanges, Steps, Opened
<1>4. ASSUME NEW p \in Processes, VerifyOpen(p)
      PROVE  RowChanges(p)
  BY <1>4 DEF VerifyOpen, GoSeen, RowChanges, Steps, Opened, At
<1>5. ASSUME NEW p \in Processes, Fails(p) \/ Killed(p)
      PROVE  RowChanges(p)
  BY <1>5 DEF Fails, GiveUp, DropOwner, Quiesce, AbandonInit, DoctorFails, Killed, RowChanges, Steps, Opened
<1>6. ASSUME NEW p \in Processes, Stops(p)
      PROVE  RowChanges(p)
  BY <1>6 DEF Stops, ClosePool, RemovePid, Release, GoPool, RowChanges, Steps, Opened
<1>7. ASSUME NEW p \in Processes, LockMaintenance(p) \/ Bootstrap(p) \/ DoctorLocks(p) \/ DoctorInspects(p)
      PROVE  RowChanges(p)
  BY <1>7 DEF LockMaintenance, Bootstrap, DoctorLocks, DoctorInspects, RowChanges, Steps, Opened
<1>8. ASSUME NEW p \in Processes, Stage(p) \/ Publish(p)
      PROVE  RowChanges(p)
  <2>1. CASE Stage(p)
    <3>1. GoStage(p, "staged", NewFile) /\ NewFile \in Files
      BY <2>1, NewFileIsAFile DEF Stage, GoStage
    <3> QED  BY <3>1 DEF RowChanges, Steps, Opened
  <2>2. CASE Publish(p)
    BY <2>2 DEF Publish, GoStage, RowChanges, Steps, Opened
  <2> QED  BY <1>8, <2>1, <2>2
<1>9. ASSUME NEW p \in Processes, ProbeConnects(p) \/ ProbeCloses(p)
      PROVE  RowChanges(p)
  <2>1. CASE ProbeConnects(p)
    <3>1. GoPool(p, "writing", Placed(Data(p))) /\ Placed(Data(p)) \in Files \cup {0}
      BY <2>1, TypeFacts DEF ProbeConnects, GoPool, IInv, Placement, At, Placed, DirRow
    <3> QED  BY <3>1 DEF RowChanges, Steps, Opened
  <2>2. CASE ProbeCloses(p)
    BY <2>2 DEF ProbeCloses, GoPool, RowChanges, Steps, Opened
  <2> QED  BY <1>9, <2>1, <2>2
<1>10. ASSUME NEW p \in Processes, Restores(p)
       PROVE  RowChanges(p)
  BY <1>10 DEF Restores, RestoreEmpties, RestoreFills, RestoreEnds, RowChanges, Steps, Opened
<1>11. proc' = proc => KeepsServers
  BY DEF KeepsServers
<1>12. ASSUME NEW d \in Dirs, NEW e \in Dirs, ByScript(d) \/ ReplaceByHand(d) \/ LinkByHand(d, e)
       PROVE  proc' = proc
  BY <1>12 DEF ByScript, FindNoServer, ClearPid, ReplaceByHand, LinkByHand
<1>13. \A l \in Layouts : l[1] \in Dirs /\ l[2] \in Dirs
  BY ConstantsAssumption
<1>14. ASSUME NEW p \in Processes,
              Starts(p) \/ Fails(p) \/ Stops(p) \/ Inits(p) \/ Examines(p) \/ Restores(p) \/ Killed(p)
       PROVE  RowChanges(p)
  BY <1>2, <1>3, <1>4, <1>5, <1>6, <1>7, <1>8, <1>9, <1>10, <1>14 DEF Starts, Inits, Examines
<1>15. CASE UNCHANGED vars
  BY <1>11, <1>15 DEF vars
<1> QED  BY <1>1, <1>11, <1>12, <1>13, <1>14, <1>15, RowChangesKeep, ScriptsStep DEF Next

(* A step that leaves the databases in place and opens no pool.            *)
LEMMA StillAlone ==
    ASSUME IInv, AInv, KeepsServers, SameDatabases, touched' = touched
    PROVE  AInv'
<1>1. Distinct'
  BY DEF AInv, Distinct, SameDatabases, Placed
<1>2. \A p \in Processes : AtHome(p)'
  <2> SUFFICES ASSUME NEW p \in Processes, proc'[p].pc \in Opened
               PROVE  \/ dir'[proc'[p].data].db = proc'[p].pool
                      \/ touched' # 0 /\ \A d \in Dirs : dir'[d].db # proc'[p].pool
    BY DEF AtHome, Placed, Data
  <2>1. proc[p].pc \in Opened /\ proc'[p].pool = proc[p].pool /\ proc'[p].data = proc[p].data
    BY DEF KeepsServers
  <2>2. AtHome(p) /\ Data(p) \in Dirs
    BY <2>1 DEF AInv, IInv, Placement, Opened, At
  <2> QED  BY <2>1, <2>2 DEF AtHome, SameDatabases, Placed, Data
<1>3. Alone'
  BY DEF AInv, Alone, KeepsServers
<1> QED  BY <1>1, <1>2, <1>3 DEF AInv

(* A step that puts a file nobody serves, or none, where no server is.     *)
LEMMA AloneBesideChange ==
    ASSUME IInv, AInv, KeepsServers, NEW d \in Dirs, OneChanges(d), touched' = touched,
           dir'[d].db # 0 =>
              /\ \A e \in Dirs : Placed(e) # dir'[d].db
              /\ \A q \in Processes : proc[q].pc \in Opened => proc[q].pool # dir'[d].db,
           \A q \in Processes : proc[q].pc \in Opened => Data(q) # d /\ proc[q].pool # 0
    PROVE  AInv'
<1>1. Distinct'
  <2> SUFFICES ASSUME touched = 0, NEW a \in Dirs, NEW b \in Dirs, a # b, dir'[a].db # 0
               PROVE  dir'[a].db # dir'[b].db
    BY DEF Distinct, Placed
  <2>1. CASE a = d
    BY <2>1 DEF OneChanges, Placed
  <2>2. CASE b = d
    BY <2>2 DEF OneChanges, Placed
  <2>3. CASE a # d /\ b # d
    BY <2>3 DEF OneChanges, Placed, AInv, Distinct
  <2> QED  BY <2>1, <2>2, <2>3
<1>2. \A p \in Processes : AtHome(p)'
  <2> SUFFICES ASSUME NEW p \in Processes, proc'[p].pc \in Opened
               PROVE  \/ dir'[proc'[p].data].db = proc'[p].pool
                      \/ touched' # 0 /\ \A e \in Dirs : dir'[e].db # proc'[p].pool
    BY DEF AtHome, Placed, Data
  <2>1. proc[p].pc \in Opened /\ proc'[p].pool = proc[p].pool /\ proc'[p].data = proc[p].data
    BY DEF KeepsServers
  <2>2. AtHome(p) /\ Data(p) \in Dirs /\ Data(p) # d /\ proc[p].pool # 0 /\ dir'[d].db # proc[p].pool
    BY <2>1 DEF AInv, IInv, Placement, Opened, At
  <2>3. CASE Placed(Data(p)) = proc[p].pool
    BY <2>1, <2>2, <2>3 DEF OneChanges, Placed, Data
  <2>4. CASE touched # 0 /\ \A e \in Dirs : Placed(e) # proc[p].pool
    BY <2>1, <2>2, <2>4 DEF OneChanges, Placed
  <2> QED  BY <2>1, <2>2, <2>3, <2>4 DEF AtHome
<1>3. Alone'
  BY DEF AInv, Alone, KeepsServers
<1> QED  BY <1>1, <1>2, <1>3 DEF AInv

LEMMA OpenedOwns ==
    ASSUME IInv, FInv, NEW p \in Processes, proc[p].pc \in Opened
    PROVE  /\ proc[p].pc \in Owners /\ Data(p) \in Dirs /\ Placed(Data(p)) # 0
           /\ proc[p].pool # 0 /\ <<Data(p), "instance">> \in held[p]
BY DEF IInv, Placement, Holds, FInv, FilesOf, Found, Sound, Opened, Owners, NamedSteps, At

LEMMA PublishedAlone ==
    ASSUME IInv, FInv, AInv, [Next]_vars, KeepsServers, NEW p \in Processes, Publish(p)
    PROVE  AInv'
<1>1. /\ proc[p].pc = "filled" /\ touched' = touched /\ Placed(Data(p)) = 0
      /\ dir' = [dir EXCEPT ![Data(p)].db = proc[p].stage]
  BY DEF Publish, At
<1>2. proc[p].stage \in Files /\ Apart(proc[p].stage, p) /\ proc[p].stage # 0 /\ Data(p) \in Dirs
  BY <1>1, TypeFacts DEF FInv, FilesOf, Staged, At, ProcRow, IInv, Placement
<1>3. OneChanges(Data(p)) /\ dir'[Data(p)].db = proc[p].stage
  BY <1>1, <1>2, TypeFacts DEF OneChanges, DirRow
<1>4. \A q \in Processes : proc[q].pc \in Opened =>
         Data(q) # Data(p) /\ proc[q].pool # 0 /\ proc[q].pool # proc[p].stage
  BY <1>1, <1>2, OpenedOwns DEF Apart, Opened
<1>5. \A e \in Dirs : Placed(e) # proc[p].stage
  BY <1>2 DEF Apart
<1> QED  BY <1>1, <1>2, <1>3, <1>4, <1>5, AloneBesideChange

LEMMA RestoredAlone ==
    ASSUME IInv, FInv, AInv, KeepsServers, NEW p \in Processes, RestoreEmpties(p) \/ RestoreFills(p)
    PROVE  AInv'
<1>1. Restoring(p) /\ Data(p) \in Dirs /\ touched' = touched
  BY DEF RestoreEmpties, RestoreFills, Restoring, At, IInv, Placement
<1>2. \A q \in Processes : proc[q].pc \in Opened => Data(q) # Data(p) /\ proc[q].pool # 0
  <2> SUFFICES ASSUME NEW q \in Processes, proc[q].pc \in Opened
               PROVE  Data(q) # Data(p) /\ proc[q].pool # 0
    OBVIOUS
  <2>1. q # p
    BY <1>1 DEF Restoring, Opened
  <2> QED  BY <1>1, <2>1, OpenedOwns, RestoreIsAlone
<1>3. CASE RestoreEmpties(p)
  <2>1. OneChanges(Data(p)) /\ dir'[Data(p)].db = 0
    BY <1>1, <1>3, TypeFacts DEF RestoreEmpties, OneChanges, DirRow
  <2> QED  BY <1>1, <1>2, <2>1, AloneBesideChange
<1>4. CASE RestoreFills(p)
  <2>1. PICK f \in Files : ~Referenced(f) /\ dir'[Data(p)].db = f /\ OneChanges(Data(p))
    BY <1>1, <1>4, CopyIsNew DEF RestoreFills
  <2>2. /\ \A e \in Dirs : Placed(e) # f
        /\ \A q \in Processes : proc[q].pool # f
    BY <2>1 DEF Referenced
  <2> QED  BY <1>1, <1>2, <2>1, <2>2, AloneBesideChange
<1> QED  BY <1>3, <1>4

(* A copy that is moved over a database leaves its server with a file that *)
(* has no other place, and one that is linked elsewhere leaves it in place. *)
LEMMA ByHandAlone ==
    ASSUME Touches <= 1, IInv, FInv, AInv, KeepsServers, NEW d \in Dirs, NEW e \in Dirs,
           ReplaceByHand(d) \/ LinkByHand(d, e)
    PROVE  AInv'
<1>1. touched = 0 /\ touched' # 0
  <2>1. touched \in Nat /\ Touches \in Nat /\ touched < Touches /\ touched' = touched + 1
    BY TypeFacts, ConstantsAssumption DEF ReplaceByHand, LinkByHand
  <2> QED  BY <2>1
<1>2. ASSUME NEW p \in Processes, proc'[p].pc \in Opened
      PROVE  \/ dir'[proc'[p].data].db = proc'[p].pool
             \/ \A c \in Dirs : dir'[c].db # proc'[p].pool
  <2>1. proc[p].pc \in Opened /\ proc'[p].pool = proc[p].pool /\ proc'[p].data = Data(p)
    BY <1>2 DEF KeepsServers, Data
  <2>2. Data(p) \in Dirs /\ Placed(Data(p)) = proc[p].pool /\ Placed(Data(p)) # 0
    BY <1>1, <2>1, OpenedOwns DEF AInv, AtHome
  <2>3. CASE ReplaceByHand(d)
    <3>1. PICK f \in Files : ~Referenced(f) /\ dir'[d].db = f /\ OneChanges(d)
      BY <2>3, CopyIsNew DEF ReplaceByHand
    <3>2. f # proc[p].pool
      BY <3>1 DEF Referenced
    <3>3. CASE Data(p) = d
      <4>1. \A c \in Dirs \ {d} : Placed(c) # proc[p].pool
        BY <1>1, <2>2, <3>3 DEF AInv, Distinct
      <4> QED  BY <2>1, <3>1, <3>2, <4>1 DEF OneChanges, Placed
    <3>4. CASE Data(p) # d
      BY <2>1, <2>2, <3>1, <3>4 DEF OneChanges, Placed
    <3> QED  BY <3>3, <3>4
  <2>4. CASE LinkByHand(d, e)
    <3>1. \A c \in Dirs \ {e} : dir'[c] = dir[c]
      BY <2>4, TypeFacts DEF LinkByHand
    <3>2. Data(p) # e
      BY <2>2, <2>4 DEF LinkByHand
    <3> QED  BY <2>1, <2>2, <3>1, <3>2 DEF Placed
  <2> QED  BY <2>3, <2>4
<1>3. \A p \in Processes : AtHome(p)'
  BY <1>1, <1>2 DEF AtHome, Placed, Data
<1>4. Distinct'
  BY <1>1 DEF Distinct
<1>5. Alone'
  BY DEF AInv, Alone, KeepsServers
<1> QED  BY <1>3, <1>4, <1>5 DEF AInv

(* A server only opens a file with one place, and it has that place.       *)
LEMMA OpenedAlone ==
    ASSUME IInv, FInv, AInv, NEW p \in Processes, OpenPool(p)
    PROVE  AInv'
<1>1. /\ proc[p].pc = "validated" /\ dir' = dir /\ touched' = touched /\ Single(Data(p))
      /\ GoPool(p, "open", Placed(Data(p)))
  BY DEF OpenPool, At, GoPool, Snapshot
<1>2. Data(p) \in Dirs /\ Placed(Data(p)) \in Files \cup {0} /\ <<Data(p), "instance">> \in held[p]
  BY <1>1, TypeFacts DEF IInv, Placement, Holds, Owners, NamedSteps, DirRow, Placed
<1>3. /\ proc'[p].pc = "open" /\ proc'[p].pool = Placed(Data(p)) /\ proc'[p].data = proc[p].data
      /\ \A q \in Processes \ {p} : proc'[q] = proc[q]
  BY <1>1, <1>2, PoolRow DEF Steps
<1>4. ASSUME NEW q \in Processes \ {p}, proc[q].pc \in Opened
      PROVE  proc[q].pool # Placed(Data(p))
  <2>1. Data(q) \in Dirs /\ <<Data(q), "instance">> \in held[q] /\ AtHome(q)
    BY <1>4, OpenedOwns DEF AInv
  <2>2. Data(q) # Data(p)
    BY <1>2, <2>1 DEF IInv, Exclusion
  <2> QED  BY <1>1, <1>2, <1>4, <2>1, <2>2 DEF AtHome, Single
<1>5. Distinct'
  BY <1>1 DEF AInv, Distinct, Placed
<1>6. \A q \in Processes : AtHome(q)'
  BY <1>1, <1>3 DEF AInv, AtHome, Placed, Data
<1>7. Alone'
  BY <1>3, <1>4 DEF AInv, Alone
<1> QED  BY <1>5, <1>6, <1>7 DEF AInv

LEMMA AloneInitially == Init => AInv
BY DEF Init, AInv, Distinct, AtHome, Alone, Placed, Idle, Opened

LEMMA AloneInductive ==
    ASSUME Touches <= 1
    PROVE  IInv /\ FInv /\ AInv /\ [Next]_vars => AInv'
<1> SUFFICES ASSUME IInv, FInv, AInv, [Next]_vars PROVE AInv'
  OBVIOUS
<1>1. CASE \E p \in Processes : OpenPool(p)
  BY <1>1, OpenedAlone
<1>2. CASE ~ \E p \in Processes : OpenPool(p)
  <2>1. KeepsServers
    BY <1>2, WhoKeepsServers
  <2> QED  BY <2>1, StillAlone, PublishedAlone, RestoredAlone, ByHandAlone, WhoChangesDatabases
<1> QED  BY <1>1, <1>2

(* As long as at most one file is moved or linked by hand, whatever is     *)
(* served passed every check and nobody else has it open, under whatever   *)
(* name.  With two it is not so: a file that is linked and then replaced   *)
(* under its first name has one place again and may be served twice.       *)
THEOREM ServedFilesAreSound == ASSUME Touches <= 1 PROVE Spec => []ServedIsSound
<1>1. Init => IInv /\ FInv /\ AInv
  BY Initially, FilesInitially, AloneInitially
<1>2. IInv /\ FInv /\ AInv /\ [Next]_vars => IInv' /\ FInv' /\ AInv'
  BY Inductive, FilesInductive, AloneInductive
<1>3. IInv /\ AInv => ServedAlone
  <2> SUFFICES ASSUME IInv, AInv, NEW p \in Processes, NEW q \in Processes,
                      At(p, "serving"), p # q, Server(q)
               PROVE  proc[q].pool # proc[p].pool
    BY DEF ServedAlone
  <2>1. proc[q].pc \in Opened
    BY DEF IInv, Placement, Server, Probing, At, Connected, Opened
  <2> QED  BY <2>1 DEF AInv, Alone, At, Opened
<1>4. Spec => []ServedIsChecked
  BY ServedFilesAreChecked
<1> QED  BY <1>1, <1>2, <1>3, <1>4, PTL DEF Spec, ServedIsSound

=============================================================================
