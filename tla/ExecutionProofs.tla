-------------------------- MODULE ExecutionProofs --------------------------
(***************************************************************************)
(* Proofs about Execution, for any number of runs and clips.               *)
(***************************************************************************)
EXTENDS Execution, TLAPS

\* A jump keeps the table of runs well typed.
LEMMA GotoType ==
    ASSUME TypeOK, NEW r \in Runs, NEW pc \in Live \cup {"gone"}, Goto(r, pc)
    PROVE  run' \in [Runs -> RunStates]
<1>1. [run[r] EXCEPT !.pc = pc] \in RunStates
  BY DEF TypeOK, RunStates
<1> QED BY <1>1 DEF Goto, TypeOK

\* The idle and the ended run are well typed.
LEMMA BlankRuns == NewRun \in RunStates /\ GoneRun \in RunStates
<1>1. 1 \in Indices
  BY ExecutionAssumption DEF Indices
<1> QED BY <1>1 DEF NewRun, GoneRun, RunStates, Contents

\* What is read from an open file is a content.
LEMMA ReadType ==
    ASSUME TypeOK, NEW r \in Runs
    PROVE  /\ run[r] \in RunStates
           /\ run[r].fd # "live" => run[r].fd \in Contents
           /\ Read(r, clip) \in Contents /\ Read(r, out) \in Contents
<1>1. run[r] \in RunStates /\ run[r].i \in Indices /\ run[r].fd \in Contents \cup {"live"}
  BY DEF TypeOK, RunStates
<1> QED BY <1>1 DEF Read, TypeOK

\* The fields by which a step of one run shows in another: who owns a file it
\* writes, the master it reads, and what an open file held when it was unlinked.
SameBut(x, y) == /\ x.pc = y.pc /\ x.i = y.i /\ x.done = y.done
                 /\ x.size = y.size /\ x.sum = y.sum /\ x.ok = y.ok

\* Removing files under a run takes nothing from it that it has open.
Spared(q) ==
    /\ SameBut(run'[q], run[q])
    /\ run[q].pc = "outCopy" /\ run'[q].owns => run[q].owns /\ Read(q, clip)' = Read(q, clip)
    /\ run[q].pc \in {"hash", "put"} => Read(q, out)' = Read(q, out)

LEMMA Unlinks ==
    ASSUME TypeOK, NEW r \in Runs, NEW x \in RunStates, NEW m \in BOOLEAN,
           NEW C \in SUBSET Indices, NEW O \in SUBSET Indices, Unlink(r, x, m, C, O)
    PROVE  /\ run' \in [Runs -> RunStates] /\ run'[r] = x
           /\ master' \in Contents /\ clip' \in [Indices -> Contents] /\ out' \in [Indices -> Contents]
           /\ \A q \in Runs : q # r => Spared(q)
<1> DEFINE kept(q) == \/ At(q, "copy") /\ ~m
                      \/ At(q, "cutting") /\ run[q].i \notin C
                      \/ At(q, "outCopy") /\ run[q].i \notin O
           held(q) == CASE At(q, "outCopy") /\ run[q].i \in C -> Read(q, clip)
                        [] run[q].pc \in {"hash", "put"} /\ run[q].i \in O -> Read(q, out)
                        [] OTHER -> run[q].fd
<1>0. /\ master' = IF m THEN "none" ELSE master
      /\ clip' = [i \in Indices |-> IF i \in C THEN "none" ELSE clip[i]]
      /\ out' = [i \in Indices |-> IF i \in O THEN "none" ELSE out[i]]
      /\ run' = [q \in Runs |->
            IF q = r THEN x ELSE [run[q] EXCEPT !.owns = @ /\ kept(q), !.fd = held(q)]]
  BY Zenon DEF Unlink
<1>1. master' \in Contents /\ clip' \in [Indices -> Contents] /\ out' \in [Indices -> Contents]
  BY <1>0 DEF TypeOK, Contents
<1>2. run'[r] = x
  BY <1>0
<1>3. ASSUME NEW q \in Runs, q # r
      PROVE  run'[q] \in RunStates /\ Spared(q)
  <2> DEFINE o == run[q].owns /\ kept(q)
             h == held(q)
  <2>1. run[q] \in RunStates /\ run[q].i \in Indices /\ run[q].fd \in Contents \cup {"live"}
    BY DEF TypeOK, RunStates
  <2>2. run'[q] = [run[q] EXCEPT !.owns = o, !.fd = h]
    BY <1>0, <1>3, <2>1, Zenon DEF RunStates
  <2>3. /\ run[q].pc = "outCopy" => h = IF run[q].i \in C THEN Read(q, clip) ELSE run[q].fd
        /\ run[q].pc \in {"hash", "put"} => h = IF run[q].i \in O THEN Read(q, out) ELSE run[q].fd
        /\ h \in Contents \cup {"live"}
    BY <2>1, ReadType DEF At
  <2>4. o \in BOOLEAN /\ (o => run[q].owns)
    BY <2>1, Zenon DEF RunStates
  <2> HIDE DEF o, h
  <2>5. /\ run'[q] \in RunStates /\ run'[q].owns = o /\ run'[q].fd = h /\ run'[q].i = run[q].i
        /\ SameBut(run'[q], run[q])
    BY <2>1, <2>2, <2>3, <2>4 DEF RunStates, SameBut
  <2>6. /\ run[q].pc = "outCopy" => Read(q, clip)' = Read(q, clip)
        /\ run[q].pc \in {"hash", "put"} => Read(q, out)' = Read(q, out)
    <3>1. Read(q, clip) # "live" /\ Read(q, out) # "live"
      BY ReadType DEF Contents
    <3>2. /\ run[q].i \notin C => clip'[run[q].i] = clip[run[q].i]
          /\ run[q].i \notin O => out'[run[q].i] = out[run[q].i]
      BY <1>0, <2>1
    <3> QED BY <2>3, <2>5, <3>1, <3>2 DEF Read
  <2> QED BY <2>4, <2>5, <2>6 DEF Spared
<1>4. run' \in [Runs -> RunStates]
  BY <1>0, <1>2, <1>3
<1> QED BY <1>1, <1>2, <1>3, <1>4

\* Both ends of an execution remove files: Return some, Cleanup all or, when it
\* fails, some.
LEMMA ReturnUnlinks ==
    ASSUME TypeOK, NEW r \in Runs, Return(r)
    PROVE  /\ run' \in [Runs -> RunStates]
           /\ master' \in Contents /\ clip' \in [Indices -> Contents] /\ out' \in [Indices -> Contents]
           /\ run[r].pc = "ended"
           /\ run'[r].pc = "setStatus" /\ run'[r].done = {} /\ run'[r].ok = run[r].ok
           /\ \A q \in Runs : q # r => Spared(q)
<1> DEFINE x == [NewRun EXCEPT !.pc = "setStatus", !.ok = run[r].ok]
<1>1. {} \in SUBSET Indices /\ Indices \in SUBSET Indices
  OBVIOUS
<1>2. PICK m \in BOOLEAN, C \in SUBSET Indices : Unlink(r, x, m, C, {})
  BY <1>1, Zenon DEF Return
<1>3. x \in RunStates /\ x.pc = "setStatus" /\ x.done = {} /\ x.ok = run[r].ok
  <2>1. 1 \in Indices /\ run[r].ok \in BOOLEAN
    BY ExecutionAssumption DEF Indices, TypeOK, RunStates
  <2> QED BY <2>1 DEF NewRun, RunStates, Contents, Live
<1>4. run[r].pc = "ended"
  BY DEF Return, At
<1> HIDE DEF x
<1>5. /\ run' \in [Runs -> RunStates] /\ run'[r] = x
      /\ master' \in Contents /\ clip' \in [Indices -> Contents] /\ out' \in [Indices -> Contents]
      /\ \A q \in Runs : q # r => Spared(q)
  BY <1>1, <1>2, <1>3, Unlinks, Zenon
<1> QED BY <1>3, <1>4, <1>5, Zenon

LEMMA CleanupUnlinks ==
    ASSUME TypeOK, NEW r \in Runs, Cleanup(r)
    PROVE  /\ run' \in [Runs -> RunStates]
           /\ master' \in Contents /\ clip' \in [Indices -> Contents] /\ out' \in [Indices -> Contents]
           /\ run'[r] = GoneRun
           /\ \A q \in Runs : q # r => Spared(q)
           /\ ~dir' \/ leftover'
           /\ (leftover => leftover') /\ shared' = shared /\ dir' \in BOOLEAN /\ leftover' \in BOOLEAN
<1>1. TRUE \in BOOLEAN /\ Indices \in SUBSET Indices
  OBVIOUS
<1>2. \A f \in Removals : f.master \in BOOLEAN /\ f.clips \in SUBSET Indices /\ f.outs \in SUBSET Indices
  BY ExecutionAssumption DEF Indices
<1>3. RemoveAll(r) /\ shared' = shared /\ dir \in BOOLEAN /\ leftover \in BOOLEAN
  BY DEF Cleanup, TypeOK
<1>4. PICK m \in BOOLEAN, C \in SUBSET Indices, O \in SUBSET Indices : Unlink(r, GoneRun, m, C, O)
  BY <1>1, <1>2, <1>3, Zenon DEF RemoveAll
<1>5. (dir' = FALSE /\ leftover' = leftover) \/ (dir' = dir /\ leftover' = TRUE)
  BY <1>3, Zenon DEF RemoveAll
<1>6. /\ ~dir' \/ leftover'
      /\ (leftover => leftover') /\ dir' \in BOOLEAN /\ leftover' \in BOOLEAN
  BY <1>3, <1>5
<1> QED BY <1>3, <1>4, <1>6, BlankRuns, Unlinks

LEMMA TypeStep ==
    ASSUME TypeOK, [Next]_vars
    PROVE  TypeOK'
<1> USE DEF files, cloudVars, probe, ghosts, At, Fails, FailsEarly
<1>0. Nothing \in [Indices -> Contents] /\ "none" \in Contents /\ "part" \in Contents
  BY DEF Nothing, Contents
<1>a. \A q \in Runs : run[q] \in RunStates /\ run[q].i \in Indices
  BY DEF TypeOK, RunStates
<1>b. \A pc \in {"locate", "copy", "ended", "cutting", "outCopy", "hash", "put", "next", "setStatus"} : pc \in Live
  BY DEF Live
<1>1. CASE UNCHANGED vars
  BY <1>1 DEF TypeOK, vars
<1>2. CASE Crash
  <2>1. run' \in [Runs -> RunStates]
    BY <1>2, BlankRuns DEF Crash, TypeOK
  <2> QED BY <1>2, <2>1 DEF Crash, TypeOK
<1>3. ASSUME NEW r \in Runs, Start(r) PROVE TypeOK'
  <2>1. run' \in [Runs -> RunStates]
    BY <1>3, GotoType DEF Start, Live
  <2> QED BY <1>3, <2>1 DEF Start, TypeOK
<1>4. ASSUME NEW r \in Runs, Prepare(r) PROVE TypeOK'
  <2>1. CASE OpenHandle(r)
    <3>1. run' \in [Runs -> RunStates]
      BY <2>1, GotoType, BlankRuns DEF OpenHandle, TypeOK, Live
    <3> QED BY <2>1, <3>1 DEF OpenHandle, TypeOK
  <2>2. CASE Load(r)
    <3>1. \A loaded \in {resumable, {}} : [run[r] EXCEPT !.pc = "locate", !.done = loaded] \in RunStates
      BY <1>a, <1>b DEF TypeOK, RunStates
    <3>2. run' \in [Runs -> RunStates]
      BY <2>2, <3>1, GotoType, <1>b DEF Load, LoadResumableState, TypeOK
    <3> QED BY <2>2, <3>2 DEF Load, LoadResumableState, TypeOK
  <2>3. CASE Locate(r) \/ EnterOnce(r) \/ SelectEncoder(r) \/ PassOnce(r) \/ StatMaster(r)
    <3>1. run' \in [Runs -> RunStates]
      BY <2>3, GotoType DEF Locate, EnterOnce, SelectEncoder, PassOnce, StatMaster, Live
    <3> QED BY <2>3, <3>1 DEF Locate, EnterOnce, SelectEncoder, PassOnce, StatMaster, TypeOK
  <2>4. CASE CreateMaster(r)
    <3>1. /\ \A q \in Runs : [run[q] EXCEPT !.pc = "copy", !.owns = TRUE] \in RunStates
          /\ \A q \in Runs : [run[q] EXCEPT !.owns = FALSE] \in RunStates
          /\ \A q \in Runs : [run[q] EXCEPT !.src = "part"] \in RunStates
      BY <1>0, <1>a, <1>b, ZenonT(60) DEF RunStates
    <3>2. run' \in [Runs -> RunStates]
      BY <2>4, <3>1, <1>a, <1>b, GotoType DEF CreateMaster
    <3>3. master' \in Contents
      BY <1>0, <2>4 DEF CreateMaster, TypeOK
    <3>4. UNCHANGED <<kind, row, dir, clip, out, resumable, once, encoder, holder, stored, recorded,
                      shared, leftover>>
      BY <2>4 DEF CreateMaster
    <3> QED BY <3>2, <3>3, <3>4 DEF TypeOK
  <2>5. CASE CopyMaster(r)
    <3>1. run' \in [Runs -> RunStates]
      BY <2>5, GotoType DEF CopyMaster, Live
    <3> QED BY <2>5, <3>1 DEF CopyMaster, TypeOK, Contents
  <2> QED BY <1>4, <2>1, <2>2, <2>3, <2>4, <2>5 DEF Prepare
<1>5. ASSUME NEW r \in Runs, Cut(r) PROVE TypeOK'
  <2>1. CASE AllDone(r)
    <3>1. [run[r] EXCEPT !.pc = "ended", !.ok = TRUE] \in RunStates
      BY <1>a, <1>b DEF RunStates
    <3> QED BY <2>1, <3>1 DEF AllDone, TypeOK
  <2>2. CASE StartCut(r)
    <3>0. master \in Contents
      BY DEF TypeOK
    <3>1. \A i \in Indices :
             [run[r] EXCEPT !.pc = "cutting", !.i = i, !.owns = TRUE, !.src = master] \in RunStates
      BY <3>0, <1>a, <1>b DEF RunStates
    <3>6. \A q \in Runs : [run[q] EXCEPT !.owns = FALSE] \in RunStates
      BY <1>a DEF RunStates
    <3>2. Remaining(r) \subseteq Indices
      BY ExecutionAssumption DEF Remaining, Outputs, Indices
    <3>3. clip' \in [Indices -> Contents]
      BY <1>0, <2>2 DEF StartCut, TypeOK
    <3>4. run' \in [Runs -> RunStates]
      <4>1. CASE Goto(r, "ended")
        BY <4>1, <1>b, GotoType
      <4>2. ASSUME NEW i \in Remaining(r),
                   run' = [q \in Runs |->
                      CASE q = r -> [run[q] EXCEPT !.pc = "cutting", !.i = i, !.owns = TRUE, !.src = master]
                        [] q # r /\ At(q, "cutting") /\ run[q].i = i -> [run[q] EXCEPT !.owns = FALSE]
                        [] OTHER -> run[q]]
            PROVE  run' \in [Runs -> RunStates]
        BY <4>2, <3>1, <3>2, <3>6, <1>a
      <4> QED BY <2>2, <4>1, <4>2 DEF StartCut
    <3>5. UNCHANGED <<kind, row, dir, master, out, resumable, once, encoder, holder, stored, recorded,
                      shared, leftover>>
      BY <2>2 DEF StartCut
    <3> QED BY <3>3, <3>4, <3>5 DEF TypeOK
  <2>3. CASE EndCut(r)
    <3>1. run' \in [Runs -> RunStates] /\ clip' \in [Indices -> Contents]
      BY <2>3, GotoType DEF EndCut, TypeOK, Live, Contents
    <3> QED BY <2>3, <3>1 DEF EndCut, TypeOK
  <2> QED BY <1>5, <2>1, <2>2, <2>3 DEF Cut
<1>6. ASSUME NEW r \in Runs, AddOutput(r) PROVE TypeOK'
  <2>0. run[r].i \in Indices
    BY DEF TypeOK, RunStates
  <2>1. CASE OutCreate(r)
    <3>1. /\ \A q \in Runs : [run[q] EXCEPT !.pc = "outCopy", !.owns = TRUE, !.fd = "live"] \in RunStates
          /\ \A q \in Runs : [run[q] EXCEPT !.owns = FALSE] \in RunStates
      BY <1>a, <1>b, ZenonT(60) DEF RunStates
    <3>2. run' \in [Runs -> RunStates]
      BY <2>1, <3>1, <1>a, <1>b, GotoType DEF OutCreate
    <3>3. out' \in [Indices -> Contents]
      BY <1>0, <2>0, <2>1 DEF OutCreate, TypeOK
    <3>4. UNCHANGED <<kind, row, dir, master, clip, resumable, once, encoder, holder, stored, recorded,
                      shared, leftover>>
      BY <2>1 DEF OutCreate
    <3> QED BY <3>2, <3>3, <3>4 DEF TypeOK
  <2>2. CASE OutCopy(r)
    <3>1. run' \in [Runs -> RunStates] /\ out' \in [Indices -> Contents]
      BY <2>2, GotoType, ReadType DEF OutCopy, TypeOK, Live
    <3> QED BY <2>2, <3>1 DEF OutCopy, TypeOK
  <2>3. CASE Presign(r)
    <3>1. run' \in [Runs -> RunStates]
      BY <2>3, GotoType DEF Presign, Live
    <3> QED BY <2>3, <3>1 DEF Presign, TypeOK
  <2>4. CASE StatOut(r)
    <3>1. [run[r] EXCEPT !.pc = "hash", !.size = out[run[r].i], !.fd = "live"] \in RunStates
      BY <2>0, <1>a, <1>b DEF TypeOK, RunStates
    <3>2. run' \in [Runs -> RunStates]
      BY <2>4, <3>1, GotoType DEF StatOut, TypeOK, Live
    <3> QED BY <2>4, <3>2 DEF StatOut, TypeOK
  <2>5. CASE Hash(r)
    <3>1. [run[r] EXCEPT !.pc = "put", !.sum = Read(r, out)] \in RunStates
      BY ReadType, <1>a, <1>b DEF RunStates
    <3>2. run' \in [Runs -> RunStates]
      BY <2>5, <3>1, GotoType DEF Hash, TypeOK, Live
    <3> QED BY <2>5, <3>2 DEF Hash, TypeOK
  <2>6. CASE Put(r)
    <3>1. run' \in [Runs -> RunStates] /\ stored' \in [Indices -> Contents]
      BY <2>6, GotoType, ReadType DEF Put, TypeOK, Live
    <3> QED BY <2>6, <3>1 DEF Put, TypeOK
  <2>7. CASE Record(r)
    <3>0. run[r].sum \in Contents
      BY DEF TypeOK, RunStates
    <3>1. run' \in [Runs -> RunStates] /\ recorded' \in [Indices -> Contents]
      BY <2>7, <3>0, GotoType DEF Record, TypeOK, Live
    <3> QED BY <2>7, <3>1 DEF Record, TypeOK
  <2>8. CASE Save(r)
    <3>1. run[r].done \cup {run[r].i} \in SUBSET Indices
      BY <1>a DEF RunStates
    <3>2. [run[r] EXCEPT !.pc = "next", !.done = run[r].done \cup {run[r].i}] \in RunStates
      BY <3>1, <1>a, <1>b DEF RunStates
    <3> QED BY <2>8, <3>1, <3>2 DEF Save, SaveResumableState, TypeOK
  <2> QED BY <1>6, <2>1, <2>2, <2>3, <2>4, <2>5, <2>6, <2>7, <2>8 DEF AddOutput
<1>7. ASSUME NEW r \in Runs, Finish(r) PROVE TypeOK'
  <2>1. CASE Return(r)
    <3>1. /\ run' \in [Runs -> RunStates] /\ master' \in Contents
          /\ clip' \in [Indices -> Contents] /\ out' \in [Indices -> Contents]
      BY <2>1, ReturnUnlinks
    <3>2. UNCHANGED <<kind, row, dir, resumable, once, encoder, holder, stored, recorded, shared, leftover>>
      BY <2>1 DEF Return
    <3> QED BY <3>1, <3>2 DEF TypeOK
  <2>2. CASE SetStatus(r)
    <3>1. run' \in [Runs -> RunStates]
      BY <2>2, GotoType DEF SetStatus, Live
    <3> QED BY <2>2, <3>1 DEF SetStatus, TypeOK
  <2>3. CASE Cleanup(r)
    <3>1. /\ run' \in [Runs -> RunStates] /\ master' \in Contents
          /\ clip' \in [Indices -> Contents] /\ out' \in [Indices -> Contents]
          /\ shared' = shared /\ dir' \in BOOLEAN /\ leftover' \in BOOLEAN
      BY <2>3, CleanupUnlinks
    <3>2. UNCHANGED <<kind, row, resumable, once, encoder, holder, stored, recorded>>
      BY <2>3 DEF Cleanup
    <3> QED BY <3>1, <3>2 DEF TypeOK
  <2> QED BY <1>7, <2>1, <2>2, <2>3 DEF Finish
<1> QED BY <1>1, <1>2, <1>3, <1>4, <1>5, <1>6, <1>7 DEF Next, RunStep

\* Every state has the types TypeOK gives, whatever two runs do to each other's
\* files (jobhandle.go, both executors).
THEOREM TypeCorrect == Spec => []TypeOK
<1>1. Init => TypeOK
  <2> SUFFICES ASSUME Init PROVE TypeOK
    OBVIOUS
  <2>1. Nothing \in [Indices -> Contents]
    BY DEF Nothing, Contents
  <2> QED BY <2>1, BlankRuns DEF Init, TypeOK, Contents
<1>2. TypeOK /\ [Next]_vars => TypeOK'
  BY TypeStep
<1> QED BY <1>1, <1>2, PTL DEF Spec

-----------------------------------------------------------------------------
(***************************************************************************)
(* What a step does to the records of the runs.                            *)
(***************************************************************************)

\* A jump changes the place of one run and nothing else.
LEMMA GotoKeeps ==
    ASSUME TypeOK, NEW r \in Runs, NEW pc, Goto(r, pc)
    PROVE  /\ run'[r].pc = pc /\ run'[r].i = run[r].i /\ run'[r].done = run[r].done
           /\ run'[r].owns = run[r].owns /\ run'[r].src = run[r].src /\ run'[r].fd = run[r].fd
           /\ run'[r].size = run[r].size /\ run'[r].sum = run[r].sum /\ run'[r].ok = run[r].ok
           /\ \A q \in Runs : q # r => run'[q] = run[q]
<1>1. run[r] \in RunStates
  BY DEF TypeOK
<1>2. run'[r] = [run[r] EXCEPT !.pc = pc] /\ \A q \in Runs : q # r => run'[q] = run[q]
  BY DEF Goto, TypeOK
<1> QED BY <1>1, <1>2 DEF RunStates

\* What a step of one run leaves to another one.
LEMMA OthersKeep ==
    ASSUME TypeOK, NEW r \in Runs, Start(r) \/ RunStep(r), NEW q \in Runs, q # r
    PROVE  SameBut(run'[q], run[q])
<1> USE DEF At, Fails, FailsEarly
<1>0. run[q] \in RunStates
  BY DEF TypeOK
<1>1. ASSUME run'[q] = run[q] PROVE SameBut(run'[q], run[q])
  BY <1>1 DEF SameBut
<1>2. /\ SameBut(run[q], run[q])
      /\ SameBut([run[q] EXCEPT !.owns = FALSE], run[q])
      /\ SameBut([run[q] EXCEPT !.src = "part"], run[q])
      /\ \A fd : SameBut([run[q] EXCEPT !.fd = fd], run[q])
      /\ \A fd : SameBut([run[q] EXCEPT !.owns = FALSE, !.fd = fd], run[q])
  BY <1>0 DEF SameBut, RunStates
<1>3. \A pc : Goto(r, pc) => run'[q] = run[q]
  BY DEF Goto, TypeOK
<1>4. CASE CreateMaster(r)
  <2>1. run'[q] \in {run[q], [run[q] EXCEPT !.owns = FALSE], [run[q] EXCEPT !.src = "part"]}
    BY <1>3, <1>4 DEF CreateMaster
  <2> QED BY <1>2, <2>1
<1>5. CASE StartCut(r)
  <2>1. run'[q] \in {run[q], [run[q] EXCEPT !.owns = FALSE]}
    BY <1>3, <1>5 DEF StartCut
  <2> QED BY <1>2, <2>1
<1>6. CASE OutCreate(r)
  <2>1. run'[q] \in {run[q], [run[q] EXCEPT !.owns = FALSE]}
    BY <1>3, <1>6 DEF OutCreate
  <2> QED BY <1>2, <2>1
<1>7. CASE Return(r)
  BY <1>7, ReturnUnlinks, Zenon DEF Spared
<1>8. CASE Cleanup(r)
  BY <1>8, CleanupUnlinks, Zenon DEF Spared
<1>9. CASE Start(r) \/ OpenHandle(r) \/ Load(r) \/ Locate(r) \/ EnterOnce(r) \/ SelectEncoder(r)
           \/ PassOnce(r) \/ StatMaster(r) \/ CopyMaster(r) \/ AllDone(r) \/ EndCut(r) \/ OutCopy(r)
           \/ Presign(r) \/ StatOut(r) \/ Hash(r) \/ Put(r) \/ Record(r) \/ Save(r) \/ SetStatus(r)
  <2>1. run'[q] = run[q]
    BY <1>3, <1>9 DEF TypeOK, Start, OpenHandle, Load, Locate, EnterOnce, SelectEncoder, PassOnce,
       StatMaster, CopyMaster, AllDone, EndCut, OutCopy, Presign, StatOut, Hash, Put, Record, Save, SetStatus
  <2> QED BY <1>1, <2>1
<1> QED
  BY <1>4, <1>5, <1>6, <1>7, <1>8, <1>9 DEF RunStep, Prepare, Cut, AddOutput, Finish

\* Where a run gets its place, its set of done clips and its result from.
LEMMA OwnFields ==
    ASSUME TypeOK, NEW r \in Runs, Start(r) \/ RunStep(r)
    PROVE  LET x == run[r]
               y == run'[r]
           IN  /\ \/ y.done = x.done
                  \/ y.done = {}
                  \/ Load(r) /\ y.done = resumable
                  \/ Save(r) /\ y.done = x.done \cup {x.i}
               /\ y.ok => x.ok \/ AllDone(r)
               /\ y.pc = "save" => Record(r) /\ ~Fails(r) /\ y.i = x.i
               /\ y.pc = "outCopy" => OutCreate(r) /\ ~Fails(r) /\ y.i = x.i /\ y.fd = "live" /\ clip[x.i] # "none"
               /\ y.pc = "hash" => StatOut(r) /\ y.i = x.i /\ y.fd = "live" /\ out[x.i] # "none"
               /\ y.pc = "put" => Hash(r) /\ y.i = x.i /\ y.fd = x.fd /\ y.sum = Read(r, out)
               /\ y.pc = "record" => Put(r) /\ y.i = x.i /\ y.sum = x.sum
<1> USE DEF At, Fails, FailsEarly
<1>0. run[r] \in RunStates
  BY DEF TypeOK
<1>g. \A pc : Goto(r, pc) =>
          /\ run'[r].pc = pc /\ run'[r].i = run[r].i /\ run'[r].done = run[r].done
          /\ run'[r].fd = run[r].fd /\ run'[r].sum = run[r].sum /\ run'[r].ok = run[r].ok
  BY GotoKeeps
<1>n. run'[r] = GoneRun => run'[r].done = {} /\ ~run'[r].ok /\ run'[r].pc = "gone"
  BY DEF GoneRun, NewRun
<1>1. CASE Start(r) \/ Locate(r) \/ EnterOnce(r) \/ SelectEncoder(r) \/ PassOnce(r)
           \/ StatMaster(r) \/ CopyMaster(r) \/ EndCut(r) \/ OutCopy(r) \/ Presign(r)
           \/ SetStatus(r)
  BY <1>g, <1>1 DEF Start, Locate, EnterOnce, SelectEncoder, PassOnce, StatMaster, CopyMaster, EndCut,
     OutCopy, Presign, SetStatus
<1>2. CASE OpenHandle(r)
  <2>1. Goto(r, "load") \/ run'[r] = GoneRun
    BY <1>2 DEF OpenHandle, TypeOK
  <2> QED BY <1>g, <1>n, <2>1
<1>3. CASE Load(r)
  <2>1. \/ Goto(r, "setStatus")
        \/ \E done \in {resumable, {}} : run'[r] = [run[r] EXCEPT !.pc = "locate", !.done = done]
    BY <1>3 DEF Load, LoadResumableState, TypeOK
  <2>2. \/ Goto(r, "setStatus")
        \/ run'[r].pc = "locate" /\ run'[r].done \in {resumable, {}} /\ run'[r].ok = run[r].ok
    BY <1>0, <2>1 DEF RunStates
  <2> QED BY <1>g, <1>3, <2>2
<1>4. CASE CreateMaster(r)
  <2>1. Goto(r, "ended") \/ run'[r] = [run[r] EXCEPT !.pc = "copy", !.owns = TRUE]
    BY <1>4 DEF CreateMaster
  <2>2. Goto(r, "ended") \/ (run'[r].pc = "copy" /\ run'[r].done = run[r].done /\ run'[r].ok = run[r].ok)
    BY <1>0, <2>1 DEF RunStates
  <2> QED BY <1>g, <2>2
<1>5. CASE AllDone(r)
  <2>1. run'[r] = [run[r] EXCEPT !.pc = "ended", !.ok = TRUE]
    BY <1>5 DEF AllDone, TypeOK
  <2>2. run'[r].pc = "ended" /\ run'[r].done = run[r].done
    BY <1>0, <2>1 DEF RunStates
  <2> QED BY <1>5, <2>2
<1>6. CASE StartCut(r)
  <2>1. Goto(r, "ended") \/ \E i \in Remaining(r) :
            run'[r] = [run[r] EXCEPT !.pc = "cutting", !.i = i, !.owns = TRUE, !.src = master]
    BY <1>6 DEF StartCut
  <2>2. Goto(r, "ended") \/ (run'[r].pc = "cutting" /\ run'[r].done = run[r].done /\ run'[r].ok = run[r].ok)
    BY <1>0, <2>1 DEF RunStates
  <2> QED BY <1>g, <2>2
<1>7. CASE OutCreate(r)
  <2>1. \/ Goto(r, "ended")
        \/ /\ run'[r] = [run[r] EXCEPT !.pc = "outCopy", !.owns = TRUE, !.fd = "live"]
           /\ clip[run[r].i] # "none"
    BY <1>7 DEF OutCreate
  <2>2. \/ Goto(r, "ended")
        \/ /\ run'[r].pc = "outCopy" /\ run'[r].i = run[r].i /\ run'[r].fd = "live"
           /\ run'[r].done = run[r].done /\ run'[r].ok = run[r].ok /\ clip[run[r].i] # "none"
    BY <1>0, <2>1 DEF RunStates
  <2> QED BY <1>g, <1>7, <2>2
<1>8. CASE StatOut(r)
  <2>1. \/ Goto(r, "ended")
        \/ /\ run'[r] = [run[r] EXCEPT !.pc = "hash", !.size = out[run[r].i], !.fd = "live"]
           /\ out[run[r].i] # "none"
    BY <1>8 DEF StatOut, TypeOK
  <2>2. \/ Goto(r, "ended")
        \/ /\ run'[r].pc = "hash" /\ run'[r].i = run[r].i /\ run'[r].fd = "live"
           /\ run'[r].done = run[r].done /\ run'[r].ok = run[r].ok /\ out[run[r].i] # "none"
    BY <1>0, <2>1 DEF RunStates
  <2> QED BY <1>g, <1>8, <2>2
<1>9. CASE Hash(r)
  <2>1. Goto(r, "ended") \/ run'[r] = [run[r] EXCEPT !.pc = "put", !.sum = Read(r, out)]
    BY <1>9 DEF Hash, TypeOK
  <2>2. \/ Goto(r, "ended")
        \/ /\ run'[r].pc = "put" /\ run'[r].i = run[r].i /\ run'[r].fd = run[r].fd
           /\ run'[r].sum = Read(r, out) /\ run'[r].done = run[r].done /\ run'[r].ok = run[r].ok
    BY <1>0, <2>1 DEF RunStates
  <2> QED BY <1>g, <1>9, <2>2
<1>10. CASE Put(r) \/ Record(r)
  BY <1>g, <1>10 DEF Put, Record
<1>11. CASE Save(r)
  <2>1. run'[r] = [run[r] EXCEPT !.pc = "next", !.done = run[r].done \cup {run[r].i}]
    BY <1>11 DEF Save, SaveResumableState, TypeOK
  <2>2. run'[r].pc = "next" /\ run'[r].done = run[r].done \cup {run[r].i} /\ run'[r].ok = run[r].ok
    BY <1>0, <2>1 DEF RunStates
  <2> QED BY <1>11, <2>2
<1>12. CASE Return(r)
  <2>1. run'[r].pc = "setStatus" /\ run'[r].done = {} /\ run'[r].ok = run[r].ok
    BY <1>12, ReturnUnlinks
  <2> QED BY <2>1
<1>13. CASE Cleanup(r)
  <2>1. run'[r] = GoneRun
    BY <1>13, CleanupUnlinks
  <2> QED BY <1>n, <2>1
<1> QED
  BY <1>1, <1>2, <1>3, <1>4, <1>5, <1>6, <1>7, <1>8, <1>9, <1>10, <1>11, <1>12, <1>13
     DEF RunStep, Prepare, Cut, AddOutput, Finish

-----------------------------------------------------------------------------
(***************************************************************************)
(* Resuming and nil results.                                               *)
(***************************************************************************)

\* Only StartCut, EndCut, Return and Cleanup touch clips, only OutCreate,
\* OutCopy and Cleanup touch the copies; none of them empties a file that
\* another run has open without leaving that run what the file held.
LEMMA OpenOthers ==
    ASSUME TypeOK, OpenInv, NEW r \in Runs, Start(r) \/ RunStep(r), NEW q \in Runs, q # r
    PROVE  /\ run[q].pc = "outCopy" /\ run'[q].owns => Read(q, clip)' # "none"
           /\ run[q].pc \in {"hash", "put"} => Read(q, out)' # "none"
<1> USE DEF At, Fails, FailsEarly, files
<1>0. run[q] \in RunStates /\ run[q].i \in Indices /\ run[r].i \in Indices
  BY DEF TypeOK, RunStates
<1>1. \A pc : Goto(r, pc) => run'[q] = run[q]
  BY DEF Goto, TypeOK
<1>2. run[q].pc = "outCopy" /\ run[q].owns => Read(q, clip) # "none"
  BY DEF OpenInv
<1>3. run[q].pc \in {"hash", "put"} => Read(q, out) # "none"
  BY DEF OpenInv
<1>4. CASE UNCHANGED <<clip, out>> /\ run'[q] = run[q]
  BY <1>2, <1>3, <1>4 DEF Read
<1>5. CASE Start(r) \/ OpenHandle(r) \/ Load(r) \/ Locate(r) \/ EnterOnce(r) \/ SelectEncoder(r)
           \/ PassOnce(r) \/ StatMaster(r) \/ CopyMaster(r) \/ AllDone(r)
           \/ Presign(r) \/ StatOut(r) \/ Hash(r) \/ Put(r) \/ Record(r) \/ Save(r) \/ SetStatus(r)
  <2>1. UNCHANGED <<clip, out>> /\ run'[q] = run[q]
    BY <1>1, <1>5 DEF TypeOK, Start, OpenHandle, Load, Locate, EnterOnce, SelectEncoder, PassOnce,
       StatMaster, CopyMaster, AllDone, Presign, StatOut, Hash, Put, Record, Save, SetStatus
  <2> QED BY <1>4, <2>1
<1>6. CASE CreateMaster(r)
  <2>1. run'[q] \in {run[q], [run[q] EXCEPT !.owns = FALSE], [run[q] EXCEPT !.src = "part"]}
    BY <1>1, <1>6 DEF CreateMaster
  <2>2. run'[q].fd = run[q].fd /\ run'[q].i = run[q].i /\ (run'[q].owns => run[q].owns)
    BY <1>0, <2>1 DEF RunStates
  <2> QED BY <1>2, <1>3, <1>6, <2>2 DEF CreateMaster, Read
<1>7. CASE StartCut(r)
  <2>1. run'[q] \in {run[q], [run[q] EXCEPT !.owns = FALSE]}
    BY <1>1, <1>7 DEF StartCut
  <2>2. run'[q].fd = run[q].fd /\ run'[q].i = run[q].i /\ (run'[q].owns => run[q].owns)
    BY <1>0, <2>1 DEF RunStates
  <2>3. \A i \in Indices : clip'[i] \in {clip[i], "part"}
    BY <1>7 DEF StartCut, TypeOK
  <2> QED BY <1>0, <1>2, <1>3, <1>7, <2>2, <2>3 DEF StartCut, Read
<1>8. CASE EndCut(r)
  <2>1. run'[q] = run[q]
    BY <1>1, <1>8 DEF EndCut
  <2>2. \A i \in Indices : clip'[i] \in {clip[i], "good", "bad"}
    BY <1>8 DEF EndCut, TypeOK
  <2> QED BY <1>0, <1>2, <1>3, <1>8, <2>1, <2>2 DEF EndCut, Read
<1>9. CASE OutCreate(r)
  <2>1. run'[q] \in {run[q], [run[q] EXCEPT !.owns = FALSE]}
    BY <1>1, <1>9 DEF OutCreate
  <2>2. run'[q].fd = run[q].fd /\ run'[q].i = run[q].i /\ (run'[q].owns => run[q].owns)
    BY <1>0, <2>1 DEF RunStates
  <2>3. \A i \in Indices : out'[i] \in {out[i], "part"}
    BY <1>9 DEF OutCreate, TypeOK
  <2> QED BY <1>0, <1>2, <1>3, <1>9, <2>2, <2>3 DEF OutCreate, Read
<1>10. CASE OutCopy(r)
  <2>1. run'[q] = run[q]
    BY <1>1, <1>10 DEF OutCopy
  <2>2. \A i \in Indices : out'[i] # out[i] => run[r].owns /\ out'[i] = Read(r, clip)
    BY <1>0, <1>10 DEF OutCopy, TypeOK
  <2>3. run[r].owns => Read(r, clip) # "none"
    BY <1>10 DEF OutCopy, OpenInv
  <2> QED BY <1>0, <1>2, <1>3, <1>10, <2>1, <2>2, <2>3 DEF OutCopy, Read
<1>11. CASE Return(r) \/ Cleanup(r)
  <2>1. Spared(q)
    BY <1>11, ReturnUnlinks, CleanupUnlinks, Zenon
  <2> HIDE DEF Spared
  <2>2. /\ run[q].pc = "outCopy" /\ run'[q].owns => run[q].owns /\ Read(q, clip)' = Read(q, clip)
        /\ run[q].pc \in {"hash", "put"} => Read(q, out)' = Read(q, out)
    BY <2>1, Zenon DEF Spared
  <2> QED BY <1>2, <1>3, <2>2, Zenon
<1> QED
  BY <1>5, <1>6, <1>7, <1>8, <1>9, <1>10, <1>11 DEF RunStep, Prepare, Cut, AddOutput, Finish

LEMMA OpenStep ==
    ASSUME TypeOK, OpenInv, [Next]_vars
    PROVE  OpenInv'
<1> USE DEF At
<1>1. CASE UNCHANGED vars
  BY <1>1 DEF OpenInv, vars, Read
<1>2. CASE Crash
  <2>1. \A r \in Runs : run'[r].pc \notin Live
    BY <1>2 DEF Crash, GoneRun, NewRun, Live
  <2>2. {"outCopy", "hash", "put", "record"} \subseteq Live
    BY DEF Live
  <2> QED BY <2>1, <2>2 DEF OpenInv
<1>3. ASSUME NEW r \in Runs, Start(r) \/ RunStep(r) PROVE OpenInv'
  <2>1. ASSUME NEW q \in Runs, q # r
        PROVE  /\ run'[q].pc = "outCopy" /\ run'[q].owns => Read(q, clip)' # "none"
               /\ run'[q].pc \in {"hash", "put"} => Read(q, out)' # "none"
               /\ run'[q].pc \in {"put", "record"} => run'[q].sum # "none"
    BY <1>3, <2>1, OthersKeep, OpenOthers DEF SameBut, OpenInv
  <2>2. run'[r].pc = "outCopy" => Read(r, clip)' # "none"
    <3>1. ASSUME OutCreate(r), ~Fails(r) PROVE clip' = clip
      BY <3>1 DEF OutCreate
    <3> QED BY <1>3, <3>1, OwnFields DEF Read
  <2>3. run'[r].pc \in {"hash", "put"} => Read(r, out)' # "none"
    <3>1. ASSUME StatOut(r) \/ Hash(r) PROVE out' = out
      BY <3>1 DEF StatOut, Hash, files
    <3>2. Hash(r) => Read(r, out) # "none"
      BY DEF Hash, OpenInv
    <3> QED BY <1>3, <3>1, <3>2, OwnFields DEF Read
  <2>4. run'[r].pc \in {"put", "record"} => run'[r].sum # "none"
    <3>1. /\ Hash(r) => Read(r, out) # "none"
          /\ Put(r) => run[r].sum # "none"
      BY DEF Hash, Put, OpenInv
    <3> QED BY <1>3, <3>1, OwnFields
  <2> QED BY <2>1, <2>2, <2>3, <2>4 DEF OpenInv
<1> QED BY <1>1, <1>2, <1>3 DEF Next

\* The manifest only grows.
LEMMA RecordedGrows ==
    ASSUME TypeOK, OpenInv, [Next]_vars
    PROVE  Recorded \subseteq Recorded'
<1> USE DEF files, cloudVars, probe, ghosts, At
<1>1. CASE recorded' = recorded
  BY <1>1 DEF Recorded
<1>2. ASSUME NEW r \in Runs, Record(r) PROVE Recorded \subseteq Recorded'
  <2>1. run[r].sum # "none" /\ run[r].i \in Indices
    BY <1>2 DEF Record, OpenInv, TypeOK, RunStates
  <2> QED BY <1>1, <1>2, <2>1 DEF Record, Recorded, TypeOK
<1> QED
  BY <1>1, <1>2, ZenonT(60) DEF Next, RunStep, vars, Crash, Start, Prepare, OpenHandle, Load, Locate, EnterOnce,
     SelectEncoder, PassOnce, StatMaster, CreateMaster, CopyMaster, Cut, AllDone, StartCut, EndCut,
     AddOutput, OutCreate, OutCopy, Presign, StatOut, Hash, Put, Save, Finish, Return, SetStatus, Cleanup

\* Only clip-video's Save writes resumable_state.
LEMMA ResumableMove ==
    ASSUME TypeOK, [Next]_vars
    PROVE  \/ resumable' = resumable
           \/ \E r \in Runs : Save(r) /\ resumable' = run[r].done \cup {run[r].i}
  BY ZenonT(60) DEF files, cloudVars, probe, ghosts, Next, RunStep, vars, Crash, Start, Prepare, OpenHandle, Load,
     Locate, EnterOnce, SelectEncoder, PassOnce, StatMaster, CreateMaster, CopyMaster, Cut, AllDone,
     StartCut, EndCut, AddOutput, OutCreate, OutCopy, Presign, StatOut, Hash, Put, Record, Save, SaveResumableState, Finish,
     Return, SetStatus, Cleanup

\* The kind of the workload never changes.
LEMMA KindKept == ASSUME [Next]_vars PROVE kind' = kind
  BY ZenonT(60) DEF Next, RunStep, vars, Crash, Start, Prepare, OpenHandle, Load, Locate, EnterOnce, SelectEncoder,
     PassOnce, StatMaster, CreateMaster, CopyMaster, Cut, AllDone, StartCut, EndCut, AddOutput, OutCreate,
     OutCopy, Presign, StatOut, Hash, Put, Record, Save, Finish, Return, SetStatus, Cleanup

LEMMA DoneStep ==
    ASSUME TypeOK, OpenInv, DoneInv, [Next]_vars
    PROVE  DoneInv'
<1> USE DEF At
<1>0. Recorded \subseteq Recorded' /\ Outputs' = Outputs
  BY RecordedGrows, KindKept DEF Outputs
<1>1. resumable' \subseteq Recorded'
  <2>1. ASSUME NEW r \in Runs, Save(r) PROVE run[r].done \cup {run[r].i} \subseteq Recorded
    BY <2>1 DEF Save, DoneInv
  <2> QED BY <1>0, <2>1, ResumableMove DEF DoneInv, ResumableIsRecorded
<1>2. ASSUME NEW q \in Runs
      PROVE  /\ run'[q].done \subseteq Recorded'
             /\ run'[q].pc = "save" => run'[q].i \in Recorded'
             /\ run'[q].ok => Outputs \subseteq Recorded'
  <2>1. ASSUME SameBut(run'[q], run[q])
        PROVE  /\ run'[q].done \subseteq Recorded'
               /\ run'[q].pc = "save" => run'[q].i \in Recorded'
               /\ run'[q].ok => Outputs \subseteq Recorded'
    BY <1>0, <2>1 DEF SameBut, DoneInv, NilMeansAllRecorded
  <2>2. CASE UNCHANGED vars
    BY <2>1, <2>2 DEF vars, SameBut
  <2>3. CASE Crash
    <3>1. run'[q] = run[q] \/ run'[q] = GoneRun
      BY <2>3 DEF Crash
    <3>2. GoneRun.done = {} /\ GoneRun.pc = "gone" /\ ~GoneRun.ok
      BY DEF GoneRun, NewRun
    <3> QED BY <2>1, <3>1, <3>2 DEF SameBut
  <2>4. ASSUME NEW r \in Runs, Start(r) \/ RunStep(r), r # q
        PROVE  SameBut(run'[q], run[q])
    BY <2>4, OthersKeep
  <2>5. CASE Start(q) \/ RunStep(q)
    <3>1. run'[q].done \subseteq Recorded'
      <4>1. Save(q) => run[q].done \cup {run[q].i} \subseteq Recorded
        BY DEF Save, DoneInv
      <4> QED BY <1>0, <2>5, <4>1, OwnFields DEF DoneInv, ResumableIsRecorded
    <3>2. run'[q].pc = "save" => run'[q].i \in Recorded'
      <4>1. ASSUME Record(q), ~Fails(q) PROVE run[q].i \in Recorded'
        BY <4>1 DEF Record, OpenInv, Recorded, TypeOK, RunStates
      <4> QED BY <2>5, <4>1, OwnFields
    <3>3. run'[q].ok => Outputs \subseteq Recorded'
      <4>1. AllDone(q) => Outputs \subseteq run[q].done
        BY DEF AllDone, Remaining
      <4> QED BY <1>0, <2>5, <4>1, OwnFields DEF DoneInv, NilMeansAllRecorded
    <3> QED BY <3>1, <3>2, <3>3
  <2> QED BY <2>1, <2>2, <2>3, <2>4, <2>5 DEF Next
<1> QED BY <1>0, <1>1, <1>2 DEF DoneInv, ResumableIsRecorded, NilMeansAllRecorded

\* What is open and what is done, for all runs, whatever they do to each other.
THEOREM DoneAndOpen == Spec => [](TypeOK /\ OpenInv /\ DoneInv)
<1>1. Init => OpenInv /\ DoneInv
  BY DEF Init, NewRun, OpenInv, DoneInv, At, ResumableIsRecorded, NilMeansAllRecorded
<1>2. TypeOK /\ OpenInv /\ DoneInv /\ [Next]_vars => OpenInv' /\ DoneInv'
  BY OpenStep, DoneStep
<1> QED BY <1>1, <1>2, TypeCorrect, PTL DEF Spec

\* An index in resumable_state is in the cloud's manifest (clipvideo/executor.go
\* Execute): a run that resumes skips no clip that was not delivered.
THEOREM ResumableRecorded == Spec => []ResumableIsRecorded
  BY DoneAndOpen, PTL DEF DoneInv

\* Execute returns nil only when every output is in the manifest, its own and
\* those an earlier run saved (both executors).
THEOREM NilAllRecorded == Spec => []NilMeansAllRecorded
  BY DoneAndOpen, PTL DEF DoneInv

\* Only Put writes to the storage, and it stores something.
LEMMA StoredMove ==
    ASSUME TypeOK, OpenInv, [Next]_vars
    PROVE  \A i \in Indices : stored[i] # "none" => stored'[i] # "none"
<1> USE DEF files, cloudVars, probe, ghosts, At
<1>1. CASE stored' = stored
  BY <1>1
<1>2. ASSUME NEW r \in Runs, Put(r) PROVE \A i \in Indices : stored[i] # "none" => stored'[i] # "none"
  <2>1. Read(r, out) # "none" /\ run[r].i \in Indices
    BY <1>2 DEF Put, OpenInv, TypeOK, RunStates
  <2>2. stored' = stored \/ stored' = [stored EXCEPT ![run[r].i] = Read(r, out)]
    BY <1>2 DEF Put
  <2> QED BY <2>1, <2>2 DEF TypeOK
<1> QED
  BY <1>1, <1>2, ZenonT(60) DEF Next, RunStep, vars, Crash, Start, Prepare, OpenHandle, Load, Locate, EnterOnce,
     SelectEncoder, PassOnce, StatMaster, CreateMaster, CopyMaster, Cut, AllDone, StartCut, EndCut,
     AddOutput, OutCreate, OutCopy, Presign, StatOut, Hash, Record, Save, Finish, Return, SetStatus, Cleanup

\* Only Record writes to the manifest, at its own index.
LEMMA RecordedMove ==
    ASSUME TypeOK, [Next]_vars
    PROVE  \A i \in Recorded' : i \in Recorded \/ \E r \in Runs : At(r, "record") /\ i = run[r].i
<1> USE DEF files, cloudVars, probe, ghosts, At
<1>1. CASE recorded' = recorded
  BY <1>1 DEF Recorded
<1>2. ASSUME NEW r \in Runs, Record(r)
      PROVE  \A i \in Recorded' : i \in Recorded \/ \E q \in Runs : At(q, "record") /\ i = run[q].i
  <2>1. recorded' = recorded \/ recorded' = [recorded EXCEPT ![run[r].i] = run[r].sum]
    BY <1>2 DEF Record
  <2> QED BY <1>2, <2>1 DEF Record, Recorded, TypeOK
<1> QED
  BY <1>1, <1>2, ZenonT(60) DEF Next, RunStep, vars, Crash, Start, Prepare, OpenHandle, Load, Locate, EnterOnce,
     SelectEncoder, PassOnce, StatMaster, CreateMaster, CopyMaster, Cut, AllDone, StartCut, EndCut,
     AddOutput, OutCreate, OutCopy, Presign, StatOut, Hash, Put, Save, Finish, Return, SetStatus, Cleanup

\* A run that is about to record has stored something under its key.
LEMMA StoredStep ==
    ASSUME TypeOK, OpenInv, StoredInv, [Next]_vars
    PROVE  StoredInv'
<1> USE DEF At
<1>1. RecordedIsStored'
  <2>1. ASSUME NEW i \in Recorded' PROVE stored[i] # "none" /\ i \in Indices
    BY <2>1, RecordedMove DEF StoredInv, RecordedIsStored, Recorded
  <2> QED BY <2>1, StoredMove DEF RecordedIsStored
<1>2. ASSUME NEW q \in Runs, run'[q].pc = "record" PROVE stored'[run'[q].i] # "none"
  <2>0. run[q].i \in Indices
    BY DEF TypeOK, RunStates
  <2>1. ASSUME SameBut(run'[q], run[q]) PROVE stored'[run'[q].i] # "none"
    BY <1>2, <2>0, <2>1, StoredMove DEF SameBut, StoredInv
  <2>2. CASE UNCHANGED vars
    BY <2>1, <2>2 DEF vars, SameBut
  <2>3. CASE Crash
    <3>1. run'[q] = run[q] \/ run'[q] = GoneRun
      BY <2>3 DEF Crash
    <3>2. GoneRun.pc = "gone"
      BY DEF GoneRun, NewRun
    <3> QED BY <1>2, <2>1, <3>1, <3>2 DEF SameBut
  <2>4. ASSUME NEW r \in Runs, Start(r) \/ RunStep(r), r # q
        PROVE  SameBut(run'[q], run[q])
    BY <2>4, OthersKeep
  <2>5. CASE Start(q) \/ RunStep(q)
    <3>1. Put(q) /\ run'[q].i = run[q].i
      BY <1>2, <2>5, OwnFields
    <3>2. ~Goto(q, "ended")
      BY <1>2, GotoKeeps
    <3>3. Read(q, out) # "none" /\ stored' = [stored EXCEPT ![run[q].i] = Read(q, out)]
      BY <3>1, <3>2 DEF Put, Fails, OpenInv
    <3> QED BY <2>0, <3>1, <3>3 DEF TypeOK
  <2> QED BY <2>1, <2>2, <2>3, <2>4, <2>5 DEF Next
<1> QED BY <1>1, <1>2 DEF StoredInv

\* The manifest names no missing object, whatever runs do to each other's files
\* and answers (jobhandle.go AddOutput: the PUT, then RecordOutputs).
THEOREM RecordedStored == Spec => []RecordedIsStored
<1>1. Init => StoredInv
  BY DEF Init, NewRun, Nothing, StoredInv, RecordedIsStored, Recorded, At
<1>2. TypeOK /\ OpenInv /\ StoredInv /\ [Next]_vars => StoredInv'
  BY StoredStep
<1>3. StoredInv => RecordedIsStored
  BY DEF StoredInv
<1> QED BY <1>1, <1>2, <1>3, DoneAndOpen, PTL DEF Spec

-----------------------------------------------------------------------------
(***************************************************************************)
(* The work directory and the encoder probe.                               *)
(***************************************************************************)

\* Where a step takes the run that makes it.
LEMMA Places ==
    ASSUME TypeOK, NEW r \in Runs, Start(r) \/ RunStep(r)
    PROVE  /\ run[r].pc \in HasHandle => run'[r].pc \in HasHandle \/ Cleanup(r)
           /\ kind = "clip" /\ run'[r].pc \in Encoding =>
                  run[r].pc \in Encoding \/ SelectEncoder(r) \/ PassOnce(r)
<1> USE DEF At, Fails, FailsEarly
<1>0. run[r] \in RunStates
  BY DEF TypeOK
<1>g. \A pc : Goto(r, pc) => run'[r].pc = pc
  BY GotoKeeps
<1>a. /\ HasHandle = {"load", "locate", "probe", "probing", "statMaster", "create", "copy", "next",
                       "cutting", "outCreate", "outCopy", "presign", "stat", "hash", "put", "record",
                       "save", "ended", "setStatus", "cleanup"}
      /\ Encoding = {"statMaster", "create", "copy", "next", "cutting", "outCreate", "outCopy",
                      "presign", "stat", "hash", "put", "record", "save"}
  BY DEF HasHandle, Live, Encoding
<1>1. CASE Start(r)
  BY <1>1, <1>g, <1>a DEF Start
<1>2. CASE OpenHandle(r)
  <2>1. run'[r].pc \in {"load", "gone"} /\ run[r].pc = "open"
    BY <1>2, <1>g DEF OpenHandle, TypeOK, GoneRun, NewRun
  <2> QED BY <2>1, <1>a
<1>3. CASE Load(r)
  <2>1. run'[r].pc \in {"locate", "setStatus"} /\ run[r].pc = "load"
    <3>1. CASE Goto(r, "setStatus")
      BY <1>3, <3>1, <1>g DEF Load
    <3>2. ASSUME NEW loaded, run' = [run EXCEPT ![r] = [@ EXCEPT !.pc = "locate", !.done = loaded]]
          PROVE  run'[r].pc = "locate"
      <4>1. run'[r] = [run[r] EXCEPT !.pc = "locate", !.done = loaded]
        BY <3>2 DEF TypeOK
      <4> QED BY <4>1, <1>0 DEF RunStates
    <3> QED BY <1>3, <3>1, <3>2 DEF Load
  <2> QED BY <2>1, <1>a
<1>4. CASE Locate(r) \/ EnterOnce(r) \/ SelectEncoder(r) \/ PassOnce(r) \/ StatMaster(r)
  BY <1>4, <1>g, <1>a DEF Locate, EnterOnce, SelectEncoder, PassOnce, StatMaster
<1>5. CASE CreateMaster(r)
  <2>1. run'[r].pc \in {"copy", "ended"} /\ run[r].pc = "create"
    BY <1>0, <1>5, <1>g DEF CreateMaster, RunStates
  <2> QED BY <2>1, <1>a
<1>6. CASE CopyMaster(r) \/ EndCut(r) \/ OutCopy(r) \/ Presign(r)
  BY <1>6, <1>g, <1>a DEF CopyMaster, EndCut, OutCopy, Presign
<1>7. CASE AllDone(r) \/ StartCut(r)
  <2>1. CASE AllDone(r)
    <3>1. run'[r].pc = "ended" /\ run[r].pc = "next"
      BY <1>0, <2>1 DEF AllDone, TypeOK, RunStates
    <3> QED BY <3>1, <1>a
  <2>2. CASE StartCut(r)
    <3>1. run'[r].pc \in {"cutting", "ended"} /\ run[r].pc = "next"
      BY <1>0, <2>2, <1>g DEF StartCut, RunStates
    <3> QED BY <3>1, <1>a
  <2> QED BY <1>7, <2>1, <2>2
<1>8. CASE OutCreate(r)
  <2>1. run'[r].pc \in {"outCopy", "ended"} /\ run[r].pc = "outCreate"
    BY <1>0, <1>8, <1>g DEF OutCreate, RunStates
  <2> QED BY <2>1, <1>a
<1>9. CASE StatOut(r) \/ Hash(r)
  <2>1. CASE StatOut(r)
    <3>1. run'[r].pc \in {"hash", "ended"} /\ run[r].pc = "stat"
      <4>1. CASE Goto(r, "ended")
        BY <2>1, <4>1, <1>g DEF StatOut
      <4>2. CASE run' = [run EXCEPT ![r] = [@ EXCEPT !.pc = "hash", !.size = out[run[r].i], !.fd = "live"]]
        <5>1. run'[r] = [run[r] EXCEPT !.pc = "hash", !.size = out[run[r].i], !.fd = "live"]
          BY <4>2 DEF TypeOK
        <5> QED BY <2>1, <5>1, <1>0 DEF StatOut, RunStates
      <4> QED BY <2>1, <4>1, <4>2 DEF StatOut
    <3> QED BY <3>1, <1>a
  <2>2. CASE Hash(r)
    <3>1. run'[r].pc \in {"put", "ended"} /\ run[r].pc = "hash"
      <4>1. CASE Goto(r, "ended")
        BY <2>2, <4>1, <1>g DEF Hash
      <4>2. ASSUME NEW sum, run' = [run EXCEPT ![r] = [@ EXCEPT !.pc = "put", !.sum = sum]]
            PROVE  run'[r].pc = "put"
        <5>1. run'[r] = [run[r] EXCEPT !.pc = "put", !.sum = sum]
          BY <4>2 DEF TypeOK
        <5> QED BY <5>1, <1>0 DEF RunStates
      <4> QED BY <2>2, <4>1, <4>2 DEF Hash
    <3> QED BY <3>1, <1>a
  <2> QED BY <1>9, <2>1, <2>2
<1>10. CASE Put(r) \/ Record(r)
  BY <1>10, <1>g, <1>a DEF Put, Record
<1>11. CASE Save(r)
  <2>1. run'[r].pc = "next" /\ run[r].pc = "save"
    BY <1>0, <1>11 DEF Save, TypeOK, RunStates
  <2> QED BY <2>1, <1>a
<1>12. CASE Return(r) \/ SetStatus(r)
  <2>1. run'[r].pc \in {"setStatus", "cleanup"} /\ run[r].pc \in {"ended", "setStatus"}
    <3>1. CASE Return(r)
      BY <3>1, ReturnUnlinks
    <3>2. CASE SetStatus(r)
      BY <3>2, <1>g DEF SetStatus
    <3> QED BY <1>12, <3>1, <3>2
  <2> QED BY <2>1, <1>a
<1>13. CASE Cleanup(r)
  <2>1. run'[r] = GoneRun
    BY <1>13, CleanupUnlinks
  <2>2. run'[r].pc = "gone"
    BY <2>1 DEF GoneRun, NewRun
  <2> QED BY <1>13, <2>2, <1>a
<1> QED
  BY <1>1, <1>2, <1>3, <1>4, <1>5, <1>6, <1>7, <1>8, <1>9, <1>10, <1>11, <1>12, <1>13
     DEF RunStep, Prepare, Cut, AddOutput, Finish

\* What a step of a run does to the directory and to the probe.
LEMMA DirAndProbe ==
    ASSUME TypeOK, NEW r \in Runs, Start(r) \/ RunStep(r)
    PROVE  /\ leftover => leftover'
           /\ dir' = dir \/ ~dir' \/ run'[r].pc \in HasHandle
           /\ Cleanup(r) => ~dir' \/ leftover'
           /\ once = "done" => once' = "done" /\ (encoder # "unset" => encoder' # "unset")
           /\ once' = "done" => once = "done" \/ encoder' # "unset"
           /\ SelectEncoder(r) \/ PassOnce(r) => once' = "done"
           /\ SelectEncoder(r) => encoder' # "unset"
<1> USE DEF At, Fails, FailsEarly, files, probe, cloudVars, ghosts
<1>g. \A pc : Goto(r, pc) => run'[r].pc = pc
  BY GotoKeeps
<1>1. CASE OpenHandle(r)
  <2>1. "load" \in HasHandle
    BY DEF HasHandle, Live
  <2>2. run[r].pc = "open" /\ leftover' = leftover /\ once' = once /\ encoder' = encoder
    BY <1>1 DEF OpenHandle
  <2>3. dir' = dir \/ run'[r].pc \in HasHandle
    BY <1>1, <1>g, <2>1 DEF OpenHandle
  <2>4. ~SelectEncoder(r) /\ ~PassOnce(r) /\ ~Cleanup(r)
    BY <2>2 DEF SelectEncoder, PassOnce, Cleanup
  <2> QED BY <2>2, <2>3, <2>4
<1>2. CASE EnterOnce(r) \/ SelectEncoder(r) \/ PassOnce(r)
  <2>1. CASE EnterOnce(r)
    BY <2>1 DEF EnterOnce, SelectEncoder, PassOnce, Cleanup
  <2>2. CASE SelectEncoder(r)
    BY <2>2 DEF SelectEncoder, PassOnce, Cleanup
  <2>3. CASE PassOnce(r)
    BY <2>3 DEF SelectEncoder, PassOnce, Cleanup
  <2> QED BY <1>2, <2>1, <2>2, <2>3
<1>3. CASE Cleanup(r)
  <2>1. /\ run[r].pc = "cleanup" /\ UNCHANGED <<once, encoder>>
        /\ ~SelectEncoder(r) /\ ~PassOnce(r)
    BY <1>3 DEF SelectEncoder, PassOnce, Cleanup
  <2>2. dir' \in {dir, FALSE} /\ (~dir' \/ leftover') /\ (leftover => leftover')
    BY <1>3, CleanupUnlinks DEF Cleanup, RemoveAll
  <2> QED BY <2>1, <2>2
<1>4. CASE Start(r) \/ Load(r) \/ Locate(r) \/ StatMaster(r) \/ CreateMaster(r) \/ CopyMaster(r)
           \/ Cut(r) \/ AddOutput(r) \/ Return(r) \/ SetStatus(r)
  <2>1. CASE Start(r) \/ Load(r) \/ Locate(r) \/ StatMaster(r) \/ SetStatus(r)
    <3>1. /\ UNCHANGED <<dir, once, encoder, leftover>>
          /\ run[r].pc \in {"new", "load", "locate", "statMaster", "setStatus"}
      BY <2>1 DEF Start, Load, Locate, StatMaster, SetStatus
    <3>2. ~SelectEncoder(r) /\ ~PassOnce(r) /\ ~Cleanup(r)
      BY <3>1 DEF SelectEncoder, PassOnce, Cleanup
    <3> QED BY <3>1, <3>2
  <2>10. CASE Return(r)
    <3>1. UNCHANGED <<dir, once, encoder, leftover>> /\ run[r].pc = "ended"
      BY <2>10 DEF Return
    <3>2. ~SelectEncoder(r) /\ ~PassOnce(r) /\ ~Cleanup(r)
      BY <3>1 DEF SelectEncoder, PassOnce, Cleanup
    <3> QED BY <3>1, <3>2
  <2>2. CASE CreateMaster(r)
    BY <2>2 DEF CreateMaster, SelectEncoder, PassOnce, Cleanup
  <2>3. CASE CopyMaster(r)
    BY <2>3 DEF CopyMaster, SelectEncoder, PassOnce, Cleanup
  <2>4. CASE AllDone(r) \/ EndCut(r)
    BY <2>4 DEF AllDone, EndCut, SelectEncoder, PassOnce, Cleanup
  <2>5. CASE StartCut(r)
    BY <2>5 DEF StartCut, SelectEncoder, PassOnce, Cleanup
  <2>6. CASE OutCreate(r)
    BY <2>6 DEF OutCreate, SelectEncoder, PassOnce, Cleanup
  <2>7. CASE OutCopy(r) \/ Presign(r) \/ StatOut(r) \/ Hash(r)
    BY <2>7 DEF OutCopy, Presign, StatOut, Hash, SelectEncoder, PassOnce, Cleanup
  <2>8. CASE Put(r) \/ Record(r)
    BY <2>8 DEF Put, Record, SelectEncoder, PassOnce, Cleanup
  <2>9. CASE Save(r)
    BY <2>9 DEF Save, SaveResumableState, SelectEncoder, PassOnce, Cleanup
  <2> QED BY <1>4, <2>1, <2>2, <2>3, <2>4, <2>5, <2>6, <2>7, <2>8, <2>9, <2>10 DEF Cut, AddOutput
<1> QED BY <1>1, <1>2, <1>3, <1>4 DEF RunStep, Prepare, Finish

\* The work directory exists only while a run has a handle, unless a crash or
\* a failed RemoveAll left it behind (jobhandle.go Cleanup, scheduler.go runOne).
THEOREM WorkDirReaped == Spec => []WorkDirIsReaped
<1>1. Init => WorkDirIsReaped
  BY DEF Init, WorkDirIsReaped
<1>2. TypeOK /\ WorkDirIsReaped /\ [Next]_vars => WorkDirIsReaped'
  <2> SUFFICES ASSUME TypeOK, WorkDirIsReaped, [Next]_vars, dir', ~leftover'
               PROVE  \E q \in Runs : run'[q].pc \in HasHandle
    BY DEF WorkDirIsReaped
  <2>1. CASE UNCHANGED vars
    BY <2>1 DEF WorkDirIsReaped, vars
  <2>2. CASE Crash
    BY <2>2 DEF Crash, files
  <2>3. ASSUME NEW r \in Runs, Start(r) \/ RunStep(r)
        PROVE  \E q \in Runs : run'[q].pc \in HasHandle
    <3>1. CASE run'[r].pc \in HasHandle
      BY <3>1
    <3>2. CASE run'[r].pc \notin HasHandle
      <4>1. dir /\ ~leftover /\ ~Cleanup(r)
        BY <2>3, <3>2, DirAndProbe
      <4>2. PICK q \in Runs : run[q].pc \in HasHandle
        BY <4>1 DEF WorkDirIsReaped
      <4>3. q # r
        BY <2>3, <3>2, <4>1, <4>2, Places
      <4> QED BY <2>3, <4>2, <4>3, OthersKeep DEF SameBut
    <3> QED BY <3>1, <3>2
  <2> QED BY <2>1, <2>2, <2>3 DEF Next
<1> QED BY <1>1, <1>2, TypeCorrect, PTL DEF Spec

\* No run cuts a clip before the encoder is known, the runs that found the probe
\* under way included (clipvideo/executor.go encOnce).
THEOREM EncoderKnown == Spec => []EncoderIsKnown
<1>1. Init => ProbeInv
  BY DEF Init, ProbeInv, Encoding, NewRun
<1>2. TypeOK /\ ProbeInv /\ [Next]_vars => ProbeInv'
  <2> SUFFICES ASSUME TypeOK, ProbeInv, [Next]_vars
               PROVE  ProbeInv'
    OBVIOUS
  <2>1. CASE UNCHANGED vars
    BY <2>1 DEF ProbeInv, vars
  <2>2. CASE Crash
    <3>1. \A q \in Runs : run'[q].pc \notin Encoding
      <4>1. GoneRun.pc \notin Encoding
        BY DEF GoneRun, NewRun, Encoding
      <4>2. Encoding \subseteq Live
        BY DEF Encoding, Live
      <4> QED BY <2>2, <4>1, <4>2 DEF Crash
    <3> QED BY <2>2, <3>1 DEF Crash, ProbeInv
  <2>3. ASSUME NEW r \in Runs, Start(r) \/ RunStep(r) PROVE ProbeInv'
    <3>1. once' = "done" => encoder' # "unset"
      BY <2>3, DirAndProbe DEF ProbeInv
    <3>2. ASSUME NEW q \in Runs, kind' = "clip", run'[q].pc \in Encoding PROVE once' = "done"
      <4>1. CASE q = r
        BY <2>3, <3>2, <4>1, KindKept, Places, DirAndProbe DEF ProbeInv
      <4>2. CASE q # r
        BY <2>3, <3>2, <4>2, KindKept, OthersKeep, DirAndProbe DEF ProbeInv, SameBut
      <4> QED BY <4>1, <4>2
    <3> QED BY <3>1, <3>2 DEF ProbeInv
  <2> QED BY <2>1, <2>2, <2>3 DEF Next
<1>3. ProbeInv => EncoderIsKnown
  BY DEF ProbeInv, EncoderIsKnown, Encoding
<1> QED BY <1>1, <1>2, <1>3, TypeCorrect, PTL DEF Spec

-----------------------------------------------------------------------------
\* The contents a run with the directory to itself leaves to its next step.
LEMMA KnowsStep ==
    ASSUME TypeOK, NEW r \in Runs, RunStep(r), run[r].pc \in HasHandle, Knows(r)
    PROVE  run'[r].pc \in HasHandle => Knows(r)'
<1> USE DEF At, Fails, FailsEarly, files
<1>0. /\ run[r] \in RunStates /\ run[r].i \in Indices
      /\ clip \in [Indices -> Contents] /\ out \in [Indices -> Contents] /\ stored \in [Indices -> Contents]
  BY DEF TypeOK, RunStates
<1>g. \A pc : Goto(r, pc) =>
          /\ run'[r].pc = pc /\ run'[r].i = run[r].i /\ run'[r].owns = run[r].owns
          /\ run'[r].src = run[r].src /\ run'[r].fd = run[r].fd /\ run'[r].sum = run[r].sum
  BY GotoKeeps
<1>e. \A pc \in {"ended", "setStatus", "cleanup"} : run'[r].pc = pc /\ dir' = dir => Knows(r)'
  BY DEF Knows
<1>f. \A pc \in {"ended", "setStatus", "cleanup"} : Goto(r, pc) /\ dir' = dir => Knows(r)'
  BY <1>e, <1>g
<1>1. CASE OpenHandle(r)
  BY <1>1 DEF OpenHandle, HasHandle
<1>2. CASE Load(r) \/ Locate(r) \/ EnterOnce(r) \/ SelectEncoder(r) \/ PassOnce(r)
  <2>1. run'[r].pc \in {"locate", "probe", "probing", "statMaster", "create", "setStatus"}
    <3>1. CASE Load(r)
      <4>1. \/ Goto(r, "setStatus")
            \/ \E done \in {resumable, {}} : run'[r] = [run[r] EXCEPT !.pc = "locate", !.done = done]
        BY <3>1 DEF Load, LoadResumableState, TypeOK
      <4> QED BY <1>0, <1>g, <4>1, ZenonT(60) DEF RunStates
    <3>2. CASE Locate(r) \/ EnterOnce(r) \/ SelectEncoder(r) \/ PassOnce(r)
      BY <3>2, <1>g DEF Locate, EnterOnce, SelectEncoder, PassOnce
    <3> QED BY <1>2, <3>1, <3>2
  <2>2. UNCHANGED <<dir, master>> /\ run[r].pc \in {"load", "locate", "probe", "probing"}
    BY <1>2 DEF Load, Locate, EnterOnce, SelectEncoder, PassOnce
  <2> QED BY <2>1, <2>2 DEF Knows
<1>3. CASE StatMaster(r)
  <2>1. Goto(r, "create") /\ UNCHANGED <<dir, master>>
    BY <1>3 DEF StatMaster, Knows
  <2> QED BY <1>3, <1>g, <2>1 DEF StatMaster, Knows
<1>4. CASE CreateMaster(r)
  <2>1. CASE run'[r] = [run[r] EXCEPT !.pc = "copy", !.owns = TRUE]
    <3>1. run'[r].pc = "copy" /\ run'[r].owns /\ dir' = dir
      BY <1>0, <1>4, <2>1 DEF CreateMaster, RunStates
    <3> QED BY <3>1 DEF Knows
  <2> QED BY <1>4, <1>f, <2>1 DEF CreateMaster
<1>5. CASE CopyMaster(r)
  <2>1. CASE master' = "good" /\ Goto(r, "next")
    BY <1>5, <2>1, <1>g DEF CopyMaster, Knows
  <2>2. run[r].owns
    BY <1>5 DEF CopyMaster, Knows
  <2> QED BY <1>5, <1>f, <2>1, <2>2 DEF CopyMaster
<1>6. CASE AllDone(r)
  <2>1. run'[r].pc = "ended" /\ dir' = dir
    BY <1>0, <1>6 DEF AllDone, TypeOK, RunStates
  <2> QED BY <1>e, <2>1
<1>7. CASE StartCut(r)
  <2>1. master = "good" /\ UNCHANGED <<dir, master>>
    BY <1>7 DEF StartCut, Knows
  <2>2. CASE Goto(r, "ended")
    BY <1>f, <2>1, <2>2
  <2>3. ASSUME NEW i, run'[r] = [run[r] EXCEPT !.pc = "cutting", !.i = i, !.owns = TRUE, !.src = master]
        PROVE  Knows(r)'
    <3>1. run'[r].pc = "cutting" /\ run'[r].owns /\ run'[r].src = "good"
      BY <1>0, <2>1, <2>3 DEF RunStates
    <3> QED BY <2>1, <3>1 DEF Knows
  <2> QED BY <1>7, <2>2, <2>3 DEF StartCut
<1>8. CASE EndCut(r)
  <2>1. run[r].owns /\ run[r].src = "good" /\ master = "good" /\ UNCHANGED <<dir, master>>
    BY <1>8 DEF EndCut, Knows
  <2>2. CASE Goto(r, "ended")
    BY <1>f, <2>1, <2>2
  <2>3. CASE clip' = [clip EXCEPT ![run[r].i] = "good"] /\ Goto(r, "outCreate")
    <3>1. clip'[run'[r].i] = "good" /\ run'[r].pc = "outCreate"
      BY <1>0, <1>g, <2>3
    <3> QED BY <2>1, <3>1 DEF Knows
  <2> QED BY <1>8, <2>1, <2>2, <2>3 DEF EndCut
<1>9. CASE OutCreate(r)
  <2>1. master = "good" /\ clip[run[r].i] = "good" /\ UNCHANGED <<dir, master, clip>>
    BY <1>9 DEF OutCreate, Knows
  <2>2. CASE Goto(r, "ended")
    BY <1>f, <2>1, <2>2
  <2>3. CASE run'[r] = [run[r] EXCEPT !.pc = "outCopy", !.owns = TRUE, !.fd = "live"]
    <3>1. run'[r].pc = "outCopy" /\ run'[r].owns /\ run'[r].fd = "live" /\ run'[r].i = run[r].i
      BY <1>0, <2>3 DEF RunStates
    <3> QED BY <2>1, <3>1 DEF Knows
  <2> QED BY <1>9, <2>2, <2>3 DEF OutCreate
<1>10. CASE OutCopy(r)
  <2>1. /\ run[r].owns /\ master = "good" /\ UNCHANGED <<dir, master, clip>>
        /\ Read(r, clip) = "good"
    BY <1>10 DEF OutCopy, Knows, Read
  <2>2. CASE Goto(r, "ended")
    BY <1>f, <2>1, <2>2
  <2>3. CASE out' = [out EXCEPT ![run[r].i] = "good"] /\ Goto(r, "presign")
    <3>1. out'[run'[r].i] = "good" /\ run'[r].pc = "presign"
      BY <1>0, <1>g, <2>3
    <3> QED BY <2>1, <3>1 DEF Knows
  <2> QED BY <1>10, <2>1, <2>2, <2>3 DEF OutCopy
<1>11. CASE Presign(r)
  <2>1. master = "good" /\ out[run[r].i] = "good" /\ UNCHANGED <<dir, master, out>>
    BY <1>11 DEF Presign, Knows
  <2>2. CASE Goto(r, "ended")
    BY <1>f, <2>1, <2>2
  <2>3. CASE Goto(r, "stat")
    BY <1>g, <2>1, <2>3 DEF Knows
  <2> QED BY <1>11, <2>2, <2>3 DEF Presign
<1>12. CASE StatOut(r)
  <2>1. master = "good" /\ out[run[r].i] = "good" /\ UNCHANGED <<dir, master, out>>
    BY <1>12 DEF StatOut, Knows
  <2>2. CASE Goto(r, "ended")
    BY <1>f, <2>1, <2>2
  <2>3. CASE run' = [run EXCEPT ![r] = [@ EXCEPT !.pc = "hash", !.size = out[run[r].i], !.fd = "live"]]
    <3>1. run'[r] = [run[r] EXCEPT !.pc = "hash", !.size = out[run[r].i], !.fd = "live"]
      BY <2>3 DEF TypeOK
    <3>2. run'[r].pc = "hash" /\ run'[r].fd = "live" /\ run'[r].i = run[r].i
      BY <1>0, <3>1 DEF RunStates
    <3> QED BY <2>1, <3>2 DEF Knows
  <2> QED BY <1>12, <2>2, <2>3 DEF StatOut
<1>13. CASE Hash(r)
  <2>1. /\ master = "good" /\ out[run[r].i] = "good" /\ run[r].fd = "live" /\ UNCHANGED <<dir, master, out>>
        /\ Read(r, out) = "good"
    BY <1>13 DEF Hash, Knows, Read
  <2>2. CASE Goto(r, "ended")
    BY <1>f, <2>1, <2>2
  <2>3. CASE run' = [run EXCEPT ![r] = [@ EXCEPT !.pc = "put", !.sum = Read(r, out)]]
    <3>1. run'[r] = [run[r] EXCEPT !.pc = "put", !.sum = Read(r, out)]
      BY <2>3 DEF TypeOK
    <3>2. run'[r].pc = "put" /\ run'[r].fd = "live" /\ run'[r].i = run[r].i /\ run'[r].sum = "good"
      BY <1>0, <2>1, <3>1 DEF RunStates
    <3> QED BY <2>1, <3>2 DEF Knows
  <2> QED BY <1>13, <2>2, <2>3 DEF Hash
<1>14. CASE Put(r)
  <2>1. /\ master = "good" /\ run[r].sum = "good" /\ UNCHANGED <<dir, master>>
        /\ Read(r, out) = "good"
    BY <1>14 DEF Put, Knows, Read
  <2>2. CASE Goto(r, "ended")
    BY <1>f, <2>1, <2>2
  <2>3. CASE stored' = [stored EXCEPT ![run[r].i] = "good"] /\ Goto(r, "record")
    <3>1. stored'[run'[r].i] = "good" /\ run'[r].pc = "record" /\ run'[r].sum = "good"
      BY <1>0, <1>g, <2>1, <2>3
    <3> QED BY <2>1, <3>1 DEF Knows
  <2> QED BY <1>14, <2>1, <2>2, <2>3 DEF Put
<1>15. CASE Record(r)
  <2>1. master = "good" /\ UNCHANGED <<dir, master>>
    BY <1>15 DEF Record, Knows
  <2>2. CASE Goto(r, "ended")
    BY <1>f, <2>1, <2>2
  <2>3. CASE Goto(r, "save")
    BY <1>g, <2>1, <2>3 DEF Knows
  <2> QED BY <1>15, <2>2, <2>3 DEF Record
<1>16. CASE Save(r)
  <2>1. run'[r].pc = "next" /\ master = "good" /\ UNCHANGED <<dir, master>>
    BY <1>0, <1>16 DEF Save, Knows, TypeOK, RunStates
  <2> QED BY <2>1 DEF Knows
<1>17. CASE Return(r)
  <2>1. run'[r].pc = "setStatus"
    BY <1>17, ReturnUnlinks
  <2>2. dir' = dir
    BY <1>17 DEF Return
  <2> QED BY <1>e, <2>1, <2>2
<1>18. CASE SetStatus(r)
  BY <1>18, <1>f DEF SetStatus
<1>19. CASE Cleanup(r)
  <2>1. run'[r] = GoneRun
    BY <1>19, CleanupUnlinks
  <2> QED BY <2>1 DEF HasHandle, Live, GoneRun, NewRun
<1> QED
  BY <1>1, <1>2, <1>3, <1>4, <1>5, <1>6, <1>7, <1>8, <1>9, <1>10, <1>11, <1>12, <1>13, <1>14,
     <1>15, <1>16, <1>17, <1>18, <1>19 DEF RunStep, Prepare, Cut, AddOutput, Finish

\* Only the begin of a run makes a directory shared, and a directory once left
\* behind is not forgotten.
LEMMA GhostsKeep ==
    ASSUME TypeOK, NEW r \in Runs, RunStep(r), ~OpenHandle(r)
    PROVE  shared' = shared /\ (leftover => leftover')
<1> USE DEF ghosts
<1>1. leftover => leftover'
  BY DirAndProbe
<1>2. ASSUME Prepare(r) PROVE shared' = shared
  BY <1>2 DEF Prepare, Load, Locate, EnterOnce, SelectEncoder, PassOnce, StatMaster, CreateMaster, CopyMaster
<1>3. ASSUME Cut(r) PROVE shared' = shared
  BY <1>3 DEF Cut, AllDone, StartCut, EndCut
<1>4. ASSUME AddOutput(r) PROVE shared' = shared
  BY <1>4 DEF AddOutput, OutCreate, OutCopy, Presign, StatOut, Hash, Put, Record, Save
<1>5. ASSUME Finish(r) PROVE shared' = shared
  BY <1>5, Zenon DEF Finish, Return, SetStatus, Cleanup
<1> QED BY <1>1, <1>2, <1>3, <1>4, <1>5 DEF RunStep

\* What the manifest and the objects hold stays right, and the last step leaves
\* the directory empty.
LEMMA GoodStep ==
    ASSUME TypeOK, NEW r \in Runs, RunStep(r), run[r].pc \in HasHandle, Knows(r),
           \A i \in Recorded : recorded[i] = "good" /\ stored[i] = "good"
    PROVE  /\ \A i \in Recorded' : recorded'[i] = "good" /\ stored'[i] = "good"
           /\ run'[r].pc \notin HasHandle => Fresh' \/ leftover'
<1> USE DEF At, Fails, FailsEarly, files, probe, cloudVars, ghosts
<1>0. /\ run[r] \in RunStates /\ run[r].i \in Indices
      /\ recorded \in [Indices -> Contents] /\ stored \in [Indices -> Contents]
  BY DEF TypeOK, RunStates
<1>3. run'[r].pc \notin HasHandle => Fresh' \/ leftover'
  <2>1. ASSUME Unlink(r, GoneRun, TRUE, Indices, Indices), dir' = FALSE PROVE Fresh'
    <3>1. /\ master' = "none"
          /\ clip' = [i \in Indices |-> IF i \in Indices THEN "none" ELSE clip[i]]
          /\ out' = [i \in Indices |-> IF i \in Indices THEN "none" ELSE out[i]]
      BY <2>1 DEF Unlink
    <3> QED BY <2>1, <3>1 DEF Fresh, Nothing
  <2>2. Cleanup(r) => Fresh' \/ leftover'
    BY <2>1 DEF Cleanup, RemoveAll
  <2> QED BY <2>2, Places
<1>4. \A i \in Recorded' : recorded'[i] = "good" /\ stored'[i] = "good"
  <2>1. CASE Put(r)
    <3>1. Read(r, out) = "good"
      BY <2>1 DEF Put, Knows, Read
    <3>2. recorded' = recorded /\ (stored' = stored \/ stored' = [stored EXCEPT ![run[r].i] = "good"])
      BY <2>1, <3>1 DEF Put
    <3> QED BY <1>0, <3>2 DEF Recorded
  <2>2. CASE Record(r)
    <3>1. run[r].sum = "good" /\ stored[run[r].i] = "good"
      BY <2>2 DEF Record, Knows
    <3>2. stored' = stored /\ (recorded' = recorded \/ recorded' = [recorded EXCEPT ![run[r].i] = "good"])
      BY <2>2, <3>1 DEF Record
    <3> QED BY <1>0, <3>1, <3>2 DEF Recorded
  <2>3. CASE recorded' = recorded /\ stored' = stored
    BY <2>3 DEF Recorded
  <2>4. Put(r) \/ Record(r) \/ (recorded' = recorded /\ stored' = stored)
    <3>1. CASE Prepare(r)
      BY <3>1 DEF Prepare, OpenHandle, Load, Locate, EnterOnce, SelectEncoder, PassOnce, StatMaster, CreateMaster, CopyMaster
    <3>2. CASE Cut(r)
      BY <3>2 DEF Cut, AllDone, StartCut, EndCut
    <3>3. CASE AddOutput(r)
      BY <3>3 DEF AddOutput, OutCreate, OutCopy, Presign, StatOut, Hash, Save
    <3>4. CASE Finish(r)
      BY <3>4 DEF Finish, Return, SetStatus, Cleanup
    <3> QED BY <3>1, <3>2, <3>3, <3>4 DEF RunStep
  <2> QED BY <2>1, <2>2, <2>3, <2>4
<1> QED BY <1>3, <1>4

\* As long as no directory is shared or left over, every run knows what is in the
\* files it reads.
LEMMA AloneStep ==
    ASSUME TypeOK, AloneInv, [Next]_vars
    PROVE  AloneInv'
<1> SUFFICES ASSUME ~shared', ~leftover'
             PROVE  /\ \A i \in Recorded' : recorded'[i] = "good" /\ stored'[i] = "good"
                    /\ \A q, r \in Runs : run'[q].pc \in HasHandle /\ run'[r].pc \in HasHandle => q = r
                    /\ (\A r \in Runs : run'[r].pc \notin HasHandle) => Fresh'
                    /\ \A r \in Runs : run'[r].pc \in HasHandle => Knows(r)'
  BY DEF AloneInv, UndisturbedOutputsAreGood
<1>a. ASSUME ~shared, ~leftover
      PROVE  /\ \A i \in Recorded : recorded[i] = "good" /\ stored[i] = "good"
             /\ \A q, r \in Runs : run[q].pc \in HasHandle /\ run[r].pc \in HasHandle => q = r
             /\ (\A r \in Runs : run[r].pc \notin HasHandle) => Fresh
             /\ \A r \in Runs : run[r].pc \in HasHandle => Knows(r)
  BY <1>a DEF AloneInv, UndisturbedOutputsAreGood
<1>1. CASE UNCHANGED vars
  <2>1. ~shared /\ ~leftover
    BY <1>1 DEF vars
  <2> QED BY <1>1, <1>a, <2>1, ZenonT(60) DEF vars, Recorded, Fresh, Knows
<1>2. CASE Crash
  <2>1. ~shared /\ ~leftover /\ ~dir /\ UNCHANGED <<dir, master, clip, out, stored, recorded>>
    BY <1>2 DEF Crash, files, cloudVars
  <2>2. \A q \in Runs : run[q].pc \notin HasHandle
    BY <1>a, <2>1 DEF Knows
  <2>3. \A q \in Runs : run'[q].pc \notin HasHandle
    BY <1>2, <2>2 DEF Crash, GoneRun, NewRun, HasHandle, Live
  <2> QED BY <1>a, <2>1, <2>2, <2>3 DEF Fresh, Recorded
<1>3. ASSUME NEW r \in Runs, Start(r) PROVE AloneInv'
  <2>1. /\ UNCHANGED <<shared, leftover, dir, master, clip, out, stored, recorded>>
        /\ run'[r].pc = "open" /\ run[r].pc = "new" /\ \A q \in Runs : q # r => run'[q] = run[q]
    BY <1>3, GotoKeeps DEF Start, files, ghosts, At
  <2>2. "open" \notin HasHandle /\ "new" \notin HasHandle
    BY DEF HasHandle, Live
  <2>3. \A q \in Runs : run'[q].pc \in HasHandle => run'[q] = run[q]
    BY <2>1, <2>2
  <2>4. \A q \in Runs : run'[q].pc \in HasHandle => Knows(q)'
    BY <1>a, <2>1, <2>3 DEF Knows
  <2> QED BY <1>a, <2>1, <2>2, <2>3, <2>4 DEF AloneInv, UndisturbedOutputsAreGood, Fresh, Recorded
<1>4. ASSUME NEW r \in Runs, OpenHandle(r) PROVE AloneInv'
  <2>5. UNCHANGED <<leftover, master, clip, out, stored, recorded>> /\ run[r].pc = "open"
    BY <1>4 DEF OpenHandle, cloudVars, At
  <2>6. ~shared
    <3>1. shared' = (shared \/ \E q \in Runs : run[q].pc \in HasHandle) \/ shared' = shared
      BY <1>4 DEF OpenHandle
    <3> QED BY <3>1, Zenon
  <2>1. ~shared /\ ~leftover /\ UNCHANGED <<master, clip, out, stored, recorded>> /\ run[r].pc = "open"
    BY <2>5, <2>6
  <2>2. "open" \notin HasHandle /\ "gone" \notin HasHandle
    BY DEF HasHandle, Live
  <2>3. CASE dir' = TRUE /\ Goto(r, "load") /\ shared' = (shared \/ \E q \in Runs : run[q].pc \in HasHandle)
    <3>1. \A q \in Runs : run[q].pc \notin HasHandle
      BY <2>3
    <3>2. run'[r].pc = "load" /\ \A q \in Runs : q # r => run'[q] = run[q]
      BY <2>3, GotoKeeps
    <3>3. master' = "none"
      BY <1>a, <2>1, <3>1 DEF Fresh
    <3>4. Knows(r)'
      BY <2>3, <3>2, <3>3 DEF Knows
    <3>5. run'[r].pc \in HasHandle /\ \A q \in Runs : run'[q].pc \in HasHandle => q = r
      BY <3>1, <3>2 DEF HasHandle, Live
    <3> QED BY <1>a, <2>1, <3>4, <3>5 DEF AloneInv, UndisturbedOutputsAreGood, Recorded
  <2>4. CASE run' = [run EXCEPT ![r] = GoneRun] /\ dir' = dir
    <3>1. run'[r].pc = "gone" /\ \A q \in Runs : q # r => run'[q] = run[q]
      BY <2>4 DEF TypeOK, GoneRun, NewRun
    <3>2. \A q \in Runs : run'[q].pc \in HasHandle => run'[q] = run[q]
      BY <2>2, <3>1
    <3>3. \A q \in Runs : run'[q].pc \in HasHandle => Knows(q)'
      BY <1>a, <2>1, <2>4, <3>2 DEF Knows
    <3> QED BY <1>a, <2>1, <2>2, <2>4, <3>1, <3>2, <3>3 DEF AloneInv, UndisturbedOutputsAreGood, Fresh, Recorded
  <2> QED BY <1>4, <2>3, <2>4 DEF OpenHandle
<1>5. ASSUME NEW r \in Runs, RunStep(r), ~OpenHandle(r) PROVE AloneInv'
  <2>1. run[r].pc \in HasHandle
    BY <1>5 DEF RunStep, Prepare, Cut, AddOutput, Finish, Load, Locate, EnterOnce, SelectEncoder, PassOnce,
       StatMaster, CreateMaster, CopyMaster, AllDone, StartCut, EndCut, OutCreate, OutCopy, Presign, StatOut,
       Hash, Put, Record, Save, Return, SetStatus, Cleanup, At, HasHandle, Live
  <2>2. ~shared /\ ~leftover
    BY <1>5, GhostsKeep
  <2>3. Knows(r) /\ (\A i \in Recorded : recorded[i] = "good" /\ stored[i] = "good")
        /\ \A q \in Runs : run[q].pc \in HasHandle => q = r
    BY <1>a, <2>1, <2>2
  <2>4. \A q \in Runs : run'[q].pc \in HasHandle => q = r
    BY <1>5, <2>3, OthersKeep DEF SameBut
  <2>5. run'[r].pc \in HasHandle => Knows(r)'
    BY <1>5, <2>1, <2>3, KnowsStep
  <2>6. /\ \A i \in Recorded' : recorded'[i] = "good" /\ stored'[i] = "good"
        /\ run'[r].pc \notin HasHandle => Fresh' \/ leftover'
    BY <1>5, <2>1, <2>3, GoodStep
  <2> QED BY <2>4, <2>5, <2>6 DEF AloneInv, UndisturbedOutputsAreGood
<1> QED BY <1>1, <1>2, <1>3, <1>4, <1>5 DEF Next, AloneInv, UndisturbedOutputsAreGood

\* What is recorded is right as long as no two runs had the work directory at once
\* and no crash or failed removal left one behind: the stored object is the
\* complete output and the manifest has its checksum (jobhandle.go AddOutput,
\* upload/client.go).
THEOREM OutputsGood == Spec => []UndisturbedOutputsAreGood
<1>1. Init => AloneInv
  <2> SUFFICES ASSUME Init PROVE AloneInv
    OBVIOUS
  <2>1. Recorded = {}
    BY DEF Init, Recorded, Nothing
  <2>2. \A r \in Runs : run[r].pc \notin HasHandle
    BY DEF Init, NewRun, HasHandle, Live
  <2>3. Fresh
    BY DEF Init, Fresh
  <2> QED BY <2>1, <2>2, <2>3 DEF AloneInv, UndisturbedOutputsAreGood
<1>2. AloneInv => UndisturbedOutputsAreGood
  BY DEF AloneInv, UndisturbedOutputsAreGood
<1> QED BY <1>1, <1>2, AloneStep, TypeCorrect, PTL DEF Spec

=============================================================================
