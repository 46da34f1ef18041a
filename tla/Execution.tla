----------------------------- MODULE Execution -----------------------------
(***************************************************************************)
(* The executions of one job: the clip-video and the extract-audio         *)
(* executor (internal/executors), the job handle with its work directory,  *)
(* resumable state and outputs (internal/runtime/jobhandle.go), the upload *)
(* (internal/upload/client.go) and the cloud's output manifest, external.  *)
(*                                                                         *)
(* Module Scheduler says when a job is executed: normally once, but a run  *)
(* may take the row over while another one is still at it, and after a     *)
(* crash whose boot sweeps both failed.  All runs of the job share the     *)
(* work directory job-<id>, the row's resumable_state and the storage keys.*)
(*                                                                         *)
(* A file is its content: "part" while bytes are missing, "good" when it   *)
(* is complete and right, "bad" when it is complete but was made from a    *)
(* damaged master.  Outputs are numbered in the order of clip_specs, with  *)
(* distinct indices; extract-audio has one.  A checksum is the content it  *)
(* was computed from.  Progress pushes and job events are left out.        *)
(***************************************************************************)
EXTENDS Naturals, FiniteSets

CONSTANTS
    Runs,     \* executions of the job, each used once
    None,     \* no run
    NumClips, \* length of clip_specs, at least one
    Removals  \* bound on what a RemoveAll that fails may have removed

ASSUME ExecutionAssumption ==
    /\ None \notin Runs
    /\ NumClips \in Nat \ {0}
    /\ Removals \subseteq [master : BOOLEAN, clips : SUBSET (1..NumClips), outs : SUBSET (1..NumClips)]

VARIABLES
    kind,       \* the workload's type: "clip" or "audio"
    row,        \* whether the job's row is "active" or "terminal"
    holder,     \* the run whose lease token is current (external)
    dir,        \* whether the work directory exists
    master,     \* master.mp4 (clip-video) or input.mp4 (extract-audio)
    clip,       \* clip[i]: clip-<i>.mp4 or audio.wav, as ffmpeg wrote it
    out,        \* out[i]: the copy of it that AddOutput uploads
    resumable,  \* resumable_state: completed_clip_indices
    once,       \* Executor.encOnce
    encoder,    \* Executor.encoder
    stored,     \* stored[i]: the object under the storage key (external)
    recorded,   \* recorded[i]: the checksum in the cloud's manifest (external)
    run,        \* run[r]: an execution
    shared,     \* history: two executions had the work directory at once
    leftover    \* history: a crash or a failed removal left a work directory behind

files == <<dir, master, clip, out>>
cloudVars == <<holder, stored, recorded>>
probe == <<once, encoder>>
ghosts == <<shared, leftover>>
vars == <<kind, row, holder, dir, master, clip, out, resumable, once, encoder,
          stored, recorded, run, shared, leftover>>

Indices == 1..NumClips
Outputs == IF kind = "audio" THEN {1} ELSE Indices

Contents == {"none", "part", "bad", "good"}

\* new: not claimed; gone: runOne has returned.
Live == {"open", "load", "locate", "probe", "probing", "statMaster", "create", "copy",
         "next", "cutting", "outCreate", "outCopy", "presign", "stat", "hash", "put",
         "record", "save", "ended", "setStatus", "cleanup"}
HasHandle == Live \ {"open"}

\* i: the output at work; done: executor's own set; owns: nobody has truncated
\* or removed the file r writes since r created it; src: the master as ffmpeg
\* reads it; fd: "live", or what the open file held when it was unlinked;
\* size, sum: what Stat and the hash saw; ok: Execute returned nil.
NewRun == [pc |-> "new", i |-> 1, done |-> {}, owns |-> FALSE, src |-> "none",
           fd |-> "live", size |-> "none", sum |-> "none", ok |-> FALSE]
GoneRun == [NewRun EXCEPT !.pc = "gone"]

RunStates == [pc : Live \cup {"new", "gone"}, i : Indices, done : SUBSET Indices,
              owns : BOOLEAN, src : Contents, fd : Contents \cup {"live"},
              size : Contents, sum : Contents, ok : BOOLEAN]

TypeOK ==
    /\ kind \in {"clip", "audio"}
    /\ row \in {"active", "terminal"}
    /\ holder \in Runs \cup {None}
    /\ dir \in BOOLEAN
    /\ master \in Contents
    /\ clip \in [Indices -> Contents]
    /\ out \in [Indices -> Contents]
    /\ resumable \in SUBSET Indices
    /\ once \in {"new", "busy", "done"}
    /\ encoder \in {"unset", "hardware", "libx264"}
    /\ stored \in [Indices -> Contents]
    /\ recorded \in [Indices -> Contents]
    /\ run \in [Runs -> RunStates]
    /\ shared \in BOOLEAN
    /\ leftover \in BOOLEAN

Nothing == [i \in Indices |-> "none"]

Init ==
    /\ kind \in {"clip", "audio"}
    /\ row = "active"
    /\ holder = None
    /\ dir = FALSE /\ master = "none" /\ clip = Nothing /\ out = Nothing
    /\ resumable = {}
    /\ once = "new" /\ encoder = "unset"
    /\ stored = Nothing /\ recorded = Nothing
    /\ run = [r \in Runs |-> NewRun]
    /\ shared = FALSE /\ leftover = FALSE

-----------------------------------------------------------------------------
At(r, pc) == run[r].pc = pc
Goto(r, pc) == run' = [run EXCEPT ![r].pc = pc]

\* Execute returns an error.
Fails(r) == Goto(r, "ended")

\* The same before extract-audio has deferred the removal of its files.
FailsEarly(r) == Goto(r, "setStatus")

-----------------------------------------------------------------------------
(***************************************************************************)
(* A run begins.                                                           *)
(***************************************************************************)

\* The cloud leases the workload (again) to this device and the row is taken
\* over: whatever other run is at it has lost its lease.
Start(r) ==
    /\ At(r, "new") /\ row = "active"
    /\ holder' = r
    /\ Goto(r, "open")
    /\ UNCHANGED <<kind, row, files, resumable, probe, stored, recorded, ghosts>>

\* SetRunning of runOne and NewJobHandle, which may fail to make the directory.
OpenHandle(r) ==
    /\ At(r, "open")
    /\ \/ /\ dir' = TRUE /\ row' = "active"
          /\ Goto(r, "load")
          /\ shared' = (shared \/ \E q \in Runs : run[q].pc \in HasHandle)
       \/ /\ row' = "terminal"
          /\ run' = [run EXCEPT ![r] = GoneRun]
          /\ UNCHANGED <<dir, shared>>
    /\ UNCHANGED <<kind, master, clip, out, resumable, probe, cloudVars, leftover>>

\* The saved indices, or none after an error, which Execute ignores.
LoadResumableState == {resumable, {}}

\* The payload is checked and the completed indices are recovered.
Load(r) ==
    /\ At(r, "load")
    /\ \/ \E loaded \in LoadResumableState :
             run' = [run EXCEPT ![r] = [@ EXCEPT !.pc = "locate", !.done = loaded]]
       \/ FailsEarly(r)
    /\ UNCHANGED <<kind, row, files, resumable, probe, cloudVars, ghosts>>

\* tools.Locate
Locate(r) ==
    /\ At(r, "locate")
    /\ Goto(r, IF kind = "clip" THEN "probe" ELSE "create") \/ FailsEarly(r)
    /\ UNCHANGED <<kind, row, files, resumable, probe, cloudVars, ghosts>>

\* encOnce.Do: the first one probes, the others wait until it is done.
EnterOnce(r) ==
    /\ At(r, "probe") /\ once = "new"
    /\ once' = "busy"
    /\ Goto(r, "probing")
    /\ UNCHANGED <<kind, row, files, resumable, encoder, cloudVars, ghosts>>

\* A mutant: the probe's result is set, its error leaves the others waiting.
SelectEncoderErrorKeepsOnce(r) ==
    /\ At(r, "probing")
    /\ \/ encoder' = "hardware" /\ once' = "done" /\ Goto(r, "statMaster")
       \/ encoder' = "libx264" /\ Fails(r) /\ UNCHANGED once
    /\ UNCHANGED <<kind, row, files, resumable, cloudVars, ghosts>>

\* SelectEncoder: the first candidate that passes, else (also on an error)
\* FallbackEncoder.
SelectEncoder(r) ==
    /\ At(r, "probing")
    /\ encoder' \in {"hardware", "libx264"}
    /\ once' = "done"
    /\ Goto(r, "statMaster")
    /\ UNCHANGED <<kind, row, files, resumable, cloudVars, ghosts>>

\* A mutant: a second run does not wait for the probe.
PassOnceWithoutWaiting(r) ==
    /\ At(r, "probe") /\ once # "new"
    /\ Goto(r, "statMaster")
    /\ UNCHANGED <<kind, row, files, resumable, probe, cloudVars, ghosts>>

PassOnce(r) ==
    /\ At(r, "probe") /\ once = "done"
    /\ Goto(r, "statMaster")
    /\ UNCHANGED <<kind, row, files, resumable, probe, cloudVars, ghosts>>

\* "Download master once": not if the file exists, whatever is in it.
StatMaster(r) ==
    /\ At(r, "statMaster")
    /\ Goto(r, IF master = "none" THEN "create" ELSE "next")
    /\ UNCHANGED <<kind, row, files, resumable, probe, cloudVars, ghosts>>

\* The GET is answered and os.Create truncates the file, under the eyes of an
\* ffmpeg that reads it.
CreateMaster(r) ==
    /\ At(r, "create")
    /\ \/ /\ dir
          /\ master' = "part"
          /\ run' = [q \in Runs |->
                CASE q = r -> [run[q] EXCEPT !.pc = "copy", !.owns = TRUE]
                  [] q # r /\ At(q, "copy") -> [run[q] EXCEPT !.owns = FALSE]
                  [] q # r /\ At(q, "cutting") -> [run[q] EXCEPT !.src = "part"]
                  [] OTHER -> run[q]]
       \/ Fails(r) /\ UNCHANGED master
    /\ UNCHANGED <<kind, row, dir, clip, out, resumable, probe, cloudVars, ghosts>>

\* A mutant: the download's error is ignored.
CopyMasterUnchecked(r) ==
    /\ At(r, "copy")
    /\ master' = (IF run[r].owns THEN "good" ELSE master) \/ UNCHANGED master
    /\ Goto(r, "next")
    /\ UNCHANGED <<kind, row, dir, clip, out, resumable, probe, cloudVars, ghosts>>

\* io.Copy ends; after an error what was written stays.
CopyMaster(r) ==
    /\ At(r, "copy")
    /\ \/ master' = (IF run[r].owns THEN "good" ELSE master) /\ Goto(r, "next")
       \/ Fails(r) /\ UNCHANGED master
    /\ UNCHANGED <<kind, row, dir, clip, out, resumable, probe, cloudVars, ghosts>>

-----------------------------------------------------------------------------
(***************************************************************************)
(* The loop over the clips (extract-audio passes through it once): ffmpeg, *)
(* AddOutput, resumable state.                                             *)
(***************************************************************************)
Remaining(r) == Outputs \ run[r].done

AllDone(r) ==
    /\ At(r, "next") /\ Remaining(r) = {}
    /\ run' = [run EXCEPT ![r] = [@ EXCEPT !.pc = "ended", !.ok = TRUE]]
    /\ UNCHANGED <<kind, row, files, resumable, probe, cloudVars, ghosts>>

\* ffmpeg -y on the next index that is not done.
StartCut(r) ==
    /\ At(r, "next")
    /\ \/ /\ dir /\ master # "none"
          /\ \E i \in Remaining(r) :
                /\ \A j \in Remaining(r) : i <= j
                /\ clip' = [clip EXCEPT ![i] = "part"]
                /\ run' = [q \in Runs |->
                      CASE q = r -> [run[q] EXCEPT !.pc = "cutting", !.i = i, !.owns = TRUE,
                                                   !.src = master]
                        [] q # r /\ At(q, "cutting") /\ run[q].i = i -> [run[q] EXCEPT !.owns = FALSE]
                        [] OTHER -> run[q]]
       \/ Remaining(r) # {} /\ Fails(r) /\ UNCHANGED clip
    /\ UNCHANGED <<kind, row, dir, master, out, resumable, probe, cloudVars, ghosts>>

\* ffmpeg exits: a damaged source may make it fail, or go unnoticed.
EndCut(r) ==
    /\ At(r, "cutting")
    /\ \/ /\ \E c \in (IF run[r].src = "good" THEN {"good"} ELSE {"good", "bad"}) :
                clip' = IF run[r].owns THEN [clip EXCEPT ![run[r].i] = c] ELSE clip
          /\ Goto(r, "outCreate")
       \/ Fails(r) /\ UNCHANGED clip
    /\ UNCHANGED <<kind, row, dir, master, out, resumable, probe, cloudVars, ghosts>>

\* The clip is opened and AddOutput creates its copy.
OutCreate(r) ==
    LET i == run[r].i IN
    /\ At(r, "outCreate")
    /\ \/ /\ dir /\ clip[i] # "none"
          /\ out' = [out EXCEPT ![i] = "part"]
          /\ run' = [q \in Runs |->
                CASE q = r -> [run[q] EXCEPT !.pc = "outCopy", !.owns = TRUE, !.fd = "live"]
                  [] q # r /\ At(q, "outCopy") /\ run[q].i = i -> [run[q] EXCEPT !.owns = FALSE]
                  [] OTHER -> run[q]]
       \/ Fails(r) /\ UNCHANGED out
    /\ UNCHANGED <<kind, row, dir, master, clip, resumable, probe, cloudVars, ghosts>>

\* What a run reads from the file it has open: the file as it is now, or what
\* it held when it was unlinked.
Read(r, file) == IF run[r].fd = "live" THEN file[run[r].i] ELSE run[r].fd

\* io.Copy from the clip as it is now; a shortened clip is not an error.
OutCopy(r) ==
    /\ At(r, "outCopy")
    /\ \/ /\ out' = IF run[r].owns THEN [out EXCEPT ![run[r].i] = Read(r, clip)] ELSE out
          /\ Goto(r, "presign")
       \/ Fails(r) /\ UNCHANGED out
    /\ UNCHANGED <<kind, row, dir, master, clip, resumable, probe, cloudVars, ghosts>>

\* The cloud presigns for the current lease token; the URL outlives the lease.
Presign(r) ==
    /\ At(r, "presign")
    /\ (holder = r /\ Goto(r, "stat")) \/ Fails(r)
    /\ UNCHANGED <<kind, row, files, resumable, probe, cloudVars, ghosts>>

\* UploadFile: Stat and Open, the checksum, the PUT.
StatOut(r) ==
    /\ At(r, "stat")
    /\ \/ /\ out[run[r].i] # "none"
          /\ run' = [run EXCEPT ![r] = [@ EXCEPT !.pc = "hash", !.size = out[run[r].i], !.fd = "live"]]
       \/ Fails(r)
    /\ UNCHANGED <<kind, row, files, resumable, probe, cloudVars, ghosts>>

Hash(r) ==
    /\ At(r, "hash")
    /\ \/ run' = [run EXCEPT ![r] = [@ EXCEPT !.pc = "put", !.sum = Read(r, out)]]
       \/ Fails(r)
    /\ UNCHANGED <<kind, row, files, resumable, probe, cloudVars, ghosts>>

\* A mutant: the status of the PUT's answer is not looked at.
PutUnchecked(r) ==
    /\ At(r, "put")
    /\ \/ /\ Read(r, out) = run[r].size
          /\ stored' = [stored EXCEPT ![run[r].i] = Read(r, out)]
       \/ UNCHANGED stored
    /\ Goto(r, "record")
    /\ UNCHANGED <<kind, row, files, resumable, probe, holder, recorded, ghosts>>

\* The body must have the length of the Stat.  The answer may be lost.
Put(r) ==
    /\ At(r, "put")
    /\ \/ /\ Read(r, out) = run[r].size
          /\ stored' = [stored EXCEPT ![run[r].i] = Read(r, out)]
          /\ Goto(r, "record") \/ Fails(r)
       \/ Fails(r) /\ UNCHANGED stored
    /\ UNCHANGED <<kind, row, files, resumable, probe, holder, recorded, ghosts>>

\* A mutant: the answer to RecordOutputs is not looked at.
RecordUnchecked(r) ==
    /\ At(r, "record")
    /\ \/ holder = r /\ recorded' = [recorded EXCEPT ![run[r].i] = run[r].sum]
       \/ UNCHANGED recorded
    /\ Goto(r, "save")
    /\ UNCHANGED <<kind, row, files, resumable, probe, holder, stored, ghosts>>

\* RecordOutputs; the cloud takes it for the current lease token.
Record(r) ==
    /\ At(r, "record")
    /\ \/ /\ holder = r
          /\ recorded' = [recorded EXCEPT ![run[r].i] = run[r].sum]
          /\ Goto(r, "save") \/ Fails(r)
       \/ Fails(r) /\ UNCHANGED recorded
    /\ UNCHANGED <<kind, row, files, resumable, probe, holder, stored, ghosts>>

\* What this run takes for completed replaces the row's resumable_state;
\* Execute ignores an error here too, and extract-audio does not save.
SaveResumableState(done) == UNCHANGED resumable \/ (kind = "clip" /\ resumable' = done)

\* A mutant: the index before the uploaded one is marked.
SavePreviousIndex(r) ==
    LET done == run[r].done \cup {run[r].i - 1} IN
    /\ At(r, "save")
    /\ run' = [run EXCEPT ![r] = [@ EXCEPT !.pc = "next", !.done = done]]
    /\ SaveResumableState(done)
    /\ UNCHANGED <<kind, row, files, probe, cloudVars, ghosts>>

\* clip-video: the index is done and saved, next clip; extract-audio is at its
\* end.
Save(r) ==
    LET done == run[r].done \cup {run[r].i} IN
    /\ At(r, "save")
    /\ run' = [run EXCEPT ![r] = [@ EXCEPT !.pc = "next", !.done = done]]
    /\ SaveResumableState(done)
    /\ UNCHANGED <<kind, row, files, probe, cloudVars, ghosts>>

-----------------------------------------------------------------------------
(***************************************************************************)
(* A run ends.                                                             *)
(***************************************************************************)

\* The master (if m), the clips of C and the copies of O are unlinked by r, who
\* becomes x, also under the other runs: what they write into such a file is
\* lost, what they have open they can still read.
Unlink(r, x, m, C, O) ==
    LET kept(q) == \/ At(q, "copy") /\ ~m
                   \/ At(q, "cutting") /\ run[q].i \notin C
                   \/ At(q, "outCopy") /\ run[q].i \notin O
        held(q) == CASE At(q, "outCopy") /\ run[q].i \in C -> Read(q, clip)
                     [] run[q].pc \in {"hash", "put"} /\ run[q].i \in O -> Read(q, out)
                     [] OTHER -> run[q].fd
    IN  /\ master' = IF m THEN "none" ELSE master
        /\ clip' = [i \in Indices |-> IF i \in C THEN "none" ELSE clip[i]]
        /\ out' = [i \in Indices |-> IF i \in O THEN "none" ELSE out[i]]
        /\ run' = [q \in Runs |->
              IF q = r THEN x ELSE [run[q] EXCEPT !.owns = @ /\ kept(q), !.fd = held(q)]]

\* Execute returns and its variables go; extract-audio removes its two files,
\* each of which may fail.
Return(r) ==
    /\ At(r, "ended")
    /\ \E m \in BOOLEAN, C \in {{}, Indices} :
          /\ kind = "clip" => ~m /\ C = {}
          /\ Unlink(r, [NewRun EXCEPT !.pc = "setStatus", !.ok = run[r].ok], m, C, {})
    /\ UNCHANGED <<kind, row, dir, resumable, probe, cloudVars, ghosts>>

\* The reports and the terminal status of the row.
SetStatus(r) ==
    /\ At(r, "setStatus")
    /\ row' = "terminal"
    /\ Goto(r, "cleanup")
    /\ UNCHANGED <<kind, files, resumable, probe, cloudVars, ghosts>>

\* RemoveAll of the work directory, at the end of r.  Its error is dropped: the
\* directory is still there, with any of its files.
RemoveAll(r) ==
    \/ /\ dir' = FALSE
       /\ Unlink(r, GoneRun, TRUE, Indices, Indices)
       /\ UNCHANGED leftover
    \/ /\ dir /\ UNCHANGED dir
       /\ \E f \in Removals : Unlink(r, GoneRun, f.master, f.clips, f.outs)
       /\ leftover' = TRUE

\* A mutant: "Called by the scheduler after Execute returns successfully".
CleanupAfterSuccess(r) ==
    /\ At(r, "cleanup")
    /\ IF run[r].ok
         THEN RemoveAll(r)
         ELSE run' = [run EXCEPT ![r] = GoneRun] /\ UNCHANGED <<files, leftover>>
    /\ UNCHANGED <<kind, row, resumable, probe, cloudVars, shared>>

\* The deferred Cleanup of runOne, after a success and after a failure.
Cleanup(r) ==
    /\ At(r, "cleanup")
    /\ RemoveAll(r)
    /\ UNCHANGED <<kind, row, resumable, probe, cloudVars, shared>>

\* The process dies; nothing removes the work directory.  The boot sweeps make
\* the row terminal, unless both fail.
Crash ==
    /\ \E r \in Runs : run[r].pc \in Live
    /\ run' = [r \in Runs |-> IF run[r].pc \in Live THEN GoneRun ELSE run[r]]
    /\ once' = "new" /\ encoder' = "unset"
    /\ row' \in {row, "terminal"}
    /\ leftover' = (leftover \/ dir)
    /\ UNCHANGED <<kind, files, resumable, cloudVars, shared>>

-----------------------------------------------------------------------------
Prepare(r) ==
    \/ OpenHandle(r) \/ Load(r) \/ Locate(r) \/ EnterOnce(r) \/ SelectEncoder(r)
    \/ PassOnce(r) \/ StatMaster(r) \/ CreateMaster(r) \/ CopyMaster(r)

Cut(r) == AllDone(r) \/ StartCut(r) \/ EndCut(r)

AddOutput(r) ==
    \/ OutCreate(r) \/ OutCopy(r) \/ Presign(r) \/ StatOut(r) \/ Hash(r) \/ Put(r)
    \/ Record(r) \/ Save(r)

Finish(r) == Return(r) \/ SetStatus(r) \/ Cleanup(r)

RunStep(r) == Prepare(r) \/ Cut(r) \/ AddOutput(r) \/ Finish(r)

Next == Crash \/ \E r \in Runs : Start(r) \/ RunStep(r)

Spec == Init /\ [][Next]_vars

\* Goroutines are scheduled; downloads, uploads, probes and cloud calls have
\* timeouts, and ffmpeg ends.
FairSpec == Spec /\ \A r \in Runs : WF_vars(RunStep(r))

-----------------------------------------------------------------------------
(***************************************************************************)
(* Properties.                                                             *)
(***************************************************************************)
Recorded == {i \in Indices : recorded[i] # "none"}

\* Resuming is safe (clipvideo/executor.go "a restarted job skips clips already
\* done"): an index that resumable_state calls completed is in the cloud's
\* manifest, although runs overwrite each other's state, crash between the
\* manifest and the save, and load or save it in vain.
ResumableIsRecorded == resumable \subseteq Recorded

\* nil means done (Execute of both executors): when Execute returns nil, every
\* output of the workload is in the manifest, those included that this run
\* skipped because an earlier one had saved them.
NilMeansAllRecorded ==
    \A r \in Runs : run[r].ok => Outputs \subseteq Recorded

\* The manifest names no missing object (jobhandle.go AddOutput: the PUT before
\* RecordOutputs), also when runs overwrite each other's files, remove them
\* under an upload, work on the leftovers of a crash or lose an answer.
RecordedIsStored ==
    \A i \in Recorded : stored[i] # "none"

\* What is recorded is right (jobhandle.go AddOutput, upload/client.go): as long
\* as no two runs had the work directory at once and none was left behind by a
\* crash or a failed removal, the stored object is the complete output and the
\* manifest has its checksum.
UndisturbedOutputsAreGood ==
    (~shared /\ ~leftover) =>
        \A i \in Recorded : recorded[i] = "good" /\ stored[i] = "good"

\* The work directory goes away (extractaudio/executor.go, "reaps them on success
\* or failure"; scheduler.go runOne): after success, failure and overlap alike it
\* exists only while a run has a handle, unless a crash or a failed RemoveAll,
\* whose error jobhandle.go Cleanup drops, left it behind.
WorkDirIsReaped ==
    (dir /\ ~leftover) => \E r \in Runs : run[r].pc \in HasHandle

\* No clip is cut before the encoder is known (clipvideo/executor.go encOnce),
\* also not by the run that found the probe under way.
EncoderIsKnown ==
    \A r \in Runs : (kind = "clip" /\ run[r].pc \in {"next", "cutting"}) => encoder # "unset"

-----------------------------------------------------------------------------
(***************************************************************************)
(* The strengthenings that make the invariants above inductive             *)
(* (module ExecutionProofs).                                               *)
(***************************************************************************)

\* What a run has open is there to be read, and what it hashed was something.
OpenInv ==
    \A r \in Runs :
        /\ At(r, "outCopy") /\ run[r].owns => Read(r, clip) # "none"
        /\ run[r].pc \in {"hash", "put"} => Read(r, out) # "none"
        /\ run[r].pc \in {"put", "record"} => run[r].sum # "none"

\* An index that a run has done, or is about to save, is in the manifest;
\* what it is about to record is in the storage.
DoneInv ==
    /\ ResumableIsRecorded
    /\ NilMeansAllRecorded
    /\ \A r \in Runs : /\ run[r].done \subseteq Recorded
                       /\ At(r, "save") => run[r].i \in Recorded

StoredInv ==
    /\ RecordedIsStored
    /\ \A r \in Runs : At(r, "record") => stored[run[r].i] # "none"

\* From the probe on, the encoder is known.
Encoding == {"statMaster", "create", "copy", "next", "cutting", "outCreate", "outCopy",
             "presign", "stat", "hash", "put", "record", "save"}

ProbeInv ==
    /\ once = "done" => encoder # "unset"
    /\ \A r \in Runs : (kind = "clip" /\ run[r].pc \in Encoding) => once = "done"

\* A run that has the work directory to itself finds it fresh and knows what is
\* in every file it reads.
Fresh == dir = FALSE /\ master = "none" /\ clip = Nothing /\ out = Nothing

Knows(r) ==
    LET at(labels) == run[r].pc \in labels
        i == run[r].i
    IN  /\ dir
        /\ at({"load", "locate", "probe", "probing", "statMaster", "create"}) => master = "none"
        /\ at({"copy", "cutting", "outCopy"}) => run[r].owns
        /\ at({"outCopy", "hash", "put"}) => run[r].fd = "live"
        /\ at({"next", "cutting", "outCreate", "outCopy", "presign", "stat", "hash", "put",
               "record", "save"}) => master = "good"
        /\ at({"cutting"}) => run[r].src = "good"
        /\ at({"outCreate", "outCopy"}) => clip[i] = "good"
        /\ at({"presign", "stat", "hash", "put"}) => out[i] = "good"
        /\ at({"put", "record"}) => run[r].sum = "good"
        /\ at({"record"}) => stored[i] = "good"

AloneInv ==
    (~shared /\ ~leftover) =>
        /\ UndisturbedOutputsAreGood
        /\ \A q, r \in Runs : run[q].pc \in HasHandle /\ run[r].pc \in HasHandle => q = r
        /\ (\A r \in Runs : run[r].pc \notin HasHandle) => Fresh
        /\ \A r \in Runs : run[r].pc \in HasHandle => Knows(r)

-----------------------------------------------------------------------------
\* Every execution ends: no path leaves another run waiting for the encoder.
ExecutionsEnd == \A r \in Runs : run[r].pc \in Live ~> run[r].pc = "gone"

=============================================================================
