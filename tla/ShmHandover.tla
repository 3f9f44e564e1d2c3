----------------------------- MODULE ShmHandover ----------------------------
(***************************************************************************)
(* The hand-over of weights through three files in /dev/shm                *)
(* (src/arctic_inference/server/weight_sync/ipc_engine.py): the trainer    *)
(* writes the data and touches "ready"; every tensor-parallel rank of the  *)
(* inference worker polls for it, reads, and touches "done".  Each file    *)
(* operation is a step of its own; a wait may give up after its timeout    *)
(* and leaves the files behind.                                            *)
(***************************************************************************)
EXTENDS Integers

CONSTANTS Readers,      \* the ranks of the worker that collective_rpc() calls
          ShmRounds,    \* bound: calls of save_weights_to_shm()
          MaxTimeouts   \* bound: waits given up

VARIABLES data,      \* the version in the file; NoFile, or Partial while it is written
          ready, done,
          save,      \* save_weights_to_shm(): its program counter and version
          load,      \* rank -> load_weights_from_shm(): program counter and version read
          calls,     \* rounds in which the worker was called
          installed, \* rank -> the version of the weights in the model
          timeouts

shmVars == <<data, ready, done, save, load, calls, installed, timeouts>>

NoFile == 0
Partial == -1

ShmInit == /\ data = NoFile /\ ready = FALSE /\ done = FALSE
           /\ save = [pc |-> "idle", v |-> 0]
           /\ load = [r \in Readers |-> [pc |-> "idle", v |-> 0]]
           /\ calls = 0
           /\ installed = [r \in Readers |-> 0]
           /\ timeouts = 0

SaveEnded == save.pc \in {"idle", "failed"}
LoadEnded == \A r \in Readers : load[r].pc \in {"idle", "failed"}

(***************************************************************************)
(* The trainer.                                                            *)
(***************************************************************************)

SaveAt(pc) == save.pc = pc
SaveGoes(pc) == save' = [save EXCEPT !.pc = pc]

\* A round is over when both sides have returned or raised.
SaveCalled == /\ SaveEnded /\ save.v < ShmRounds /\ (LoadEnded \/ calls = save.v + 1)
              /\ save' = [pc |-> "unlink_data", v |-> save.v + 1]
              /\ UNCHANGED <<data, ready, done, load, calls, installed, timeouts>>

\* Before the dump, and again after it was read.
Unlink ==
  /\ \/ /\ \/ SaveAt("unlink_data") /\ SaveGoes("unlink_ready")
           \/ SaveAt("clear_data") /\ SaveGoes("clear_ready")
        /\ data' = NoFile
        /\ UNCHANGED <<ready, done>>
     \/ /\ \/ SaveAt("unlink_ready") /\ SaveGoes("unlink_done")
           \/ SaveAt("clear_ready") /\ SaveGoes("clear_done")
        /\ ready' = FALSE
        /\ UNCHANGED <<data, done>>
     \/ /\ \/ SaveAt("unlink_done") /\ SaveGoes("write")
           \/ SaveAt("clear_done") /\ SaveGoes("idle")
        /\ done' = FALSE
        /\ UNCHANGED <<data, ready>>
  /\ UNCHANGED <<load, calls, installed, timeouts>>

\* Mutant of Write: ready.touch() precedes the data.
WriteReadyFirst ==
  /\ \/ SaveAt("write") /\ ready' = TRUE /\ SaveGoes("touch") /\ UNCHANGED data
     \/ SaveAt("touch") /\ data' = Partial /\ SaveGoes("fill") /\ UNCHANGED ready
     \/ SaveAt("fill") /\ data' = save.v /\ SaveGoes("wait") /\ UNCHANGED ready
  /\ UNCHANGED <<done, load, calls, installed, timeouts>>

\* write_bytes() creates the file, then fills it; ready.touch() follows.
Write ==
  /\ \/ SaveAt("write") /\ data' = Partial /\ SaveGoes("fill") /\ UNCHANGED ready
     \/ SaveAt("fill") /\ data' = save.v /\ SaveGoes("touch") /\ UNCHANGED ready
     \/ SaveAt("touch") /\ ready' = TRUE /\ SaveGoes("wait") /\ UNCHANGED data
  /\ UNCHANGED <<done, load, calls, installed, timeouts>>

SeesDone == /\ SaveAt("wait") /\ done
            /\ SaveGoes("clear_data")
            /\ UNCHANGED <<data, ready, done, load, calls, installed, timeouts>>

SaveTimesOut == /\ SaveAt("wait") /\ ~done /\ timeouts < MaxTimeouts
                /\ SaveGoes("failed")
                /\ timeouts' = timeouts + 1
                /\ UNCHANGED <<data, ready, done, load, calls, installed>>

(***************************************************************************)
(* The inference worker.                                                   *)
(***************************************************************************)

LoadAt(r, pc) == load[r].pc = pc
LoadGoes(r, pc) == load' = [load EXCEPT ![r].pc = pc]

LoadCalled == /\ LoadEnded /\ calls < ShmRounds /\ (SaveEnded \/ save.v = calls + 1)
              /\ calls' = calls + 1
              /\ load' = [r \in Readers |-> [pc |-> "poll_ready", v |-> 0]]
              /\ UNCHANGED <<data, ready, done, save, installed, timeouts>>

Poll(r) ==
  /\ \/ LoadAt(r, "poll_ready") /\ ready /\ LoadGoes(r, "poll_data")
     \/ LoadAt(r, "poll_data") /\ data # NoFile /\ LoadGoes(r, "read")
  /\ UNCHANGED <<data, ready, done, save, calls, installed, timeouts>>

\* read_bytes() and torch.load(), which raise without the whole file.
Read(r) ==
  /\ LoadAt(r, "read")
  /\ IF data \in {NoFile, Partial} THEN LoadGoes(r, "failed")
     ELSE load' = [load EXCEPT ![r] = [pc |-> "touch", v |-> data]]
  /\ UNCHANGED <<data, ready, done, save, calls, installed, timeouts>>

TouchDone(r) == /\ LoadAt(r, "touch")
                /\ done' = TRUE
                /\ LoadGoes(r, "copy")
                /\ UNCHANGED <<data, ready, save, calls, installed, timeouts>>

\* sync_weights_ipc() copies what it was given into the model.
CopyIn(r) == /\ LoadAt(r, "copy")
             /\ installed' = [installed EXCEPT ![r] = load[r].v]
             /\ LoadGoes(r, "idle")
             /\ UNCHANGED <<data, ready, done, save, calls, timeouts>>

LoadTimesOut(r) == /\ load[r].pc \in {"poll_ready", "poll_data"} /\ timeouts < MaxTimeouts
                   /\ timeouts' = timeouts + 1
                   /\ LoadGoes(r, "failed")
                   /\ UNCHANGED <<data, ready, done, save, calls, installed>>

\* cleanup_shm(), while nobody is at work.
Cleanup == /\ SaveEnded /\ LoadEnded /\ (data # NoFile \/ ready \/ done)
           /\ data' = NoFile /\ ready' = FALSE /\ done' = FALSE
           /\ UNCHANGED <<save, load, calls, installed, timeouts>>

SaveSteps == Unlink \/ Write \/ SeesDone
LoadSteps(r) == Poll(r) \/ Read(r) \/ TouchDone(r) \/ CopyIn(r)

ShmNext == \/ SaveCalled \/ SaveSteps \/ SaveTimesOut \/ LoadCalled \/ Cleanup
           \/ \E r \in Readers : LoadSteps(r) \/ LoadTimesOut(r)

ShmSpec == ShmInit /\ [][ShmNext]_shmVars

(***************************************************************************)
(* Properties.                                                             *)
(***************************************************************************)

\* "done" means that the receiver has read (ipc_engine.py:46-48): unless a wait
\* was given up in some round, the files go only when every rank has read this
\* round's version, and no rank finds the data missing, cut short or old.
HandoverExact ==
  timeouts = 0 => \A r \in Readers :
    /\ load[r].pc # "failed"
    /\ LoadAt(r, "touch") => load[r].v = save.v
    /\ save.pc \in {"clear_data", "clear_ready", "clear_done"} => load[r].v = save.v

\* Unless a wait was given up, a version saved is loaded by every rank.
HandoverEnds ==
  \A k \in 1 .. ShmRounds : \A r \in Readers :
    save.v = k ~> (timeouts > 0 \/ installed[r] >= k)

=============================================================================
