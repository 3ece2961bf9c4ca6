------------------------------ MODULE StateFile -----------------------------
(***************************************************************************)
(* How Store.save and Store.load keep the state file (state_store.go:604   *)
(* and 727): the flush loop and the final save of Stop each take a         *)
(* snapshot under the lock, then write the same temporary file and rename  *)
(* it over the state file, outside the lock and without knowing of each    *)
(* other.  Memory is a version number: every operation of StateStore that  *)
(* sets dirty reaches the next one.  Files are inodes, as a rename moves a *)
(* file that another saver may still hold open.                            *)
(***************************************************************************)
EXTENDS Naturals

CONSTANTS
  MaxVersion,   \* bound of the model: the last version of memory
  MaxFaults,    \* file operations that fail
  MaxRestarts,  \* processes started after the first
  Stops         \* whether a process may be stopped gracefully

ASSUME FileAssumption ==
  /\ MaxVersion \in Nat /\ MaxFaults \in Nat /\ MaxRestarts \in Nat
  /\ Stops \in BOOLEAN

Savers == {"loop", "stop"}
Snapshots == 0..MaxVersion
Inodes == 1..3        \* enough for the state file and a file per saver
None == 0             \* no such file

VARIABLES
  mem,        \* the version of memory
  dirty,      \* Store.dirty
  pc,         \* saver -> what it does next
  snap,       \* saver -> the version it marshalled
  fd,         \* saver -> the inode it has open
  content,    \* inode -> the snapshots its bytes come from: one of them is a
              \* whole document, none or several of them are not JSON
  main,       \* the inode of the state file
  tmp,        \* the inode of the temporary file, or None
  stopping,   \* Stop has been called
  promised,   \* the version of memory when Stop was called
  overlap,    \* the flush loop has been saving while Stop was (history)
  faults, restarts

vars == <<mem, dirty, pc, snap, fd, content, main, tmp, stopping, promised,
          overlap, faults, restarts>>
saver == <<pc, snap, fd>>
disk == <<content, main, tmp>>
process == <<stopping, promised, overlap, faults, restarts>>

\* Mutant: the operation does not set dirty.
ChangeQuietly ==
  /\ mem < MaxVersion
  /\ mem' = mem + 1
  /\ UNCHANGED <<dirty, saver, disk, process>>

\* One operation of the store that sets dirty.
Change ==
  /\ mem < MaxVersion
  /\ mem' = mem + 1
  /\ dirty' = TRUE
  /\ UNCHANGED <<saver, disk, process>>

\* The first half of save, under the lock: a store that is not dirty is left
\* alone, otherwise the flag is cleared and the state copied.
Begin(s) ==
  /\ pc[s] = "idle"
  /\ dirty' = FALSE
  /\ IF dirty THEN /\ pc' = [pc EXCEPT ![s] = "open"]
                   /\ snap' = [snap EXCEPT ![s] = mem]
     ELSE pc' = [pc EXCEPT ![s] = "done"] /\ UNCHANGED snap
  /\ UNCHANGED <<mem, fd>>

\* The ticker of persistLoop fires.  A tick that is due when stopCh is closed
\* may still win: select takes either.
Flush ==
  /\ dirty
  /\ Begin("loop")
  /\ overlap' = (overlap \/ stopping)
  /\ UNCHANGED <<disk, stopping, promised, faults, restarts>>

\* The flush loop sees that stopCh is closed and returns.
LoopEnds ==
  /\ stopping /\ pc["loop"] = "idle"
  /\ pc' = [pc EXCEPT !["loop"] = "done"]
  /\ UNCHANGED <<mem, dirty, snap, fd, disk, process>>

\* Stop closes stopCh and goes on to its own save at once; it does not wait for
\* the flush loop.
Stop ==
  /\ Stops /\ ~stopping
  /\ stopping' = TRUE
  /\ promised' = mem
  /\ overlap' = (overlap \/ pc["loop"] # "idle")
  /\ UNCHANGED <<mem, dirty, saver, disk, faults, restarts>>

\* Mutant: Stop only ends the flush loop.
FinalSaveSkipped ==
  /\ stopping /\ pc["stop"] = "idle"
  /\ pc' = [pc EXCEPT !["stop"] = "done"]
  /\ UNCHANGED <<mem, dirty, snap, fd, disk, process>>

FinalSave == stopping /\ Begin("stop") /\ UNCHANGED <<disk, process>>

Finished(s) == IF s = "loop" THEN "idle" ELSE "done"

\* Mutant: the state file is written in place.
OpenInPlace(s) ==
  /\ pc[s] = "open"
  /\ content' = [content EXCEPT ![main] = {}]
  /\ fd' = [fd EXCEPT ![s] = main]
  /\ pc' = [pc EXCEPT ![s] = "write"]
  /\ UNCHANGED <<mem, dirty, snap, main, tmp, process>>

\* os.WriteFile opens the temporary file, truncating the one that is there ...
Open(s) ==
  /\ pc[s] = "open"
  /\ \E i \in IF tmp # None THEN {tmp}
              ELSE Inodes \ ({main} \cup {fd[t] : t \in Savers}) :
       /\ tmp' = i
       /\ content' = [content EXCEPT ![i] = {}]
       /\ fd' = [fd EXCEPT ![s] = i]
  /\ pc' = [pc EXCEPT ![s] = "write"]
  /\ UNCHANGED <<mem, dirty, snap, main, process>>

\* ... and writes from its start.  Over another snapshot a shorter
\* one leaves a document of both.
Write(s) ==
  /\ pc[s] = "write"
  /\ LET i == fd[s] IN
     /\ content' \in {[content EXCEPT ![i] = c] :
                        c \in {{snap[s]}, content[i] \cup {snap[s]}}}
     /\ fd' = [fd EXCEPT ![s] = None]
  /\ pc' = [pc EXCEPT ![s] = "rename"]
  /\ UNCHANGED <<mem, dirty, snap, main, tmp, process>>

\* os.Rename puts whatever the temporary name now refers to in place; without
\* a temporary file it fails, which is only logged.
Rename(s) ==
  /\ pc[s] = "rename"
  /\ pc' = [pc EXCEPT ![s] = Finished(s)]
  /\ IF tmp # None THEN main' = tmp /\ tmp' = None ELSE UNCHANGED <<main, tmp>>
  /\ UNCHANGED <<mem, dirty, snap, fd, content, process>>

\* Mutant: the cleanup after a failure removes the state file.
FailRemoves(s) ==
  /\ faults < MaxFaults
  /\ pc[s] \in {"open", "write", "rename"}
  /\ faults' = faults + 1
  /\ pc' = [pc EXCEPT ![s] = Finished(s)]
  /\ fd' = [fd EXCEPT ![s] = None]
  /\ main' = None
  /\ UNCHANGED <<mem, dirty, snap, content, tmp, stopping, promised, overlap, restarts>>

\* MkdirAll, WriteFile or Rename fails: logged, and save returns.  A write that
\* fails may have written all of its bytes, or some over another snapshot's.
Fail(s) ==
  /\ faults < MaxFaults
  /\ pc[s] \in {"open", "write", "rename"}
  /\ faults' = faults + 1
  /\ pc' = [pc EXCEPT ![s] = Finished(s)]
  /\ fd' = [fd EXCEPT ![s] = None]
  /\ content' \in {content} \cup
       (IF fd[s] = None THEN {} ELSE {[content EXCEPT ![fd[s]] = @ \cup {snap[s]}]})
  /\ UNCHANGED <<mem, dirty, snap, main, tmp, stopping, promised, overlap, restarts>>

Whole(i, v) == content[i] = {v}

\* load: a file that does not parse leaves the store empty.
Loaded == IF \E v \in Snapshots : Whole(main, v)
          THEN CHOOSE v \in Snapshots : Whole(main, v) ELSE 0

\* The process ends, by a crash or because main returned after Stop, and the
\* goroutines with it; the next one loads the file.
Restart ==
  /\ restarts < MaxRestarts
  /\ restarts' = restarts + 1
  /\ mem' = Loaded
  /\ dirty' = FALSE
  /\ pc' = [s \in Savers |-> "idle"]
  /\ snap' = [s \in Savers |-> 0]
  /\ fd' = [s \in Savers |-> None]
  /\ stopping' = FALSE /\ promised' = 0
  /\ UNCHANGED <<disk, overlap, faults>>

Init ==
  /\ mem = 0 /\ dirty = FALSE
  /\ pc = [s \in Savers |-> "idle"]
  /\ snap = [s \in Savers |-> 0]
  /\ fd = [s \in Savers |-> None]
  /\ content = [i \in Inodes |-> IF i = 1 THEN {0} ELSE {}]
  /\ main = 1 /\ tmp = None
  /\ stopping = FALSE /\ promised = 0 /\ overlap = FALSE
  /\ faults = 0 /\ restarts = 0

Steps(s) == Open(s) \/ Write(s) \/ Rename(s)

Next ==
  \/ Change \/ Flush \/ LoopEnds \/ Stop \/ FinalSave \/ Restart
  \/ \E s \in Savers : Steps(s) \/ Fail(s)

Spec == Init /\ [][Next]_vars

\* The ticker keeps firing and a save that began goes on.
FairSpec == Spec /\ WF_vars(Flush) /\ WF_vars(FinalSave)
                 /\ \A s \in Savers : WF_vars(Steps(s))

-----------------------------------------------------------------------------
(* Properties.                                                             *)

\* The savers, the inodes and the names are well typed.
TypeOK ==
  /\ mem \in Snapshots /\ dirty \in BOOLEAN
  /\ pc \in [Savers -> {"idle", "open", "write", "rename", "done"}]
  /\ snap \in [Savers -> Snapshots]
  /\ fd \in [Savers -> Inodes \cup {None}]
  /\ content \in [Inodes -> SUBSET Snapshots]
  /\ main \in Inodes /\ tmp \in Inodes \cup {None}
  /\ stopping \in BOOLEAN /\ promised \in Snapshots /\ overlap \in BOOLEAN
  /\ faults \in 0..MaxFaults /\ restarts \in 0..MaxRestarts

File == INSTANCE SnapshotFile WITH saved <- Loaded

\* What the file promises (SnapshotFile): whole snapshots that move forward,
\* through failed operations and crashes at any step, and that a new process
\* goes on from.  It holds up to the first overlap of the two savers.
FilePromise ==
  File!Init /\ [][overlap' \/ File!Next]_<<mem, Loaded>>

\* A change that is neither in the file nor on its way to it is still dirty,
\* as long as no file operation fails: the next tick will save it.
NothingForgotten ==
  faults = 0 /\ ~overlap /\ ~Whole(main, mem) =>
    dirty \/ \E s \in Savers : pc[s] \in {"open", "write", "rename"} /\ snap[s] = mem

\* "Stop terminates the flush loop and performs a final save"
\* (state_store.go:135): when it returns, the file holds at least the state of
\* the moment it was called.
StopKeepsState ==
  pc["stop"] = "done" /\ faults = 0 =>
    \E v \in promised..mem : Whole(main, v)

\* ... which holds as long as the flush loop never saves while Stop does.
StopKeepsStateAlone == ~overlap => StopKeepsState

\* "mirrors them to a single state file" (state_store.go:80): a state of memory
\* that lasts comes to be in the file, as long as no file operation fails (save
\* forgets what it could not write) and the process is not stopped.
MirroredUnlessFailed ==
  \A v \in 1..MaxVersion :
    mem = v ~> (Whole(main, v) \/ mem # v \/ stopping \/ faults > 0)
=============================================================================
