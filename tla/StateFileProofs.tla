---------------------------- MODULE StateFileProofs ----------------------------
(***************************************************************************)
(* Proofs about StateFile, for any number of versions, failures and        *)
(* restarts: while the two savers have not overlapped there is one of them *)
(* at a time, the temporary file is never the state file, and what is      *)
(* renamed is one whole snapshot, later than the one it replaces.          *)
(***************************************************************************)
EXTENDS StateFile, TLAPS

Saving(s) == pc[s] \in {"open", "write", "rename"}

-----------------------------------------------------------------------------
(* Typing.                                                                 *)

\* A file that holds one whole snapshot is loaded as that snapshot.
LEMMA LoadedWhole ==
  ASSUME NEW v \in Snapshots, Whole(main, v)
  PROVE  Loaded = v
BY DEF Loaded, Whole

\* Whatever the file holds, what is loaded is a version.
LEMMA LoadedType == Loaded \in Snapshots
<1>1. 0 \in Snapshots
  BY FileAssumption DEF Snapshots
<1>. QED
  BY <1>1 DEF Loaded

\* One step keeps the types.
LEMMA TypeStep == TypeOK /\ [Next]_vars => TypeOK'
<1> SUFFICES ASSUME TypeOK, [Next]_vars
             PROVE  TypeOK'
  OBVIOUS
<1> USE FileAssumption DEF TypeOK
<1>1. CASE Change
  BY <1>1 DEF Change, Snapshots, saver, disk, process
<1>2. ASSUME NEW s \in Savers, Begin(s)
      PROVE  mem' \in Snapshots /\ dirty' \in BOOLEAN /\ fd' = fd
             /\ pc' \in [Savers -> {"idle", "open", "write", "rename", "done"}]
             /\ snap' \in [Savers -> Snapshots]
  BY <1>2 DEF Begin
<1>3. CASE Flush
  BY <1>2, <1>3 DEF Flush, Savers, disk
<1>4. CASE LoopEnds
  BY <1>4 DEF LoopEnds, disk, process
<1>5. CASE Stop
  BY <1>5 DEF Stop, saver, disk
<1>6. CASE FinalSave
  BY <1>2, <1>6 DEF FinalSave, Savers, disk, process
<1>7. CASE Restart
  <2>1. Loaded \in Snapshots /\ 0 \in Snapshots
    BY LoadedType DEF Snapshots
  <2>2. pc' \in [Savers -> {"idle", "open", "write", "rename", "done"}]
    BY <1>7 DEF Restart
  <2>3. snap' \in [Savers -> Snapshots] /\ fd' \in [Savers -> Inodes \cup {None}]
    BY <1>7, <2>1 DEF Restart
  <2>4. restarts' \in 0..MaxRestarts
    BY <1>7 DEF Restart
  <2>. QED
    BY <1>7, <2>1, <2>2, <2>3, <2>4 DEF Restart, disk
<1>8. ASSUME NEW s \in Savers, Open(s)
      PROVE  TypeOK'
  <2>1. PICK i \in Inodes : /\ tmp' = i
                            /\ content' = [content EXCEPT ![i] = {}]
                            /\ fd' = [fd EXCEPT ![s] = i]
    BY <1>8 DEF Open
  <2>. QED
    BY <1>8, <2>1 DEF Open, process
<1>9. ASSUME NEW s \in Savers, Write(s)
      PROVE  TypeOK'
  <2>1. PICK c : /\ c \in {{snap[s]}, content[fd[s]] \cup {snap[s]}}
                 /\ content' = [content EXCEPT ![fd[s]] = c]
    BY <1>9 DEF Write
  <2>2. content' \in [Inodes -> SUBSET Snapshots]
    <3>1. CASE fd[s] \in Inodes
      BY <2>1, <3>1
    <3>2. CASE fd[s] \notin Inodes
      BY <2>1, <3>2
    <3>. QED
      BY <3>1, <3>2
  <2>. QED
    BY <1>9, <2>2 DEF Write, process
<1>10. ASSUME NEW s \in Savers, Rename(s)
       PROVE  TypeOK'
  BY <1>10 DEF Rename, Finished, None, process
<1>11. ASSUME NEW s \in Savers, Fail(s)
       PROVE  TypeOK'
  <2>1. content' \in [Inodes -> SUBSET Snapshots]
    BY <1>11 DEF Fail
  <2>. QED
    BY <1>11, <2>1 DEF Fail, Finished
<1>12. CASE UNCHANGED vars
  BY <1>12 DEF vars, saver, disk, process
<1>. QED
  BY <1>1, <1>3, <1>4, <1>5, <1>6, <1>7, <1>8, <1>9, <1>10, <1>11, <1>12 DEF Next, Steps

\* The savers, the inodes and the names are well typed.
THEOREM TypeCorrect == Spec => []TypeOK
<1>1. Init => TypeOK
  <2>1. Init => /\ pc \in [Savers -> {"idle", "open", "write", "rename", "done"}]
                /\ snap \in [Savers -> Snapshots]
                /\ fd \in [Savers -> Inodes \cup {None}]
                /\ content \in [Inodes -> SUBSET Snapshots]
    BY FileAssumption DEF Init, Snapshots
  <2>2. Init => mem \in Snapshots /\ promised \in Snapshots
    BY FileAssumption DEF Init, Snapshots
  <2>3. Init => main \in Inodes /\ tmp \in Inodes \cup {None}
    BY DEF Init, Inodes
  <2>4. Init => faults \in 0..MaxFaults /\ restarts \in 0..MaxRestarts
    BY FileAssumption DEF Init
  <2>5. Init => dirty \in BOOLEAN /\ stopping \in BOOLEAN /\ overlap \in BOOLEAN
    BY Zenon DEF Init
  <2>. QED
    BY <2>1, <2>2, <2>3, <2>4, <2>5, Zenon DEF TypeOK
<1>. QED
  BY <1>1, TypeStep, PTL DEF Spec
-----------------------------------------------------------------------------
(* One saver at a time.                                                    *)

\* The flush loop has returned from its save before that of Stop begins.
OneSaver ==
  /\ stopping => ~Saving("loop")
  /\ ~stopping => pc["stop"] = "idle" /\ pc["loop"] # "done"

\* The state file is a whole snapshot of an earlier state of memory.
MainWhole == Whole(main, Loaded) /\ Loaded <= mem

\* What is being saved, and what is dirty, is later than what is in the file.
NewerPending ==
  /\ dirty => Loaded < mem
  /\ \A s \in Savers : Saving(s) => /\ Loaded < snap[s] /\ snap[s] <= mem
                                    /\ dirty => snap[s] < mem

\* The temporary file is another one, empty when it is opened and a whole
\* snapshot when it is renamed.
TmpApart ==
  /\ tmp # main
  /\ \A s \in Savers :
       /\ pc[s] = "write" => tmp # None /\ fd[s] = tmp /\ content[tmp] = {}
       /\ pc[s] # "write" => fd[s] = None
       /\ pc[s] = "rename" => tmp # None /\ Whole(tmp, snap[s])

\* While nothing fails, what the file lacks is dirty or on its way.
Kept ==
  faults = 0 /\ mem # Loaded => dirty \/ \E s \in Savers : Saving(s) /\ snap[s] = mem

\* The save of Stop takes the file to the state of memory when it was called.
Promised ==
  stopping => /\ promised <= mem
              /\ Saving("stop") => promised <= snap["stop"]
              /\ pc["stop"] = "done" /\ faults = 0 => promised <= Loaded

\* The inductive invariant, up to the first overlap.
AloneInv ==
  ~overlap => OneSaver /\ MainWhole /\ NewerPending /\ TmpApart /\ Kept /\ Promised

\* What is loaded depends on the state file alone.
LEMMA LoadedSame ==
  main' = main /\ content'[main] = content[main] => Loaded' = Loaded
BY DEF Loaded, Whole

\* The first half of save keeps the invariant, for either saver.
LEMMA BeginAlone ==
  ASSUME TypeOK, ~overlap, AloneInv, NEW s \in Savers, Begin(s),
         s = "loop" => ~stopping /\ dirty, s = "stop" => stopping,
         UNCHANGED <<disk, process>>
  PROVE  AloneInv'
<1> USE DEF TypeOK, AloneInv
<1>1. /\ mem' = mem /\ dirty' = FALSE /\ fd' = fd /\ content' = content
      /\ main' = main /\ tmp' = tmp /\ stopping' = stopping
      /\ promised' = promised /\ faults' = faults
  BY DEF Begin, disk, process
<1>2. Loaded' = Loaded /\ Loaded \in Snapshots
  BY <1>1, LoadedSame, LoadedType
<1>3. pc[s] = "idle" /\ \A t \in Savers : t # s => ~Saving(t)
  BY DEF Begin, OneSaver, Savers, Saving
<1>4. CASE dirty
  <2>1. /\ pc' = [pc EXCEPT ![s] = "open"] /\ snap' = [snap EXCEPT ![s] = mem]
    BY <1>4 DEF Begin
  <2>2. OneSaver'
    BY <1>1, <2>1 DEF OneSaver, Saving, Savers
  <2>3. MainWhole'
    BY <1>1, <1>2 DEF MainWhole, Whole
  <2>4. NewerPending'
    BY <1>1, <1>2, <1>3, <1>4, <2>1 DEF NewerPending, Saving, Snapshots
  <2>5. TmpApart'
    BY <1>1, <1>3, <2>1 DEF TmpApart, Whole
  <2>6. Kept'
    BY <1>1, <2>1 DEF Kept, Saving
  <2>7. Promised'
    BY <1>1, <1>2, <1>3, <2>1 DEF Promised, Saving, Savers
  <2>. QED
    BY <2>2, <2>3, <2>4, <2>5, <2>6, <2>7
<1>5. CASE ~dirty
  <2>1. pc' = [pc EXCEPT ![s] = "done"] /\ snap' = snap
    BY <1>5 DEF Begin
  <2>2. s = "stop"
    BY <1>5 DEF Savers
  <2>3. OneSaver'
    BY <1>1, <2>1, <2>2 DEF OneSaver, Saving, Savers
  <2>4. MainWhole'
    BY <1>1, <1>2 DEF MainWhole, Whole
  <2>5. NewerPending'
    BY <1>1, <1>2, <1>3, <2>1 DEF NewerPending, Saving, Snapshots
  <2>6. TmpApart'
    BY <1>1, <1>3, <2>1 DEF TmpApart, Whole
  <2>7. Kept'
    BY <1>1, <1>2, <1>3, <1>5, <2>1 DEF Kept, Saving
  <2>8. Promised'
    BY <1>1, <1>2, <1>3, <1>5, <2>1 DEF Promised, Kept, Saving, Savers
  <2>. QED
    BY <2>3, <2>4, <2>5, <2>6, <2>7, <2>8
<1>. QED
  BY <1>4, <1>5

\* A step of a save that has begun keeps the invariant.
LEMMA OpenAlone ==
  ASSUME TypeOK, ~overlap, AloneInv, NEW s \in Savers, Open(s)
  PROVE  AloneInv'
<1> USE DEF TypeOK, AloneInv
<1>1. /\ mem' = mem /\ dirty' = dirty /\ snap' = snap /\ main' = main
      /\ stopping' = stopping /\ promised' = promised /\ faults' = faults
      /\ pc[s] = "open" /\ pc' = [pc EXCEPT ![s] = "write"]
  BY DEF Open, process
<1>2. PICK i \in Inodes : /\ tmp' = i /\ i # main
                          /\ content' = [content EXCEPT ![i] = {}]
                          /\ fd' = [fd EXCEPT ![s] = i]
  BY DEF Open, TmpApart
<1>3. Loaded' = Loaded /\ content'[main] = content[main]
  BY <1>1, <1>2, LoadedSame
<1>4. \A t \in Savers : t # s => ~Saving(t)
  BY <1>1 DEF OneSaver, Savers, Saving
<1>5. \A t \in Savers : Saving(t)' <=> Saving(t)
  BY <1>1 DEF Saving
<1>6. OneSaver'
  BY <1>1, <1>5 DEF OneSaver, Saving, Savers
<1>7. MainWhole'
  BY <1>1, <1>3 DEF MainWhole, Whole
<1>8. NewerPending'
  BY <1>1, <1>3, <1>5 DEF NewerPending
<1>9. TmpApart'
  BY <1>1, <1>2, <1>4 DEF TmpApart, Saving, None, Inodes
<1>10. Kept'
  BY <1>1, <1>3, <1>5 DEF Kept
<1>11. Promised'
  BY <1>1, <1>3, <1>5 DEF Promised, Savers
<1>. QED
  BY <1>6, <1>7, <1>8, <1>9, <1>10, <1>11

\* A write by the only saver makes the temporary file whole, or fails and is counted.
LEMMA WriteAlone ==
  ASSUME TypeOK, ~overlap, AloneInv, NEW s \in Savers, Write(s)
  PROVE  AloneInv'
<1> USE DEF TypeOK, AloneInv
<1>1. /\ mem' = mem /\ dirty' = dirty /\ snap' = snap /\ main' = main /\ tmp' = tmp
      /\ stopping' = stopping /\ promised' = promised /\ faults' = faults
      /\ pc[s] = "write" /\ pc' = [pc EXCEPT ![s] = "rename"]
      /\ fd' = [fd EXCEPT ![s] = None]
  BY DEF Write, process
<1>2. fd[s] = tmp /\ tmp \in Inodes /\ content[tmp] = {} /\ tmp # main
  BY <1>1 DEF TmpApart
<1>3. content' = [content EXCEPT ![tmp] = {snap[s]}]
  BY <1>2 DEF Write
<1>4. Loaded' = Loaded /\ content'[main] = content[main]
  BY <1>1, <1>2, <1>3, LoadedSame
<1>5. \A t \in Savers : t # s => ~Saving(t)
  BY <1>1 DEF OneSaver, Savers, Saving
<1>6. \A t \in Savers : Saving(t)' <=> Saving(t)
  BY <1>1 DEF Saving
<1>7. OneSaver'
  BY <1>1, <1>6 DEF OneSaver, Saving, Savers
<1>8. MainWhole'
  BY <1>1, <1>4 DEF MainWhole, Whole
<1>9. NewerPending'
  BY <1>1, <1>4, <1>6 DEF NewerPending
<1>10. TmpApart'
  BY <1>1, <1>2, <1>3, <1>5 DEF TmpApart, Saving, Whole, None, Inodes
<1>11. Kept'
  BY <1>1, <1>4, <1>6 DEF Kept
<1>12. Promised'
  BY <1>1, <1>4, <1>6 DEF Promised, Savers
<1>. QED
  BY <1>7, <1>8, <1>9, <1>10, <1>11, <1>12

\* A rename puts in place a later whole snapshot.
LEMMA RenameForward ==
  ASSUME TypeOK, ~overlap, AloneInv, NEW s \in Savers, Rename(s)
  PROVE  /\ main' = tmp /\ tmp' = None /\ content' = content
         /\ Loaded' = snap[s] /\ Whole(main, snap[s])'
         /\ Loaded < snap[s] /\ snap[s] <= mem
<1> USE DEF TypeOK, AloneInv
<1>1. pc[s] = "rename" /\ tmp # None /\ Whole(tmp, snap[s])
  BY DEF Rename, TmpApart
<1>2. main' = tmp /\ tmp' = None /\ content' = content /\ snap' = snap
  BY <1>1 DEF Rename
<1>3. Loaded < snap[s] /\ snap[s] <= mem
  BY <1>1 DEF NewerPending, Saving
<1>4. snap[s] \in Snapshots
  OBVIOUS
<1>5. Loaded' = snap[s] /\ Whole(main, snap[s])'
  BY <1>1, <1>2, <1>4 DEF Loaded, Whole
<1>. QED
  BY <1>2, <1>3, <1>5

\* A rename by the only saver puts a whole later snapshot in place, or fails.
LEMMA RenameAlone ==
  ASSUME TypeOK, ~overlap, AloneInv, NEW s \in Savers, Rename(s)
  PROVE  AloneInv'
<1> USE DEF TypeOK, AloneInv
<1>1. /\ mem' = mem /\ dirty' = dirty /\ snap' = snap /\ fd' = fd
      /\ stopping' = stopping /\ promised' = promised /\ faults' = faults
      /\ pc[s] = "rename" /\ pc' = [pc EXCEPT ![s] = Finished(s)]
  BY DEF Rename, process
<1>2. /\ main' = tmp /\ tmp' = None /\ content' = content
      /\ Loaded' = snap[s] /\ Whole(main, snap[s])'
      /\ Loaded < snap[s] /\ snap[s] <= mem
  BY RenameForward
<1>3. \A t \in Savers : t # s => ~Saving(t)
  BY <1>1 DEF OneSaver, Savers, Saving
<1>4. \A t \in Savers : ~Saving(t)'
  BY <1>1, <1>3 DEF Saving, Finished
<1>5. Loaded \in Nat /\ snap[s] \in Nat /\ mem \in Nat
  BY LoadedType DEF Snapshots
<1>6. OneSaver'
  BY <1>1, <1>4 DEF OneSaver, Saving, Savers, Finished
<1>7. MainWhole'
  BY <1>1, <1>2 DEF MainWhole
<1>8. NewerPending'
  BY <1>1, <1>2, <1>4 DEF NewerPending, Saving
<1>9. TmpApart'
  BY <1>1, <1>2, <1>3, <1>4 DEF TmpApart, Saving, None, Inodes
<1>10. Kept'
  BY <1>1, <1>2, <1>3, <1>5 DEF Kept, Saving
<1>11. Promised'
  BY <1>1, <1>2, <1>3, <1>4, <1>5 DEF Promised, Savers, Saving, OneSaver, Finished
<1>. QED
  BY <1>6, <1>7, <1>8, <1>9, <1>10, <1>11

\* A failure leaves the state file alone; the next save truncates what is left
\* under the temporary name.
LEMMA FailAlone ==
  ASSUME TypeOK, ~overlap, AloneInv, NEW s \in Savers, Fail(s)
  PROVE  AloneInv'
<1> USE DEF TypeOK, AloneInv
<1>1. /\ mem' = mem /\ dirty' = dirty /\ snap' = snap /\ main' = main /\ tmp' = tmp
      /\ stopping' = stopping /\ promised' = promised /\ faults' = faults + 1
      /\ Saving(s) /\ pc' = [pc EXCEPT ![s] = Finished(s)]
      /\ fd' = [fd EXCEPT ![s] = None]
  BY DEF Fail, Saving
<1>2. content'[main] = content[main]
  <2>1. fd[s] # main
    BY DEF TmpApart, None, Inodes
  <2>. QED
    BY <2>1 DEF Fail
<1>3. Loaded' = Loaded
  BY <1>1, <1>2, LoadedSame
<1>4. \A t \in Savers : t # s => ~Saving(t)
  BY <1>1 DEF OneSaver, Savers, Saving
<1>5. \A t \in Savers : ~Saving(t)'
  BY <1>1, <1>4 DEF Saving, Finished
<1>6. faults' # 0
  BY <1>1
<1>7. OneSaver'
  BY <1>1, <1>5 DEF OneSaver, Saving, Savers, Finished
<1>8. MainWhole'
  BY <1>1, <1>2, <1>3 DEF MainWhole, Whole
<1>9. NewerPending'
  BY <1>1, <1>3, <1>5 DEF NewerPending
<1>10. TmpApart'
  BY <1>1, <1>4, <1>5 DEF TmpApart, Saving
<1>11. Kept' /\ Promised'
  BY <1>1, <1>5, <1>6 DEF Kept, Promised, Savers
<1>. QED
  BY <1>7, <1>8, <1>9, <1>10, <1>11

\* One step keeps the invariant.
LEMMA AloneStep == TypeOK /\ AloneInv /\ [Next]_vars => AloneInv'
<1> SUFFICES ASSUME TypeOK, AloneInv, [Next]_vars, ~overlap'
             PROVE  AloneInv'
  BY DEF AloneInv
<1>1. ~overlap
  BY DEF TypeOK, Next, Change, Flush, LoopEnds, Stop, FinalSave, Restart, Steps, Open,
         Write, Rename, Fail, vars, process
<1> USE <1>1
<1>2. CASE Change
  <2>1. /\ mem' = mem + 1 /\ mem \in Nat /\ dirty' = TRUE /\ main' = main /\ tmp' = tmp
        /\ content' = content /\ pc' = pc /\ snap' = snap /\ fd' = fd
        /\ stopping' = stopping /\ promised' = promised /\ faults' = faults
    BY <1>2 DEF Change, TypeOK, Snapshots, saver, disk, process
  <2>2. Loaded' = Loaded /\ Loaded \in Nat
    BY <2>1, LoadedSame, LoadedType DEF Snapshots
  <2>3. \A s \in Savers : snap[s] \in Nat
    BY DEF TypeOK, Snapshots
  <2>4. promised \in Nat
    BY DEF TypeOK, Snapshots
  <2>5. OneSaver' /\ TmpApart' /\ Kept'
    BY <2>1 DEF AloneInv, OneSaver, Saving, TmpApart, Whole, Kept
  <2>6. MainWhole'
    BY <2>1, <2>2 DEF AloneInv, MainWhole, Whole
  <2>7. NewerPending'
    BY <2>1, <2>2, <2>3 DEF AloneInv, NewerPending, MainWhole, Saving
  <2>8. Promised'
    BY <2>1, <2>2, <2>4 DEF AloneInv, Promised, Saving
  <2>. QED
    BY <2>5, <2>6, <2>7, <2>8 DEF AloneInv
<1>3. CASE Flush
  <2>1. ~stopping /\ dirty
    BY <1>3 DEF Flush, TypeOK
  <2>2. UNCHANGED <<disk, process>>
    BY <1>3 DEF Flush, TypeOK, process
  <2>. QED
    BY <1>3, <2>1, <2>2, BeginAlone DEF Flush, Savers
<1>4. CASE LoopEnds
  <2>1. /\ mem' = mem /\ dirty' = dirty /\ main' = main /\ tmp' = tmp
        /\ content' = content /\ snap' = snap /\ fd' = fd
        /\ stopping' = stopping /\ promised' = promised /\ faults' = faults
        /\ pc["loop"] = "idle" /\ pc' = [pc EXCEPT !["loop"] = "done"] /\ stopping
    BY <1>4 DEF LoopEnds, disk, process
  <2>2. Loaded' = Loaded
    BY <2>1, LoadedSame
  <2>3. \A s \in Savers : Saving(s)' <=> Saving(s)
    BY <2>1 DEF Saving, TypeOK
  <2>4. OneSaver'
    BY <2>1, <2>3 DEF AloneInv, OneSaver, Saving, TypeOK, Savers
  <2>5. MainWhole'
    BY <2>1, <2>2 DEF AloneInv, MainWhole, Whole
  <2>6. NewerPending' /\ Kept'
    BY <2>1, <2>2, <2>3 DEF AloneInv, NewerPending, Kept
  <2>7. TmpApart'
    BY <2>1 DEF AloneInv, TmpApart, Whole, TypeOK, Savers
  <2>8. Promised'
    BY <2>1, <2>2, <2>3 DEF AloneInv, Promised, TypeOK, Savers
  <2>. QED
    BY <2>4, <2>5, <2>6, <2>7, <2>8 DEF AloneInv
<1>5. CASE Stop
  <2>1. /\ mem' = mem /\ dirty' = dirty /\ main' = main /\ tmp' = tmp
        /\ content' = content /\ pc' = pc /\ snap' = snap /\ fd' = fd
        /\ stopping' = TRUE /\ promised' = mem /\ faults' = faults
        /\ ~stopping /\ pc["loop"] = "idle"
    BY <1>5 DEF Stop, saver, disk, TypeOK
  <2>2. Loaded' = Loaded /\ mem \in Nat
    BY <2>1, LoadedSame DEF TypeOK, Snapshots
  <2>3. OneSaver' /\ Promised'
    BY <2>1, <2>2 DEF AloneInv, OneSaver, Promised, Saving
  <2>4. MainWhole' /\ NewerPending' /\ TmpApart' /\ Kept'
    BY <2>1, <2>2 DEF AloneInv, MainWhole, NewerPending, TmpApart, Kept, Saving, Whole
  <2>. QED
    BY <2>3, <2>4 DEF AloneInv
<1>6. CASE FinalSave
  BY <1>6, BeginAlone DEF FinalSave, Savers
<1>7. CASE Restart
  <2>1. /\ mem' = Loaded /\ dirty' = FALSE /\ main' = main /\ tmp' = tmp
        /\ content' = content /\ stopping' = FALSE
        /\ \A s \in Savers : pc'[s] = "idle" /\ fd'[s] = None
    BY <1>7 DEF Restart, disk
  <2>2. Loaded' = Loaded /\ Loaded \in Nat
    BY <2>1, LoadedSame, LoadedType DEF Snapshots
  <2>3. OneSaver' /\ NewerPending' /\ Kept' /\ Promised'
    BY <2>1, <2>2 DEF OneSaver, NewerPending, Kept, Promised, Saving, Savers
  <2>4. MainWhole' /\ TmpApart'
    BY <2>1, <2>2 DEF AloneInv, MainWhole, TmpApart, Whole
  <2>. QED
    BY <2>3, <2>4 DEF AloneInv
<1>8. CASE UNCHANGED vars
  <2>1. UNCHANGED <<mem, dirty, pc, snap, fd, content, main, tmp, stopping, promised, faults>>
    BY <1>8 DEF vars
  <2>2. Loaded' = Loaded
    BY <2>1, LoadedSame
  <2>. QED
    BY <2>1, <2>2 DEF AloneInv, OneSaver, MainWhole, NewerPending, TmpApart, Kept,
                      Promised, Saving, Whole
<1>. QED
  BY <1>2, <1>3, <1>4, <1>5, <1>6, <1>7, <1>8, OpenAlone, WriteAlone, RenameAlone,
     FailAlone DEF Next, Steps

\* Up to the first overlap: one saver at a time, and what it saves is newer.
LEMMA SaverAlone == Spec => []AloneInv
<1>1. Init => AloneInv
  <2> SUFFICES ASSUME Init
               PROVE  AloneInv
    OBVIOUS
  <2>1. Whole(main, 0) /\ 0 \in Snapshots
    BY FileAssumption DEF Init, Whole, Inodes, Snapshots
  <2>2. Loaded = 0
    BY <2>1, LoadedWhole
  <2>. QED
    BY <2>1, <2>2 DEF Init, AloneInv, OneSaver, MainWhole, NewerPending, TmpApart, Kept,
                      Promised, Saving, Savers, None
<1>. QED
  BY <1>1, AloneStep, TypeCorrect, PTL DEF Spec

-----------------------------------------------------------------------------
(* What the file promises.                                                 *)

\* A change that is neither in the file nor on its way to it is still dirty, as
\* long as no file operation fails and the two savers have not overlapped.
THEOREM NothingIsForgotten == Spec => []NothingForgotten
<1>1. TypeOK /\ AloneInv => NothingForgotten
  BY DEF TypeOK, AloneInv, MainWhole, Kept, NothingForgotten, Saving
<1>. QED
  BY <1>1, TypeCorrect, SaverAlone, PTL

\* When Stop returns without having overlapped with the flush loop and without a
\* failure, the file has the state of the moment it was called.
THEOREM StopKeeps == Spec => []StopKeepsStateAlone
<1>1. TypeOK /\ AloneInv /\ (pc["stop"] = "done" => stopping) => StopKeepsStateAlone
  <2> SUFFICES ASSUME TypeOK, AloneInv, stopping, ~overlap,
                      pc["stop"] = "done", faults = 0
               PROVE  \E v \in promised..mem : Whole(main, v)
    BY DEF StopKeepsStateAlone, StopKeepsState
  <2>1. promised <= Loaded /\ Loaded <= mem /\ Whole(main, Loaded)
    BY DEF AloneInv, Promised, MainWhole
  <2>2. promised \in Nat /\ Loaded \in Nat /\ mem \in Nat
    BY LoadedType DEF TypeOK, Snapshots
  <2>. QED
    BY <2>1, <2>2
<1>2. AloneInv /\ ~overlap /\ pc["stop"] = "done" => stopping
  BY DEF AloneInv, OneSaver
<1>3. TypeOK /\ AloneInv => StopKeepsStateAlone
  BY <1>1, <1>2 DEF StopKeepsStateAlone
<1>. QED
  BY <1>3, TypeCorrect, SaverAlone, PTL

\* The savers with their temporary file implement SnapshotFile up to their first
\* overlap: through failures and crashes at any step the file moves from one
\* whole snapshot to a later one, and a new process goes on from it.
THEOREM FileKeepsPromise == Spec => FilePromise
<1>1. Init => File!Init
  <2> SUFFICES ASSUME Init
               PROVE  mem = 0 /\ Loaded = 0
    BY DEF File!Init
  <2>1. Whole(main, 0) /\ 0 \in Snapshots
    BY FileAssumption DEF Init, Whole, Inodes, Snapshots
  <2>. QED
    BY <2>1, LoadedWhole DEF Init
<1>2. TypeOK /\ AloneInv /\ [Next]_vars => [overlap' \/ File!Next]_<<mem, Loaded>>
  <2> SUFFICES ASSUME TypeOK, AloneInv, [Next]_vars, ~overlap'
               PROVE  File!Next \/ UNCHANGED <<mem, Loaded>>
    OBVIOUS
  <2>1. ~overlap
    BY DEF TypeOK, Next, Change, Flush, LoopEnds, Stop, FinalSave, Restart, Steps, Open,
           Write, Rename, Fail, vars, process
  <2>2. CASE Change
    <3>1. Loaded' = Loaded
      BY <2>2, LoadedSame DEF Change, disk
    <3>. QED
      BY <2>2, <3>1 DEF Change, File!Next, File!Change
  <2>3. CASE Restart
    <3>1. Loaded' = Loaded
      BY <2>3, LoadedSame DEF Restart, disk
    <3>. QED
      BY <2>3, <3>1 DEF Restart, File!Next, File!Reload
  <2>4. ASSUME NEW s \in Savers, Rename(s)
        PROVE  File!Next
    <3>1. Loaded' = snap[s] /\ Loaded < snap[s] /\ snap[s] <= mem
      BY <2>1, <2>4, RenameForward
    <3>2. Loaded \in Nat /\ snap[s] \in Nat /\ mem \in Nat
      BY LoadedType DEF TypeOK, Snapshots
    <3>3. mem' = mem
      BY <2>4 DEF Rename
    <3>. QED
      BY <3>1, <3>2, <3>3 DEF File!Next, File!Commit
  <2>5. ASSUME NEW s \in Savers, Open(s) \/ Write(s) \/ Fail(s)
        PROVE  UNCHANGED <<mem, Loaded>>
    <3>1. /\ mem' = mem /\ main' = main
          /\ Open(s) \/ (content' = content)
             \/ \E c : content' = [content EXCEPT ![fd[s]] = c]
      BY <2>5 DEF Open, Write, Fail
    <3>2. Write(s) \/ Fail(s) => fd[s] # main
      BY <2>1 DEF TypeOK, AloneInv, TmpApart, None, Inodes, Write
    <3>3. Open(s) => content'[main] = content[main]
      BY <2>1 DEF TypeOK, AloneInv, TmpApart, Open
    <3>4. content'[main] = content[main]
      BY <2>5, <3>1, <3>2, <3>3 DEF TypeOK
    <3>. QED
      BY <3>1, <3>4, LoadedSame
  <2>6. CASE Flush \/ LoopEnds \/ Stop \/ FinalSave \/ UNCHANGED vars
    <3>1. mem' = mem /\ main' = main /\ content' = content
      BY <2>6 DEF Flush, LoopEnds, Stop, FinalSave, Begin, disk, vars
    <3>. QED
      BY <3>1, LoadedSame
  <2>. QED
    BY <2>2, <2>3, <2>4, <2>5, <2>6 DEF Next, Steps
<1>. QED
  BY <1>1, <1>2, TypeCorrect, SaverAlone, PTL DEF Spec, FilePromise

================================================================================
