---------------------------- MODULE SnapshotFile ----------------------------
(***************************************************************************)
(* What the state file promises: it always holds one whole earlier state   *)
(* of memory, it only moves forward, and a process that starts continues   *)
(* from it.  States of memory are numbered in the order they were reached. *)
(***************************************************************************)
EXTENDS Naturals

CONSTANT MaxVersion   \* bound of the model: the last state of memory

VARIABLES
  mem,    \* the state of memory
  saved   \* the state the file holds

Init == mem = 0 /\ saved = 0

Change == mem < MaxVersion /\ mem' = mem + 1 /\ UNCHANGED saved

Commit == saved' \in (saved + 1)..mem /\ UNCHANGED mem

Reload == mem' = saved /\ UNCHANGED saved

Next == Change \/ Commit \/ Reload

Spec == Init /\ [][Next]_<<mem, saved>>
=============================================================================
