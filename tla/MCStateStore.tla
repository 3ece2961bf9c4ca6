---------------------------- MODULE MCStateStore ----------------------------
(***************************************************************************)
(* An instance of StateStore and LegacyImport for TLC.  Three applications *)
(* compete for two places and their pods for two; the first has a driver   *)
(* that may finish and an executor, the others a driver.  The old files    *)
(* are absent, or hold an application that the watch does not report and   *)
(* some of those it does.                                                  *)
(***************************************************************************)
EXTENDS LegacyImport

Pod(uid, app, role, phase, created, finished) ==
  [uid |-> uid, app |-> app, role |-> role, phase |-> phase,
   created |-> created, finished |-> finished]

Driver1(phase, finished) == Pod("d1", "a1", "driver", phase, 1, finished)
Executor1 == Pod("e1", "a1", "executor", "Running", NoTime, NoTime)
Driver2 == Pod("d2", "a2", "driver", "Running", NoTime, NoTime)
Driver3 == Pod("d3", "a3", "driver", "Running", 1, NoTime)
Unlabelled == Pod("x", NoApp, NoRole, "Running", 1, NoTime)

MCApps == {"a0", "a1", "a2", "a3"}
MCUids == {"d0", "d1", "d2", "d3", "e1", "x"}
MCWatched == {Driver1("Running", NoTime), Driver1("Succeeded", 1), Executor1,
              Driver2, Driver3, Unlabelled}
MCListed == {Driver1("Succeeded", 1), Driver2}

Old(status, changed, deleted, updated) ==
  [record |-> [status |-> status, changedAt |-> changed,
               finishedAt |-> deleted, deletedAt |-> deleted],
   updatedAt |-> updated]
OldDriver(app, status, deleted) ==
  [app |-> app, role |-> "driver", phase |-> "Running", status |-> status,
   deletedAt |-> deleted]

\* One too many application, one of them without a changedAt ...
Crowded ==
  [apps |-> [a0 |-> Old("running", NoTime, NoTime, 1),
             a1 |-> Old("deleted", 1, 1, 1),
             a2 |-> Old("deleted", 1, 1, 1)],
   pods |-> [d0 |-> OldDriver("a0", "running", NoTime),
             d1 |-> OldDriver("a1", "deleted", 1),
             d2 |-> OldDriver("a2", "deleted", 1)]]

\* ... and two without.
Unstamped ==
  [apps |-> [a0 |-> Old("running", NoTime, NoTime, 2),
             a1 |-> Old("running", NoTime, NoTime, 1)],
   pods |-> [d0 |-> OldDriver("a0", "running", NoTime),
             d1 |-> OldDriver("a1", "running", NoTime)]]

MCLegacy == {NoLegacy, Crowded, Unstamped}
=============================================================================
