---------------------------- MODULE MCChangeFeed ----------------------------
(***************************************************************************)
(* Instances of ChangeFeed for TLC: two applications whose drivers run and *)
(* succeed.                                                                *)
(***************************************************************************)
EXTENDS ChangeFeed

Driver(uid, app, phase, created) ==
  [uid |-> uid, app |-> app, role |-> "driver", phase |-> phase,
   created |-> created, finished |-> NoTime]

MCApps == {"a1", "a2"}
MCUids == {"d1", "d2"}
MCWatched == {Driver("d1", "a1", "Running", 1), Driver("d1", "a1", "Succeeded", 1),
              Driver("d2", "a2", "Running", 1), Driver("d2", "a2", "Succeeded", 1)}
MCListed == {Driver("d1", "a1", "Running", 1), Driver("d2", "a2", "Running", 1)}
NoPods == {}
MCFilters == {{}, {"succeeded", "failed", "deleted"}}
NoFilter == {{}}
=============================================================================
