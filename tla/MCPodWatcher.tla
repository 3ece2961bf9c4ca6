---------------------------- MODULE MCPodWatcher ----------------------------
(***************************************************************************)
(* Instances of PodWatcher for TLC: every pod has an application of its    *)
(* own, so that a pod and its successor under one name are two             *)
(* applications.                                                           *)
(***************************************************************************)
EXTENDS PodWatcher

MCApps == {"a1", "a2", "a3", "a4"}
MCAppOf == [u \in 1..MaxRV |-> CASE u = 1 -> "a1" [] u = 2 -> "a2"
                                 [] u = 3 -> "a3" [] OTHER -> "a4"]
=============================================================================
