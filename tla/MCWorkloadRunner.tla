-------------------------- MODULE MCWorkloadRunner --------------------------
(* Two workloads; the first is picked by three draws of four. *)
EXTENDS WorkloadRunner

MCWeights == <<3, 1>>
=============================================================================
