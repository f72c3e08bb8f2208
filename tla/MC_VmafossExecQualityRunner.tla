--------------------- MODULE MC_VmafossExecQualityRunner ---------------------
(***************************************************************************)
(* VmafossExecQualityRunner for TLC: two sub-features of FEATURES, values  *)
(* 1 and 2 for every attribute, logs of up to three frames: every pattern  *)
(* of missing final scores and sub-features over three frames.             *)
(***************************************************************************)
EXTENDS VmafossExecQualityRunner

MCFeatures == {"adm2", "motion"}
MCValues == {1, 2}

=============================================================================
