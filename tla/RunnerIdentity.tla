--------------------------- MODULE RunnerIdentity ---------------------------
(***************************************************************************)
(* The identity of the quality runners of quality_runner.py: the TYPE and  *)
(* VERSION class attributes of each runner class, and the result keys      *)
(* QualityRunner and VmafossExecQualityRunner derive from TYPE.  Version   *)
(* strings that embed a feature extractor's VERSION take it as a constant: *)
(* feature_extractor.py is not part of this repository.                    *)
(***************************************************************************)
EXTENDS Sequences

CONSTANTS
    VmafFeatureVersion,   \* VmafFeatureExtractor.VERSION
    StrredFeatureVersion  \* StrredFeatureExtractor.VERSION

(* TYPE of every concrete runner class.                                   *)
RunnerTypes ==
    {"PSNR", "VMAF_legacy", "VMAF", "VMAF_Phone", "VMAFOSSEXEC", "SSIM",
     "MS_SSIM", "ADM2", "VIF_SCALE0", "VIF_SCALE1", "VIF_SCALE2",
     "VIF_SCALE3", "MOTION", "STRRED"}

(* VERSION of every runner class, by TYPE.                                 *)
Version ==
    LET vmaf == "F" \o VmafFeatureVersion \o "-0.6.1"
        single == "F" \o VmafFeatureVersion \o "-0"
    IN  [PSNR |-> "1.0", VMAF_legacy |-> "F" \o VmafFeatureVersion \o "-1.1",
         VMAF |-> vmaf, VMAF_Phone |-> vmaf \o "-phone", VMAFOSSEXEC |-> vmaf,
         SSIM |-> "1.0", MS_SSIM |-> "1.0", ADM2 |-> single,
         VIF_SCALE0 |-> single, VIF_SCALE1 |-> single, VIF_SCALE2 |-> single,
         VIF_SCALE3 |-> single, MOTION |-> single,
         STRRED |-> "F" \o StrredFeatureVersion \o "-1.1"]

(* FEATURE_NAME of the VmafSingleFeatureQualityRunner subclasses.          *)
SingleFeatureName ==
    [ADM2 |-> "adm2", VIF_SCALE0 |-> "vif_scale0", VIF_SCALE1 |-> "vif_scale1",
     VIF_SCALE2 |-> "vif_scale2", VIF_SCALE3 |-> "vif_scale3",
     MOTION |-> "motion"]

(* QualityRunner.get_scores_key / get_score_key.                           *)
ScoresKey(type) == type \o "_scores"
ScoreKey(type) == type \o "_score"

(* VmafossExecQualityRunner.get_feature_scores_key.                        *)
FeatureScoresKey(type, feature) == type \o "_" \o feature \o "_scores"

(* The runner identity results are stored under: the (TYPE, VERSION) pair. *)
ExecutorId(type) == <<type, Version[type]>>

=============================================================================
