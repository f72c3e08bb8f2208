----------------------- MODULE VmafLegacyQualityRunner -----------------------
(***************************************************************************)
(* VmafLegacyQualityRunner (quality_runner.py): per asset, assemble the    *)
(* four VMAF features, rescale each with FEATURE_RESCALE_DICT, predict one *)
(* SVM score per frame from the rescaled vector in the order               *)
(* SVM_MODEL_ORDERED_SCORES_KEYS, apply _post_correction and publish the   *)
(* feature scores with the quality scores.  The features an asset yields   *)
(* are an input: Init picks them from FeatureVectors.                      *)
(***************************************************************************)
EXTENDS Integers, ScorePostProcessor

CONSTANTS
    Assets,          \* the assets the runner is run on
    FrameCount,      \* frames per asset
    FeatureVectors,  \* raw per-frame [vif, adm, ansnr, motion] the extractor may give
    SvmPredict(_)    \* svm_predict on one rescaled <<vif, adm, ansnr, motion>>

Frames == 1 .. FrameCount
FeatureNames == {"vif", "adm", "ansnr", "motion"}

ASSUME LegacyFrameAssumption == FrameCount \in Nat \ {0}
ASSUME FeatureVectorAssumption == FeatureVectors \subseteq [FeatureNames -> Int]

VARIABLES
    features,   \* features[a][i]: raw features of frame i of asset a
    phase,      \* phase[a] of _run_on_asset(a)
    result      \* result[a]: quality scores published, NoValue until then

vars == <<features, phase, result>>

(* FEATURE_RESCALE_DICT, as <<lower, upper>> in fixed point.               *)
RescaleBounds ==
    [vif |-> <<0, Scale>>, adm |-> <<(4 * Scale) \div 10, Scale>>,
     ansnr |-> <<10 * Scale, 50 * Scale>>, motion |-> <<0, 20 * Scale>>]

(* _rescale of one feature value with its bound pair.                      *)
Rescaled(fv, f) == Rescale(fv[f], RescaleBounds[f][1], RescaleBounds[f][2])

(* The rescaled vector of one frame, in SVM_MODEL_ORDERED_SCORES_KEYS order.*)
ScaledVector(fv) ==
    <<Rescaled(fv, "vif"), Rescaled(fv, "adm"),
      Rescaled(fv, "ansnr"), Rescaled(fv, "motion")>>

ASSUME SvmPredictAssumption ==
    \A fv \in FeatureVectors : SvmPredict(ScaledVector(fv)) \in Int

(* The loop of _run_on_asset for one frame: svm_predict on the rescaled    *)
(* vector, then _post_correction(motion, score) with the motion unpacked   *)
(* from that rescaled vector.                                              *)
FrameScore(fv) ==
    LET xs == ScaledVector(fv) IN PostCorrection(xs[4], SvmPredict(xs))

Init ==
    /\ features \in [Assets -> [Frames -> FeatureVectors]]
    /\ phase = [a \in Assets |-> "idle"]
    /\ result = [a \in Assets |-> NoValue]

(* _run_on_asset(a): the assembler, svm_load_model and the scoring loop.   *)
RunOnAsset(a) ==
    /\ phase[a] = "idle"
    /\ phase' = [phase EXCEPT ![a] = "done"]
    /\ result' = [result EXCEPT ![a] = [i \in Frames |-> FrameScore(features[a][i])]]
    /\ UNCHANGED features

(* The feature extractor or svm_load_model raises: no result.              *)
RunFails(a) ==
    /\ phase[a] = "idle"
    /\ phase' = [phase EXCEPT ![a] = "failed"]
    /\ UNCHANGED <<features, result>>

Next == \E a \in Assets : RunOnAsset(a) \/ RunFails(a)

Spec == Init /\ [][Next]_vars

-----------------------------------------------------------------------------
TypeOK ==
    /\ features \in [Assets -> [Frames -> FeatureVectors]]
    /\ phase \in [Assets -> {"idle", "done", "failed"}]
    /\ result \in [Assets -> [Frames -> Int] \cup {NoValue}]

(* The correction the spec describes (4.3 and 8): when the frame's motion *)
(* feature exceeds 12 the predicted score is multiplied by                 *)
(* 1 + (min(motion, 20) - 12) * 0.015, and the result is clipped to        *)
(* [0, 100].  The spec's examples (motion 17 gives 1.075, motion 25 gives  *)
(* 1.12) are raw motion values, which only the unrescaled feature reaches. *)
SpecFrameScore(fv) == PostCorrection(fv["motion"], SvmPredict(ScaledVector(fv)))

(* Every published legacy score is the SVM prediction corrected for the    *)
(* frame's motion as the spec describes (_post_correction in               *)
(* _run_on_asset).                                                         *)
LegacyCorrectionPerSpec ==
    \A a \in Assets : result[a] # NoValue =>
       \A i \in Frames : result[a][i] = SpecFrameScore(features[a][i])


(* Every published legacy score lies in [0, 100], however far outside that *)
(* range the SVM prediction falls (the clip at the end of                  *)
(* _post_correction).                                                      *)
LegacyScoresInRange ==
    \A a \in Assets : result[a] # NoValue =>
       \A i \in Frames : 0 <= result[a][i] /\ result[a][i] <= 100 * Scale

=============================================================================
