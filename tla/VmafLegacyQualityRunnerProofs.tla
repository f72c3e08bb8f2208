------------------- MODULE VmafLegacyQualityRunnerProofs -------------------
(***************************************************************************)
(* Proofs about VmafLegacyQualityRunner for every value of its constants: *)
(* the scores it publishes lie in [0, 100] whatever the SVM predicts.      *)
(***************************************************************************)
EXTENDS VmafLegacyQualityRunner, TLAPS

(* _post_correction of an integer score ends in [0, 100], whether or not   *)
(* the motion branch scaled it first.                                      *)
LEMMA PostCorrectionRange ==
    ASSUME NEW motion \in Int, NEW score \in Int
    PROVE  /\ PostCorrection(motion, score) \in Int
           /\ 0 <= PostCorrection(motion, score)
           /\ PostCorrection(motion, score) <= 100 * Scale
<1>1. Scale \in Nat \ {0}
    BY ScaleAssumption
<1>2. CorrectionFactor(motion) \in Int
    BY <1>1 DEF CorrectionFactor
<1>3. (score * CorrectionFactor(motion)) \div Scale \in Int
    BY <1>1, <1>2
<1>. QED
    BY <1>1, <1>3 DEF PostCorrection

(* _rescale of an integer between distinct bounds is an integer.          *)
LEMMA RescaleInt ==
    ASSUME NEW v \in Int, NEW lb \in Int, NEW ub \in Int, lb < ub
    PROVE  Rescale(v, lb, ub) \in Int
<1>1. Scale \in Nat \ {0}
    BY ScaleAssumption
<1>2. NpClip(v, lb, ub) \in Int
    BY DEF NpClip, Minimum, Maximum
<1>. QED
    BY <1>1, <1>2 DEF Rescale

(* Every frame score of a feature vector the extractor may give is in      *)
(* [0, 100].                                                               *)
LEMMA FrameScoreRange ==
    ASSUME NEW fv \in FeatureVectors
    PROVE  FrameScore(fv) \in 0 .. 100 * Scale
<1>1. Scale \in Nat \ {0}
    BY ScaleAssumption
<1>2. fv["motion"] \in Int
    BY FeatureVectorAssumption DEF FeatureNames
<1>3. Rescaled(fv, "motion") \in Int
    <2>1. RescaleBounds["motion"][1] = 0 /\ RescaleBounds["motion"][2] = 20 * Scale
        BY DEF RescaleBounds
    <2>2. 0 < 20 * Scale
        BY <1>1
    <2>3. Rescale(fv["motion"], 0, 20 * Scale) \in Int
        BY <1>1, <1>2, <2>2, RescaleInt
    <2>. QED
        BY <2>1, <2>3 DEF Rescaled
<1>4. ScaledVector(fv)[4] = Rescaled(fv, "motion")
    BY DEF ScaledVector
<1>5. SvmPredict(ScaledVector(fv)) \in Int
    BY SvmPredictAssumption
<1>6. FrameScore(fv) = PostCorrection(ScaledVector(fv)[4], SvmPredict(ScaledVector(fv)))
    BY DEF FrameScore
<1>. QED
    BY <1>3, <1>4, <1>5, <1>6, PostCorrectionRange

LInv == TypeOK /\ LegacyScoresInRange

(* The final clip of _post_correction keeps every score _run_on_asset     *)
(* publishes in [0, 100], whatever svm_predict returns, in every state.   *)
THEOREM LegacyRange == Spec => []LegacyScoresInRange
<1>1. Init => LInv
    BY DEF Init, LInv, TypeOK, LegacyScoresInRange
<1>2. LInv /\ [Next]_vars => LInv'
    <2> SUFFICES ASSUME LInv, [Next]_vars PROVE LInv'
        OBVIOUS
    <2>1. ASSUME NEW a \in Assets, RunOnAsset(a) PROVE LInv'
        <3>1. \A i \in Frames : FrameScore(features[a][i]) \in 0 .. 100 * Scale
            BY FrameScoreRange DEF LInv, TypeOK
        <3>2. result' = [result EXCEPT ![a] = [i \in Frames |-> FrameScore(features[a][i])]]
              /\ phase' = [phase EXCEPT ![a] = "done"] /\ features' = features
            BY <2>1 DEF RunOnAsset
        <3>. QED
            BY <3>1, <3>2 DEF LInv, TypeOK, LegacyScoresInRange
    <2>2. ASSUME NEW a \in Assets, RunFails(a) PROVE LInv'
        BY <2>2 DEF RunFails, LInv, TypeOK, LegacyScoresInRange
    <2>3. CASE UNCHANGED vars
        BY <2>3 DEF vars, LInv, TypeOK, LegacyScoresInRange
    <2>. QED
        BY <2>1, <2>2, <2>3 DEF Next
<1>3. LInv => LegacyScoresInRange
    BY DEF LInv
<1>. QED
    BY <1>1, <1>2, <1>3, PTL DEF Spec

=============================================================================
