----------------------- MODULE VmafQualityRunnerProofs -----------------------
(***************************************************************************)
(* Proofs about VmafQualityRunner for every value of its constants: the    *)
(* type invariant, and that published scores respect the model's clip     *)
(* bounds whenever clipping is not disabled.                               *)
(***************************************************************************)
EXTENDS VmafQualityRunner, TLAPS

-----------------------------------------------------------------------------
(* Lemmas on the post-processing operators.                                *)

(* np.clip of integers is an integer between the bounds, lb <= ub.         *)
LEMMA NpClipBounds ==
    ASSUME NEW v \in Int, NEW lb \in Int, NEW ub \in Int, lb <= ub
    PROVE  /\ NpClip(v, lb, ub) \in Int
           /\ lb <= NpClip(v, lb, ub)
           /\ NpClip(v, lb, ub) <= ub
BY DEF NpClip, Minimum, Maximum

(* The polynomial of a transform dict maps integers to integers.           *)
LEMMA PolynomialType ==
    ASSUME NEW td, IsTransformDict(td), NEW y \in Int
    PROVE  Polynomial(td, y) \in Int
<1>1. \A k \in {"p0", "p1", "p2"} : Coef(td, k) \in Int
    BY DEF IsTransformDict, Coef
<1>2. Scale \in Nat \ {0}
    BY ScaleAssumption
<1>. QED
    BY <1>1, <1>2 DEF Polynomial

(* Rectification keeps an integer output integer.                          *)
LEMMA RectifyType ==
    ASSUME NEW td, NEW yOut \in Int, NEW yIn \in Int
    PROVE  Rectify(td, yOut, yIn) \in Int
BY DEF Rectify, Minimum, Maximum

(* transform_score keeps an integer score array of the same shape.         *)
LEMMA TransformScoreType ==
    ASSUME NEW D, NEW ys \in [D -> Int], NEW td,
           td = NoValue \/ IsTransformDict(td)
    PROVE  TransformScore(td, ys) \in [D -> Int]
<1>1. CASE td = NoValue
    BY <1>1 DEF TransformScore
<1>2. CASE td # NoValue
    <2>1. \A i \in D : Rectify(td, Polynomial(td, ys[i]), ys[i]) \in Int
        BY <1>2, PolynomialType, RectifyType
    <2>. QED
        BY <1>2, <2>1 DEF TransformScore
<1>. QED
    BY <1>1, <1>2

(* clip_score keeps an integer score array of the same shape, and with a   *)
(* score_clip entry every element lies between its bounds.                 *)
LEMMA ClipScoreType ==
    ASSUME NEW D, NEW ys \in [D -> Int], NEW sc,
           sc = NoValue \/ (sc \in Int \X Int /\ sc[1] <= sc[2])
    PROVE  ClipScore(sc, ys) \in [D -> Int]
<1>1. CASE sc = NoValue
    BY <1>1 DEF ClipScore
<1>2. CASE sc # NoValue
    <2>1. \A i \in D : NpClip(ys[i], sc[1], sc[2]) \in Int
        BY <1>2, NpClipBounds
    <2>. QED
        BY <1>2, <2>1 DEF ClipScore
<1>. QED
    BY <1>1, <1>2

LEMMA ClipScoreBounds ==
    ASSUME NEW D, NEW ys \in [D -> Int], NEW sc,
           sc \in Int \X Int, sc[1] <= sc[2], sc # NoValue
    PROVE  \A i \in D : /\ sc[1] <= ClipScore(sc, ys)[i]
                        /\ ClipScore(sc, ys)[i] <= sc[2]
<1>1. \A i \in D : /\ sc[1] <= NpClip(ys[i], sc[1], sc[2])
                   /\ NpClip(ys[i], sc[1], sc[2]) <= sc[2]
    BY NpClipBounds
<1>. QED
    BY <1>1 DEF ClipScore

(* predict_with_model on a model artifact gives one integer per frame.    *)
LEMMA PredictWithModelType ==
    ASSUME NEW m \in Models, NEW a \in Assets, NEW dc, NEW et
    PROVE  PredictWithModel(m, a, dc, et) \in Scores
<1>1. IsModelArtifact(m)
    BY ModelsAssumption
<1>2. Predict(m.svr, a) \in [Frames -> Int]
    BY <1>1, PredictAssumption DEF IsModelArtifact, Scores
<1>3. TransformScore(m.score_transform, Predict(m.svr, a)) \in [Frames -> Int]
    BY <1>1, <1>2, TransformScoreType DEF IsModelArtifact
<1>. DEFINE ysT == IF DoTransformScore(et)
                   THEN TransformScore(m.score_transform, Predict(m.svr, a))
                   ELSE Predict(m.svr, a)
<1>4. ysT \in [Frames -> Int]
    BY <1>2, <1>3
<1>5. ClipScore(m.score_clip, ysT) \in [Frames -> Int]
    BY <1>1, <1>4, ClipScoreType DEF IsModelArtifact
<1>. QED
    BY <1>4, <1>5 DEF PredictWithModel, Scores

-----------------------------------------------------------------------------
(* Type correctness.                                                       *)

(* Every step of the runner or of the outside world keeps the types.       *)
LEMMA TypeInductive == TypeOK /\ [Next]_vars => TypeOK'
<1> SUFFICES ASSUME TypeOK, [Next]_vars PROVE TypeOK'
    OBVIOUS
<1>1. CASE AssertArgs
    BY <1>1 DEF AssertArgs, TypeOK
<1>2. ASSUME NEW a \in Assets, AssembleFeatures(a) PROVE TypeOK'
    <2>1. modelFiles[ModelPath] # NoValue =>
             FeatureDictOf(modelFiles[ModelPath]) \in SUBSET Atoms
        <3>1. ModelPath \in Paths
            BY PathAssumption, OptionalDictAssumption
               DEF TypeOK, ModelPath, HasOption
        <3>. QED
            BY <3>1, ModelsAssumption, FeatureAssumption
               DEF TypeOK, FeatureDictOf, IsModelArtifact
    <2>. QED
        BY <1>2, <2>1 DEF AssembleFeatures, TypeOK, Phases
<1>3. ASSUME NEW a \in Assets, PredictAndPublish(a) PROVE TypeOK'
    <2>1. ModelPath \in Paths
        BY PathAssumption, OptionalDictAssumption
           DEF TypeOK, ModelPath, HasOption
    <2>. DEFINE m == modelFiles[ModelPath]
    <2>2. m # NoValue => m \in Models
        BY <2>1 DEF TypeOK
    <2>3. m # NoValue =>
             PredictWithModel(m, a, Option("disable_clip_score", FALSE),
                              Option("enable_transform_score", FALSE)) \in Scores
        BY <2>2, PredictWithModelType
    <2>4. CASE m # NoValue /\ FeatureDictOf(m) \subseteq assembled[a]
        <3>1. result' = [result EXCEPT ![a] =
                 [features |-> assembled[a],
                  scores |-> PredictWithModel(m, a,
                                Option("disable_clip_score", FALSE),
                                Option("enable_transform_score", FALSE))]]
            BY <1>3, <2>4 DEF PredictAndPublish
        <3>2. [features |-> assembled[a],
               scores |-> PredictWithModel(m, a,
                             Option("disable_clip_score", FALSE),
                             Option("enable_transform_score", FALSE))]
                \in ResultRecord
            BY <2>3, <2>4 DEF TypeOK, ResultRecord
        <3>3. usedModel' = [usedModel EXCEPT ![a] = m]
            BY <1>3, <2>4 DEF PredictAndPublish
        <3>4. phase' = [phase EXCEPT ![a] = "done"]
            BY <1>3, <2>4 DEF PredictAndPublish
        <3>5. UNCHANGED <<optionalDict, modelFiles, runner, assembled>>
            BY <1>3 DEF PredictAndPublish
        <3>. QED
            BY <2>2, <2>4, <3>1, <3>2, <3>3, <3>4, <3>5 DEF TypeOK, Phases
    <2>5. CASE ~(m # NoValue /\ FeatureDictOf(m) \subseteq assembled[a])
        <3>1. /\ phase' = [phase EXCEPT ![a] = "failed"]
              /\ UNCHANGED <<result, usedModel, optionalDict, modelFiles,
                             runner, assembled>>
            BY <1>3, <2>5 DEF PredictAndPublish
        <3>. QED
            BY <3>1 DEF TypeOK, Phases
    <2>. QED
        BY <2>4, <2>5
<1>4. ASSUME NEW p \in Paths, NEW m \in Models \cup {NoValue},
             ReplaceModelFile(p, m)
      PROVE  TypeOK'
    BY <1>4 DEF ReplaceModelFile, TypeOK
<1>5. CASE UNCHANGED vars
    BY <1>5 DEF vars, TypeOK
<1>. QED
    BY <1>1, <1>2, <1>3, <1>4, <1>5 DEF Next

THEOREM TypeCorrect == Spec => []TypeOK
<1>1. Init => TypeOK
    BY DEF Init, TypeOK, Phases, ResultRecord
<1>. QED
    BY <1>1, TypeInductive, PTL DEF Spec


(* predict_with_model with clipping on and a score_clip entry ends inside  *)
(* the clip bounds, whatever the transform did first.                      *)
LEMMA PredictWithModelClipped ==
    ASSUME NEW m \in Models, NEW a \in Assets, NEW dc, NEW et,
           dc # TRUE, m.score_clip # NoValue
    PROVE  \A i \in Frames :
              /\ m.score_clip[1] <= PredictWithModel(m, a, dc, et)[i]
              /\ PredictWithModel(m, a, dc, et)[i] <= m.score_clip[2]
<1>1. IsModelArtifact(m)
    BY ModelsAssumption
<1>2. Predict(m.svr, a) \in [Frames -> Int]
    BY <1>1, PredictAssumption DEF IsModelArtifact, Scores
<1>3. TransformScore(m.score_transform, Predict(m.svr, a)) \in [Frames -> Int]
    BY <1>1, <1>2, TransformScoreType DEF IsModelArtifact
<1>. DEFINE ysT == IF DoTransformScore(et)
                   THEN TransformScore(m.score_transform, Predict(m.svr, a))
                   ELSE Predict(m.svr, a)
<1>4. ysT \in [Frames -> Int]
    BY <1>2, <1>3
<1>5. PredictWithModel(m, a, dc, et) = ClipScore(m.score_clip, ysT)
    BY DEF PredictWithModel
<1>6. m.score_clip \in Int \X Int /\ m.score_clip[1] <= m.score_clip[2]
    BY <1>1 DEF IsModelArtifact
<1>. QED
    BY <1>4, <1>5, <1>6, ClipScoreBounds

-----------------------------------------------------------------------------
(* Clip bounds.  ScoresWithinClip is not inductive alone: a published      *)
(* result must also have been predicted by some model artifact.            *)

IInv ==
    /\ TypeOK
    /\ \A a \in Assets : result[a] # NoValue => usedModel[a] \in Models
    /\ ScoresWithinClip

THEOREM ClipSafety == Spec => []ScoresWithinClip
<1>1. Init => IInv
    BY DEF Init, IInv, TypeOK, Phases, ResultRecord, ScoresWithinClip
<1>2. IInv /\ [Next]_vars => IInv'
    <2> SUFFICES ASSUME IInv, [Next]_vars PROVE IInv'
        OBVIOUS
    <2>1. TypeOK'
        BY TypeInductive DEF IInv
    <2>. USE DEF IInv
    \* Steps that leave results, models used and options alone.
    <2>2. ASSUME UNCHANGED <<optionalDict, result, usedModel>> PROVE IInv'
        BY <2>1, <2>2 DEF ScoresWithinClip, Option, HasOption
    <2>3. ASSUME NEW a \in Assets, PredictAndPublish(a) PROVE IInv'
        <3>. DEFINE m == modelFiles[ModelPath]
                    dc == Option("disable_clip_score", FALSE)
                    et == Option("enable_transform_score", FALSE)
        <3>1. CASE m # NoValue /\ FeatureDictOf(m) \subseteq assembled[a]
            <4>1. /\ result' = [result EXCEPT ![a] =
                                  [features |-> assembled[a],
                                   scores |-> PredictWithModel(m, a, dc, et)]]
                  /\ usedModel' = [usedModel EXCEPT ![a] = m]
                  /\ optionalDict' = optionalDict
                BY <2>3, <3>1 DEF PredictAndPublish
            <4>2. m \in Models
                <5>1. ModelPath \in Paths
                    BY PathAssumption, OptionalDictAssumption
                       DEF TypeOK, ModelPath, HasOption
                <5>. QED
                    BY <5>1, <3>1 DEF TypeOK
            <4>3. \A b \in Assets : result'[b] # NoValue => usedModel'[b] \in Models
                BY <4>1, <4>2 DEF TypeOK
            <4>4. dc # TRUE /\ m.score_clip # NoValue =>
                     \A i \in Frames :
                        /\ m.score_clip[1] <= PredictWithModel(m, a, dc, et)[i]
                        /\ PredictWithModel(m, a, dc, et)[i] <= m.score_clip[2]
                BY <4>2, PredictWithModelClipped
            <4>5. ScoresWithinClip'
                BY <4>1, <4>4 DEF TypeOK, ScoresWithinClip, Option, HasOption
            <4>. QED
                BY <2>1, <4>3, <4>5
        <3>2. CASE ~(m # NoValue /\ FeatureDictOf(m) \subseteq assembled[a])
            <4>1. UNCHANGED <<optionalDict, result, usedModel>>
                BY <2>3, <3>2 DEF PredictAndPublish
            <4>. QED
                BY <4>1, <2>2
        <3>. QED
            BY <3>1, <3>2
    <2>4. QED
        <3>1. CASE AssertArgs
            BY <3>1, <2>2 DEF AssertArgs
        <3>2. CASE \E a \in Assets : AssembleFeatures(a)
            BY <3>2, <2>2 DEF AssembleFeatures
        <3>3. CASE \E p \in Paths, mm \in Models \cup {NoValue} : ReplaceModelFile(p, mm)
            BY <3>3, <2>2 DEF ReplaceModelFile
        <3>4. CASE UNCHANGED vars
            BY <3>4, <2>2 DEF vars
        <3>. QED
            BY <3>1, <3>2, <3>3, <3>4, <2>3 DEF Next
<1>3. IInv => ScoresWithinClip
    BY DEF IInv
<1>. QED
    BY <1>1, <1>2, <1>3, PTL DEF Spec

-----------------------------------------------------------------------------
(* Rectification.  The published scores are exactly what                  *)
(* predict_with_model gives for the recorded model and the runner's        *)
(* options; RectifiedScores then follows from two facts about the          *)
(* operators: rectification bounds the output by the input, and np.clip    *)
(* is monotone.                                                            *)

(* np.clip is monotone in its first argument.                              *)
LEMMA NpClipMonotone ==
    ASSUME NEW x \in Int, NEW y \in Int, NEW lb \in Int, NEW ub \in Int, x <= y
    PROVE  NpClip(x, lb, ub) <= NpClip(y, lb, ub)
BY DEF NpClip, Minimum, Maximum

(* out_lte_in keeps the output at or below the input, out_gte_in at or     *)
(* above it, whichever other flag is set.                                  *)
LEMMA RectifyBounds ==
    ASSUME NEW td, NEW yOut \in Int, NEW yIn \in Int
    PROVE  /\ FlagOn(td, "out_lte_in") => Rectify(td, yOut, yIn) <= yIn
           /\ FlagOn(td, "out_gte_in") => Rectify(td, yOut, yIn) >= yIn
BY DEF Rectify, Minimum, Maximum

(* With the transform on and a score_transform entry, each rectified       *)
(* element of predict_with_model is on the flagged side of the pipeline's  *)
(* result without the transform.                                           *)
LEMMA PredictWithModelRectified ==
    ASSUME NEW m \in Models, NEW a \in Assets, NEW dc, NEW et,
           DoTransformScore(et), m.score_transform # NoValue
    PROVE  \A i \in Frames :
              /\ FlagOn(m.score_transform, "out_lte_in") =>
                    PredictWithModel(m, a, dc, et)[i] <= UntransformedScores(m, a, dc)[i]
              /\ FlagOn(m.score_transform, "out_gte_in") =>
                    PredictWithModel(m, a, dc, et)[i] >= UntransformedScores(m, a, dc)[i]
<1>. DEFINE td == m.score_transform
            ys == Predict(m.svr, a)
            ysT == TransformScore(td, ys)
<1>1. IsModelArtifact(m)
    BY ModelsAssumption
<1>2. ys \in [Frames -> Int]
    BY <1>1, PredictAssumption DEF IsModelArtifact, Scores
<1>3. ysT = [i \in Frames |-> Rectify(td, Polynomial(td, ys[i]), ys[i])]
    BY <1>2 DEF TransformScore
<1>4. \A i \in Frames :
         /\ ysT[i] \in Int
         /\ FlagOn(td, "out_lte_in") => ysT[i] <= ys[i]
         /\ FlagOn(td, "out_gte_in") => ysT[i] >= ys[i]
    <2> TAKE i \in Frames
    <2>1. Polynomial(td, ys[i]) \in Int
        BY <1>1, <1>2, PolynomialType DEF IsModelArtifact
    <2>. QED
        BY <1>2, <1>3, <2>1, RectifyBounds, RectifyType
<1>5. PredictWithModel(m, a, dc, et) =
         IF dc = TRUE THEN ysT ELSE ClipScore(m.score_clip, ysT)
    BY DEF PredictWithModel
<1>6. UntransformedScores(m, a, dc) =
         IF dc = TRUE THEN ys ELSE ClipScore(m.score_clip, ys)
    BY DEF UntransformedScores
<1>7. CASE dc = TRUE
    BY <1>4, <1>5, <1>6, <1>7
<1>8. CASE dc # TRUE /\ m.score_clip = NoValue
    <2>1. ClipScore(m.score_clip, ysT) = ysT /\ ClipScore(m.score_clip, ys) = ys
        BY <1>8 DEF ClipScore
    <2>. QED
        BY <1>4, <1>5, <1>6, <1>8, <2>1
<1>9. CASE dc # TRUE /\ m.score_clip # NoValue
    <2>1. m.score_clip \in Int \X Int
        BY <1>1, <1>9 DEF IsModelArtifact
    <2>2. /\ ClipScore(m.score_clip, ysT) =
               [i \in Frames |-> NpClip(ysT[i], m.score_clip[1], m.score_clip[2])]
          /\ ClipScore(m.score_clip, ys) =
               [i \in Frames |-> NpClip(ys[i], m.score_clip[1], m.score_clip[2])]
        BY <1>2, <1>3, <1>9 DEF ClipScore
    <2>3. \A i \in Frames :
             /\ FlagOn(td, "out_lte_in") =>
                   NpClip(ysT[i], m.score_clip[1], m.score_clip[2])
                      <= NpClip(ys[i], m.score_clip[1], m.score_clip[2])
             /\ FlagOn(td, "out_gte_in") =>
                   NpClip(ys[i], m.score_clip[1], m.score_clip[2])
                      <= NpClip(ysT[i], m.score_clip[1], m.score_clip[2])
        BY <1>2, <1>4, <2>1, NpClipMonotone
    <2>. QED
        BY <1>5, <1>6, <1>9, <2>2, <2>3
<1>. QED
    BY <1>7, <1>8, <1>9

(* A published result holds the scores predict_with_model gives for the    *)
(* model recorded with it and the runner's options.                        *)
ResultIsPrediction ==
    \A a \in Assets :
       result[a] # NoValue =>
          /\ usedModel[a] \in Models
          /\ result[a].scores = PredictWithModel(usedModel[a], a,
                                   Option("disable_clip_score", FALSE),
                                   Option("enable_transform_score", FALSE))

RInv == TypeOK /\ ResultIsPrediction

(* Every step keeps the published scores equal to the prediction.          *)
LEMMA PredictionInductive == RInv /\ [Next]_vars => RInv'
<1> SUFFICES ASSUME RInv, [Next]_vars PROVE RInv'
    OBVIOUS
<1>1. TypeOK'
    BY TypeInductive DEF RInv
<1>2. ASSUME UNCHANGED <<optionalDict, result, usedModel>> PROVE ResultIsPrediction'
    BY <1>2 DEF RInv, ResultIsPrediction, Option, HasOption
<1>3. ASSUME NEW a \in Assets, PredictAndPublish(a) PROVE ResultIsPrediction'
    <2>. DEFINE m == modelFiles[ModelPath]
                dc == Option("disable_clip_score", FALSE)
                et == Option("enable_transform_score", FALSE)
    <2>1. CASE m # NoValue /\ FeatureDictOf(m) \subseteq assembled[a]
        <3>1. /\ result' = [result EXCEPT ![a] =
                              [features |-> assembled[a],
                               scores |-> PredictWithModel(m, a, dc, et)]]
              /\ usedModel' = [usedModel EXCEPT ![a] = m]
              /\ optionalDict' = optionalDict
            BY <1>3, <2>1 DEF PredictAndPublish
        <3>2. m \in Models
            <4>1. ModelPath \in Paths
                BY PathAssumption, OptionalDictAssumption
                   DEF RInv, TypeOK, ModelPath, HasOption
            <4>. QED
                BY <4>1, <2>1 DEF RInv, TypeOK
        <3>. QED
            BY <3>1, <3>2 DEF RInv, TypeOK, ResultIsPrediction, Option, HasOption
    <2>2. CASE ~(m # NoValue /\ FeatureDictOf(m) \subseteq assembled[a])
        BY <1>3, <2>2, <1>2 DEF PredictAndPublish
    <2>. QED
        BY <2>1, <2>2
<1>4. ResultIsPrediction'
    <2>1. CASE AssertArgs
        BY <2>1, <1>2 DEF AssertArgs
    <2>2. CASE \E a \in Assets : AssembleFeatures(a)
        BY <2>2, <1>2 DEF AssembleFeatures
    <2>3. CASE \E p \in Paths, mm \in Models \cup {NoValue} : ReplaceModelFile(p, mm)
        BY <2>3, <1>2 DEF ReplaceModelFile
    <2>4. CASE UNCHANGED vars
        BY <2>4, <1>2 DEF vars
    <2>. QED
        BY <2>1, <2>2, <2>3, <2>4, <1>3 DEF Next
<1>. QED
    BY <1>1, <1>4 DEF RInv

(* Rectification holds on every published result, for every model         *)
(* artifact, option dict and variant (the phone runner included).          *)
THEOREM RectifiedSafety == Spec => []RectifiedScores
<1>1. Init => RInv
    BY DEF Init, RInv, TypeOK, Phases, ResultRecord, ResultIsPrediction
<1>2. RInv => RectifiedScores
    <2> SUFFICES ASSUME RInv, NEW a \in Assets, result[a] # NoValue,
                        DoTransformScore(Option("enable_transform_score", FALSE)),
                        usedModel[a].score_transform # NoValue
                 PROVE  \A i \in Frames :
                           LET m == usedModel[a]
                               base == UntransformedScores(m, a, Option("disable_clip_score", FALSE))
                           IN  /\ FlagOn(m.score_transform, "out_lte_in") => result[a].scores[i] <= base[i]
                               /\ FlagOn(m.score_transform, "out_gte_in") => result[a].scores[i] >= base[i]
        BY DEF RectifiedScores
    <2>1. usedModel[a] \in Models
        BY DEF RInv, ResultIsPrediction
    <2>. QED
        BY <2>1, PredictWithModelRectified DEF RInv, ResultIsPrediction
<1>. QED
    BY <1>1, <1>2, PredictionInductive, PTL DEF Spec


-----------------------------------------------------------------------------
(* The phone runner's refusal.  PhoneRejectsBeforeExecution is not         *)
(* inductive by itself: an asset could leave "idle" from a state where the *)
(* runner is "new".  The strengthening says that no asset leaves "idle"    *)
(* until _assert_args has passed, and that it passes for the phone runner  *)
(* only when enable_transform_score was not given.                         *)
PhoneInv ==
    /\ TypeOK
    /\ runner # "ready" => \A a \in Assets : phase[a] = "idle"
    /\ runner = "ready" => ~(Variant = "VMAF_Phone" /\ HasOption("enable_transform_score"))

(* Every step keeps the strengthening: AssertArgs decides "ready" exactly  *)
(* when the option check passes, only a "ready" runner assembles, and a    *)
(* prediction needs an asset already assembled.                            *)
LEMMA PhoneInductive == PhoneInv /\ [Next]_vars => PhoneInv'
<1> SUFFICES ASSUME PhoneInv, [Next]_vars PROVE PhoneInv'
    OBVIOUS
<1>1. TypeOK'
    BY TypeInductive DEF PhoneInv
<1>2. CASE AssertArgs
    BY <1>1, <1>2 DEF AssertArgs, PhoneInv, HasOption
<1>3. ASSUME NEW a \in Assets, AssembleFeatures(a) PROVE PhoneInv'
    BY <1>1, <1>3 DEF AssembleFeatures, PhoneInv, HasOption
<1>4. ASSUME NEW a \in Assets, PredictAndPublish(a) PROVE PhoneInv'
    <2>1. runner = "ready"
        BY <1>4 DEF PredictAndPublish, PhoneInv
    <2>. QED
        BY <1>1, <1>4, <2>1 DEF PredictAndPublish, PhoneInv, HasOption
<1>5. ASSUME NEW p \in Paths, NEW m \in Models \cup {NoValue},
             ReplaceModelFile(p, m)
      PROVE  PhoneInv'
    BY <1>1, <1>5 DEF ReplaceModelFile, PhoneInv, HasOption
<1>6. CASE UNCHANGED vars
    BY <1>1, <1>6 DEF vars, PhoneInv, HasOption
<1>. QED
    BY <1>2, <1>3, <1>4, <1>5, <1>6 DEF Next

(* The phone runner given enable_transform_score never assembles,          *)
(* predicts or fails an asset (VmafPhoneQualityRunner._assert_args raises  *)
(* before _run_on_asset), for every option dict, model and asset set.      *)
THEOREM PhoneRejectSafety == Spec => []PhoneRejectsBeforeExecution
<1>1. Init => PhoneInv
    BY DEF Init, PhoneInv, TypeOK, Phases, ResultRecord
<1>2. PhoneInv => PhoneRejectsBeforeExecution
    BY DEF PhoneInv, PhoneRejectsBeforeExecution
<1>. QED
    BY <1>1, <1>2, PhoneInductive, PTL DEF Spec

=============================================================================
