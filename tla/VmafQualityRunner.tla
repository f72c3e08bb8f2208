-------------------------- MODULE VmafQualityRunner --------------------------
(***************************************************************************)
(* VmafQualityRunner and its subclass VmafPhoneQualityRunner               *)
(* (quality_runner.py): one runner instance, built with an optional_dict,  *)
(* run on a set of assets.  For each asset _run_on_asset loads the model   *)
(* file to read its feature_dict, runs the FeatureAssembler on it, loads   *)
(* the model file a second time, predicts and post-processes the scores.   *)
(* The model files are shared with the outside world: ReplaceModelFile is  *)
(* whatever else writes or deletes them (a retraining, a deploy) while     *)
(* the runner works.                                                       *)
(***************************************************************************)
EXTENDS Integers, ScorePostProcessor

CONSTANTS
    Variant,            \* "VMAF" (VmafQualityRunner) or "VMAF_Phone"
    Assets,             \* the assets the runner is run on
    FrameCount,         \* frames per asset
    Atoms,              \* atom features of VMAF_feature a model may select
    DefaultFeatureDict, \* DEFAULT_FEATURE_DICT
    Paths,              \* model file paths
    DefaultPath,        \* DEFAULT_MODEL_FILEPATH
    SVRs,               \* trained regressors a model artifact may carry
    Models,             \* model artifacts that can be stored at a path
    OptionalDicts,      \* the optional_dict values a caller may pass
    Predict(_, _)       \* Predict(svr, a): model.predict on asset a's features

OptionKeys == {"model_filepath", "disable_clip_score", "enable_transform_score"}
TransformKeys == {"p0", "p1", "p2", "out_lte_in", "out_gte_in"}
Frames == 1 .. FrameCount
Scores == [Frames -> Int]

(* A model artifact: the regressor and the three appended-info entries     *)
(* get_appended_info returns (NoValue when absent).  score_transform is a  *)
(* dict: its coefficients are numbers, its flags strings; score_clip is a  *)
(* pair lower <= upper, as set_clip_score writes it.                       *)
IsTransformDict(td) ==
    /\ DOMAIN td \subseteq TransformKeys
    /\ \A k \in DOMAIN td \cap {"p0", "p1", "p2"} : td[k] \in Int
    /\ \A k \in DOMAIN td \cap {"out_lte_in", "out_gte_in"} : td[k] \in STRING
IsModelArtifact(m) ==
    /\ DOMAIN m = {"svr", "feature_dict", "score_transform", "score_clip"}
    /\ m.svr \in SVRs
    /\ m.feature_dict \in (SUBSET Atoms) \cup {NoValue}
    /\ m.score_transform = NoValue \/ IsTransformDict(m.score_transform)
    /\ \/ m.score_clip = NoValue
       \/ m.score_clip \in Int \X Int /\ m.score_clip[1] <= m.score_clip[2]

ASSUME VariantAssumption == Variant \in {"VMAF", "VMAF_Phone"}
ASSUME FrameAssumption == FrameCount \in Nat \ {0}
ASSUME PathAssumption == DefaultPath \in Paths /\ NoValue \notin Paths
ASSUME FeatureAssumption == DefaultFeatureDict \subseteq Atoms
ASSUME ModelsAssumption ==
    /\ NoValue \notin Models
    /\ \A m \in Models : IsModelArtifact(m)
ASSUME OptionalDictAssumption ==
    \A od \in OptionalDicts :
       \/ od = NoValue
       \/ /\ DOMAIN od \subseteq OptionKeys
          /\ "model_filepath" \in DOMAIN od => od["model_filepath"] \in Paths \cup {NoValue}
          /\ \A k \in DOMAIN od \ {"model_filepath"} : od[k] \in BOOLEAN
ASSUME PredictAssumption == \A s \in SVRs, a \in Assets : Predict(s, a) \in Scores

VARIABLES
    optionalDict,  \* self.optional_dict, fixed when the runner is built
    modelFiles,    \* modelFiles[p]: the artifact at path p, NoValue if none
    runner,        \* "new", "ready" after _assert_args, "rejected" if it raised
    phase,         \* phase[a] of _run_on_asset(a)
    assembled,     \* assembled[a]: the feature_dict the FeatureAssembler ran
    result,        \* result[a]: the Result returned, NoValue until then
    usedModel      \* usedModel[a]: artifact that predicted result[a] (history)

vars == <<optionalDict, modelFiles, runner, phase, assembled, result, usedModel>>

Phases == {"idle", "assembled", "done", "failed"}
ResultRecord == [features : SUBSET Atoms, scores : Scores]

-----------------------------------------------------------------------------
(* optional_dict lookups: "if self.optional_dict is not None and key in    *)
(* self.optional_dict" else a default.                                     *)
HasOption(key) == optionalDict # NoValue /\ key \in DOMAIN optionalDict
Option(key, default) == IF HasOption(key) THEN optionalDict[key] ELSE default

(* _load_model: the path the model is loaded from.                         *)
ModelPath ==
    IF HasOption("model_filepath") /\ optionalDict["model_filepath"] # NoValue
    THEN optionalDict["model_filepath"]
    ELSE DefaultPath

(* Plausible bug: the model's feature_dict used without the default.     *)
FeatureDictOfNoDefault(m) == m.feature_dict

(* The feature_dict the assembler is built with, DEFAULT_FEATURE_DICT if   *)
(* the model has none.                                                     *)
FeatureDictOf(m) ==
    IF m.feature_dict = NoValue THEN DefaultFeatureDict ELSE m.feature_dict

(* _do_transform_score: the phone runner always transforms.                *)
DoTransformScore(enableTransform) ==
    IF Variant = "VMAF_Phone" THEN TRUE ELSE enableTransform = TRUE

(* Plausible bug: clip_score applied before transform_score.             *)
PredictWithModelClipFirst(m, a, disableClip, enableTransform) ==
    LET ysPred == Predict(m.svr, a)
        ysC == IF disableClip = TRUE THEN ysPred ELSE ClipScore(m.score_clip, ysPred)
    IN  IF DoTransformScore(enableTransform)
        THEN TransformScore(m.score_transform, ysC)
        ELSE ysC

(* predict_with_model(model, xs, disable_clip_score=..,                    *)
(* enable_transform_score=..): transform, then clip unless disabled.       *)
PredictWithModel(m, a, disableClip, enableTransform) ==
    LET ysPred == Predict(m.svr, a)
        ysT == IF DoTransformScore(enableTransform)
               THEN TransformScore(m.score_transform, ysPred)
               ELSE ysPred
    IN  IF disableClip = TRUE THEN ysT ELSE ClipScore(m.score_clip, ysT)

-----------------------------------------------------------------------------
Init ==
    /\ optionalDict \in OptionalDicts
    /\ modelFiles \in [Paths -> Models \cup {NoValue}]
    /\ runner = "new"
    /\ phase = [a \in Assets |-> "idle"]
    /\ assembled = [a \in Assets |-> {}]
    /\ result = [a \in Assets |-> NoValue]
    /\ usedModel = [a \in Assets |-> NoValue]

(* Plausible bug: the phone runner's _assert_args override missing.       *)
AssertArgsUnchecked ==
    /\ runner = "new"
    /\ runner' = "ready"
    /\ UNCHANGED <<optionalDict, modelFiles, phase, assembled, result, usedModel>>

(* Executor construction calls _assert_args; the phone runner's override   *)
(* raises when the caller passed enable_transform_score at all.            *)
AssertArgs ==
    /\ runner = "new"
    /\ runner' = IF Variant = "VMAF_Phone" /\ HasOption("enable_transform_score")
                 THEN "rejected" ELSE "ready"
    /\ UNCHANGED <<optionalDict, modelFiles, phase, assembled, result, usedModel>>

(* _run_on_asset up to vmaf_fassembler.run(): load the model only to read  *)
(* its feature_dict, then assemble that feature_dict.  A missing model     *)
(* file raises from TrainTestModel.from_file.                              *)
AssembleFeatures(a) ==
    /\ runner = "ready"
    /\ phase[a] = "idle"
    /\ LET m == modelFiles[ModelPath] IN
       \/ /\ m = NoValue
          /\ phase' = [phase EXCEPT ![a] = "failed"]
          /\ UNCHANGED assembled
       \/ /\ m # NoValue
          /\ phase' = [phase EXCEPT ![a] = "assembled"]
          /\ assembled' = [assembled EXCEPT ![a] = FeatureDictOf(m)]
    /\ UNCHANGED <<optionalDict, modelFiles, runner, result, usedModel>>

(* The rest of _run_on_asset: load the model again, build xs from the      *)
(* feature result (a KeyError when the model reads a feature that was not  *)
(* assembled), predict_with_model with the options, and return the Result *)
(* holding the feature scores and the quality scores.                      *)
PredictAndPublish(a) ==
    /\ phase[a] = "assembled"
    /\ LET m == modelFiles[ModelPath]
           readable == m # NoValue /\ FeatureDictOf(m) \subseteq assembled[a]
       IN
       \/ /\ ~readable
          /\ phase' = [phase EXCEPT ![a] = "failed"]
          /\ UNCHANGED <<result, usedModel>>
       \/ /\ readable
          /\ phase' = [phase EXCEPT ![a] = "done"]
          /\ result' = [result EXCEPT ![a] =
                [features |-> assembled[a],
                 scores |-> PredictWithModel(m, a,
                               Option("disable_clip_score", FALSE),
                               Option("enable_transform_score", FALSE))]]
          /\ usedModel' = [usedModel EXCEPT ![a] = m]
    /\ UNCHANGED <<optionalDict, modelFiles, runner, assembled>>

(* Something outside the runner writes an artifact to a path or deletes   *)
(* the file.                                                               *)
ReplaceModelFile(p, m) ==
    /\ modelFiles[p] # m
    /\ modelFiles' = [modelFiles EXCEPT ![p] = m]
    /\ UNCHANGED <<optionalDict, runner, phase, assembled, result, usedModel>>

Next ==
    \/ AssertArgs
    \/ \E a \in Assets : AssembleFeatures(a) \/ PredictAndPublish(a)
    \/ \E p \in Paths, m \in Models \cup {NoValue} : ReplaceModelFile(p, m)

Spec == Init /\ [][Next]_vars

-----------------------------------------------------------------------------
TypeOK ==
    /\ optionalDict \in OptionalDicts
    /\ modelFiles \in [Paths -> Models \cup {NoValue}]
    /\ runner \in {"new", "ready", "rejected"}
    /\ phase \in [Assets -> Phases]
    /\ assembled \in [Assets -> SUBSET Atoms]
    /\ result \in [Assets -> ResultRecord \cup {NoValue}]
    /\ usedModel \in [Assets -> Models \cup {NoValue}]


-----------------------------------------------------------------------------
(* The score the pipeline gives when the transform is skipped: the raw     *)
(* prediction, clipped unless clipping is disabled.                        *)
UntransformedScores(m, a, disableClip) ==
    IF disableClip = TRUE THEN Predict(m.svr, a)
    ELSE ClipScore(m.score_clip, Predict(m.svr, a))

(* Clip bounds hold on what is published: whenever clipping is not        *)
(* disabled and the model that predicted a result declares score_clip,     *)
(* every published score lies in [lower, upper], whatever the transform    *)
(* did before (predict_with_model, transform_score, clip_score).           *)
ScoresWithinClip ==
    \A a \in Assets :
       LET m == usedModel[a] IN
       /\ result[a] # NoValue
       /\ Option("disable_clip_score", FALSE) # TRUE
       /\ m.score_clip # NoValue
       => \A i \in Frames :
             /\ m.score_clip[1] <= result[a].scores[i]
             /\ result[a].scores[i] <= m.score_clip[2]

(* Rectification survives clipping: when the transform ran and the model's *)
(* score_transform sets out_lte_in (out_gte_in), no published score is     *)
(* above (below) the score the same pipeline gives without the transform  *)
(* (transform_score's np.minimum / np.maximum, then clip_score).           *)
RectifiedScores ==
    \A a \in Assets :
       LET m == usedModel[a]
           td == m.score_transform
           base == UntransformedScores(m, a, Option("disable_clip_score", FALSE))
       IN  /\ result[a] # NoValue
           /\ DoTransformScore(Option("enable_transform_score", FALSE))
           /\ td # NoValue
           => \A i \in Frames :
                 /\ FlagOn(td, "out_lte_in") => result[a].scores[i] <= base[i]
                 /\ FlagOn(td, "out_gte_in") => result[a].scores[i] >= base[i]

(* The phone runner refuses an explicit enable_transform_score before any *)
(* work: no asset is assembled, predicted or failed (_assert_args of       *)
(* VmafPhoneQualityRunner, run at construction).                           *)
PhoneRejectsBeforeExecution ==
    Variant = "VMAF_Phone" /\ HasOption("enable_transform_score")
       => \A a \in Assets : phase[a] = "idle"

(* Each result comes from one model: the features it carries are the      *)
(* feature_dict of the model that predicted its scores.  The code loads    *)
(* the model twice per asset (_get_vmaf_feature_assembler_instance and     *)
(* _run_on_asset), and the spec says model metadata is loaded once per run.*)
ResultFromOneModel ==
    \A a \in Assets :
       result[a] # NoValue => result[a].features = FeatureDictOf(usedModel[a])

=============================================================================
