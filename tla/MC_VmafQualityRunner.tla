------------------------ MODULE MC_VmafQualityRunner ------------------------
(***************************************************************************)
(* Instances of VmafQualityRunner for TLC.  Scores have one decimal        *)
(* (Scale 10); every value below keeps the transform exact.                *)
(***************************************************************************)
EXTENDS VmafQualityRunner, TLC

CONSTANTS a1, a2, pDefault, pAlt, svr1, svr2

MCAssets == {a1, a2}
MCPaths == {pDefault, pAlt}
MCSVRs == {svr1, svr2}
MCAtoms == {"vif", "adm", "motion", "adm2"}
MCDefaultFeatureDict == {"vif", "adm", "motion"}

(* Raw predictions: below the clip range, inside it and above it.          *)
MCPredict(s, a) ==
    IF s = svr1
    THEN IF a = a1 THEN <<-50, 500>> ELSE <<1500, 200>>
    ELSE IF a = a1 THEN <<20, 900>> ELSE <<1050, -10>>

(* A model without feature_dict (the default one is assembled), with the  *)
(* transform 1 + y + 0.5 y^2 and the clip [0, 100].                        *)
ModelDefault ==
    [svr |-> svr1, feature_dict |-> NoValue,
     score_transform |-> ("p0" :> 10 @@ "p1" :> 10 @@ "p2" :> 5),
     score_clip |-> <<0, 1000>>]
(* A model reading adm2, which the default feature_dict does not have,     *)
(* with 1.2 y rectified to stay at or below y, and no clip.                *)
ModelAdm2 ==
    [svr |-> svr2, feature_dict |-> {"adm2", "motion"},
     score_transform |-> ("p1" :> 12 @@ "out_lte_in" :> "true"),
     score_clip |-> NoValue]
(* A model reading only motion, with -10 + 1.5 y + 0.1 y^2 rectified to   *)
(* stay at or above y, and the clip [0, 100].                              *)
ModelMotion ==
    [svr |-> svr1, feature_dict |-> {"motion"},
     score_transform |-> ("p0" :> -100 @@ "p1" :> 15 @@ "p2" :> 1
                          @@ "out_gte_in" :> "true" @@ "out_lte_in" :> "false"),
     score_clip |-> <<0, 1000>>]
(* A model without metadata.                                               *)
ModelBare ==
    [svr |-> svr2, feature_dict |-> {"vif", "adm"},
     score_transform |-> NoValue, score_clip |-> NoValue]

(* A model whose transform 1 + 2 y sets both flags to 'true': the        *)
(* np.minimum then np.maximum bring every score back to y.                 *)
ModelBothFlags ==
    [svr |-> svr2, feature_dict |-> {"vif", "adm", "motion"},
     score_transform |-> ("p0" :> 10 @@ "p1" :> 20
                          @@ "out_lte_in" :> "true" @@ "out_gte_in" :> "true"),
     score_clip |-> <<0, 1000>>]

MCModels == {ModelDefault, ModelAdm2, ModelMotion, ModelBare, ModelBothFlags}

MCOptionalDicts ==
    { NoValue,
      "disable_clip_score" :> TRUE,
      "disable_clip_score" :> FALSE,
      "enable_transform_score" :> TRUE,
      "enable_transform_score" :> FALSE,
      "model_filepath" :> pAlt,
      "model_filepath" :> NoValue,
      "enable_transform_score" :> TRUE @@ "disable_clip_score" :> TRUE }

=============================================================================
