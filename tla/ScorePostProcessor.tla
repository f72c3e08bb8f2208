------------------------- MODULE ScorePostProcessor -------------------------
(***************************************************************************)
(* The numeric post-processing of quality_runner.py: feature rescaling     *)
(* and the legacy post-SVM correction (VmafLegacyQualityRunner), the       *)
(* polynomial transform with rectification and the clip of the general     *)
(* regression path (VmafQualityRunner).                                    *)
(*                                                                         *)
(* Reals are fixed-point integers: the integer x stands for x / Scale.     *)
(* A product of two scaled values is divided by Scale once.  Division      *)
(* rounds down; the runs choose values on which every operation is exact,  *)
(* so the model computes what the floating-point code computes.            *)
(* Sequences of scores (numpy arrays) are functions on 1..n and every      *)
(* numpy elementwise operation is a function built pointwise.              *)
(***************************************************************************)
EXTENDS Integers

CONSTANTS
    Scale,     \* fixed-point denominator
    NoValue    \* Python None: an absent metadata entry or option

ASSUME ScaleAssumption == Scale \in Nat \ {0}

\* np.maximum / np.minimum of two scalars.
Maximum(x, y) == IF x >= y THEN x ELSE y
Minimum(x, y) == IF x <= y THEN x ELSE y

\* np.clip(v, lb, ub), which numpy computes as minimum(maximum(v, lb), ub).
NpClip(v, lb, ub) == Minimum(Maximum(v, lb), ub)

-----------------------------------------------------------------------------
(* VmafLegacyQualityRunner._rescale: clip into [lb, ub], then map to       *)
(* [0, 1] by (v - lb) / (ub - lb), for one element of the array.           *)
Rescale(v, lb, ub) == ((NpClip(v, lb, ub) - lb) * Scale) \div (ub - lb)

(* The factor (val - 12) * 0.015 + 1 of _post_correction, with val capped  *)
(* at 20; 0.015 is 15 / 1000.                                              *)
CorrectionFactor(motion) ==
    LET val == IF motion > 20 * Scale THEN 20 * Scale ELSE motion
    IN  ((val - 12 * Scale) * 15) \div 1000 + Scale

(* Plausible bug: the [0, 100] clip indented into the motion branch.      *)
PostCorrectionClipInside(motion, score) ==
    IF motion > 12 * Scale
    THEN LET corrected == (score * CorrectionFactor(motion)) \div Scale
         IN  IF corrected > 100 * Scale THEN 100 * Scale
             ELSE IF corrected < 0 THEN 0
             ELSE corrected
    ELSE score

(* VmafLegacyQualityRunner._post_correction(motion, score): scale the      *)
(* score up when motion exceeds 12, then clip it into [0, 100].            *)
PostCorrection(motion, score) ==
    LET corrected == IF motion > 12 * Scale
                     THEN (score * CorrectionFactor(motion)) \div Scale
                     ELSE score
    IN  IF corrected > 100 * Scale THEN 100 * Scale
        ELSE IF corrected < 0 THEN 0
        ELSE corrected

-----------------------------------------------------------------------------
(* The score_transform metadata is a dict: a function whose domain is the  *)
(* keys present.  A missing coefficient adds nothing to y_out.             *)
Coef(td, k) == IF k \in DOMAIN td THEN td[k] ELSE 0

(* y_out = p0 + p1 * y_in + p2 * y_in * y_in, accumulated from zeros.      *)
Polynomial(td, y) ==
    Coef(td, "p0") + (Coef(td, "p1") * y) \div Scale
                   + (Coef(td, "p2") * y * y) \div (Scale * Scale)

(* A rectification flag is on only when its value is the string 'true'.   *)
FlagOn(td, k) == k \in DOMAIN td /\ td[k] = "true"

(* Plausible bug: np.maximum and np.minimum swapped in the rectification. *)
RectifySwapped(td, yOut, yIn) ==
    LET lte == IF FlagOn(td, "out_lte_in") THEN Maximum(yOut, yIn) ELSE yOut
    IN  IF FlagOn(td, "out_gte_in") THEN Minimum(lte, yIn) ELSE lte

(* out_lte_in first (np.minimum), then out_gte_in (np.maximum).            *)
Rectify(td, yOut, yIn) ==
    LET lte == IF FlagOn(td, "out_lte_in") THEN Minimum(yOut, yIn) ELSE yOut
    IN  IF FlagOn(td, "out_gte_in") THEN Maximum(lte, yIn) ELSE lte

(* VmafQualityRunner.transform_score(model, ys_pred), given the model's    *)
(* score_transform entry td (NoValue when the model has none).             *)
TransformScore(td, ys) ==
    IF td = NoValue THEN ys
    ELSE [i \in DOMAIN ys |-> Rectify(td, Polynomial(td, ys[i]), ys[i])]

(* VmafQualityRunner.clip_score(model, ys_pred), given the model's         *)
(* score_clip entry sc = <<lb, ub>> (NoValue when the model has none).     *)
ClipScore(sc, ys) ==
    IF sc = NoValue THEN ys
    ELSE [i \in DOMAIN ys |-> NpClip(ys[i], sc[1], sc[2])]

=============================================================================
