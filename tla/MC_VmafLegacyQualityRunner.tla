-------------------- MODULE MC_VmafLegacyQualityRunner ---------------------
(***************************************************************************)
(* Instances of VmafLegacyQualityRunner for TLC, in thousandths (Scale     *)
(* 1000), so that the rescaling and the 0.015 correction are exact.        *)
(***************************************************************************)
EXTENDS VmafLegacyQualityRunner, TLC

CONSTANTS a1, a2

MCAssets == {a1, a2}

(* Motion below the correction threshold, between the two breakpoints and  *)
(* above the cap; the other features inside their rescale bounds.          *)
MCFeatureVectors ==
    { [vif |-> 500, adm |-> 700, ansnr |-> 30000, motion |-> m]
        : m \in {10000, 17000, 25000} }

(* A regressor that grows with the rescaled motion: below 0 for the still  *)
(* frame, 77 for motion 17 and above 100 for motion 25.                    *)
MCSvmPredict(v) ==
    CASE v[4] = 500 -> -5 * Scale
      [] v[4] = 850 -> 77 * Scale
      [] OTHER      -> 150 * Scale

=============================================================================
