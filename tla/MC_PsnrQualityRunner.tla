------------------------ MODULE MC_PsnrQualityRunner ------------------------
(***************************************************************************)
(* PsnrQualityRunner for TLC: logs of up to three lines, psnr values 30.1  *)
(* and 31.4 (in tenths) or an unparsable value text, indices 0 to 3 in    *)
(* any order.                                                              *)
(***************************************************************************)
EXTENDS PsnrQualityRunner

MCValues == {301, 314}

=============================================================================
