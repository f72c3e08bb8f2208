---------------------------- MODULE MC_ResultStore ----------------------------
(***************************************************************************)
(* ResultStore for TLC: two PSNR and two VMAFOSSEXEC instances on two      *)
(* assets.  The runs MC_Store and MC_StoreOptions differ only in the       *)
(* optional_dict of the second VMAFOSSEXEC instance.  The program's output *)
(* is the tuple of its inputs: two results are equal only when computed    *)
(* from the same inputs.                                                   *)
(***************************************************************************)
EXTENDS ResultStore

CONSTANTS rPsnr1, rPsnr2, rOss1, rOss2, a1, a2

MCRunners == {rPsnr1, rPsnr2, rOss1, rOss2}
MCAssets == {a1, a2}
MCTypeOf(r) == IF r \in {rOss1, rOss2} THEN "VMAFOSSEXEC" ELSE "PSNR"
MCProgramResult(type, args, a) == <<type, args, a>>

(* Option dicts that differ but resolve to the same arguments: None, and   *)
(* explicit defaults (model_filepath None, the flags False); the second    *)
(* PSNR instance carries an option psnr never reads.                       *)
MCSameArgsOptions(r) ==
    CASE r = rOss1 -> NoValue
      [] r = rOss2 -> [model_filepath |-> NoValue, disable_clip_score |-> FALSE,
                       phone_model |-> FALSE]
      [] r = rPsnr2 -> [phone_model |-> TRUE]
      [] OTHER -> NoValue

(* The second VMAFOSSEXEC instance asks for the phone model.               *)
MCOtherOptions(r) ==
    CASE r = rOss2 -> [phone_model |-> TRUE]
      [] OTHER -> NoValue

=============================================================================
