---------------------------- MODULE ResultStore ----------------------------
(***************************************************************************)
(* The runners of quality_runner.py that take Executor's regular routine   *)
(* (QualityRunner docstring, way a): PsnrQualityRunner and                 *)
(* VmafossExecQualityRunner.  Several instances share one result store: a *)
(* run of runner r on asset a first looks the store up under (a, r's       *)
(* identity); on a miss _generate_result calls the external program with  *)
(* the arguments r's optional_dict resolves to, and _read_result turns its *)
(* log into a Result, which is saved.  The identity is the (TYPE, VERSION) *)
(* pair of RunnerIdentity.  The runners that override _run_on_asset (way   *)
(* b) bypass this routine and the store.  Executor and ResultStore are not *)
(* part of this repository: the lookup, the save and the removal are      *)
(* modelled from the spec.                                                 *)
(***************************************************************************)
EXTENDS Integers, RunnerIdentity

CONSTANTS
    Runners,            \* the runner instances built by the caller
    TypeOf(_),          \* TYPE of a runner instance's class
    OptionsOf(_),       \* its optional_dict, NoValue for None
    Assets,             \* the assets runs are made on
    ProgramResult(_, _, _), \* the dict _get_quality_scores reads from the log
                        \* the program wrote for (TYPE, arguments, asset)
    DefaultModelPath,   \* VmafossExecQualityRunner.DEFAULT_MODEL_FILEPATH
    NoValue             \* None, and an absent store entry

(* The classes whose results go through the store.                         *)
StoreTypes == {"PSNR", "VMAFOSSEXEC"}

ASSUME RunnerTypeAssumption == \A r \in Runners : TypeOf(r) \in StoreTypes

VARIABLES
    store,     \* store[<<id, a>>]: the saved result, NoValue if none
    returned   \* returned[r][a]: the result the run of r on a returned

vars == <<store, returned>>

StoreKey(r, a) == <<ExecutorId(TypeOf(r)), a>>
StoreKeys == {StoreKey(r, a) : r \in Runners, a \in Assets}

-----------------------------------------------------------------------------
(* optional_dict[key] if optional_dict is not None and has key, else the   *)
(* default.                                                                *)
Opt(od, key, default) ==
    IF od # NoValue /\ key \in DOMAIN od THEN od[key] ELSE default

(* Plausible bug: the "is not None" test on model_filepath dropped.       *)
VmafossExecArgsNoneKept(od) ==
    <<Opt(od, "model_filepath", DefaultModelPath),
      Opt(od, "disable_clip_score", FALSE),
      Opt(od, "enable_transform_score", FALSE),
      Opt(od, "phone_model", FALSE),
      Opt(od, "disable_avx", FALSE)>>

(* The arguments VmafossExecQualityRunner._generate_result passes to       *)
(* call_vmafossexec besides the asset's files: the model path (the default *)
(* when absent or None), disable_clip_score, enable_transform_score,       *)
(* phone_model and disable_avx (False when absent).                        *)
VmafossExecArgs(od) ==
    <<IF Opt(od, "model_filepath", NoValue) # NoValue
      THEN od["model_filepath"] ELSE DefaultModelPath,
      Opt(od, "disable_clip_score", FALSE),
      Opt(od, "enable_transform_score", FALSE),
      Opt(od, "phone_model", FALSE),
      Opt(od, "disable_avx", FALSE)>>

(* The program arguments a runner's options resolve to: call_psnr takes    *)
(* none of them.                                                           *)
ProgramArgs(r) ==
    IF TypeOf(r) = "VMAFOSSEXEC" THEN VmafossExecArgs(OptionsOf(r)) ELSE <<>>

(* QualityRunner._read_result after _generate_result: a Result of the      *)
(* asset, the runner's executor_id and the dict parsed from the log.       *)
Fresh(r, a) ==
    [asset |-> a, executor_id |-> ExecutorId(TypeOf(r)),
     result |-> ProgramResult(TypeOf(r), ProgramArgs(r), a)]

-----------------------------------------------------------------------------
Init ==
    /\ store = [k \in StoreKeys |-> NoValue]
    /\ returned = [r \in Runners |-> [a \in Assets |-> NoValue]]

(* A run finds a result saved under (a, identity) and returns it.          *)
LoadFromStore(r, a) ==
    /\ returned[r][a] = NoValue
    /\ store[StoreKey(r, a)] # NoValue
    /\ returned' = [returned EXCEPT ![r][a] = store[StoreKey(r, a)]]
    /\ UNCHANGED store

(* A run finds nothing: _generate_result, _read_result, and the save.      *)
RunAndSave(r, a) ==
    /\ returned[r][a] = NoValue
    /\ store[StoreKey(r, a)] = NoValue
    /\ store' = [store EXCEPT ![StoreKey(r, a)] = Fresh(r, a)]
    /\ returned' = [returned EXCEPT ![r][a] = Fresh(r, a)]

(* remove_results: the saved result of (a, identity) is deleted.           *)
RemoveResult(r, a) ==
    /\ store[StoreKey(r, a)] # NoValue
    /\ store' = [store EXCEPT ![StoreKey(r, a)] = NoValue]
    /\ UNCHANGED returned

Next ==
    \E r \in Runners, a \in Assets :
       LoadFromStore(r, a) \/ RunAndSave(r, a) \/ RemoveResult(r, a)

Spec == Init /\ [][Next]_vars

-----------------------------------------------------------------------------
(* Memoisation is sound: every result a run returns, from the store or     *)
(* computed, is the one this runner instance's own options give for the   *)
(* asset (spec 3 and 5: the identity is collision-free and                 *)
(* changes whenever the numeric behaviour does).                           *)
CachedResultIsFresh ==
    \A r \in Runners, a \in Assets :
       returned[r][a] # NoValue => returned[r][a] = Fresh(r, a)

(* The hypothesis memoisation rests on: runner instances with the same    *)
(* identity resolve their optional_dict to the same program arguments.    *)
(* MC_Store satisfies it with option dicts that differ but resolve alike;  *)
(* in MC_StoreOptions two VMAFOSSEXEC instances differ in phone_model.     *)
IdentityFixesArguments ==
    \A r1, r2 \in Runners :
       ExecutorId(TypeOf(r1)) = ExecutorId(TypeOf(r2)) => ProgramArgs(r1) = ProgramArgs(r2)

=============================================================================
