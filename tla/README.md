# Formal models of the VMAF quality runners

This directory has TLA+ models of `src/python/src/vmaf/core/quality_runner.py`,
the only source file of the repository. It holds the model-checking
configurations and TLAPS proofs that go with them. `PROJECT.json` lists:

- every component, with what is modelled;
- every run, and the mutant that shows each property can fail;
- the source lines every definition translates;
- the findings, the hazards and the theorems.

## The system

`quality_runner.py` defines quality runners. A runner is an `Executor`
subclass: `Executor` comes from `core/executor.py`, which is not in this
repository. Given a list of assets (reference/distorted video pairs), a runner
produces one `Result` per asset. A result holds:

- per-frame quality scores under the key `<TYPE>_scores`;
- usually, the feature scores it was computed from.

The `Executor` base runs `_assert_args` at construction. It then calls
`_run_on_asset` on each asset, one at a time unless the run is parallelised.
The class docstring (l. 23-56) names two ways of writing a runner. Way a keeps
the `Executor` routine: look the result up in a result store keyed by the
runner's `TYPE` and `VERSION` and the asset, else `_generate_result`,
`_read_result` and save. `PsnrQualityRunner` and `VmafossExecQualityRunner`
are written this way. Way b overrides `_run_on_asset` and bypasses that
routine: the VMAF, legacy, SSIM, MS-SSIM, STRRED and single-feature runners.

| Part | Code | What it does |
|---|---|---|
| `QualityRunner` | l. 20-78 | keys `<TYPE>_score(s)`, `_read_result` from a log |
| `PsnrQualityRunner` | l. 81-125 | runs the external `psnr`; parses `psnr: <idx> <val>` lines and asserts contiguous indices |
| `VmafLegacyQualityRunner` | l. 128-236 | assembles 4 features, rescales each into [0, 1] (`FEATURE_RESCALE_DICT`), runs an SVM per frame, applies `_post_correction` |
| `VmafQualityRunner` | l. 239-415 | loads the model to find its `feature_dict`, assembles those features, **loads the model again**, predicts, optionally transforms (polynomial and rectification) and clips |
| `VmafPhoneQualityRunner` | l. 417-432 | transform always on; rejects an explicit `enable_transform_score` |
| `VmafossExecQualityRunner` | l. 434-537 | runs the C `vmafossexec`; parses its XML, where some per-frame feature attributes may be missing |
| SSIM / MS-SSIM / STRRED / single-feature runners | l. 540-759 | republish one extracted feature under the runner's score key |

The parts interact through shared state:

- The VMAF runner reads the model file from the file system. It does so
  twice, so any writer of that file interleaves with the runner.
- The PSNR and VMAFOSSEXEC runners share the result store, and the store's
  key is the runner's identity.
- The feature assembler is an executor nested inside the VMAF runner.

## Modules

| Module | Models | State / actions |
|---|---|---|
| `ScorePostProcessor` | `_rescale`, `_post_correction`, `transform_score`, `clip_score` | pure operators on fixed-point integers |
| `VmafQualityRunner` | `VmafQualityRunner` and `VmafPhoneQualityRunner` (constant `Variant`) | see below |
| `VmafQualityRunnerProofs` | theorems about `VmafQualityRunner` | TLAPS |
| `VmafLegacyQualityRunner` | `VmafLegacyQualityRunner._run_on_asset` | `features`, `phase`, `result`; `RunOnAsset`, `RunFails` |
| `VmafLegacyQualityRunnerProofs` | theorem about the legacy runner | TLAPS |
| `RunnerIdentity` | `TYPE`, `VERSION`, `FEATURE_NAME` of every runner class; `get_scores_key`, `get_score_key`, `get_feature_scores_key`; the executor id | constants and operators |
| `QualityScoresContract` | what a log parser promises (spec 4.1, 4.6): one step from a log to its result dict or a fatal error | `log`, `outcome`; `Read` |
| `PsnrQualityRunner` | `PsnrQualityRunner._get_quality_scores` (l. 102-125) | `log`, `pos`, `counter`, `psnrScores`, `outcome`; `SkipLine`, `ReadRecord`, `IndexMismatch`, `UnparsableValue`, `NoScores`, `PublishScores` |
| `VmafossExecQualityRunner` | `VmafossExecQualityRunner._get_quality_scores` (l. 515-537) | `log`, `pos`, `scores`, `featureScores`, `outcome`; `ReadFrame`, `MissingScore`, `NoFrames`, `PublishScores` |
| `ResultStore` | PSNR and VMAFOSSEXEC runner instances sharing a result store: the option resolution of their `_generate_result`, `_read_result`, and the store itself (from the spec) | `store`, `returned`; `LoadFromStore`, `RunAndSave`, `RemoveResult` |
| `PsnrQualityRunnerProofs` | refinement proof of the PSNR parser | TLAPS |
| `VmafossExecQualityRunnerProofs` | refinement proof of the VMAFOSSEXEC parser | TLAPS |
| `ResultStoreProofs` | theorems about the store | TLAPS |
| `MC_*` | instances for TLC | constants only |

`VmafQualityRunner` has these variables:

- `optionalDict`: the runner's `optional_dict`, or `NoValue` for None;
- `modelFiles`: the file system, as path ↦ model artifact or `NoValue`;
- `runner`: the constructor's outcome;
- per asset: `phase`, the `assembled` features, the `result`;
- `usedModel`: a history variable recording the model that predicted the
  result.

It has four actions:

- `AssertArgs` is the constructor's `_assert_args`.
- `AssembleFeatures(a)` covers l. 274-303: the first `_load_model`, the
  `feature_dict` lookup with its default, and the assembler run.
- `PredictAndPublish(a)` covers l. 304-323: the second `_load_model`, the
  option lookups, `predict_with_model` and the result dict. It fails when the
  file is gone or the model needs features that were not assembled (the
  `KeyError` in `get_per_unit_xs_from_a_result`).
- `ReplaceModelFile(p, m)` is the environment writing or deleting a model
  file.

Splitting `_run_on_asset` at the second load is the one split the code
forces: the file system is read at both points, and nothing else the runner
touches is shared.

The parsers are state machines with one action per loop iteration or per
branch of the code: every `assert` is an action that sets `outcome` to
`Fatal`, and the final dict is an action of its own. Each parser is shown to
implement `QualityScoresContract`: the module instantiates the contract with
`Expected <- PsnrReference` (or `VmafossReference`), a direct statement of
what the spec says the log means, and checks `Contract!Spec` as a property.
The references are written without recursion: the value of a record is
placed by its rank, the number of matching lines (`Rank`) or frames carrying
the feature (`FrameRank`) before it, a `Cardinality` of a set of indices.
The refinement mapping is the identity on `log` and `outcome`; the parser's
loop steps are stutters of the contract and the publishing step is its
`Read`.

`ResultStore` composes the way-a runners through the store. A run of runner
instance `r` on asset `a` either finds a result under
`<<ExecutorId(TYPE), a>>` and returns it, or computes `Fresh(r, a)` and saves
it. `Fresh` is `_read_result` (l. 66-70): the result of the program run that
`_generate_result` starts, a constant `ProgramResult` of the type, the
program arguments and the asset. `ProgramArgs` is what `_generate_result`
passes: nothing for `psnr` (l. 86-99), and for `vmafossexec` the model path
(the default when absent or None), `disable_clip_score`,
`enable_transform_score`, `phone_model` and `disable_avx` (l. 464-510).
Removal of a saved result is an action of its own.

The PSNR parser also models `float()`: the pattern `[0-9.-]+` admits texts
such as `1.2.3` or `-` that `float()` rejects, so a matched record may carry
the value `Unparsable`, and `UnparsableValue` is the `ValueError` that ends
the run.

### Abstractions

- **Reals are fixed-point integers.** The integer x stands for x / `Scale`.
  The instances choose coefficients and predictions on which every operation
  is exact, so the model computes what the floating-point code computes.
- **External calls are constants.** `model.predict` is the constant operator
  `Predict(svr, asset)`, and `svm_predict` is `SvmPredict`. Feature values
  are chosen at `Init`.
- **Python values.** Dicts are functions on the keys present. `None` is
  `NoValue`. Options hold booleans or `NoValue`.

## Runs

| Run | cfg | Checks | Result |
|---|---|---|---|
| `vmaf` | `MC_Vmaf.cfg` | `ScoresWithinClip`, `RectifiedScores` | pass (≈94 000 states) |
| `phone` | `MC_Phone.cfg` | `PhoneRejectsBeforeExecution` | pass (≈59 000 states) |
| `stale_model` | `MC_StaleModel.cfg` | `ResultFromOneModel` | violation (finding 2) |
| `legacy` | `MC_Legacy.cfg` | `LegacyScoresInRange` | pass (729 states) |
| `legacy_correction` | `MC_LegacyCorrection.cfg` | `LegacyCorrectionPerSpec` | violation (finding 1) |
| `psnr` | `MC_Psnr.cfg` | `PsnrParsesPerSpec` (refinement of the contract) | pass (≈5 500 states) |
| `vmafoss` | `MC_Vmafoss.cfg` | `VmafossParsesPerSpec` (refinement of the contract) | pass (≈69 000 states) |
| `store` | `MC_Store.cfg` | `CachedResultIsFresh` | pass (≈2 400 states) |
| `store_options` | `MC_StoreOptions.cfg` | `CachedResultIsFresh` | violation (finding 3) |

### Bounds

`vmaf` and `phone` use 2 assets, 2 frames and 2 paths. They use five model
artifacts:

- default feature dict, full quadratic transform, clip [0, 100];
- features `{adm2, motion}`, `out_lte_in`, no clip;
- features `{motion}`, both flags with `out_lte_in` = 'false', clip;
- features `{vif, adm}`, no transform, no clip;
- a linear transform with both flags 'true', where `np.minimum` then
  `np.maximum` bring every score back to the prediction.

The predictions include values that the transform pushes above 100 and
below 0. The option dicts cover:

- None;
- each option absent, False or True;
- `model_filepath` set or None;
- transform and clip-disable together.

The file system starts in any assignment of models (or nothing) to the two
paths and can change between any two steps. This reaches the interesting
cases:

- scores clipped from both sides, and clipping disabled;
- rectification taking effect in both directions;
- a model with no `feature_dict`;
- a file missing at either load;
- a file replaced between the loads.

`legacy` uses 2 assets and 2 frames. The raw motion values are 10, 17 and 25,
which is below, inside and above the correction band. The SVM predictions
are -5, 77 and 150, so the final clip acts on both sides.

`psnr` enumerates every log of up to 3 lines over records with indices 0-3,
two values and an unparsable one, and an unmatched line: this reaches a skipped line before,
between and after records, a repeated and a skipped index, and the empty
log. `vmafoss` enumerates every log of up to 3 frames whose attributes are
any subset of `vmaf`, `adm2` and `motion`: a frame without `vmaf`, a
sub-feature on all, some or no frames. `store` runs two PSNR and two
VMAFOSSEXEC instances on two assets, with removals, so each identity is hit
by a second instance. Their option dicts differ (None, explicit None for the
model path, explicit False flags, an option PSNR does not read) but resolve
to the same program arguments, so the run exercises the resolution that the
hypothesis of `MemoisationSound` rests on; `store_options` gives one
VMAFOSSEXEC instance `phone_model` True.

### Fairness and deadlock

No liveness property is checked. Every `_run_on_asset` in the file is
straight-line code with no loop that waits and no retry: each step either
returns or raises, so termination holds by the shape of the code and a
liveness run would not tell a faithful model from a broken one.

The runs without an environment action (legacy, the parsers, the store) say
`CHECK_DEADLOCK FALSE`: each ends when its run ends. The VMAF runs never
deadlock because the model files can always change.

### Findings

1. **The legacy motion correction is dead code.** `_run_on_asset` passes
   the *rescaled* motion (≤ 1) to `_post_correction` (l. 198), whose
   `motion > 12.0` test (l. 211) then never holds. The spec describes a
   factor of 1.075 at motion 17. TLC publishes 77.0 where the spec's rule
   gives 82.775.
2. **The model is loaded twice per asset.** The loads are at l. 277 and
   l. 304. If the file is replaced in between, TLC finds a result whose
   features were chosen by one model and whose scores were predicted by
   another. If the new model needs a feature that was not assembled, the run
   fails instead.
3. **The store identity ignores the options.** Results are stored under
   (TYPE, VERSION), and `VERSION` (l. 449) ignores `optional_dict`, while
   VMAFOSSEXEC keeps the store routine and its
   `_generate_result` passes `model_filepath`, the two flags, `phone_model`
   and `disable_avx` to the program. A VMAFOSSEXEC run with `phone_model`
   is served the stored result of a run without it, against spec 3 and 5
   (the identity changes whenever the numeric behaviour does).

## Proofs

`VmafQualityRunnerProofs` proves four theorems (`TypeCorrect`, `ClipSafety`,
`RectifiedSafety`, `PhoneRejectSafety`) for every value of the
constants that satisfies the named `ASSUME`s of `ScorePostProcessor` and
`VmafQualityRunner`. The assumptions are:

- `Scale` is a positive natural;
- every model is a well-formed artifact, and no model is `NoValue`;
- `Predict` returns one integer per frame;
- the clip bounds satisfy lower ≤ upper;
- the default path is a path.

**`TypeCorrect`** states `Spec => []TypeOK`. `TypeOK` is inductive: the
lemma `TypeInductive` has one step per action. Its proof rests on lemmas
stating that `Polynomial`, `Rectify`, `TransformScore`, `ClipScore` and
`PredictWithModel` map integer score arrays to integer score arrays.

**`ClipSafety`** states `Spec => []ScoresWithinClip`. `ScoresWithinClip`
alone is not inductive, because it says nothing about which model a result
came from. The inductive invariant `IInv` adds two conjuncts:

- `TypeOK`;
- every published result's `usedModel` is one of `Models`, so it has a
  well-formed clip pair with lower ≤ upper.

With these, `PredictAndPublish` preserves the property by the lemma
`PredictWithModelClipped`: a clip applied last puts every score in
[lb, ub], whatever the transform did. Every other action leaves `result`
and `usedModel` unchanged.

**`RectifiedSafety`** states `Spec => []RectifiedScores`. The invariant
`RInv` adds to `TypeOK` that every published result equals
`PredictWithModel` of the model in `usedModel` with the runner's options.
`RectifiedScores` follows by the lemma `PredictWithModelRectified`:
`Rectify` puts each score on the flagged side of the untransformed one
(`RectifyBounds`), and `np.clip` is monotone (`NpClipMonotone`), so the clip
keeps that order.

**`LegacyRange`** (`VmafLegacyQualityRunnerProofs`) states
`Spec => []LegacyScoresInRange` for every scale, frame count, feature
values and integer SVM prediction: `_rescale` between distinct bounds is an
integer (`RescaleInt`), and the last branch of `_post_correction` clips to
[0, 100] (`PostCorrectionRange`). `TypeOK /\ LegacyScoresInRange` is
inductive.

**`MemoisationSound`** (`ResultStoreProofs`) states
`IdentityFixesArguments => (Spec => []CachedResultIsFresh)`. The hypothesis
is about the code's argument resolution: runner instances with equal
identity resolve their `optional_dict` to the same program arguments
(`ProgramArgs`). The lemma `ArgumentsDetermineResult` derives from it that
such instances compute the same `Fresh` result: equal `ExecutorId` gives
equal `TYPE`, and `_read_result` depends only on the type, the arguments
and the asset. `CachedResultIsFresh` alone is not inductive, because a load returns
what another instance stored, so `SInv` adds that every stored result is the
`Fresh` result of every instance whose store key it sits under. The theorem
says the store is sound exactly when the identity is collision-free in this
sense; `store_options` shows that the code's identity does not meet the
hypothesis once options differ.

**`PhoneRejectSafety`** (`VmafQualityRunnerProofs`) states
`Spec => []PhoneRejectsBeforeExecution`. The property is not inductive: a
state where the runner is still `"new"` says nothing about whether
`_assert_args` will pass. `PhoneInv` adds that no asset leaves `"idle"`
until the runner is `"ready"`, and that a phone runner is `"ready"` only
without `enable_transform_score`; `optionalDict` never changes after
construction, so the second conjunct survives every step.

**`PsnrRefinement`** (`PsnrQualityRunnerProofs`) and **`VmafossRefinement`**
(`VmafossExecQualityRunnerProofs`) state `Spec => PsnrParsesPerSpec` and
`Spec => VmafossParsesPerSpec`, the refinement of `QualityScoresContract`,
for logs of every length. The proofs show that `Init` maps to the contract's
`Init` and that every step keeps a loop invariant (`ParseInv`, `VInv`) and
is either a stutter on `<<log, outcome>>` (reading a line or a frame) or
the contract's `Read` (an assertion or `float()` failing, the empty case,
publishing).
The loop invariant is the heart of each proof:

- PSNR: `counter` is the number of records before `pos`, every record
  before `pos` has index equal to its rank and its value sits at that rank
  in `psnrScores`, and every entry of `psnrScores` comes from such a record;
- VMAFOSSEXEC: every frame before `pos` has `vmaf` and `scores` holds those
  values in order; for each sub-feature, its sequence is as long as the
  number of frames before `pos` carrying it, and entry k is the value of the
  frame of rank k.

The rank lemmas (`RankBound`, `RankFirst`, `RankStep`, `RankMonotone` and
their `FrameRank` counterparts) come from `FiniteSetTheorems`. At
publication the invariant gives the reference's sequences by function
extensionality; the reference's `CHOOSE` needs only the existence the
invariant records.

Every property of a passing run has a theorem. Liveness, `ENABLED` and
induction over recursive definitions would be out of the prover's reach;
the project states no property of those kinds. The violation runs
(`ResultFromOneModel`, `LegacyCorrectionPerSpec`, `CachedResultIsFresh`
without the argument hypothesis) are counterexamples TLC finds and are not
theorems. No module uses `RECURSIVE`.

## Not modelled

- Non-boolean option and flag values (`is True` at l. 336 and 345, the
  string `'true'` at l. 379): the instances hold Python booleans and string
  flags only, so the two hazards at those lines have no property yet.
- `_remove_result` of the VMAF, legacy and passthrough runners redirects to
  the feature assembler's per-feature store entries, and the VMAF one
  reloads the model to choose them. `ResultStore` models a runner's own
  entry only, so the stale reload at l. 414 is not checked.
- The way-b runners in `ResultStore`: they bypass the result store, and the
  SSIM, MS-SSIM, STRRED and single-feature runners only republish one
  feature computed outside this repository, with no state to interleave;
  their `TYPE` and `VERSION` are in `RunnerIdentity`.
- `_generate_result` of PSNR and VMAFOSSEXEC beyond argument resolution:
  the programs run outside this repository and appear as constants.
- A PSNR value the regex does not match (`inf`, `nan`) is an unmatched line;
  how the `psnr` program prints such a value is outside the repository.
- Feature extractors, SVM and regression internals, and the external C
  programs: pure computation or I/O outside this repository, present only
  as the constants above.
