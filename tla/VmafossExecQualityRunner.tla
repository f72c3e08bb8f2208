---------------------- MODULE VmafossExecQualityRunner ----------------------
(***************************************************************************)
(* VmafossExecQualityRunner._get_quality_scores (quality_runner.py): parse *)
(* the XML log vmafossexec wrote, frame by frame.  Each frame's 'vmaf'     *)
(* attribute is appended to the scores (a KeyError when it is missing);    *)
(* each sub-feature of FEATURES is appended to its own list when the frame *)
(* carries it and skipped otherwise.  After the loop the scores must be    *)
(* non-empty (assert); the result holds VMAFOSSEXEC_scores and, for every  *)
(* sub-feature with at least one value, VMAFOSSEXEC_<feature>_scores.      *)
(* A frame is the dict of its attributes: a function from the attribute    *)
(* names present to their values; the log is an input picked by Init.      *)
(***************************************************************************)
EXTENDS Integers, Sequences, FiniteSets, RunnerIdentity

CONSTANTS
    Features,   \* the sub-features of FEATURES the log may carry
    Values,     \* the values an attribute may carry
    MaxFrames,  \* the longest log considered
    Pending,    \* the outcome while the log is being read
    Fatal       \* a KeyError or AssertionError: the run fails

ASSUME VmafossBoundAssumption == MaxFrames \in Nat /\ "vmaf" \notin Features

Type == "VMAFOSSEXEC"
Attributes == {"vmaf"} \cup Features
Frame == UNION {[present -> Values] : present \in SUBSET Attributes}
Logs == UNION {[1 .. n -> Frame] : n \in 0 .. MaxFrames}

VARIABLES
    log,            \* the frames of root.findall('frames/frame')
    pos,            \* the next frame to read
    scores,         \* scores read so far
    featureScores,  \* featureScores[f]: feature_scores of sub-feature f
    outcome         \* Pending, Fatal, or the quality_result dict

vars == <<log, pos, scores, featureScores, outcome>>

Init ==
    /\ log \in Logs
    /\ pos = 1
    /\ scores = <<>>
    /\ featureScores = [f \in Features |-> <<>>]
    /\ outcome = Pending

(* One iteration of the frame loop: the final score, then every            *)
(* sub-feature the frame carries (the except KeyError: pass).              *)
ReadFrame ==
    LET frame == log[pos] IN
    /\ outcome = Pending
    /\ pos <= Len(log)
    /\ "vmaf" \in DOMAIN frame
    /\ scores' = Append(scores, frame["vmaf"])
    /\ featureScores' = [f \in Features |->
                            IF f \in DOMAIN frame
                            THEN Append(featureScores[f], frame[f])
                            ELSE featureScores[f]]
    /\ pos' = pos + 1
    /\ UNCHANGED <<log, outcome>>

(* frame.attrib['vmaf'] raises KeyError.                                   *)
MissingScore ==
    /\ outcome = Pending
    /\ pos <= Len(log)
    /\ "vmaf" \notin DOMAIN log[pos]
    /\ outcome' = Fatal
    /\ UNCHANGED <<log, pos, scores, featureScores>>

(* assert len(scores) != 0 fails.                                          *)
NoFrames ==
    /\ outcome = Pending
    /\ pos > Len(log)
    /\ scores = <<>>
    /\ outcome' = Fatal
    /\ UNCHANGED <<log, pos, scores, featureScores>>

(* The quality_result dict, from the final scores and the sub-feature      *)
(* lists kept: its keys are get_scores_key() and get_feature_scores_key(f).*)
QualityResult(sc, fs, kept) ==
    [k \in {ScoresKey(Type)} \cup {FeatureScoresKey(Type, f) : f \in kept} |->
        IF k = ScoresKey(Type) THEN sc
        ELSE fs[CHOOSE f \in kept : FeatureScoresKey(Type, f) = k]]

(* Plausible bug: the len(feature_scores[i_feature]) != 0 filter dropped. *)
PublishScoresUnfiltered ==
    /\ outcome = Pending
    /\ pos > Len(log)
    /\ scores # <<>>
    /\ outcome' = QualityResult(scores, featureScores, Features)
    /\ UNCHANGED <<log, pos, scores, featureScores>>

(* Build quality_result; a sub-feature without values is left out.         *)
PublishScores ==
    /\ outcome = Pending
    /\ pos > Len(log)
    /\ scores # <<>>
    /\ outcome' = QualityResult(scores, featureScores,
                                {f \in Features : featureScores[f] # <<>>})
    /\ UNCHANGED <<log, pos, scores, featureScores>>

Next == ReadFrame \/ MissingScore \/ NoFrames \/ PublishScores

Spec == Init /\ [][Next]_vars

-----------------------------------------------------------------------------
TypeOK ==
    /\ log \in Logs
    /\ pos \in 1 .. Len(log) + 1
    /\ scores \in Seq(Values)
    /\ featureScores \in [Features -> Seq(Values)]

(* The structured log format of spec 4.6, 7 and 8: fatal when there is no  *)
(* frame or a frame lacks the final score; otherwise the scores are the    *)
(* frames' final scores, and a sub-feature carried by some frames is       *)
(* published with the values of exactly those frames, in frame order.      *)
(* FrameRank(lg, f, i) is the number of frames before frame i that carry  *)
(* f, so the value of f in frame i is value number FrameRank(lg, f, i) of  *)
(* f's sequence (from 0).                                                  *)
FrameRank(lg, f, i) == Cardinality({j \in 1 .. i - 1 : f \in DOMAIN lg[j]})
VmafossReference(lg) ==
    LET n(f) == FrameRank(lg, f, Len(lg) + 1)
        Carried(f) ==
           [k \in 1 .. n(f) |->
              lg[CHOOSE i \in 1 .. Len(lg) : f \in DOMAIN lg[i] /\ FrameRank(lg, f, i) = k - 1][f]]
    IN  IF lg # <<>> /\ \A i \in 1 .. Len(lg) : "vmaf" \in DOMAIN lg[i]
        THEN QualityResult([i \in 1 .. Len(lg) |-> lg[i]["vmaf"]],
                           [f \in Features |-> Carried(f)],
                           {f \in Features : n(f) > 0})
        ELSE Fatal

Contract == INSTANCE QualityScoresContract WITH Expected <- VmafossReference

(* _get_quality_scores implements the structured log format: at the end of *)
(* the frame loop its outcome is the one the whole log determines, however *)
(* the final score and the sub-features are missing from frames.           *)
VmafossParsesPerSpec == Contract!Spec

=============================================================================
