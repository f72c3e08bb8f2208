------------------- MODULE VmafossExecQualityRunnerProofs -------------------
(***************************************************************************)
(* Proof that VmafossExecQualityRunner._get_quality_scores implements the  *)
(* one-step contract QualityScoresContract, for every log length, set of  *)
(* sub-features and value set.  The frame loop keeps one final score per  *)
(* frame read, and for every sub-feature f as many values as frames read  *)
(* carry f, the value of frame i at position FrameRank(log, f, i) + 1.     *)
(***************************************************************************)
EXTENDS VmafossExecQualityRunner, FiniteSetTheorems, SequenceTheorems, TLAPS

(* The frames before frame i that carry f form a finite set of at most    *)
(* i - 1 frames.                                                           *)
LEMMA FrameRankBound ==
    ASSUME NEW lg, NEW f, NEW i \in Nat \ {0}
    PROVE  /\ IsFiniteSet({j \in 1 .. i - 1 : f \in DOMAIN lg[j]})
           /\ FrameRank(lg, f, i) \in 0 .. i - 1
<1>1. IsFiniteSet(1 .. i - 1) /\ Cardinality(1 .. i - 1) = i - 1
    BY FS_Interval
<1>2. IsFiniteSet({j \in 1 .. i - 1 : f \in DOMAIN lg[j]})
      /\ Cardinality({j \in 1 .. i - 1 : f \in DOMAIN lg[j]}) <= i - 1
    BY <1>1, FS_Subset
<1>3. Cardinality({j \in 1 .. i - 1 : f \in DOMAIN lg[j]}) \in Nat
    BY <1>2, FS_CardinalityType
<1>. QED
    BY <1>2, <1>3 DEF FrameRank

(* No frame precedes the first.                                            *)
LEMMA FrameRankFirst ==
    ASSUME NEW lg, NEW f
    PROVE  FrameRank(lg, f, 1) = 0
<1>1. {j \in 1 .. 0 : f \in DOMAIN lg[j]} = {}
    OBVIOUS
<1>. QED
    BY <1>1, FS_EmptySet DEF FrameRank

(* Passing frame i adds one to f's rank exactly when frame i carries f.    *)
LEMMA FrameRankStep ==
    ASSUME NEW lg, NEW f, NEW i \in Nat \ {0}
    PROVE  FrameRank(lg, f, i + 1) =
              IF f \in DOMAIN lg[i] THEN FrameRank(lg, f, i) + 1 ELSE FrameRank(lg, f, i)
<1> DEFINE S == {j \in 1 .. i - 1 : f \in DOMAIN lg[j]}
<1>1. IsFiniteSet(S)
    BY FrameRankBound
<1>2. CASE f \in DOMAIN lg[i]
    <2>1. {j \in 1 .. (i + 1) - 1 : f \in DOMAIN lg[j]} = S \cup {i}
        BY <1>2
    <2>2. Cardinality(S \cup {i}) = Cardinality(S) + 1
        BY <1>1, FS_AddElement
    <2>. QED
        BY <1>2, <2>1, <2>2 DEF FrameRank
<1>3. CASE f \notin DOMAIN lg[i]
    <2>1. {j \in 1 .. (i + 1) - 1 : f \in DOMAIN lg[j]} = S
        BY <1>3
    <2>. QED
        BY <1>3, <2>1 DEF FrameRank
<1>. QED
    BY <1>2, <1>3

(* A later frame has at least the rank of an earlier one.                 *)
LEMMA FrameRankMonotone ==
    ASSUME NEW lg, NEW f, NEW i \in Nat \ {0}, NEW k \in Nat \ {0}, i <= k
    PROVE  FrameRank(lg, f, i) <= FrameRank(lg, f, k)
<1>1. {j \in 1 .. i - 1 : f \in DOMAIN lg[j]} \subseteq {j \in 1 .. k - 1 : f \in DOMAIN lg[j]}
    OBVIOUS
<1>2. IsFiniteSet({j \in 1 .. k - 1 : f \in DOMAIN lg[j]})
    BY FrameRankBound
<1>. QED
    BY <1>1, <1>2, FS_Subset DEF FrameRank

(* Every log Init may pick is a sequence of frames no longer than         *)
(* MaxFrames.                                                              *)
LEMMA LogIsSeq ==
    ASSUME NEW lg \in Logs
    PROVE  /\ lg \in Seq(Frame)
           /\ Len(lg) \in 0 .. MaxFrames
<1>1. PICK n \in 0 .. MaxFrames : lg \in [1 .. n -> Frame]
    BY DEF Logs
<1>2. lg \in Seq(Frame)
    BY <1>1, VmafossBoundAssumption, SeqDef
<1>3. DOMAIN lg = 1 .. Len(lg) /\ Len(lg) \in Nat
    BY <1>2, LenProperties
<1>. QED
    BY <1>1, <1>2, <1>3

(* Every attribute a frame carries has a value.                           *)
LEMMA FrameValues ==
    ASSUME NEW fr \in Frame, NEW x \in DOMAIN fr
    PROVE  fr[x] \in Values
BY DEF Frame

-----------------------------------------------------------------------------
(* The loop invariant: one final score per frame read, every frame read   *)
(* had one; for each sub-feature f, one value per frame read carrying f,  *)
(* frame i's value at position FrameRank(log, f, i) + 1, and every        *)
(* position filled by some frame; once the parser decides, its outcome is *)
(* the contract's.                                                         *)
VInv ==
    /\ TypeOK
    /\ Len(scores) = pos - 1
    /\ \A i \in 1 .. pos - 1 : "vmaf" \in DOMAIN log[i] /\ scores[i] = log[i]["vmaf"]
    /\ \A f \in Features : Len(featureScores[f]) = FrameRank(log, f, pos)
    /\ \A f \in Features, i \in 1 .. pos - 1 :
          f \in DOMAIN log[i] => featureScores[f][FrameRank(log, f, i) + 1] = log[i][f]
    /\ \A f \in Features : \A k \in 1 .. Len(featureScores[f]) :
          \E i \in 1 .. pos - 1 : f \in DOMAIN log[i] /\ FrameRank(log, f, i) = k - 1
    /\ outcome # Pending => outcome = VmafossReference(log)

LEMMA VInit == Init => VInv
<1> SUFFICES ASSUME Init PROVE VInv
    OBVIOUS
<1>1. log \in Seq(Frame) /\ Len(log) \in 0 .. MaxFrames
    BY LogIsSeq DEF Init
<1>2. \A f \in Features : FrameRank(log, f, 1) = 0
    BY FrameRankFirst
<1>3. featureScores \in [Features -> Seq(Values)] /\ \A f \in Features : featureScores[f] = <<>>
    BY DEF Init
<1>. QED
    BY <1>1, <1>2, <1>3, EmptySeq DEF Init, VInv, TypeOK

(* A frame with its final score appends it, and appends each sub-feature *)
(* it carries at that sub-feature's rank.                                 *)
LEMMA ReadFrameStep ==
    ASSUME VInv, ReadFrame
    PROVE  VInv' /\ UNCHANGED <<log, outcome>>
<1>1. log \in Seq(Frame) /\ Len(log) \in 0 .. MaxFrames
    BY LogIsSeq DEF VInv, TypeOK
<1> DEFINE frame == log[pos]
<1>2. /\ pos \in 1 .. Len(log) /\ pos' = pos + 1 /\ pos \in Nat \ {0}
      /\ "vmaf" \in DOMAIN frame
      /\ scores' = Append(scores, frame["vmaf"])
      /\ featureScores' = [f \in Features |->
                              IF f \in DOMAIN frame
                              THEN Append(featureScores[f], frame[f])
                              ELSE featureScores[f]]
      /\ UNCHANGED <<log, outcome>>
    BY <1>1 DEF ReadFrame, VInv, TypeOK
<1>3. frame \in Frame
    BY <1>1, <1>2, ElementOfSeq
<1>4. scores \in Seq(Values) /\ featureScores \in [Features -> Seq(Values)]
    BY DEF VInv, TypeOK
<1>5. /\ scores' \in Seq(Values)
      /\ Len(scores') = pos
      /\ scores'[pos] = frame["vmaf"]
      /\ \A i \in 1 .. pos - 1 : scores'[i] = scores[i]
    <2>1. frame["vmaf"] \in Values
        BY <1>2, <1>3, FrameValues
    <2>. QED
        BY <1>2, <1>4, <2>1, AppendProperties DEF VInv
<1>6. ASSUME NEW f \in Features
      PROVE  /\ featureScores'[f] \in Seq(Values)
             /\ Len(featureScores'[f]) = FrameRank(log, f, pos + 1)
             /\ \A r \in 1 .. Len(featureScores[f]) : featureScores'[f][r] = featureScores[f][r]
             /\ f \in DOMAIN frame => featureScores'[f][FrameRank(log, f, pos) + 1] = frame[f]
    <2>1. Len(featureScores[f]) = FrameRank(log, f, pos)
        BY DEF VInv
    <2>2. FrameRank(log, f, pos + 1) =
             IF f \in DOMAIN frame THEN FrameRank(log, f, pos) + 1 ELSE FrameRank(log, f, pos)
        BY <1>2, FrameRankStep
    <2>3. CASE f \in DOMAIN frame
        <3>1. frame[f] \in Values
            BY <1>3, <2>3, FrameValues
        <3>2. featureScores'[f] = Append(featureScores[f], frame[f])
            BY <1>2, <2>3
        <3>. QED
            BY <1>4, <2>1, <2>2, <2>3, <3>1, <3>2, AppendProperties
    <2>4. CASE f \notin DOMAIN frame
        <3>1. featureScores'[f] = featureScores[f]
            BY <1>2, <2>4
        <3>. QED
            BY <1>4, <2>1, <2>2, <2>4, <3>1
    <2>. QED
        BY <2>3, <2>4
<1>7. TypeOK'
    <2>1. featureScores' \in [Features -> Seq(Values)]
        BY <1>2, <1>6
    <2>. QED
        BY <1>1, <1>2, <1>5, <2>1 DEF VInv, TypeOK
<1>8. \A i \in 1 .. pos' - 1 : "vmaf" \in DOMAIN log'[i] /\ scores'[i] = log'[i]["vmaf"]
    BY <1>2, <1>5 DEF VInv
<1>9. ASSUME NEW f \in Features, NEW i \in 1 .. pos' - 1, f \in DOMAIN log'[i]
      PROVE  featureScores'[f][FrameRank(log', f, i) + 1] = log'[i][f]
    <2>1. CASE i = pos
        BY <1>2, <1>6, <1>9, <2>1
    <2>2. CASE i # pos
        <3>0. i \in 1 .. pos - 1 /\ i \in Nat \ {0} /\ i + 1 \in Nat \ {0} /\ f \in DOMAIN log[i]
            BY <1>2, <1>9, <2>2
        <3>1. FrameRank(log, f, i + 1) = FrameRank(log, f, i) + 1
            BY <3>0, FrameRankStep
        <3>2. FrameRank(log, f, i + 1) <= FrameRank(log, f, pos)
            BY <1>2, <3>0, FrameRankMonotone
        <3>3. FrameRank(log, f, i) \in 0 .. i - 1
            BY <3>0, FrameRankBound
        <3>4. FrameRank(log, f, i) + 1 \in 1 .. Len(featureScores[f])
            BY <3>1, <3>2, <3>3 DEF VInv
        <3>5. featureScores[f][FrameRank(log, f, i) + 1] = log[i][f]
            BY <3>0 DEF VInv
        <3>. QED
            BY <1>2, <1>6, <3>4, <3>5
    <2>. QED
        BY <2>1, <2>2
<1>10. ASSUME NEW f \in Features, NEW k \in 1 .. Len(featureScores'[f])
       PROVE  \E i \in 1 .. pos' - 1 : f \in DOMAIN log'[i] /\ FrameRank(log', f, i) = k - 1
    <2>1. CASE k \in 1 .. Len(featureScores[f])
        <3>1. PICK i \in 1 .. pos - 1 : f \in DOMAIN log[i] /\ FrameRank(log, f, i) = k - 1
            BY <2>1 DEF VInv
        <3>. QED
            BY <1>2, <3>1
    <2>2. CASE k \notin 1 .. Len(featureScores[f])
        <3>1. Len(featureScores[f]) = FrameRank(log, f, pos)
            BY DEF VInv
        <3>2. FrameRank(log, f, pos) \in 0 .. pos - 1
            BY <1>2, FrameRankBound
        <3>3. FrameRank(log, f, pos + 1) =
                 IF f \in DOMAIN frame THEN FrameRank(log, f, pos) + 1 ELSE FrameRank(log, f, pos)
            BY <1>2, FrameRankStep
        <3>4. f \in DOMAIN frame /\ k = FrameRank(log, f, pos) + 1
            BY <1>6, <1>10, <2>2, <3>1, <3>2, <3>3
        <3>. QED
            BY <1>2, <3>2, <3>4
    <2>. QED
        BY <2>1, <2>2
<1>11. \A f \in Features : Len(featureScores'[f]) = FrameRank(log', f, pos')
    BY <1>2, <1>6
<1>12. (outcome # Pending => outcome = VmafossReference(log))'
    BY <1>2 DEF VInv
<1>13. Len(scores') = pos' - 1
    BY <1>2, <1>5
<1>. QED
    BY <1>2, <1>7, <1>8, <1>9, <1>10, <1>11, <1>12, <1>13 DEF VInv

(* A frame without the final score makes the whole log fatal.             *)
LEMMA MissingScoreStep ==
    ASSUME VInv, MissingScore
    PROVE  VInv' /\ outcome' = VmafossReference(log) /\ UNCHANGED log
<1>1. /\ pos \in 1 .. Len(log) /\ "vmaf" \notin DOMAIN log[pos]
      /\ outcome' = Fatal
      /\ UNCHANGED <<log, pos, scores, featureScores>>
    BY DEF MissingScore, VInv, TypeOK
<1>2. VmafossReference(log) = Fatal
    BY <1>1 DEF VmafossReference
<1>3. TypeOK'
    BY <1>1 DEF VInv, TypeOK
<1>. QED
    BY <1>1, <1>2, <1>3 DEF VInv

(* An empty log is fatal.                                                  *)
LEMMA NoFramesStep ==
    ASSUME VInv, NoFrames
    PROVE  VInv' /\ outcome' = VmafossReference(log) /\ UNCHANGED log
<1>1. log \in Seq(Frame) /\ Len(log) \in 0 .. MaxFrames
    BY LogIsSeq DEF VInv, TypeOK
<1>2. /\ pos > Len(log) /\ scores = <<>>
      /\ outcome' = Fatal
      /\ UNCHANGED <<log, pos, scores, featureScores>>
    BY DEF NoFrames
<1>3. log = <<>>
    <2>1. Len(scores) = 0 /\ Len(scores) = pos - 1
        BY <1>2, EmptySeq DEF VInv
    <2>2. Len(log) = 0
        BY <1>1, <1>2, <2>1 DEF VInv, TypeOK
    <2>. QED
        BY <1>1, <2>2, EmptySeq, LenProperties
<1>4. VmafossReference(log) = Fatal
    BY <1>3 DEF VmafossReference
<1>5. TypeOK'
    BY <1>2 DEF VInv, TypeOK
<1>. QED
    BY <1>2, <1>4, <1>5 DEF VInv

(* A log read to the end publishes the final scores and, for each         *)
(* sub-feature carried by some frame, the values of exactly those frames. *)
LEMMA PublishScoresStep ==
    ASSUME VInv, PublishScores
    PROVE  VInv' /\ outcome' = VmafossReference(log) /\ UNCHANGED log
<1>1. log \in Seq(Frame) /\ Len(log) \in 0 .. MaxFrames
    BY LogIsSeq DEF VInv, TypeOK
<1>2. /\ pos = Len(log) + 1 /\ scores # <<>>
      /\ outcome' = QualityResult(scores, featureScores,
                                  {f \in Features : featureScores[f] # <<>>})
      /\ UNCHANGED <<log, pos, scores, featureScores>>
    BY <1>1 DEF PublishScores, VInv, TypeOK
<1>3. scores \in Seq(Values) /\ featureScores \in [Features -> Seq(Values)]
    BY DEF VInv, TypeOK
<1>4. log # <<>>
    <2>1. Len(scores) # 0
        BY <1>2, <1>3, EmptySeq
    <2>. QED
        BY <1>1, <1>2, <2>1 DEF VInv
<1>5. \A i \in 1 .. Len(log) : "vmaf" \in DOMAIN log[i]
    BY <1>2 DEF VInv
<1>6. scores = [i \in 1 .. Len(log) |-> log[i]["vmaf"]]
    <2>1. scores \in [1 .. Len(log) -> Values]
        BY <1>2, <1>3, LenProperties DEF VInv
    <2>2. \A i \in 1 .. Len(log) : scores[i] = log[i]["vmaf"]
        BY <1>2 DEF VInv
    <2>. QED
        BY <2>1, <2>2, Zenon
<1> DEFINE n(f) == FrameRank(log, f, Len(log) + 1)
           Pick(f, k) == CHOOSE i \in 1 .. Len(log) : f \in DOMAIN log[i] /\ FrameRank(log, f, i) = k - 1
           Carried(f) == [k \in 1 .. n(f) |-> log[Pick(f, k)][f]]
<1>7. ASSUME NEW f \in Features
      PROVE  featureScores[f] = Carried(f)
    <2>1. Len(featureScores[f]) = n(f)
        BY <1>2 DEF VInv
    <2>2. ASSUME NEW k \in 1 .. n(f)
          PROVE  log[Pick(f, k)][f] = featureScores[f][k]
        <3>1. \E i \in 1 .. Len(log) : f \in DOMAIN log[i] /\ FrameRank(log, f, i) = k - 1
            BY <1>2, <2>1 DEF VInv
        <3>2. Pick(f, k) \in 1 .. Len(log) /\ f \in DOMAIN log[Pick(f, k)]
              /\ FrameRank(log, f, Pick(f, k)) = k - 1
            BY <3>1
        <3>3. featureScores[f][FrameRank(log, f, Pick(f, k)) + 1] = log[Pick(f, k)][f]
            BY <1>2, <3>2 DEF VInv
        <3>. QED
            BY <3>2, <3>3
    <2>3. featureScores[f] \in [1 .. n(f) -> Values]
        BY <1>3, <2>1, LenProperties
    <2>. QED
        BY <2>2, <2>3, Zenon
<1>8. featureScores = [f \in Features |-> Carried(f)]
    BY <1>3, <1>7
<1>9. {f \in Features : featureScores[f] # <<>>} = {f \in Features : n(f) > 0}
    <2>1. ASSUME NEW f \in Features
          PROVE  featureScores[f] # <<>> <=> n(f) > 0
        <3>1. Len(featureScores[f]) = n(f) /\ featureScores[f] \in Seq(Values)
            BY <1>2, <1>3 DEF VInv
        <3>. QED
            BY <3>1, EmptySeq, LenProperties
    <2>. QED
        BY <2>1
<1>10. VmafossReference(log) =
          QualityResult([i \in 1 .. Len(log) |-> log[i]["vmaf"]],
                        [f \in Features |-> Carried(f)],
                        {f \in Features : n(f) > 0})
    BY <1>4, <1>5 DEF VmafossReference
<1>11. TypeOK'
    BY <1>2 DEF VInv, TypeOK
<1>12. outcome' = VmafossReference(log)
    BY <1>2, <1>6, <1>8, <1>9, <1>10
<1>13. VInv'
    BY <1>2, <1>11, <1>12 DEF VInv
<1>. QED
    BY <1>2, <1>12, <1>13

(* Every step of the parser keeps the loop invariant and is a step of the *)
(* contract: reading a frame leaves log and outcome alone, and the three  *)
(* steps that decide are the contract's Read.                             *)
LEMMA VmafossStep ==
    VInv /\ [Next]_vars => VInv' /\ [Contract!Read]_<<log, outcome>>
<1> SUFFICES ASSUME VInv, [Next]_vars
             PROVE  VInv' /\ [Contract!Read]_<<log, outcome>>
    OBVIOUS
<1>1. CASE ReadFrame
    BY <1>1, ReadFrameStep
<1>2. CASE MissingScore
    <2>1. outcome = Pending
        BY <1>2 DEF MissingScore
    <2>. QED
        BY <1>2, <2>1, MissingScoreStep DEF Contract!Read
<1>3. CASE NoFrames
    <2>1. outcome = Pending
        BY <1>3 DEF NoFrames
    <2>. QED
        BY <1>3, <2>1, NoFramesStep DEF Contract!Read
<1>4. CASE PublishScores
    <2>1. outcome = Pending
        BY <1>4 DEF PublishScores
    <2>. QED
        BY <1>4, <2>1, PublishScoresStep DEF Contract!Read
<1>5. CASE UNCHANGED vars
    BY <1>5 DEF vars, VInv, TypeOK
<1>. QED
    BY <1>1, <1>2, <1>3, <1>4, <1>5 DEF Next

(* VmafossExecQualityRunner._get_quality_scores implements the structured *)
(* log format of the spec (the one-step contract VmafossParsesPerSpec):   *)
(* for every log, fatal when it is empty or a frame lacks vmaf, else the  *)
(* final scores and, for each sub-feature carried by some frame, the      *)
(* values of exactly the frames that carry it, in frame order.            *)
THEOREM VmafossRefinement == Spec => VmafossParsesPerSpec
<1>1. Init => VInv /\ Contract!Init
    BY VInit DEF Init, Contract!Init
<1>2. VInv /\ [Next]_vars => VInv' /\ [Contract!Read]_<<log, outcome>>
    BY VmafossStep
<1>. QED
    BY <1>1, <1>2, PTL DEF Spec, VmafossParsesPerSpec, Contract!Spec

=============================================================================
