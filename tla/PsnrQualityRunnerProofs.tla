----------------------- MODULE PsnrQualityRunnerProofs -----------------------
(***************************************************************************)
(* Proof that PsnrQualityRunner._get_quality_scores implements the one-    *)
(* step contract QualityScoresContract, for every log length and value    *)
(* set.  The argument rests on Rank(log, i), the number of records before  *)
(* line i: the loop keeps counter equal to Rank(log, pos), and every       *)
(* record it has passed carries its rank as index and has its value at    *)
(* that rank of psnr_scores.                                              *)
(***************************************************************************)
EXTENDS PsnrQualityRunner, FiniteSetTheorems, SequenceTheorems, TLAPS

(* The records before line i form a finite set of at most i - 1 lines.   *)
LEMMA RankBound ==
    ASSUME NEW lg, NEW i \in Nat \ {0}
    PROVE  /\ IsFiniteSet({j \in 1 .. i - 1 : IsPsnrLine(lg[j])})
           /\ Rank(lg, i) \in 0 .. i - 1
<1>1. IsFiniteSet(1 .. i - 1) /\ Cardinality(1 .. i - 1) = i - 1
    BY FS_Interval
<1>2. {j \in 1 .. i - 1 : IsPsnrLine(lg[j])} \subseteq 1 .. i - 1
    OBVIOUS
<1>3. IsFiniteSet({j \in 1 .. i - 1 : IsPsnrLine(lg[j])})
      /\ Cardinality({j \in 1 .. i - 1 : IsPsnrLine(lg[j])}) <= i - 1
    BY <1>1, <1>2, FS_Subset
<1>4. Cardinality({j \in 1 .. i - 1 : IsPsnrLine(lg[j])}) \in Nat
    BY <1>3, FS_CardinalityType
<1>. QED
    BY <1>3, <1>4 DEF Rank

(* No record precedes the first line.                                     *)
LEMMA RankFirst ==
    ASSUME NEW lg
    PROVE  Rank(lg, 1) = 0
<1>1. {j \in 1 .. 0 : IsPsnrLine(lg[j])} = {}
    OBVIOUS
<1>. QED
    BY <1>1, FS_EmptySet DEF Rank

(* Passing line i adds one to the rank exactly when line i is a record.   *)
LEMMA RankStep ==
    ASSUME NEW lg, NEW i \in Nat \ {0}
    PROVE  Rank(lg, i + 1) = IF IsPsnrLine(lg[i]) THEN Rank(lg, i) + 1 ELSE Rank(lg, i)
<1> DEFINE S == {j \in 1 .. i - 1 : IsPsnrLine(lg[j])}
<1>1. IsFiniteSet(S)
    BY RankBound
<1>2. i \notin S
    OBVIOUS
<1>3. CASE IsPsnrLine(lg[i])
    <2>1. {j \in 1 .. (i + 1) - 1 : IsPsnrLine(lg[j])} = S \cup {i}
        BY <1>3
    <2>2. Cardinality(S \cup {i}) = Cardinality(S) + 1
        BY <1>1, <1>2, FS_AddElement
    <2>. QED
        BY <1>3, <2>1, <2>2 DEF Rank
<1>4. CASE ~IsPsnrLine(lg[i])
    <2>1. {j \in 1 .. (i + 1) - 1 : IsPsnrLine(lg[j])} = S
        BY <1>4
    <2>. QED
        BY <1>4, <2>1 DEF Rank
<1>. QED
    BY <1>3, <1>4

(* A later line has at least the rank of an earlier one.                  *)
LEMMA RankMonotone ==
    ASSUME NEW lg, NEW i \in Nat \ {0}, NEW k \in Nat \ {0}, i <= k
    PROVE  Rank(lg, i) <= Rank(lg, k)
<1>1. {j \in 1 .. i - 1 : IsPsnrLine(lg[j])} \subseteq {j \in 1 .. k - 1 : IsPsnrLine(lg[j])}
    OBVIOUS
<1>2. IsFiniteSet({j \in 1 .. k - 1 : IsPsnrLine(lg[j])})
    BY RankBound
<1>. QED
    BY <1>1, <1>2, FS_Subset DEF Rank

(* Every log Init may pick is a sequence of lines no longer than MaxLines. *)
LEMMA LogIsSeq ==
    ASSUME NEW lg \in Logs
    PROVE  /\ lg \in Seq(Lines)
           /\ Len(lg) \in 0 .. MaxLines
           /\ DOMAIN lg = 1 .. Len(lg)
<1>1. PICK n \in 0 .. MaxLines : lg \in [1 .. n -> Lines]
    BY DEF Logs
<1>2. lg \in Seq(Lines)
    BY <1>1, PsnrBoundAssumption, SeqDef
<1>3. DOMAIN lg = 1 .. Len(lg) /\ Len(lg) \in Nat
    BY <1>2, LenProperties
<1>4. Len(lg) = n
    BY <1>1, <1>3
<1>. QED
    BY <1>1, <1>2, <1>3, <1>4

-----------------------------------------------------------------------------
(* The loop invariant: counter is the rank of the next line, psnr_scores   *)
(* holds one value per record passed, and every record passed carries its  *)
(* rank as index and has its value at that rank; once the parser decides,  *)
(* its outcome is the contract's.                                          *)
ParseInv ==
    /\ TypeOK
    /\ Len(psnrScores) = counter
    /\ counter = Rank(log, pos)
    /\ \A i \in 1 .. pos - 1 : IsPsnrLine(log[i]) =>
          /\ log[i].idx = Rank(log, i)
          /\ log[i].val # Unparsable
          /\ psnrScores[Rank(log, i) + 1] = log[i].val
    /\ \A k \in 1 .. counter :
          \E i \in 1 .. pos - 1 : IsPsnrLine(log[i]) /\ Rank(log, i) = k - 1
    /\ outcome # Pending => outcome = PsnrReference(log)

LEMMA ParseInit == Init => ParseInv
<1> SUFFICES ASSUME Init PROVE ParseInv
    OBVIOUS
<1>1. log \in Seq(Lines) /\ Len(log) \in 0 .. MaxLines
    BY LogIsSeq DEF Init
<1>2. Rank(log, 1) = 0
    BY RankFirst
<1>. QED
    BY <1>1, <1>2, PsnrBoundAssumption DEF Init, ParseInv, TypeOK

(* A skipped line keeps the rank and every fact about the records passed. *)
LEMMA SkipLineStep ==
    ASSUME ParseInv, SkipLine
    PROVE  ParseInv' /\ UNCHANGED <<log, outcome>>
<1>1. log \in Seq(Lines) /\ Len(log) \in 0 .. MaxLines
    BY LogIsSeq DEF ParseInv, TypeOK
<1>2. /\ pos \in 1 .. Len(log) /\ pos' = pos + 1 /\ ~IsPsnrLine(log[pos])
      /\ UNCHANGED <<log, counter, psnrScores, outcome>>
    BY <1>1 DEF SkipLine, Reading, ParseInv, TypeOK, IsPsnrLine
<1>3. Rank(log, pos + 1) = Rank(log, pos)
    <2>1. pos \in Nat \ {0}
        BY <1>2
    <2>. QED
        BY <1>2, <2>1, RankStep
<1>5. TypeOK'
    BY <1>1, <1>2 DEF ParseInv, TypeOK
<1>6. ASSUME NEW i \in 1 .. pos' - 1, IsPsnrLine(log'[i])
      PROVE  /\ log'[i].idx = Rank(log', i)
             /\ psnrScores'[Rank(log', i) + 1] = log'[i].val
    <2>1. i \in 1 .. pos - 1 /\ IsPsnrLine(log[i])
        BY <1>2, <1>6
    <2>. QED
        BY <1>2, <2>1 DEF ParseInv
<1>7. ASSUME NEW k \in 1 .. counter'
      PROVE  \E i \in 1 .. pos' - 1 : IsPsnrLine(log'[i]) /\ Rank(log', i) = k - 1
    <2>1. PICK i \in 1 .. pos - 1 : IsPsnrLine(log[i]) /\ Rank(log, i) = k - 1
        BY <1>2, <1>7 DEF ParseInv
    <2>. QED
        BY <1>2, <2>1
<1>8. (outcome # Pending => outcome = PsnrReference(log))'
    BY <1>2 DEF ParseInv
<1>9. Len(psnrScores') = counter' /\ counter' = Rank(log', pos')
    BY <1>2, <1>3 DEF ParseInv
<1>. QED
    BY <1>2, <1>5, <1>6, <1>7, <1>8, <1>9 DEF ParseInv

(* A record with the expected index extends psnr_scores at its rank.      *)
LEMMA ReadRecordStep ==
    ASSUME ParseInv, ReadRecord
    PROVE  ParseInv' /\ UNCHANGED <<log, outcome>>
<1>1. log \in Seq(Lines) /\ Len(log) \in 0 .. MaxLines
    BY LogIsSeq DEF ParseInv, TypeOK
<1>2. /\ pos \in 1 .. Len(log) /\ pos' = pos + 1 /\ IsPsnrLine(log[pos])
      /\ log[pos].idx = counter /\ log[pos].val # Unparsable
      /\ psnrScores' = Append(psnrScores, log[pos].val)
      /\ counter' = counter + 1
      /\ UNCHANGED <<log, outcome>>
    BY <1>1 DEF ReadRecord, Reading, ParseInv, TypeOK, IsPsnrLine
<1>3. log[pos].val \in Values
    <2>1. log[pos] \in Lines
        BY <1>1, <1>2, ElementOfSeq
    <2>2. log[pos] \in PsnrLine
        BY <1>2, <2>1 DEF Lines, IsPsnrLine
    <2>. QED
        BY <1>2, <2>2 DEF PsnrLine
<1>4. Rank(log, pos + 1) = counter + 1
    <2>1. pos \in Nat \ {0}
        BY <1>2
    <2>2. Rank(log, pos + 1) = Rank(log, pos) + 1
        BY <1>2, <2>1, RankStep
    <2>. QED
        BY <2>2 DEF ParseInv
<1>5. psnrScores \in Seq(Values) /\ Len(psnrScores) = counter /\ counter \in Nat
    BY DEF ParseInv, TypeOK
<1>6. /\ psnrScores' \in Seq(Values)
      /\ Len(psnrScores') = counter + 1
      /\ psnrScores'[counter + 1] = log[pos].val
      /\ \A r \in 1 .. counter : psnrScores'[r] = psnrScores[r]
    <2>1. /\ Append(psnrScores, log[pos].val) \in Seq(Values)
          /\ Len(Append(psnrScores, log[pos].val)) = Len(psnrScores) + 1
          /\ \A r \in 1 .. Len(psnrScores) : Append(psnrScores, log[pos].val)[r] = psnrScores[r]
          /\ Append(psnrScores, log[pos].val)[Len(psnrScores) + 1] = log[pos].val
        BY <1>3, <1>5, AppendProperties
    <2>. QED
        BY <1>2, <1>5, <2>1
<1>7. counter + 1 <= MaxLines
    <2>1. pos + 1 \in Nat \ {0}
        BY <1>2
    <2>2. Rank(log, pos + 1) \in 0 .. (pos + 1) - 1
        BY <2>1, RankBound
    <2>. QED
        BY <1>1, <1>2, <1>4, <2>2, PsnrBoundAssumption
<1>8. TypeOK'
    BY <1>1, <1>2, <1>5, <1>6, <1>7 DEF ParseInv, TypeOK
<1>9. ASSUME NEW i \in 1 .. pos' - 1, IsPsnrLine(log'[i])
      PROVE  /\ log'[i].idx = Rank(log', i)
             /\ log'[i].val # Unparsable
             /\ psnrScores'[Rank(log', i) + 1] = log'[i].val
    <2>0. i \in 1 .. pos /\ IsPsnrLine(log[i]) /\ log' = log
        BY <1>2, <1>9
    <2>1. CASE i = pos
        <3>1. Rank(log, pos) = counter
            BY DEF ParseInv
        <3>. QED
            BY <1>2, <1>6, <2>0, <2>1, <3>1
    <2>2. CASE i # pos
        <3>0. i \in 1 .. pos - 1 /\ i \in Nat \ {0} /\ i + 1 \in Nat \ {0} /\ pos \in Nat \ {0}
            BY <2>0, <2>2, <1>2
        <3>1. Rank(log, i + 1) = Rank(log, i) + 1
            BY <2>0, <3>0, RankStep
        <3>2. Rank(log, i + 1) <= Rank(log, pos)
            BY <2>2, <3>0, RankMonotone
        <3>3. Rank(log, i) \in 0 .. i - 1
            BY <3>0, RankBound
        <3>4. Rank(log, i) + 1 \in 1 .. counter
            BY <3>1, <3>2, <3>3 DEF ParseInv
        <3>5. /\ log[i].idx = Rank(log, i) /\ log[i].val # Unparsable
              /\ psnrScores[Rank(log, i) + 1] = log[i].val
            BY <2>0, <3>0 DEF ParseInv
        <3>. QED
            BY <1>6, <2>0, <3>4, <3>5
    <2>. QED
        BY <2>1, <2>2
<1>10. ASSUME NEW k \in 1 .. counter'
       PROVE  \E i \in 1 .. pos' - 1 : IsPsnrLine(log'[i]) /\ Rank(log', i) = k - 1
    <2>1. CASE k \in 1 .. counter
        <3>1. PICK i \in 1 .. pos - 1 : IsPsnrLine(log[i]) /\ Rank(log, i) = k - 1
            BY <2>1 DEF ParseInv
        <3>. QED
            BY <1>2, <3>1
    <2>2. CASE k = counter + 1
        <3>1. Rank(log, pos) = counter
            BY DEF ParseInv
        <3>. QED
            BY <1>2, <1>5, <2>2, <3>1
    <2>. QED
        BY <1>2, <1>5, <2>1, <2>2
<1>. QED
    BY <1>2, <1>4, <1>6, <1>8, <1>9, <1>10 DEF ParseInv

(* A record whose index is not its rank makes the whole log fatal.        *)
LEMMA IndexMismatchStep ==
    ASSUME ParseInv, IndexMismatch
    PROVE  ParseInv' /\ outcome' = PsnrReference(log) /\ UNCHANGED log
<1>1. log \in Seq(Lines) /\ Len(log) \in 0 .. MaxLines
    BY LogIsSeq DEF ParseInv, TypeOK
<1>2. /\ pos \in 1 .. Len(log) /\ IsPsnrLine(log[pos]) /\ log[pos].idx # Rank(log, pos)
      /\ outcome' = Fatal
      /\ UNCHANGED <<log, pos, counter, psnrScores>>
    BY <1>1 DEF IndexMismatch, Reading, ParseInv, TypeOK, IsPsnrLine
<1>3. ~\A i \in 1 .. Len(log) :
         IsPsnrLine(log[i]) => log[i].idx = Rank(log, i) /\ log[i].val # Unparsable
    BY <1>2
<1>4. PsnrReference(log) = Fatal
    BY <1>3 DEF PsnrReference
<1>5. TypeOK'
    BY <1>2 DEF ParseInv, TypeOK
<1>. QED
    BY <1>2, <1>4, <1>5 DEF ParseInv

(* A record whose value float() rejects makes the whole log fatal.        *)
LEMMA UnparsableValueStep ==
    ASSUME ParseInv, UnparsableValue
    PROVE  ParseInv' /\ outcome' = PsnrReference(log) /\ UNCHANGED log
<1>1. log \in Seq(Lines) /\ Len(log) \in 0 .. MaxLines
    BY LogIsSeq DEF ParseInv, TypeOK
<1>2. /\ pos \in 1 .. Len(log) /\ IsPsnrLine(log[pos]) /\ log[pos].val = Unparsable
      /\ outcome' = Fatal
      /\ UNCHANGED <<log, pos, counter, psnrScores>>
    BY <1>1 DEF UnparsableValue, Reading, ParseInv, TypeOK, IsPsnrLine
<1>3. ~\A i \in 1 .. Len(log) :
         IsPsnrLine(log[i]) => log[i].idx = Rank(log, i) /\ log[i].val # Unparsable
    BY <1>2
<1>4. PsnrReference(log) = Fatal
    BY <1>3 DEF PsnrReference
<1>5. TypeOK'
    BY <1>2 DEF ParseInv, TypeOK
<1>. QED
    BY <1>2, <1>4, <1>5 DEF ParseInv

(* A log read to the end without a record is fatal.                       *)
LEMMA NoScoresStep ==
    ASSUME ParseInv, NoScores
    PROVE  ParseInv' /\ outcome' = PsnrReference(log) /\ UNCHANGED log
<1>1. log \in Seq(Lines) /\ Len(log) \in 0 .. MaxLines
    BY LogIsSeq DEF ParseInv, TypeOK
<1>2. /\ pos = Len(log) + 1 /\ psnrScores = <<>>
      /\ outcome' = Fatal
      /\ UNCHANGED <<log, pos, counter, psnrScores>>
    BY <1>1 DEF NoScores, ParseInv, TypeOK
<1>3. Rank(log, Len(log) + 1) = 0
    BY <1>2, EmptySeq DEF ParseInv
<1>4. PsnrReference(log) = Fatal
    BY <1>3 DEF PsnrReference
<1>5. TypeOK'
    BY <1>2 DEF ParseInv, TypeOK
<1>. QED
    BY <1>2, <1>4, <1>5 DEF ParseInv

(* A log read to the end with records publishes exactly their values.    *)
LEMMA PublishScoresStep ==
    ASSUME ParseInv, PublishScores
    PROVE  ParseInv' /\ outcome' = PsnrReference(log) /\ UNCHANGED log
<1>1. log \in Seq(Lines) /\ Len(log) \in 0 .. MaxLines
    BY LogIsSeq DEF ParseInv, TypeOK
<1>2. /\ pos = Len(log) + 1 /\ psnrScores # <<>>
      /\ outcome' = [k \in {ScoresKey("PSNR")} |-> psnrScores]
      /\ UNCHANGED <<log, pos, counter, psnrScores>>
    BY <1>1 DEF PublishScores, ParseInv, TypeOK
<1>3. psnrScores \in Seq(Values) /\ Len(psnrScores) = counter
      /\ counter = Rank(log, Len(log) + 1)
    BY <1>2 DEF ParseInv, TypeOK
<1>4. counter > 0
    BY <1>2, <1>3, EmptySeq
<1>5. \A i \in 1 .. Len(log) :
         IsPsnrLine(log[i]) => log[i].idx = Rank(log, i) /\ log[i].val # Unparsable
    BY <1>2 DEF ParseInv
<1> DEFINE Pick(k) == CHOOSE i \in 1 .. Len(log) : IsPsnrLine(log[i]) /\ Rank(log, i) = k - 1
<1>6. ASSUME NEW k \in 1 .. counter
      PROVE  log[Pick(k)].val = psnrScores[k]
    <2>1. \E i \in 1 .. Len(log) : IsPsnrLine(log[i]) /\ Rank(log, i) = k - 1
        BY <1>2, <1>6 DEF ParseInv
    <2>2. Pick(k) \in 1 .. Len(log) /\ IsPsnrLine(log[Pick(k)]) /\ Rank(log, Pick(k)) = k - 1
        BY <2>1
    <2>3. Pick(k) \in 1 .. pos - 1
        BY <1>1, <1>2, <2>2
    <2>4. psnrScores[Rank(log, Pick(k)) + 1] = log[Pick(k)].val
        BY <2>2, <2>3 DEF ParseInv
    <2>. QED
        BY <2>2, <2>4
<1>7. psnrScores = [k \in 1 .. counter |-> log[Pick(k)].val]
    <2>1. psnrScores \in [1 .. counter -> Values]
        BY <1>3, LenProperties
    <2>. QED
        BY <1>6, <2>1, Zenon
<1>8. PsnrReference(log) = [key \in {ScoresKey("PSNR")} |-> psnrScores]
    BY <1>3, <1>4, <1>5, <1>7 DEF PsnrReference
<1>9. TypeOK'
    BY <1>2, <1>3 DEF ParseInv, TypeOK
<1>. QED
    BY <1>2, <1>8, <1>9 DEF ParseInv

(* Every step of the parser keeps the loop invariant and is a step of the *)
(* contract: the loop iterations leave log and outcome alone, and the     *)
(* four steps that decide are the contract's Read.                        *)
LEMMA ParseStep ==
    ParseInv /\ [Next]_vars => ParseInv' /\ [Contract!Read]_<<log, outcome>>
<1> SUFFICES ASSUME ParseInv, [Next]_vars
             PROVE  ParseInv' /\ [Contract!Read]_<<log, outcome>>
    OBVIOUS
<1>1. CASE SkipLine
    BY <1>1, SkipLineStep
<1>2. CASE ReadRecord
    BY <1>2, ReadRecordStep
<1>3. CASE IndexMismatch
    <2>1. outcome = Pending
        BY <1>3 DEF IndexMismatch, Reading
    <2>. QED
        BY <1>3, <2>1, IndexMismatchStep DEF Contract!Read
<1>7. CASE UnparsableValue
    <2>1. outcome = Pending
        BY <1>7 DEF UnparsableValue, Reading
    <2>. QED
        BY <1>7, <2>1, UnparsableValueStep DEF Contract!Read
<1>4. CASE NoScores
    <2>1. outcome = Pending
        BY <1>4 DEF NoScores
    <2>. QED
        BY <1>4, <2>1, NoScoresStep DEF Contract!Read
<1>5. CASE PublishScores
    <2>1. outcome = Pending
        BY <1>5 DEF PublishScores
    <2>. QED
        BY <1>5, <2>1, PublishScoresStep DEF Contract!Read
<1>6. CASE UNCHANGED vars
    BY <1>6 DEF vars, ParseInv, TypeOK
<1>. QED
    BY <1>1, <1>2, <1>3, <1>4, <1>5, <1>6, <1>7 DEF Next

(* PsnrQualityRunner._get_quality_scores implements the plain-text log    *)
(* format of the spec (the one-step contract PsnrParsesPerSpec): for      *)
(* every log of any length, it returns the values of the matching lines  *)
(* exactly when their indices run 0, 1, ..., n - 1 with n > 0 and float() *)
(* accepts every value, and fails otherwise, wherever the unmatched lines *)
(* fall.                                                                   *)
THEOREM PsnrRefinement == Spec => PsnrParsesPerSpec
<1>1. Init => ParseInv /\ Contract!Init
    BY ParseInit DEF Init, Contract!Init
<1>2. ParseInv /\ [Next]_vars => ParseInv' /\ [Contract!Read]_<<log, outcome>>
    BY ParseStep
<1>. QED
    BY <1>1, <1>2, PTL DEF Spec, PsnrParsesPerSpec, Contract!Spec

=============================================================================
