------------------------- MODULE PsnrQualityRunner -------------------------
(***************************************************************************)
(* PsnrQualityRunner._get_quality_scores (quality_runner.py): read the log *)
(* the external psnr program wrote, line by line.  A line that matches     *)
(* "psnr: <idx> <value>" must carry the index counter expects (assert), its *)
(* value is appended; any other line is skipped.  After the last line the  *)
(* scores must be non-empty (assert) and are returned under PSNR_scores.   *)
(* The log is an input: Init picks it from every log of at most MaxLines   *)
(* lines.  A matching line is a record [idx, val]; its value text is a    *)
(* number, which float() reads as itself, or Unparsable, a text the        *)
(* pattern [0-9.-]+ admits and float() rejects ("1.2.3", "-").             *)
(***************************************************************************)
EXTENDS Integers, Sequences, FiniteSets, RunnerIdentity

CONSTANTS
    Values,    \* the values a psnr line may carry
    MaxLines,  \* the longest log considered
    NotPsnr,   \* a line the regular expression does not match
    Unparsable, \* a value text float() raises ValueError on
    Pending,   \* the outcome while the log is being read
    Fatal      \* an AssertionError: the run fails

ASSUME PsnrBoundAssumption == MaxLines \in Nat
ASSUME ValueTextAssumption == Unparsable \notin Values

PsnrLine == [idx : 0 .. MaxLines, val : Values \cup {Unparsable}]
Lines == PsnrLine \cup {NotPsnr}
Logs == UNION {[1 .. n -> Lines] : n \in 0 .. MaxLines}

VARIABLES
    log,         \* the lines of the log file
    pos,         \* the next line of log_file.readlines() to read
    counter,     \* counter: the index the next psnr line must carry
    psnrScores,  \* psnr_scores read so far
    outcome      \* Pending, Fatal, or the quality_result dict

vars == <<log, pos, counter, psnrScores, outcome>>

Init ==
    /\ log \in Logs
    /\ pos = 1
    /\ counter = 0
    /\ psnrScores = <<>>
    /\ outcome = Pending

(* The loop is still running and has a line to read.                      *)
Reading == outcome = Pending /\ pos <= Len(log)

(* re.match fails: the line is skipped.                                    *)
SkipLine ==
    /\ Reading
    /\ log[pos] = NotPsnr
    /\ pos' = pos + 1
    /\ UNCHANGED <<log, counter, psnrScores, outcome>>

(* Plausible bug: the index assertion left out.                          *)
ReadRecordUnchecked ==
    /\ Reading
    /\ log[pos] # NotPsnr
    /\ log[pos].val # Unparsable
    /\ psnrScores' = Append(psnrScores, log[pos].val)
    /\ counter' = counter + 1
    /\ pos' = pos + 1
    /\ UNCHANGED <<log, outcome>>

(* A psnr line with the expected index: float() of its value is appended. *)
ReadRecord ==
    /\ Reading
    /\ log[pos] # NotPsnr
    /\ log[pos].idx = counter
    /\ log[pos].val # Unparsable
    /\ psnrScores' = Append(psnrScores, log[pos].val)
    /\ counter' = counter + 1
    /\ pos' = pos + 1
    /\ UNCHANGED <<log, outcome>>

(* assert cur_idx == counter fails.                                        *)
IndexMismatch ==
    /\ Reading
    /\ log[pos] # NotPsnr
    /\ log[pos].idx # counter
    /\ outcome' = Fatal
    /\ UNCHANGED <<log, pos, counter, psnrScores>>

(* The index assertion passes, then float() raises ValueError.           *)
UnparsableValue ==
    /\ Reading
    /\ log[pos] # NotPsnr
    /\ log[pos].idx = counter
    /\ log[pos].val = Unparsable
    /\ outcome' = Fatal
    /\ UNCHANGED <<log, pos, counter, psnrScores>>

(* After the loop, assert len(psnr_scores) != 0 fails.                     *)
NoScores ==
    /\ outcome = Pending
    /\ pos > Len(log)
    /\ psnrScores = <<>>
    /\ outcome' = Fatal
    /\ UNCHANGED <<log, pos, counter, psnrScores>>

(* quality_result = {scores_key: psnr_scores}.                             *)
PublishScores ==
    /\ outcome = Pending
    /\ pos > Len(log)
    /\ psnrScores # <<>>
    /\ outcome' = [k \in {ScoresKey("PSNR")} |-> psnrScores]
    /\ UNCHANGED <<log, pos, counter, psnrScores>>

Next ==
    \/ SkipLine \/ ReadRecord \/ IndexMismatch \/ UnparsableValue
    \/ NoScores \/ PublishScores

Spec == Init /\ [][Next]_vars

-----------------------------------------------------------------------------
TypeOK ==
    /\ log \in Logs
    /\ pos \in 1 .. Len(log) + 1
    /\ counter \in 0 .. MaxLines
    /\ psnrScores \in Seq(Values)
    /\ outcome \in {Pending, Fatal} \cup [{ScoresKey("PSNR")} -> Seq(Values)]

(* The plain-text log format of spec 4.8 and 6: the records are the lines  *)
(* that match; their indices must be exactly 0, 1, ..., n - 1 in order,    *)
(* every value must be a number (spec 3: extract_scores fails on a         *)
(* malformed log) and n must be positive, else the run is fatal; the       *)
(* scores are their values.                                                *)
(* Rank(lg, i) is the number of records before line i, so the record at   *)
(* line i is record number Rank(lg, i) (from 0) and n is Rank after the   *)
(* last line.                                                              *)
IsPsnrLine(line) == line # NotPsnr
Rank(lg, i) == Cardinality({j \in 1 .. i - 1 : IsPsnrLine(lg[j])})
PsnrReference(lg) ==
    LET IsRecord(i) == IsPsnrLine(lg[i])
        n == Rank(lg, Len(lg) + 1)
    IN  IF /\ n > 0
           /\ \A i \in 1 .. Len(lg) :
                 IsRecord(i) => lg[i].idx = Rank(lg, i) /\ lg[i].val # Unparsable
        THEN [key \in {ScoresKey("PSNR")} |->
                [k \in 1 .. n |->
                   lg[CHOOSE i \in 1 .. Len(lg) : IsRecord(i) /\ Rank(lg, i) = k - 1].val]]
        ELSE Fatal

Contract == INSTANCE QualityScoresContract WITH Expected <- PsnrReference

(* _get_quality_scores implements the spec's plain-text log format: seen   *)
(* only at the end of the loop, its outcome is the one the whole log       *)
(* determines, whichever line breaks the index order and wherever the      *)
(* non-psnr lines fall.                                                    *)
PsnrParsesPerSpec == Contract!Spec

=============================================================================
