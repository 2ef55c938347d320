----------------------------- MODULE Screening -----------------------------
(***************************************************************************)
(* The statistical screening and the schema profile of a tabular file      *)
(* (modules/quality/authenticity.go, chisq.go, schema.go).  A file is one  *)
(* column of cells, read row by row; the p-values of the chi-square tests  *)
(* are any of a small set, in units of 1/10000, and every ratio is exact   *)
(* integer arithmetic.  Digits, logarithms, means and layout are left out. *)
(***************************************************************************)
EXTENDS Integers, Sequences, FiniteSets, SequencesExt

CONSTANTS
    Cells,            \* texts of cells, an empty one among them
    KindOf,           \* cell -> "int", "num", "bool", "text" or "empty"
    ValueOf,          \* numeric cell -> integer
    MaxRows,          \* bound: rows of the file
    Columns,          \* how many numeric columns the p-values come from
    PValues,          \* p-values of the chi-square tests, in 1/10000
    AuthMinColN,      \* rows below which nothing is screened (30)
    SentinelDistinct, \* distinct values of a flag or label column (5)
    SchemaMaxRows,    \* rows profiled (200000)
    SchemaDistinctCap,\* distinct values counted (2048)
    SchemaSamples,    \* example values kept (3)
    UniqueKeyMin      \* rows of a unique key (20)

ASSUME ScreeningAssumption ==
    /\ KindOf \in [Cells -> {"int", "num", "bool", "text", "empty"}]
    /\ ValueOf \in [{c \in Cells : KindOf[c] \in {"int", "num"}} -> Int]
    /\ PValues \subseteq 0..10000
    /\ Columns \in Nat /\ MaxRows \in Nat /\ AuthMinColN \in Nat \ {0}
    /\ SchemaMaxRows \in Nat /\ SchemaDistinctCap \in Nat \ {0}
    /\ SchemaSamples \in Nat /\ SentinelDistinct \in Nat /\ UniqueKeyMin \in Nat \ {0, 1}

VARIABLES
    rows,       \* the cells of the column, top to bottom
    findings,   \* the findings of the columns screened so far
    screened    \* how many columns have been screened

screenVars == <<rows, findings, screened>>

ScreeningInit == rows = <<>> /\ findings = <<>> /\ screened = 0

Numeric(c) == KindOf[c] \in {"int", "num"}

(* The first row is a header unless every cell of it is a number.          *)
Data(r) == IF r = <<>> \/ Numeric(r[1]) THEN r ELSE Tail(r)

(* The values of the column by their rows, when it is one to screen.       *)
NumericValues(r) ==
    LET nonEmpty == {k \in DOMAIN Data(r) : KindOf[Data(r)[k]] # "empty"}
        numeric == {k \in nonEmpty : Numeric(Data(r)[k])}
    IN  IF /\ Len(r) >= AuthMinColN /\ Cardinality(numeric) >= AuthMinColN
           /\ Cardinality(numeric) * 10 >= Cardinality(nonEmpty) * 8
        THEN [k \in numeric |-> ValueOf[Data(r)[k]]] ELSE <<>>

(* cand, a value taken by two fifths of the column, lies three standard    *)
(* deviations of the other values from the nearest of them.                *)
OutlyingMode(vals, cand) ==
    LET n == Cardinality(DOMAIN vals)
        others == {k \in DOMAIN vals : vals[k] # cand}
        m == Cardinality(others)
        sum == SumFunctionOnSet(vals, others)
        sum2 == SumFunctionOnSet([k \in others |-> vals[k] * vals[k]], others)
        variance == m * sum2 - sum * sum        \* times m squared
    IN  /\ (n - m) * 10 >= n * 4
        /\ m > 0 /\ variance > 0
        /\ \A k \in others : (vals[k] - cand) * (vals[k] - cand) * (m * m) >= 9 * variance

(* sentinelFinding: the least or the greatest value is a placeholder.      *)
Sentinel(vals) ==
    /\ Cardinality(Range(vals)) > SentinelDistinct
    /\ \E cand \in Range(vals) :
           /\ \/ \A v \in Range(vals) : cand <= v
              \/ \A v \in Range(vals) : cand >= v
           /\ OutlyingMode(vals, cand)

(* Severity of the duplicate rows, "none" below three tenths.              *)
DuplicateRows(r) ==
    LET total == Len(Data(r))
        copies == 10 * (total - Cardinality(ToSet(Data(r))))
    IN  IF total < AuthMinColN \/ copies < 3 * total THEN "none"
        ELSE IF copies > 6 * total THEN "high"
        ELSE IF copies > 4 * total THEN "medium" ELSE "low"

(* The place of the k-th p-value in ascending order, and p * m / rank.     *)
(* Equal ones come in any order: their adjusted values are the same.       *)
Rank(ps, k) ==
    Cardinality({j \in DOMAIN ps : ps[j] < ps[k] \/ (ps[j] = ps[k] /\ j <= k)})
Scaled(ps, k) == (ps[k] * Cardinality(DOMAIN ps) * 12) \div Rank(ps, k)

(* A mutant of benjaminiHochberg: the running minimum is forgotten.        *)
RawBenjaminiHochberg(ps) == [k \in DOMAIN ps |-> Scaled(ps, k)]

(* The adjusted p-values, in 1/120000: from the greatest rank down, the    *)
(* least scaled value so far, and 1 at most.                               *)
benjaminiHochberg(ps) ==
    [k \in DOMAIN ps |->
        Min({120000} \cup {Scaled(ps, j) : j \in {j \in DOMAIN ps : Rank(ps, j) >= Rank(ps, k)}})]

severityFromP(adj) ==
    IF adj >= 6000 THEN "info"          \* alpha = 0.05
    ELSE IF adj < 120 THEN "high" ELSE IF adj < 1200 THEN "medium" ELSE "low"

(* The findings that carry a p-value, and their severities by it.          *)
PTests(fs) == {k \in DOMAIN fs : fs[k].p # -1}
applyFDR(fs) ==
    LET adj == benjaminiHochberg([k \in PTests(fs) |-> fs[k].p])
    IN  [k \in DOMAIN fs |-> IF k \in PTests(fs)
                             THEN [fs[k] EXCEPT !.severity = severityFromP(adj[k])] ELSE fs[k]]

Penalty == [s \in {"info", "low", "medium", "high"} |->
               CASE s = "info" -> 0 [] s = "low" -> 4 [] s = "medium" -> 10 [] s = "high" -> 20]

(* Only the strongest finding of a column counts.                          *)
ColumnsFound(fs) == {fs[k].column : k \in DOMAIN fs}
Strongest(fs) == [c \in ColumnsFound(fs) |->
    Max({Penalty[fs[k].severity] : k \in {k \in DOMAIN fs : fs[k].column = c}})]
scoreAuthenticity(fs) ==
    LET score == 100 - SumFunctionOnSet(Strongest(fs), ColumnsFound(fs))
    IN  IF score < 0 THEN 0 ELSE score
Band(score) == IF score >= 85 THEN "clean" ELSE IF score >= 60 THEN "review" ELSE "suspect"

(* profileColumn's loop, one cell at a time.                               *)
ProfileCell(p, c) ==
    IF p.null + p.nonNull = SchemaMaxRows THEN p
    ELSE IF KindOf[c] = "empty" THEN [p EXCEPT !.null = @ + 1]
    ELSE LET full == Cardinality(p.distinct) = SchemaDistinctCap /\ c \notin p.distinct
         IN  [null |-> p.null,
              nonNull |-> p.nonNull + 1,
              distinct |-> IF p.capped \/ full THEN p.distinct ELSE p.distinct \cup {c},
              capped |-> p.capped \/ full,
              allInt |-> p.allInt /\ KindOf[c] = "int",
              allNum |-> p.allNum /\ Numeric(c),
              allBool |-> p.allBool /\ KindOf[c] = "bool",
              samples |-> IF Len(p.samples) < SchemaSamples /\ c \notin ToSet(p.samples)
                          THEN Append(p.samples, c) ELSE p.samples]
Profile(r) ==
    FoldLeft(ProfileCell, [null |-> 0, nonNull |-> 0, distinct |-> {}, capped |-> FALSE,
                           allInt |-> TRUE, allNum |-> TRUE, allBool |-> TRUE, samples |-> <<>>],
             Data(r))
TypeOf(p) == IF p.nonNull = 0 THEN "empty" ELSE IF p.allInt THEN "integer"
             ELSE IF p.allNum THEN "number" ELSE IF p.allBool THEN "boolean" ELSE "string"

schemaAlerts(p) ==
    IF p.nonNull = 0 THEN {"empty"}
    ELSE {a \in {"constant", "high_null", "unique_key"} :
            /\ a = "constant" => Cardinality(p.distinct) = 1 /\ ~p.capped
            /\ a = "high_null" => (p.null * 100) \div (p.null + p.nonNull) >= 50
            /\ a = "unique_key" => /\ ~p.capped /\ Cardinality(p.distinct) = p.nonNull
                                   /\ p.nonNull >= UniqueKeyMin}

-----------------------------------------------------------------------------
ReadRow(c) ==
    /\ Len(rows) < MaxRows /\ screened = 0
    /\ rows' = Append(rows, c)
    /\ UNCHANGED <<findings, screened>>

Finding(column, p, severity) == <<[column |-> column, p |-> p, severity |-> severity]>>

(* The two chi-square tests: not applicable (-1) or a p-value.             *)
benfordFinding(column, p) == IF p = -1 THEN <<>> ELSE Finding(column, p, "info")
terminalDigitFinding(column, p) == IF p = -1 THEN <<>> ELSE Finding(column, p, "info")

(* One column's tests: Benford's and the last digit's p-values, and        *)
(* whether a placeholder was found.                                        *)
ScreenColumn(benford, terminal, sentinel) ==
    /\ rows = <<>> /\ screened < Columns
    /\ screened' = screened + 1
    /\ findings' = findings \o benfordFinding(screened', benford)
                   \o terminalDigitFinding(screened', terminal)
                   \o (IF sentinel THEN Finding(screened', -1, "medium") ELSE <<>>)
    /\ UNCHANGED rows

(* The row-level finding, and the report.                                  *)
ScreenRows(severity) ==
    /\ screened = Columns
    /\ screened' = Columns + 1
    /\ findings' = applyFDR(findings \o (IF severity = "none" THEN <<>>
                                         ELSE Finding(0, -1, severity)))
    /\ UNCHANGED rows

ScreeningNext ==
    \/ \E c \in Cells : ReadRow(c)
    \/ \E b, t \in PValues \cup {-1}, s \in BOOLEAN : ScreenColumn(b, t, s)
    \/ \E s \in {"none", "low", "medium", "high"} : ScreenRows(s)

ScreeningSpec == ScreeningInit /\ [][ScreeningNext]_screenVars

-----------------------------------------------------------------------------
(* Step-up: the greatest k whose k-th smallest p-value is below k/m of     *)
(* alpha, and every p-value up to it, are significant.                     *)
StepUp(ps) ==
    {i \in DOMAIN ps : \E j \in DOMAIN ps :
        /\ ps[i] <= ps[j]
        /\ ps[j] * Cardinality(DOMAIN ps) < 500 * Cardinality({l \in DOMAIN ps : ps[l] <= ps[j]})}

SeverityRank == [s \in {"none", "low", "medium", "high"} |->
    CASE s = "none" -> 0 [] s = "low" -> 1 [] s = "medium" -> 2 [] s = "high" -> 3]

(* The rows a profile covers, and the texts in them.                       *)
Covered(r) == IF Len(Data(r)) <= SchemaMaxRows THEN Data(r) ELSE SubSeq(Data(r), 1, SchemaMaxRows)
Seen(r) == {c \in ToSet(Covered(r)) : KindOf[c] # "empty"}

(* The screening promises a signal, not a verdict, and the profile a       *)
(* description.  The tests called significant are those of the step-up     *)
(* procedure over all the columns; a single column never costs more than   *)
(* 20 points whatever its detectors say, so "suspect" takes three; a       *)
(* placeholder is found in a column exactly when it is found in its mirror *)
(* image; one more copy of a row never lowers the severity of the          *)
(* duplicates.  The profile's counts, type, distinct values and samples    *)
(* are those of the rows it covers, and a constant column is never         *)
(* offered as a key.                                                       *)
ScreeningInv ==
    LET tests == PTests(findings)
        p == Profile(rows)
        seen == Seen(rows)
        vals == NumericValues(rows)
        columns == Cardinality(ColumnsFound(findings))
    IN  /\ screened = Columns + 1 =>
               /\ StepUp([k \in tests |-> findings[k].p])
                      = {k \in tests : findings[k].severity # "info"}
               /\ Band(scoreAuthenticity(findings)) = "suspect" => columns >= 3
               /\ scoreAuthenticity(findings) >= 100 - 20 * columns
        /\ Sentinel(vals) <=> Sentinel([k \in DOMAIN vals |-> -vals[k]])
        /\ rows # <<>> => SeverityRank[DuplicateRows(Append(rows, Last(rows)))]
                              >= SeverityRank[DuplicateRows(rows)]
        /\ p.null + p.nonNull = Len(Covered(rows))
        /\ TypeOf(p) = IF seen = {} THEN "empty"
                       ELSE IF \A c \in seen : KindOf[c] = "int" THEN "integer"
                       ELSE IF \A c \in seen : Numeric(c) THEN "number"
                       ELSE IF \A c \in seen : KindOf[c] = "bool" THEN "boolean" ELSE "string"
        /\ p.distinct \subseteq seen
        /\ p.capped <=> p.distinct # seen
        /\ ToSet(p.samples) \subseteq seen /\ IsInjective(p.samples)
        /\ ~({"constant", "unique_key"} \subseteq schemaAlerts(p))
=============================================================================
