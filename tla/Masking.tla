------------------------------ MODULE Masking ------------------------------
(***************************************************************************)
(* The personal-data scanner and masker of the quality checks              *)
(* (modules/quality/pii.go).  A file is a sequence of characters put       *)
(* together from fragments; a span is [name, conf, start, end) over it.    *)
(* The detectors are the numeric windows (identity card, bank card,        *)
(* phone), e-mail (high confidence), passport with its flank rule and      *)
(* plate (heuristic); IPv4, GPS and address, of the same shapes, are left  *)
(* out.  Token lengths are constants, so that short files reach the        *)
(* overlaps that long tokens make.                                         *)
(***************************************************************************)
EXTENDS Integers, Sequences, FiniteSets, SequencesExt

CONSTANTS
    Fragments,      \* the pieces of text a seller's file is made of
    MaxFragments,   \* bound: pieces of one file
    Weights,        \* of the identity card's digits (validIDCard)
    CardMin, CardMax,   \* shortest and longest bank card (16 and 19)
    PhoneLength,    \* 11
    PassportDigits, \* 8
    PlateTail       \* characters after the plate's letter (5)

ASSUME MaskingAssumption ==
    /\ Fragments \subseteq Seq(STRING)
    /\ {MaxFragments, CardMin, CardMax, PassportDigits, PlateTail} \subseteq Nat \ {0}
    /\ PhoneLength \in Nat \ {0, 1} /\ Weights \in Seq(1..10) /\ CardMin <= CardMax

VARIABLES
    content,        \* the fragments of the file read by the quality worker
    piiCheck,       \* [declared, result] of the check `pii`
    redactionCheck  \* result of the check `pii_redaction`

maskVars == <<content, piiCheck, redactionCheck>>

DigitValue == [c \in {"0", "1", "2", "3", "4", "5", "6", "7", "8", "9"} |->
                  CHOOSE n \in 0..9 : ToString(n) = c]
Digits == DOMAIN DigitValue
Letters == {"E", "X"}
PassportLetters == {"E"}
Han == "jing"
Mask == "***"
IsAlnum(c) == c \in Digits \cup Letters

MaskingInit ==
    /\ content = <<>>
    /\ piiCheck = [declared |-> FALSE, result |-> "none"]
    /\ redactionCheck = "none"

Window(s, i, l) == SubSeq(s, i, i + l - 1)
AllDigits(s) == \A k \in DOMAIN s : s[k] \in Digits

(* The sum whose last digit is the Luhn check digit.                       *)
DoubledDigit(c) == LET d == 2 * DigitValue[c] IN IF d > 9 THEN d - 9 ELSE d
validLuhn(s) ==
    FoldLeftDomain(LAMBDA sum, k :
        sum + (IF (Len(s) - k) % 2 = 1 THEN DoubledDigit(s[k]) ELSE DigitValue[s[k]]), 0, s) % 10 = 0

CheckCharacters == <<"1", "0", "X", "9", "8", "7", "6", "5", "4", "3", "2">>
validIDCard(s) ==
    LET sum == FoldLeftDomain(LAMBDA acc, k : acc + DigitValue[s[k]] * Weights[k], 0, Front(s))
    IN  CheckCharacters[1 + (sum % 11)] = Last(s)

(* Every end of a match that starts at i, per detector: at most one.       *)
IDCardEnd(s, i) ==
    LET l == Len(Weights) + 1
    IN  {e \in {i + l} : /\ e <= Len(s) + 1
                         /\ AllDigits(Window(s, i, l - 1))
                         /\ s[e - 1] \in Digits \cup {"X"}
                         /\ validIDCard(Window(s, i, l))}
LuhnWindow(s, i) ==
    LET lengths == {l \in CardMin..CardMax :
                        /\ i + l <= Len(s) + 1
                        /\ AllDigits(Window(s, i, l))
                        /\ validLuhn(Window(s, i, l))}
    IN  {i + l : l \in {l \in lengths : \A m \in lengths : m <= l}}
PhoneEnd(s, i) ==
    {e \in {i + PhoneLength} : /\ e <= Len(s) + 1
                               /\ AllDigits(Window(s, i, PhoneLength))
                               /\ s[i] = "1"
                               /\ DigitValue[s[i + 1]] >= 3}

(* Where the run of the characters cs that starts at from ends.            *)
RunEnd(s, from, cs) ==
    LET breaks == {k \in from..Len(s) : s[k] \notin cs}
    IN  IF breaks = {} THEN Len(s) + 1 ELSE CHOOSE b \in breaks : \A k \in breaks : b <= k
EmailEnd(s, i) ==
    LET at == RunEnd(s, i, Digits \cup Letters \cup {"."})
        dot == RunEnd(s, at + 1, Digits \cup Letters)
        end == RunEnd(s, dot + 1, Digits \cup Letters \cup {"."})
    IN  {e \in {end} : /\ at \in (i + 1)..Len(s) /\ s[at] = "@"
                       /\ dot \in (at + 2)..Len(s) /\ s[dot] = "."
                       /\ e > dot + 1}

PassportEnd(s, i) ==
    {e \in {i + 1 + PassportDigits} : /\ e <= Len(s) + 1
                                      /\ s[i] \in PassportLetters
                                      /\ AllDigits(SubSeq(s, i + 1, e - 1))}
PlateEnd(s, i) ==
    {e \in {i + 2 + PlateTail} : /\ e <= Len(s) + 1
                                 /\ s[i] = Han /\ s[i + 1] \in Letters
                                 /\ \A k \in (i + 2)..(e - 1) : IsAlnum(s[k])}

(* From left to right, the first match at or after the end of the last;    *)
(* at gives the match that starts at each position.                        *)
Sweep(s, at) ==
    FoldLeftDomain(LAMBDA found, i :
        IF found = <<>> \/ i >= Last(found).end THEN found \o at[i] ELSE found, <<>>, s)

Span(name, conf, i, ends) ==
    IF ends = {} THEN <<>>
    ELSE <<[name |-> name, conf |-> conf, start |-> i, end |-> CHOOSE e \in ends : TRUE]>>

(* scanNumeric: at each digit the first class that accepts, in this order. *)
Numbers(s) == [i \in DOMAIN s |->
    IF IDCardEnd(s, i) # {} THEN Span("id_card", "high", i, IDCardEnd(s, i))
    ELSE IF LuhnWindow(s, i) # {} THEN Span("bank_card", "high", i, LuhnWindow(s, i))
    ELSE Span("phone", "high", i, PhoneEnd(s, i))]
ScanNumeric(s) == Sweep(s, Numbers(s))

(* The patterns of the other detectors, and their matches before any rule. *)
Emails(s) == Sweep(s, [i \in DOMAIN s |-> Span("email", "high", i, EmailEnd(s, i))])
Passports(s) == Sweep(s, [i \in DOMAIN s |-> Span("passport", "heuristic", i, PassportEnd(s, i))])
Plates(s) == Sweep(s, [i \in DOMAIN s |-> Span("plate", "heuristic", i, PlateEnd(s, i))])

isFlanked(s, m) ==
    \/ m.start > 1 /\ IsAlnum(s[m.start - 1])
    \/ m.end <= Len(s) /\ IsAlnum(s[m.end])

(* scan: a passport between letters or digits is none.                     *)
Unflanked(s) == FoldLeft(LAMBDA kept, m : IF isFlanked(s, m) THEN kept ELSE Append(kept, m),
                         <<>>, Passports(s))
RawHits(s) == ScanNumeric(s) \o Emails(s) \o Unflanked(s) \o Plates(s)

(* A stable sort: m comes after those that start earlier, or are longer,   *)
(* and after those of its place that were found before it.                 *)
Earlier(a, b) == \/ a.start < b.start
                 \/ a.start = b.start /\ a.end > b.end
Precedes(ms, i, j) == Earlier(ms[i], ms[j]) \/ (~Earlier(ms[j], ms[i]) /\ i < j)
InOrder(ms) ==
    [k \in DOMAIN ms |->
        ms[CHOOSE i \in DOMAIN ms : Cardinality({j \in DOMAIN ms : Precedes(ms, j, i)}) = k - 1]]

(* A mutant of resolveOverlaps: the sort by position is forgotten.         *)
resolveOverlapsUnsorted(ms) ==
    FoldLeft(LAMBDA kept, m : IF kept = <<>> \/ m.start >= Last(kept).end
                              THEN Append(kept, m) ELSE kept, <<>>, ms)

(* Of overlapping spans the one that starts first, then the longest.       *)
resolveOverlaps(ms) ==
    FoldLeft(LAMBDA kept, m : IF kept = <<>> \/ m.start >= Last(kept).end
                              THEN Append(kept, m) ELSE kept,
             <<>>, InOrder(ms))

Scan(s) == resolveOverlaps(RawHits(s))

maskSpans(s, ms) ==
    FoldLeftDomain(LAMBDA out, i :
        IF \E k \in DOMAIN ms : ms[k].start = i THEN Append(out, Mask)
        ELSE IF \E k \in DOMAIN ms : i \in ms[k].start .. (ms[k].end - 1) THEN out
        ELSE Append(out, s[i]), <<>>, s)

(* The check `pii` of a file whose seller declared personal data or not.   *)
PII(s, declaredPII) ==
    LET matches == Scan(s)
    IN  IF matches = <<>> THEN "pass"
        ELSE IF declaredPII THEN "warn"
        ELSE IF \E k \in DOMAIN matches : matches[k].conf = "high" THEN "fail"
        ELSE "warn"

(* The check `pii_redaction`: nothing is found in the masked file.         *)
PIIRedaction(s) == IF Scan(maskSpans(s, Scan(s))) = <<>> THEN "pass" ELSE "fail"

Joined(fragments) == FoldLeft(LAMBDA text, f : text \o f, <<>>, fragments)
Text == Joined(content)

Write(f) ==
    /\ piiCheck.result = "none" /\ Len(content) < MaxFragments
    /\ content' = Append(content, f)
    /\ UNCHANGED <<piiCheck, redactionCheck>>

ExamineFile(d) ==
    /\ piiCheck.result = "none" /\ content # <<>>
    /\ piiCheck' = [declared |-> d, result |-> PII(Text, d)]
    /\ redactionCheck' = PIIRedaction(Text)
    /\ UNCHANGED content

MaskingNext == \/ \E f \in Fragments : Write(f)
               \/ \E d \in BOOLEAN : ExamineFile(d)

MaskingSpec == MaskingInit /\ [][MaskingNext]_maskVars

-----------------------------------------------------------------------------
(* A span that starts inside k and runs past its end loses its tail to no  *)
(* mask.                                                                   *)
Straddles(h, k) == k.start <= h.start /\ h.start < k.end /\ k.end < h.end

(* Masking is sound up to its seams.  The spans kept are hits, disjoint    *)
(* and in order; no hit is left wholly visible: each starts inside a kept  *)
(* span.  The check `pii` passes only a file without a hit, and an         *)
(* undeclared file with a hit of high confidence gets away with a warning  *)
(* only when a heuristic span swallowed that hit.  The check               *)
(* `pii_redaction` fails, leaving personal data in a preview, only where a *)
(* hit runs past the span that hides its start, or a passport's flank is   *)
(* what the mask removed.                                                  *)
MaskingInv ==
    LET s == Text
        hits == ToSet(RawHits(s))
        kept == Scan(s)
    IN  piiCheck.result # "none" =>
        /\ ToSet(kept) \subseteq hits
        /\ \A k \in 1..(Len(kept) - 1) : kept[k].end <= kept[k + 1].start
        /\ \A h \in hits : \E k \in ToSet(kept) : h.start \in k.start .. (k.end - 1)
        /\ piiCheck.result = "pass" => hits = {}
        /\ piiCheck.result = "warn" /\ ~piiCheck.declared =>
               \A h \in hits : h.conf = "high" =>
                   \E k \in ToSet(kept) : k.conf = "heuristic" /\ h.start \in k.start .. (k.end - 1)
        /\ redactionCheck = "fail" =>
               \/ \E h \in hits, k \in ToSet(kept) : Straddles(h, k)
               \/ \E p \in ToSet(Passports(s)), k \in ToSet(kept) :
                      isFlanked(s, p) /\ (k.end = p.start \/ p.end = k.start)
=============================================================================
