--------------------------- MODULE CompareOutputs ---------------------------
(***************************************************************************)
(* OutputsMatch (execution/tester_sandboxer.cc): is what a program printed *)
(* the expected output, "up to whitespace and floating point errors"?      *)
(*                                                                         *)
(* A text is words with gaps between them.  A word is a spelling, with a   *)
(* capital in it or not; a spelling that is a finite numeral has an exact  *)
(* value, an integer number of some small unit: "7", "+7" and "7.0" are    *)
(* three spellings with one value.  Of the arithmetic of double only its   *)
(* error is known.                                                         *)
(***************************************************************************)
EXTENDS Integers, Sequences

CONSTANTS
  Texts,             \* the texts that are compared
  Gaps,              \* runs of the characters " \n\t\r\v"
  Spellings,         \* the small letters, digits and signs of a word
  Class,             \* Class[s]: what kind of word s is
  Numbers,           \* the exact values of finite numerals
  Whole,             \* those of numerals without a point or an exponent
  Int32,             \* those that fit an int
  Value,             \* Value[s]: the exact value of a finite numeral
  Rounded,           \* Rounded[v]: the double nearest to v
  RoundingError,     \* how far they are apart at most
  kDoublePrecision

Classes == {"integer", "decimal", "infinite", "nan", "other"}

Word == [spelling : Spellings, capital : BOOLEAN]

\* A gap comes before every word, the first one may be empty, and one at the end.
Text == [fields : Seq([gap : Gaps, word : Word]), tail : Gaps]

Abs(n) == IF n < 0 THEN -n ELSE n

ASSUME CompareAssumption ==
  /\ \A t \in Texts : t \in Text
  /\ Class \in [Spellings -> Classes] /\ Value \in [Spellings -> Numbers]
  /\ \A s \in Spellings : Class[s] = "integer" => Value[s] \in Whole
  /\ \A v \in Numbers : v \in Int
  /\ Whole \subseteq Numbers /\ Int32 \subseteq Whole
  /\ Rounded \in [Numbers -> Int]
  /\ RoundingError \in Nat
  /\ \A v \in Numbers : Abs(Rounded[v] - v) <= RoundingError
  /\ kDoublePrecision \in Nat \ {0}
  /\ \A v, u \in Whole : v # u => Abs(v - u) >= kDoublePrecision

VARIABLES
  output, expected,               \* the arguments
  pc,                             \* where OutputsMatch is
  output_parts, expected_parts,   \* the words of the arguments
  answer                          \* what is returned

vars == <<output, expected, pc, output_parts, expected_parts, answer>>

LowercaseWord == [spelling : Spellings, capital : {FALSE}]

TypeOK ==
  /\ output \in Text /\ expected \in Text
  /\ pc \in {"split", "compare", "returned"}
  /\ output_parts \in Seq(LowercaseWord)
  /\ expected_parts \in Seq(LowercaseWord)
  /\ answer \in BOOLEAN

Init ==
  /\ output \in Texts /\ expected \in Texts
  /\ pc = "split"
  /\ output_parts = <<>> /\ expected_parts = <<>>
  /\ answer = FALSE

-----------------------------------------------------------------------------
(* ValuesMatch.                                                            *)

\* absl::SimpleAtoi and absl::SimpleAtod succeed.
IsInt(a) == Class[a.spelling] = "integer" /\ Value[a.spelling] \in Int32
IsDouble(a) == Class[a.spelling] # "other"
IsString(a) == ~IsInt(a) /\ ~IsDouble(a)

IsFinite(a) == Class[a.spelling] \in {"integer", "decimal"}

\* Fault: the magnitudes are compared.
WithinPrecisionUnsigned(a, b) ==
  /\ IsFinite(a) /\ IsFinite(b)
  /\ Abs(Abs(Rounded[Value[a.spelling]]) - Abs(Rounded[Value[b.spelling]]))
       < kDoublePrecision

\* std::abs(ad - bd) < kDoublePrecision.  When one of them is not finite the
\* difference is an infinity or a NaN, which is not less than anything.
WithinPrecision(a, b) ==
  /\ IsFinite(a) /\ IsFinite(b)
  /\ Abs(Rounded[Value[a.spelling]] - Rounded[Value[b.spelling]])
       < kDoublePrecision

\* Fault: only numerals with a point are compared as doubles.
ValuesMatchWholeExactly(a, b) ==
  IF IsString(a) \/ IsString(b) THEN a = b
  ELSE IF ~IsInt(a) /\ ~IsInt(b) THEN WithinPrecision(a, b)
  ELSE Value[a.spelling] = Value[b.spelling]

\* Every int is a double too, so the last case does not arise.
ValuesMatch(a, b) ==
  IF IsString(a) \/ IsString(b) THEN a = b
  ELSE IF IsDouble(a) \/ IsDouble(b) THEN WithinPrecision(a, b)
  ELSE Value[a.spelling] = Value[b.spelling]

-----------------------------------------------------------------------------
(* OutputsMatch.                                                           *)

\* The gaps are skipped, the empty one too.
SplitAndLowercase(t) ==
  [i \in 1..Len(t.fields) |->
     [spelling |-> t.fields[i].word.spelling, capital |-> FALSE]]

Split ==
  /\ pc = "split"
  /\ pc' = "compare"
  /\ output_parts' = SplitAndLowercase(output)
  /\ expected_parts' = SplitAndLowercase(expected)
  /\ UNCHANGED <<output, expected, answer>>

\* Fault: there is no comparison of the lists as a whole.
EachMatches(a, b) == Len(a) = Len(b) /\ \A i \in 1..Len(a) : ValuesMatch(a[i], b[i])

\* Fault: the lengths are not compared, and a prefix will do.
PrefixMatches(a, b) ==
  \/ a = b
  \/ /\ Len(a) <= Len(b)
     /\ \A i \in 1..Len(a) : ValuesMatch(a[i], b[i])

PartsMatch(a, b) ==
  \/ a = b
  \/ /\ Len(a) = Len(b)
     /\ \A i \in 1..Len(a) : ValuesMatch(a[i], b[i])

Compare ==
  /\ pc = "compare"
  /\ pc' = "returned"
  /\ answer' = PartsMatch(output_parts, expected_parts)
  /\ UNCHANGED <<output, expected, output_parts, expected_parts>>

Next == Split \/ Compare \/ (pc = "returned" /\ UNCHANGED vars)

Spec == Init /\ [][Next]_vars

-----------------------------------------------------------------------------
(* Properties.                                                             *)

WordsOf(t) == {t.fields[i].word : i \in DOMAIN t.fields}

\* What the words of the texts are, without the detour of the code.
SameSpelling(a, b) == a.spelling = b.spelling

ValuesApart(a, b) == Abs(Value[a.spelling] - Value[b.spelling])

\* The i-th words of the two texts.
PairAt(i) == [a |-> output.fields[i].word, b |-> expected.fields[i].word]
SameLength == Len(output.fields) = Len(expected.fields)

\* The same, up to whitespace, case and floating point errors: equal integers,
\* numerals that are near, and otherwise the same letters.
SameWord(a, b) ==
  IF IsFinite(a) /\ IsFinite(b)
    THEN IF Class[a.spelling] = "integer" /\ Class[b.spelling] = "integer"
           THEN Value[a.spelling] = Value[b.spelling]
           ELSE ValuesApart(a, b) < kDoublePrecision
    ELSE SameSpelling(a, b)

\* A word whose value is a double, and no NaN or infinity.
Plain(a) == IsDouble(a) =>
  IsFinite(a) /\ Rounded[Value[a.spelling]] = Value[a.spelling]

\* As long as no numeral needs rounding, an answer is what the header promises,
\* although integers are compared as doubles with a tolerance.
AnswerIsSameness ==
  pc = "returned" /\ (\A a \in WordsOf(output) \cup WordsOf(expected) : Plain(a))
    => (answer <=>
          SameLength /\ \A i \in DOMAIN output.fields :
                          SameWord(PairAt(i).a, PairAt(i).b))

\* However wide the numerals are, what is accepted is near: a text is never
\* accepted for another because of the double arithmetic by more than twice its
\* error, and never for one with other words or another number of words.
AcceptedIsNear ==
  pc = "returned" /\ answer =>
    /\ SameLength
    /\ \A i \in DOMAIN output.fields :
         LET a == PairAt(i).a
             b == PairAt(i).b
         IN  \/ SameSpelling(a, b)
             \/ /\ IsFinite(a) /\ IsFinite(b)
                /\ ValuesApart(a, b) < kDoublePrecision + 2 * RoundingError

\* A program that prints the expected words is right, in whatever layout and
\* case, and even when they are NaNs, which are not equal to themselves.
SameWordsAccepted ==
  /\ pc = "returned"
  /\ SameLength
  /\ \A i \in DOMAIN output.fields : SameSpelling(PairAt(i).a, PairAt(i).b)
  => answer

=============================================================================
