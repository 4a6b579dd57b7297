------------------------ MODULE CompareOutputsProofs ------------------------
(***************************************************************************)
(* For all texts, whatever the numerals in them and however a double       *)
(* rounds them: OutputsMatch accepts what is the same and nothing that is  *)
(* far from it.                                                            *)
(***************************************************************************)
EXTENDS CompareOutputs, TLAPS

-----------------------------------------------------------------------------
(* Words.                                                                  *)

\* The small letters of a word.
Small(a) == [spelling |-> a.spelling, capital |-> FALSE]

LEMMA SmallWord ==
  ASSUME NEW a \in Word
  PROVE  Small(a) \in LowercaseWord /\ Small(a).spelling = a.spelling
BY DEF Small, Word, LowercaseWord

\* Words in small letters are equal when they are spelt alike.
LEMMA SmallEqual ==
  ASSUME NEW a \in Word, NEW b \in Word
  PROVE  Small(a) = Small(b) <=> SameSpelling(a, b)
BY DEF Small, SameSpelling

\* The values and the doubles of two words are integers.
LEMMA ValueTypes ==
  ASSUME NEW a \in Word
  PROVE  /\ a.spelling \in Spellings
         /\ Class[a.spelling] \in Classes
         /\ Value[a.spelling] \in Int
         /\ Rounded[Value[a.spelling]] \in Int
         /\ Abs(Rounded[Value[a.spelling]] - Value[a.spelling]) <= RoundingError
         /\ RoundingError \in Nat
<1>1. a.spelling \in Spellings
  BY DEF Word
<1>2. Class[a.spelling] \in Classes /\ Value[a.spelling] \in Numbers
  BY <1>1, CompareAssumption
<1>3. Value[a.spelling] \in Int /\ Rounded[Value[a.spelling]] \in Int
  BY <1>2, CompareAssumption
<1>4. Abs(Rounded[Value[a.spelling]] - Value[a.spelling]) <= RoundingError
  BY <1>2, CompareAssumption
<1> QED
  BY <1>1, <1>2, <1>3, <1>4, CompareAssumption

\* A word that is no numeral is not finite.
LEMMA Strings ==
  ASSUME NEW a \in Word
  PROVE  /\ IsString(a) <=> ~IsDouble(a)
         /\ IsFinite(a) => IsDouble(a)
BY DEF IsString, IsInt, IsDouble, IsFinite

\* What ValuesMatch comes to: numerals are compared as doubles, all others as
\* letters.
LEMMA MatchMeans ==
  ASSUME NEW a \in Word, NEW b \in Word
  PROVE  ValuesMatch(Small(a), Small(b)) <=>
           IF IsDouble(a) /\ IsDouble(b) THEN WithinPrecision(a, b)
                                         ELSE SameSpelling(a, b)
<1>1. Small(a).spelling = a.spelling /\ Small(b).spelling = b.spelling
  BY DEF Small
<1>2. /\ IsDouble(Small(a)) = IsDouble(a)
      /\ IsDouble(Small(b)) = IsDouble(b)
      /\ IsFinite(Small(a)) = IsFinite(a)
      /\ IsFinite(Small(b)) = IsFinite(b)
  BY <1>1 DEF IsDouble, IsFinite
<1>3. WithinPrecision(Small(a), Small(b)) = WithinPrecision(a, b)
  <2> HIDE DEF IsFinite, Small
  <2> QED
    BY <1>1, <1>2 DEF WithinPrecision
<1>4. /\ IsString(Small(a)) = ~IsDouble(a)
      /\ IsString(Small(b)) = ~IsDouble(b)
  BY <1>1 DEF IsString, IsInt, IsDouble
<1>5. (Small(a) = Small(b)) <=> SameSpelling(a, b)
  BY SmallEqual
<1> HIDE DEF IsDouble, WithinPrecision, IsString, SameSpelling, Small
<1>6. CASE IsDouble(a) /\ IsDouble(b)
  BY <1>2, <1>3, <1>4, <1>6 DEF ValuesMatch
<1>7. CASE ~(IsDouble(a) /\ IsDouble(b))
  BY <1>4, <1>5, <1>7 DEF ValuesMatch
<1> QED
  BY <1>6, <1>7

-----------------------------------------------------------------------------
(* Arithmetic.                                                             *)

\* Doubles that are near stand for values that are near.
LEMMA NearValues ==
  ASSUME NEW a \in Word, NEW b \in Word, WithinPrecision(a, b)
  PROVE  ValuesApart(a, b) < kDoublePrecision + 2 * RoundingError
<1>1. /\ Value[a.spelling] \in Int /\ Rounded[Value[a.spelling]] \in Int
      /\ Value[b.spelling] \in Int /\ Rounded[Value[b.spelling]] \in Int
      /\ RoundingError \in Nat
      /\ Abs(Rounded[Value[a.spelling]] - Value[a.spelling]) <= RoundingError
      /\ Abs(Rounded[Value[b.spelling]] - Value[b.spelling]) <= RoundingError
  BY ValueTypes
<1>2. /\ kDoublePrecision \in Nat
      /\ Abs(Rounded[Value[a.spelling]] - Rounded[Value[b.spelling]])
           < kDoublePrecision
  BY CompareAssumption DEF WithinPrecision
<1>3. ASSUME NEW v \in Int, NEW u \in Int, NEW rv \in Int, NEW ru \in Int,
             NEW e \in Nat, NEW d \in Nat,
             Abs(rv - v) <= e, Abs(ru - u) <= e, Abs(rv - ru) < d
      PROVE  Abs(v - u) < d + 2 * e
  BY <1>3 DEF Abs
<1> QED
  BY <1>1, <1>2, <1>3 DEF ValuesApart

\* Numerals that need no rounding are compared by their values.
LEMMA PlainValues ==
  ASSUME NEW a \in Word, NEW b \in Word, IsDouble(a), IsDouble(b),
         Plain(a), Plain(b)
  PROVE  WithinPrecision(a, b) <=> SameWord(a, b)
<1>1. /\ IsFinite(a) /\ IsFinite(b)
      /\ Rounded[Value[a.spelling]] = Value[a.spelling]
      /\ Rounded[Value[b.spelling]] = Value[b.spelling]
  BY DEF Plain
<1>2. WithinPrecision(a, b) <=> ValuesApart(a, b) < kDoublePrecision
  BY <1>1 DEF WithinPrecision, ValuesApart
<1>3. ASSUME Class[a.spelling] = "integer", Class[b.spelling] = "integer"
      PROVE  ValuesApart(a, b) < kDoublePrecision
               <=> Value[a.spelling] = Value[b.spelling]
  <2>1. Value[a.spelling] \in Whole /\ Value[b.spelling] \in Whole
    BY <1>3, ValueTypes, CompareAssumption
  <2>2. Value[a.spelling] \in Int /\ Value[b.spelling] \in Int
    BY ValueTypes
  <2>3. kDoublePrecision \in Nat \ {0}
    BY CompareAssumption
  <2>4. Value[a.spelling] # Value[b.spelling] =>
          ValuesApart(a, b) >= kDoublePrecision
    BY <2>1, CompareAssumption DEF ValuesApart
  <2>5. Value[a.spelling] = Value[b.spelling] => ValuesApart(a, b) = 0
    BY <2>2 DEF ValuesApart, Abs
  <2>6. ValuesApart(a, b) \in Int
    BY <2>2 DEF ValuesApart, Abs
  <2> QED
    BY <2>3, <2>4, <2>5, <2>6
<1> QED
  BY <1>1, <1>2, <1>3 DEF SameWord

\* Without rounding, ValuesMatch is sameness.
LEMMA MatchIsSameness ==
  ASSUME NEW a \in Word, NEW b \in Word, Plain(a), Plain(b)
  PROVE  ValuesMatch(Small(a), Small(b)) <=> SameWord(a, b)
<1>1. CASE IsDouble(a) /\ IsDouble(b)
  BY <1>1, MatchMeans, PlainValues
<1>2. CASE ~(IsDouble(a) /\ IsDouble(b))
  <2>1. ~(IsFinite(a) /\ IsFinite(b))
    BY <1>2, Strings
  <2> QED
    BY <1>2, <2>1, MatchMeans DEF SameWord
<1> QED
  BY <1>1, <1>2

\* A word is the same as itself.
LEMMA SameItself ==
  ASSUME NEW a \in Word, NEW b \in Word, SameSpelling(a, b)
  PROVE  SameWord(a, b)
<1>1. a.spelling = b.spelling /\ Value[a.spelling] \in Int
  BY ValueTypes DEF SameSpelling
<1>2. ValuesApart(a, b) = 0
  BY <1>1 DEF ValuesApart, Abs
<1> QED
  BY <1>1, <1>2, CompareAssumption DEF SameWord, SameSpelling

-----------------------------------------------------------------------------
(* Texts.                                                                  *)

LEMMA FieldWords ==
  ASSUME NEW t \in Text
  PROVE  /\ Len(t.fields) \in Nat /\ DOMAIN t.fields = 1..Len(t.fields)
         /\ \A i \in 1..Len(t.fields) : t.fields[i].word \in Word
<1> DEFINE Field == [gap : Gaps, word : Word]
           f == t.fields
<1>1. f \in Seq(Field)
  BY DEF Text
<1>2. \A x \in Field : x.word \in Word
  OBVIOUS
<1> HIDE DEF Field, f
<1>3. Len(f) \in Nat /\ DOMAIN f = 1..Len(f) /\ \A i \in 1..Len(f) : f[i] \in Field
  BY <1>1
<1>4. \A i \in 1..Len(f) : f[i].word \in Word
  BY <1>2, <1>3
<1> QED
  BY <1>3, <1>4 DEF f

LEMMA SplitText ==
  ASSUME NEW t \in Text
  PROVE  /\ SplitAndLowercase(t) \in Seq(LowercaseWord)
         /\ Len(SplitAndLowercase(t)) = Len(t.fields)
         /\ \A i \in 1..Len(t.fields) :
              SplitAndLowercase(t)[i] = Small(t.fields[i].word)
<1>1. Len(t.fields) \in Nat /\ \A i \in 1..Len(t.fields) : t.fields[i].word \in Word
  BY FieldWords
<1>2. SplitAndLowercase(t) = [i \in 1..Len(t.fields) |-> Small(t.fields[i].word)]
  BY DEF SplitAndLowercase, Small
<1>3. \A i \in 1..Len(t.fields) : Small(t.fields[i].word) \in LowercaseWord
  BY <1>1, SmallWord
<1> QED
  BY <1>1, <1>2, <1>3

\* What a comparison of two texts comes to.
LEMMA PartsMatchMeans ==
  ASSUME NEW t \in Text, NEW u \in Text
  PROVE  PartsMatch(SplitAndLowercase(t), SplitAndLowercase(u)) <=>
           /\ Len(t.fields) = Len(u.fields)
           /\ \/ \A i \in 1..Len(t.fields) :
                   SameSpelling(t.fields[i].word, u.fields[i].word)
              \/ \A i \in 1..Len(t.fields) :
                   ValuesMatch(Small(t.fields[i].word), Small(u.fields[i].word))
<1> DEFINE a == SplitAndLowercase(t)
           b == SplitAndLowercase(u)
<1>1. /\ a \in Seq(LowercaseWord) /\ b \in Seq(LowercaseWord)
      /\ Len(a) = Len(t.fields) /\ Len(b) = Len(u.fields)
      /\ \A i \in 1..Len(t.fields) : a[i] = Small(t.fields[i].word)
      /\ \A i \in 1..Len(u.fields) : b[i] = Small(u.fields[i].word)
  BY SplitText
<1>2. /\ Len(t.fields) \in Nat
      /\ \A i \in 1..Len(t.fields) : t.fields[i].word \in Word
      /\ \A i \in 1..Len(u.fields) : u.fields[i].word \in Word
  BY FieldWords
<1> HIDE DEF a, b
<1>3. a = b <=> Len(a) = Len(b) /\ \A i \in 1..Len(a) : a[i] = b[i]
  BY <1>1
<1>4. ASSUME Len(t.fields) = Len(u.fields)
      PROVE  \A i \in 1..Len(t.fields) :
               a[i] = b[i] <=> SameSpelling(t.fields[i].word, u.fields[i].word)
  BY <1>1, <1>2, <1>4, SmallEqual
<1>5. PartsMatch(a, b) <=>
        /\ Len(t.fields) = Len(u.fields)
        /\ \/ \A i \in 1..Len(t.fields) : a[i] = b[i]
           \/ \A i \in 1..Len(t.fields) : ValuesMatch(a[i], b[i])
  BY <1>1, <1>3 DEF PartsMatch
<1>6. ASSUME Len(t.fields) = Len(u.fields)
      PROVE  \A i \in 1..Len(t.fields) :
               ValuesMatch(a[i], b[i]) <=>
                 ValuesMatch(Small(t.fields[i].word), Small(u.fields[i].word))
  BY <1>1, <1>6
<1>7. PartsMatch(a, b) <=>
        /\ Len(t.fields) = Len(u.fields)
        /\ \/ \A i \in 1..Len(t.fields) :
                SameSpelling(t.fields[i].word, u.fields[i].word)
           \/ \A i \in 1..Len(t.fields) :
                ValuesMatch(Small(t.fields[i].word), Small(u.fields[i].word))
  BY <1>4, <1>5, <1>6
<1> QED
  BY <1>7 DEF a, b

-----------------------------------------------------------------------------
(* The call.                                                               *)

\* The parts are those of the arguments, and the answer is about them.
Steps ==
  /\ TypeOK
  /\ pc # "split" =>
       /\ output_parts = SplitAndLowercase(output)
       /\ expected_parts = SplitAndLowercase(expected)
  /\ pc = "returned" =>
       (answer <=> PartsMatch(SplitAndLowercase(output),
                              SplitAndLowercase(expected)))

LEMMA StepsHold == Spec => []Steps
<1>1. Init => Steps
  <2> SUFFICES ASSUME Init PROVE Steps
    OBVIOUS
  <2>1. output \in Text /\ expected \in Text
    BY CompareAssumption DEF Init
  <2>2. <<>> \in Seq(LowercaseWord)
    OBVIOUS
  <2> QED
    BY <2>1, <2>2 DEF Init, Steps, TypeOK
<1>2. Steps /\ [Next]_vars => Steps'
  <2> SUFFICES ASSUME Steps, [Next]_vars PROVE Steps'
    OBVIOUS
  <2>1. output \in Text /\ expected \in Text
    BY DEF Steps, TypeOK
  <2>2. CASE Split
    <3>1. /\ output' = output /\ expected' = expected /\ pc' = "compare"
          /\ output_parts' = SplitAndLowercase(output)
          /\ expected_parts' = SplitAndLowercase(expected)
          /\ answer' = answer
      BY <2>2 DEF Split
    <3>2. /\ SplitAndLowercase(output)' = SplitAndLowercase(output)
          /\ SplitAndLowercase(expected)' = SplitAndLowercase(expected)
      BY <3>1 DEF SplitAndLowercase
    <3>3. /\ SplitAndLowercase(output) \in Seq(LowercaseWord)
          /\ SplitAndLowercase(expected) \in Seq(LowercaseWord)
      BY <2>1, SplitText
    <3> HIDE DEF SplitAndLowercase
    <3>4. TypeOK'
      BY <3>1, <3>3 DEF Steps, TypeOK
    <3> QED
      BY <3>1, <3>2, <3>4 DEF Steps
  <2>3. CASE Compare
    <3>1. /\ UNCHANGED <<output, expected, output_parts, expected_parts>>
          /\ pc = "compare" /\ pc' = "returned"
          /\ answer' = PartsMatch(output_parts, expected_parts)
      BY <2>3 DEF Compare
    <3>2. /\ SplitAndLowercase(output)' = SplitAndLowercase(output)
          /\ SplitAndLowercase(expected)' = SplitAndLowercase(expected)
      BY <3>1 DEF SplitAndLowercase
    <3>3. PartsMatch(output_parts, expected_parts) \in BOOLEAN
      BY DEF PartsMatch
    <3>4. /\ output_parts = SplitAndLowercase(output)
          /\ expected_parts = SplitAndLowercase(expected)
      BY <3>1 DEF Steps
    <3>5. PartsMatch(SplitAndLowercase(output), SplitAndLowercase(expected))'
            = PartsMatch(output_parts, expected_parts)
      BY <3>1, <3>2, <3>4
    <3>6. TypeOK'
      BY <3>1, <3>3 DEF Steps, TypeOK
    <3> QED
      BY <3>1, <3>2, <3>4, <3>5, <3>6 DEF Steps
  <2>4. CASE UNCHANGED vars
    <3>1. /\ output' = output /\ expected' = expected /\ pc' = pc
          /\ output_parts' = output_parts /\ expected_parts' = expected_parts
          /\ answer' = answer
      BY <2>4 DEF vars
    <3>2. /\ SplitAndLowercase(output)' = SplitAndLowercase(output)
          /\ SplitAndLowercase(expected)' = SplitAndLowercase(expected)
      BY <3>1 DEF SplitAndLowercase
    <3>3. PartsMatch(SplitAndLowercase(output), SplitAndLowercase(expected))'
            = PartsMatch(SplitAndLowercase(output), SplitAndLowercase(expected))
      BY <3>2
    <3>4. TypeOK'
      BY <3>1 DEF Steps, TypeOK
    <3> QED
      BY <3>1, <3>2, <3>3, <3>4 DEF Steps
  <2> QED
    BY <2>2, <2>3, <2>4 DEF Next
<1> QED
  BY <1>1, <1>2, PTL DEF Spec

\* The parts are words in small letters, and the answer is a Boolean.
THEOREM TypeCorrect == Spec => []TypeOK
<1>1. Steps => TypeOK
  BY DEF Steps
<1> QED
  BY <1>1, StepsHold, PTL

\* The answer in terms of the texts.
LEMMA AnswerMeans ==
  ASSUME Steps, pc = "returned"
  PROVE  /\ output \in Text /\ expected \in Text
         /\ answer <=>
              /\ SameLength
              /\ \/ \A i \in DOMAIN output.fields :
                      SameSpelling(PairAt(i).a, PairAt(i).b)
                 \/ \A i \in DOMAIN output.fields :
                      ValuesMatch(Small(PairAt(i).a), Small(PairAt(i).b))
<1>1. output \in Text /\ expected \in Text
  BY DEF Steps, TypeOK
<1>2. DOMAIN output.fields = 1..Len(output.fields)
  BY <1>1, FieldWords
<1>3. answer <=> PartsMatch(SplitAndLowercase(output), SplitAndLowercase(expected))
  BY DEF Steps
<1> QED
  BY <1>1, <1>2, <1>3, PartsMatchMeans DEF SameLength, PairAt

LEMMA PairWords ==
  ASSUME Steps, SameLength, NEW i \in DOMAIN output.fields
  PROVE  PairAt(i).a \in Word /\ PairAt(i).b \in Word
<1>1. output \in Text /\ expected \in Text
  BY DEF Steps, TypeOK
<1> QED
  BY <1>1, FieldWords DEF SameLength, PairAt

\* tester_sandboxer.h:136-137: the same up to whitespace and floating point
\* errors, as long as no numeral is rounded.
THEOREM AnswersAreSameness == Spec => []AnswerIsSameness
<1>1. Steps => AnswerIsSameness
  <2> SUFFICES ASSUME Steps, pc = "returned",
                      \A a \in WordsOf(output) \cup WordsOf(expected) : Plain(a)
               PROVE  answer <=>
                        SameLength /\ \A i \in DOMAIN output.fields :
                                        SameWord(PairAt(i).a, PairAt(i).b)
    BY DEF AnswerIsSameness
  <2>1. ASSUME SameLength, NEW i \in DOMAIN output.fields
        PROVE  /\ ValuesMatch(Small(PairAt(i).a), Small(PairAt(i).b))
                    <=> SameWord(PairAt(i).a, PairAt(i).b)
               /\ SameSpelling(PairAt(i).a, PairAt(i).b)
                    => SameWord(PairAt(i).a, PairAt(i).b)
    <3>1. PairAt(i).a \in Word /\ PairAt(i).b \in Word
      BY <2>1, PairWords
    <3>2. i \in DOMAIN expected.fields
      BY <2>1, FieldWords DEF Steps, TypeOK, SameLength
    <3>3. Plain(PairAt(i).a) /\ Plain(PairAt(i).b)
      BY <2>1, <3>2 DEF WordsOf, PairAt
    <3> QED
      BY <3>1, <3>3, MatchIsSameness, SameItself
  <2> QED
    BY <2>1, AnswerMeans
<1> QED
  BY <1>1, StepsHold, PTL

\* tester_sandboxer.cc:159-162: comparing doubles accepts nothing that is
\* farther away than the precision and the rounding of two numerals.
THEOREM AcceptedAreNear == Spec => []AcceptedIsNear
<1>1. Steps => AcceptedIsNear
  <2> SUFFICES ASSUME Steps, pc = "returned", answer
               PROVE  /\ SameLength
                      /\ \A i \in DOMAIN output.fields :
                           LET a == PairAt(i).a
                               b == PairAt(i).b
                           IN  \/ SameSpelling(a, b)
                               \/ /\ IsFinite(a) /\ IsFinite(b)
                                  /\ ValuesApart(a, b)
                                       < kDoublePrecision + 2 * RoundingError
    BY DEF AcceptedIsNear
  <2>1. SameLength
    BY AnswerMeans
  <2>2. ASSUME NEW i \in DOMAIN output.fields,
               ~SameSpelling(PairAt(i).a, PairAt(i).b)
        PROVE  /\ IsFinite(PairAt(i).a) /\ IsFinite(PairAt(i).b)
               /\ ValuesApart(PairAt(i).a, PairAt(i).b)
                    < kDoublePrecision + 2 * RoundingError
    <3>1. PairAt(i).a \in Word /\ PairAt(i).b \in Word
      BY <2>1, PairWords
    <3>2. ValuesMatch(Small(PairAt(i).a), Small(PairAt(i).b))
      BY <2>2, AnswerMeans
    <3>3. WithinPrecision(PairAt(i).a, PairAt(i).b)
      BY <2>2, <3>1, <3>2, MatchMeans
    <3>4. IsFinite(PairAt(i).a) /\ IsFinite(PairAt(i).b)
      BY <3>3 DEF WithinPrecision
    <3> QED
      BY <3>1, <3>3, <3>4, NearValues
  <2> QED
    BY <2>1, <2>2
<1> QED
  BY <1>1, StepsHold, PTL

\* tester_sandboxer.cc:259: whoever prints the expected words is right.
THEOREM SameWordsAreAccepted == Spec => []SameWordsAccepted
<1>1. Steps => SameWordsAccepted
  BY AnswerMeans DEF SameWordsAccepted
<1> QED
  BY <1>1, StepsHold, PTL

=============================================================================
