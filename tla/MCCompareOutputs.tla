-------------------------- MODULE MCCompareOutputs --------------------------
(* CompareOutputs on texts of at most two words, with four units to 1, a     *)
(* precision of two units, ints below 2 and doubles exact up to 4.           *)
EXTENDS CompareOutputs

MCClass ==
  [minusFive |-> "integer", one |-> "integer", plusOne |-> "integer",
   five |-> "integer", four |-> "integer", onePointZero |-> "decimal",
   nearOne |-> "decimal", aboveOne |-> "decimal", inf |-> "infinite",
   nan |-> "nan", yes |-> "other", no |-> "other"]

MCValue ==
  [minusFive |-> -20, one |-> 4, plusOne |-> 4, five |-> 20, four |-> 16,
   onePointZero |-> 4, nearOne |-> 5, aboveOne |-> 6, inf |-> 0, nan |-> 0,
   yes |-> 0, no |-> 0]

MCSpellings == DOMAIN MCClass
MCNumbers == {MCValue[s] : s \in MCSpellings}
MCWhole == {-20, 4, 16, 20}
MCInt32 == {4}

\* 5 lies between the doubles 4 and 6, and 4 has the even mantissa.
MCRounded == 
  [v \in MCNumbers |-> IF v = 20 THEN 16 ELSE IF v = -20 THEN -16 ELSE v]

MCWords ==
  {[spelling |-> s, capital |-> FALSE] : s \in MCSpellings}
    \cup {[spelling |-> "nan", capital |-> TRUE]}

Lists == {<<>>} \cup {<<a>> : a \in MCWords}
           \cup {<<a, b>> : a \in MCWords, b \in MCWords}

Laid(list, first, between, last) ==
  [fields |-> [i \in 1..Len(list) |->
                 [gap |-> IF i = 1 THEN first ELSE between, word |-> list[i]]],
   tail |-> last]

MCTexts == {Laid(list, "none", "blank", "line") : list \in Lists}
             \cup {Laid(list, "line", "blank", "none") : list \in {l \in Lists : Len(l) < 2}}
=============================================================================
