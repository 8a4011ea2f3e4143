---------------------------- MODULE PatternsProofs ----------------------------
(***************************************************************************)
(* What the patterns of the calls exclude, for lines of any characters:    *)
(* which of them can match the same line, and which match a line that      *)
(* isTable has wrapped in bars.                                            *)
(***************************************************************************)
EXTENDS Patterns, TLAPS, WellFoundedInduction

\* A set of naturals that is not empty has a least member.
LEMMA LeastNat ==
  ASSUME NEW T \in SUBSET Nat, T # {}
  PROVE  \E n \in T : \A m \in T : n <= m
<1> DEFINE R == {ss \in Nat \X Nat : ss[1] < ss[2]}
<1>1. IsWellFoundedOn(R, Nat)
  BY NatLessThanWellFounded DEF OpToRel
<1>2. PICK n \in T : \A m \in T : <<m, n>> \notin R
  <2> HIDE DEF R
  <2> QED BY <1>1, WFMin
<1>3. \A m \in T : m < n => <<m, n>> \in R
  OBVIOUS
<1> HIDE DEF R
<1>4. \A m \in T : ~(m < n) /\ m \in Nat /\ n \in Nat
  BY <1>2, <1>3
<1> QED BY <1>4

\* n of the first characters are in C and the one after them, if any, is not.
IsLead(s, C, n) ==
  (\A i \in 1..n : s[i] \in C) /\ (n < Len(s) => s[n + 1] \notin C)

\* Every line has such a number, so Lead is one.
LEMMA LeadExists ==
  ASSUME NEW S, NEW s \in Seq(S), NEW C
  PROVE  /\ Lead(s, C) \in 0..Len(s)
         /\ IsLead(s, C, Lead(s, C))
<1> DEFINE T == {n \in Nat : n = Len(s) \/ (n < Len(s) /\ s[n + 1] \notin C)}
<1>1. Len(s) \in T
  OBVIOUS
<1>2. T \in SUBSET Nat
  OBVIOUS
<1>3. PICK n \in T : \A m \in T : n <= m
  <2> HIDE DEF T
  <2> QED BY <1>1, <1>2, LeastNat
<1>4. n \in 0..Len(s) /\ (n < Len(s) => s[n + 1] \notin C)
  OBVIOUS
<1>5. \A i \in 1..n : s[i] \in C
  <2> SUFFICES ASSUME NEW i \in 1..n, s[i] \notin C PROVE FALSE
    OBVIOUS
  <2>1. i - 1 \in T
    BY <1>4
  <2> HIDE DEF T
  <2> QED BY <1>3, <1>4, <2>1
<1>6. \E m \in 0..Len(s) : IsLead(s, C, m)
  BY <1>4, <1>5 DEF IsLead
<1> QED BY <1>6 DEF Lead, IsLead

\* A line that begins with a character outside C has none of C in front.
LEMMA LeadZero ==
  ASSUME NEW S, NEW s \in Seq(S), NEW C, s = <<>> \/ s[1] \notin C
  PROVE  Lead(s, C) = 0
<1>1. Lead(s, C) \in 0..Len(s) /\ IsLead(s, C, Lead(s, C))
  BY LeadExists
<1>2. CASE s = <<>>
  BY <1>1, <1>2
<1>3. CASE s # <<>>
  BY <1>1, <1>3 DEF IsLead
<1> QED BY <1>2, <1>3

\* The character at which Begins looks for a mark.
Mark(s) == s[Lead(s, White) + 1]

\* A line that begins with one of the marks has the first character of it there.
LEMMA BeginsMark ==
  ASSUME NEW S, NEW s \in Seq(S), NEW marks, Begins(s, marks),
         \A d \in marks : Len(d) \in Nat \ {0}
  PROVE  /\ Lead(s, White) + 1 \in DOMAIN s
         /\ \E d \in marks : Mark(s) = d[1]
<1> DEFINE n == Lead(s, White)
<1>1. n \in 0..Len(s)
  BY LeadExists
<1>2. PICK d \in marks : HasAt(s, n + 1, d)
  BY DEF Begins
<1>3. Len(d) \in Nat /\ Len(d) > 0
  OBVIOUS
<1>4. n + 1 + Len(d) - 1 <= Len(s) /\ SubSeq(s, n + 1, n + 1 + Len(d) - 1) = d
  BY <1>2 DEF HasAt
<1> HIDE DEF n
<1>5. n + 1 \in 1..Len(s)
  BY <1>1, <1>3, <1>4
<1>6. SubSeq(s, n + 1, n + 1 + Len(d) - 1)[1] = s[n + 1]
  BY <1>1, <1>3, <1>4
<1>7. Mark(s) = s[n + 1]
  BY DEF n, Mark
<1>8. n + 1 \in DOMAIN s
  BY <1>1, <1>5
<1>9. Mark(s) = d[1]
  BY <1>4, <1>6, <1>7
<1> QED BY <1>8, <1>9 DEF n

\* The marks of a list item and of a fence.
LEMMA UnorderedMark ==
  ASSUME NEW S, NEW s \in Seq(S), re_unorderlist(s)
  PROVE  Lead(s, White) + 1 \in DOMAIN s /\ Mark(s) \in {"*", "+", "-"}
<1> DEFINE marks == {<<m, w>> : m \in {"*", "+", "-"}, w \in White}
<1>1. ASSUME NEW d \in marks
      PROVE  Len(d) \in Nat \ {0} /\ d[1] \in {"*", "+", "-"}
  <2>1. PICK m \in {"*", "+", "-"}, w \in White : d = <<m, w>>
    OBVIOUS
  <2> HIDE DEF marks
  <2> QED BY <2>1
<1>2. Begins(s, marks)
  BY DEF re_unorderlist
<1> HIDE DEF marks
<1> QED BY <1>1, <1>2, BeginsMark

LEMMA OrderedMark ==
  ASSUME NEW S, NEW s \in Seq(S), re_orderlist(s)
  PROVE  Lead(s, White) + 1 \in DOMAIN s /\ Mark(s) \in Digits
<1> DEFINE marks == {<<d, ".", w>> : d \in Digits \ {"0"}, w \in White}
<1>1. ASSUME NEW d \in marks
      PROVE  Len(d) \in Nat \ {0} /\ d[1] \in Digits
  <2>1. PICK g \in Digits \ {"0"}, w \in White : d = <<g, ".", w>>
    OBVIOUS
  <2> HIDE DEF marks
  <2> QED BY <2>1
<1>2. Begins(s, marks)
  BY DEF re_orderlist
<1> HIDE DEF marks
<1> QED BY <1>1, <1>2, BeginsMark

LEMMA FenceMark ==
  ASSUME NEW S, NEW s \in Seq(S), re_codeblock(s)
  PROVE  Lead(s, White) + 1 \in DOMAIN s /\ Mark(s) = "fence"
<1> DEFINE marks == {<<"fence">>}
<1>1. ASSUME NEW d \in marks PROVE Len(d) \in Nat \ {0} /\ d[1] = "fence"
  <2>1. d = <<"fence">>
    OBVIOUS
  <2> HIDE DEF marks
  <2> QED BY <2>1
<1>2. Begins(s, marks)
  BY DEF re_codeblock
<1> HIDE DEF marks
<1> QED BY <1>1, <1>2, BeginsMark

\* A line is one of the three at most.
LEMMA MarksExclude ==
  ASSUME NEW S, NEW s \in Seq(S)
  PROVE  /\ ~(re_unorderlist(s) /\ re_orderlist(s))
         /\ re_codeblock(s) => ~re_unorderlist(s) /\ ~re_orderlist(s)
BY UnorderedMark, OrderedMark, FenceMark DEF Digits

\* A line behind a bar is none of the three, but has a cell: why isTable wraps
\* its line (Parser.cpp:335).
LEMMA BarredIsNoMark ==
  ASSUME NEW S, NEW s \in Seq(S), s # <<>>, s[1] = "|"
  PROVE  ~re_unorderlist(s) /\ ~re_orderlist(s) /\ ~re_codeblock(s) /\ re_table(s)
<1>1. Lead(s, White) = 0
  BY LeadZero DEF White
<1>2. Mark(s) = "|"
  BY <1>1 DEF Mark
<1>3. re_table(s)
  BY DEF re_table
<1> QED BY <1>2, <1>3, UnorderedMark, OrderedMark, FenceMark DEF Digits

\* A fence is neither empty nor a title nor a rule.
LEMMA FenceIsText ==
  ASSUME NEW S, NEW s \in Seq(S), re_codeblock(s)
  PROVE  s # <<>> /\ ~(re_header(s) > 0) /\ ~re_underline(s)
<1>1. s # <<>> /\ Mark(s) = "fence"
  BY FenceMark
<1>2. IsLead(s, White, Lead(s, White)) /\ Lead(s, White) \in 0..Len(s)
  BY LeadExists
<1>3. s[1] \in White \cup {"fence"}
  <2>1. CASE Lead(s, White) = 0
    BY <2>1, <1>1 DEF Mark
  <2>2. CASE Lead(s, White) # 0
    BY <2>2, <1>2 DEF IsLead
  <2> QED BY <2>1, <2>2
<1>4. Lead(s, {"#"}) = 0
  BY <1>3, LeadZero DEF White
<1>5. re_header(s) = 0
  BY <1>4 DEF re_header
<1>6. ~re_underline(s)
  <2>1. 1 \in DOMAIN s
    BY <1>1
  <2> QED BY <1>3, <2>1 DEF re_underline, White
<1> QED BY <1>1, <1>5, <1>6
==============================================================================
