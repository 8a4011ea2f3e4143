----------------------------- MODULE InlineProofs -----------------------------
(***************************************************************************)
(* What Parser::start makes of one line, for lines of any length: no text  *)
(* is lost or doubled, and every tag that the calls begin is ended.        *)
(***************************************************************************)
EXTENDS Inline, PatternsProofs, FiniteSetTheorems, SequenceTheorems

Tags == BeginTags \cup {EndOf[t] : t \in BeginTags}

\* The characters whose number the calls keep.
Text == {"a", "b", "u", "$", "1"}

\* What the delimiters are made of.
Marks == {"*", "!", "[", "]", "(", ")"}

\* The provers do not know that a literal is a STRING.
Chars == STRING \cup Tags \cup Text \cup Marks \cup
           {"'>", "<hr>", "<h1>", "<h2>", "<h3>", "<h4>", "<h5>", "<h6>",
            "</h1>", "</h2>", "</h3>", "</h4>", "</h5>", "</h6>"}

------------------------------------------------------------------------------
(* Counting *)

\* Where c stands in s.
At(s, c) == {i \in DOMAIN s : s[i] = c}

\* The places of c are some of the finitely many of s.
LEMMA AtFinite ==
  ASSUME NEW S, NEW s \in Seq(S), NEW c
  PROVE  IsFiniteSet(At(s, c)) /\ At(s, c) \in SUBSET (1..Len(s)) /\ Len(s) \in Nat
<1>1. Len(s) \in Nat /\ At(s, c) \in SUBSET (1..Len(s))
  BY DEF At
<1>2. IsFiniteSet(1..Len(s))
  BY <1>1, FS_Interval
<1> QED BY <1>1, <1>2, FS_Subset

\* Count is their number.
LEMMA CountType ==
  ASSUME NEW S, NEW s \in Seq(S), NEW c
  PROVE  Count(s, c) \in Nat /\ Count(s, c) = Cardinality(At(s, c))
BY AtFinite, FS_CardinalityType DEF Count, At

\* A sequence without c.
LEMMA CountNone ==
  ASSUME NEW S, NEW s \in Seq(S), NEW c, \A i \in 1..Len(s) : s[i] # c
  PROVE  Count(s, c) = 0
<1>1. At(s, c) = {}
  BY DEF At
<1> QED BY <1>1, CountType, FS_EmptySet

\* And the other way round.
LEMMA CountZero ==
  ASSUME NEW S, NEW s \in Seq(S), NEW c, Count(s, c) = 0
  PROVE  \A i \in 1..Len(s) : s[i] # c
<1>1. At(s, c) = {}
  BY AtFinite, CountType, FS_EmptySet
<1> QED BY <1>1 DEF At

\* A sequence of nothing but c.
LEMMA CountAll ==
  ASSUME NEW S, NEW s \in Seq(S), NEW c, \A i \in 1..Len(s) : s[i] = c
  PROVE  Count(s, c) = Len(s)
<1>1. At(s, c) = 1..Len(s) /\ Len(s) \in Nat
  BY DEF At
<1>2. Cardinality(1..Len(s)) = Len(s)
  <2>1. 1 \in Int /\ Len(s) \in Int
    BY <1>1
  <2>2. Cardinality(1..Len(s)) = IF 1 > Len(s) THEN 0 ELSE Len(s) - 1 + 1
    BY <2>1, FS_Interval
  <2> QED BY <1>1, <2>2
<1>3. Count(s, c) = Cardinality(At(s, c))
  BY CountType
<1> QED BY <1>1, <1>2, <1>3

\* Concatenation adds.
LEMMA CountConcat ==
  ASSUME NEW S, NEW s \in Seq(S), NEW u \in Seq(S), NEW c
  PROVE  Count(s \o u, c) = Count(s, c) + Count(u, c)
<1> DEFINE U == {i \in 1..(Len(s) + Len(u)) : i > Len(s) /\ (s \o u)[i] = c}
           f == [i \in At(u, c) |-> Len(s) + i]
<1>0. Len(s) \in Nat /\ Len(u) \in Nat
  OBVIOUS
<1>1. s \o u \in Seq(S) /\ Len(s \o u) = Len(s) + Len(u)
  BY ConcatProperties
<1>2. \A i \in 1..(Len(s) + Len(u)) :
        (s \o u)[i] = IF i <= Len(s) THEN s[i] ELSE u[i - Len(s)]
  BY ConcatProperties
<1>3. At(s \o u, c) = At(s, c) \cup U
  <2>1. At(s \o u, c) = {i \in 1..(Len(s) + Len(u)) : (s \o u)[i] = c}
    BY <1>1 DEF At
  <2>2. At(s, c) = {i \in 1..(Len(s) + Len(u)) : i <= Len(s) /\ (s \o u)[i] = c}
    BY <1>0, <1>2 DEF At
  <2> QED BY <1>0, <2>1, <2>2
<1>4. At(s, c) \cap U = {}
  BY <1>0 DEF At
<1>5. ExistsBijection(At(u, c), U)
  <2>1. f \in [At(u, c) -> U]
    <3>1. ASSUME NEW i \in At(u, c) PROVE Len(s) + i \in U
      <4>1. i \in 1..Len(u) /\ u[i] = c
        BY <1>0 DEF At
      <4>2. Len(s) + i \in 1..(Len(s) + Len(u)) /\ Len(s) + i > Len(s)
        BY <1>0, <4>1
      <4>3. (s \o u)[Len(s) + i] = u[i]
        BY <1>0, <1>2, <4>1, <4>2
      <4> QED BY <4>1, <4>2, <4>3
    <3> HIDE DEF U
    <3> QED BY <3>1
  <2>2. \A i, k \in At(u, c) : f[i] = f[k] => i = k
    BY <1>0 DEF At
  <2>3. ASSUME NEW m \in U PROVE \E i \in At(u, c) : f[i] = m
    <3>1. m - Len(s) \in 1..Len(u) /\ u[m - Len(s)] = c
      BY <1>0, <1>2
    <3>2. m - Len(s) \in At(u, c)
      BY <1>0, <3>1 DEF At
    <3>3. f[m - Len(s)] = m
      BY <1>0, <3>2
    <3> QED BY <3>2, <3>3
  <2> HIDE DEF U, f
  <2> QED BY <2>1, <2>2, <2>3
       DEF ExistsBijection, Bijection, Injection, Surjection, IsInjective
<1>6. IsFiniteSet(U) /\ Cardinality(U) = Cardinality(At(u, c))
  <2> HIDE DEF U
  <2>1. IsFiniteSet(At(u, c))
    BY AtFinite
  <2> HIDE DEF f
  <2> QED BY <1>5, <2>1, FS_Bijection
<1>7. Cardinality(At(s, c) \cup U) = Cardinality(At(s, c)) + Cardinality(U)
  <2> HIDE DEF U
  <2>1. IsFiniteSet(At(s, c)) /\ Cardinality(At(s, c)) \in Nat
    BY AtFinite, CountType
  <2>2. Cardinality(U) \in Nat
    BY <1>6, FS_CardinalityType
  <2>3. Cardinality(At(s, c) \cup U)
          = Cardinality(At(s, c)) + Cardinality(U) - Cardinality(At(s, c) \cap U)
    BY <1>6, <2>1, FS_Union
  <2>4. Cardinality(At(s, c) \cap U) = 0
    BY <1>4, FS_EmptySet
  <2> QED BY <2>1, <2>2, <2>3, <2>4
<1> HIDE DEF U
<1>8. Count(s \o u, c) = Cardinality(At(s \o u, c))
  BY <1>1, CountType
<1>9. Count(s, c) = Cardinality(At(s, c)) /\ Count(u, c) = Cardinality(At(u, c))
  BY CountType
<1> QED BY <1>3, <1>6, <1>7, <1>8, <1>9

------------------------------------------------------------------------------
(* Sequences put together and taken apart *)

\* One entry.
LEMMA OneEntry ==
  ASSUME NEW S, NEW x \in S
  PROVE  <<x>> \in Seq(S) /\ Len(<<x>>) = 1 /\ <<x>>[1] = x
OBVIOUS

\* A sequence of one entry counts one or none.
LEMMA CountOne ==
  ASSUME NEW S, NEW x \in S, NEW c
  PROVE  Count(<<x>>, c) = IF x = c THEN 1 ELSE 0
<1> DEFINE q == <<x>>
<1>1. q \in Seq(S) /\ Len(q) = 1 /\ \A i \in 1..Len(q) : q[i] = x
  BY OneEntry
<1> HIDE DEF q
<1>2. Count(q, c) = IF x = c THEN 1 ELSE 0
  <2>1. CASE x = c
    BY <1>1, <2>1, CountAll
  <2>2. CASE x # c
    <3>1. \A i \in 1..Len(q) : q[i] # c
      BY <1>1, <2>2
    <3> QED BY <1>1, <2>2, <3>1, CountNone
  <2> QED BY <2>1, <2>2
<1> QED BY <1>2 DEF q

\* The part of s from m to n.
LEMMA PartType ==
  ASSUME NEW S, NEW s \in Seq(S), NEW m \in 1..(Len(s) + 1), NEW n \in (m - 1)..Len(s)
  PROVE  /\ SubSeq(s, m, n) \in Seq(S)
         /\ Len(SubSeq(s, m, n)) = n - m + 1
         /\ \A i \in 1..(n - m + 1) : SubSeq(s, m, n)[i] = s[m + i - 1]
<1>1. Len(s) \in Nat /\ m \in Int /\ n \in Int /\ m \in Nat
  OBVIOUS
<1>2. \A i \in m..n : s[i] \in S
  BY <1>1
<1>3. SubSeq(s, m, n) \in Seq(S) /\ Len(SubSeq(s, m, n)) = (IF m <= n THEN n - m + 1 ELSE 0)
  BY <1>1, <1>2, SubSeqProperties
<1>4. \A i \in 1 .. n - m + 1 : SubSeq(s, m, n)[i] = s[m + i - 1]
  BY <1>1, <1>2, SubSeqProperties
<1>5. (IF m <= n THEN n - m + 1 ELSE 0) = n - m + 1
  BY <1>1
<1> QED BY <1>3, <1>4, <1>5

\* The first n entries are the first k and those from k + 1 to n.
LEMMA PrefixCut ==
  ASSUME NEW S, NEW s \in Seq(S), NEW n \in 0..Len(s), NEW k \in 0..n
  PROVE  /\ SubSeq(s, 1, k) \in Seq(S) /\ SubSeq(s, k + 1, n) \in Seq(S)
         /\ SubSeq(s, 1, n) = SubSeq(s, 1, k) \o SubSeq(s, k + 1, n)
<1>1. Len(s) \in Nat /\ 1 \in 1..(Len(s) + 1) /\ k \in (1 - 1)..Len(s) /\ n \in k..Len(s)
  OBVIOUS
<1>2. k + 1 \in 1..(Len(s) + 1) /\ n \in ((k + 1) - 1)..Len(s)
  BY <1>1
<1>3. SubSeq(s, 1, k) \o SubSeq(s, k + 1, n) = SubSeq(s, 1, n)
  BY <1>1, ConcatAdjacentSubSeq
<1> QED BY <1>1, <1>2, <1>3, PartType

------------------------------------------------------------------------------
(* Tags that begin and end *)

\* How many more of t begin in s than end in it.
Balance(s, t) == Count(s, t) - Count(s, EndOf[t])

\* With d of t begun before s, none ends in s that was not begun.
Above(s, t, d) ==
  \A n \in 0..Len(s) : d + Balance(SubSeq(s, 1, n), t) >= 0

\* How much oftener a tag was begun than ended is a number.
LEMMA BalanceType ==
  ASSUME NEW S, NEW s \in Seq(S), NEW t
  PROVE  Balance(s, t) \in Int
BY CountType DEF Balance

\* It adds over concatenation, as the counts do.
LEMMA BalanceConcat ==
  ASSUME NEW S, NEW s \in Seq(S), NEW u \in Seq(S), NEW t
  PROVE  Balance(s \o u, t) = Balance(s, t) + Balance(u, t)
<1>1. Count(s \o u, t) = Count(s, t) + Count(u, t)
  BY CountConcat
<1>2. Count(s \o u, EndOf[t]) = Count(s, EndOf[t]) + Count(u, EndOf[t])
  BY CountConcat
<1>3. /\ Count(s, t) \in Nat /\ Count(u, t) \in Nat
      /\ Count(s, EndOf[t]) \in Nat /\ Count(u, EndOf[t]) \in Nat
  BY CountType
<1> QED BY <1>1, <1>2, <1>3 DEF Balance

\* The prefixes of s \o u are those of s, and s with those of u.
LEMMA AboveConcat ==
  ASSUME NEW S, NEW s \in Seq(S), NEW u \in Seq(S), NEW t, NEW d \in Int
  PROVE  Above(s \o u, t, d) <=> Above(s, t, d) /\ Above(u, t, d + Balance(s, t))
<1>0. Len(s) \in Nat /\ Len(u) \in Nat
  OBVIOUS
<1>1. s \o u \in Seq(S) /\ Len(s \o u) = Len(s) + Len(u)
  BY ConcatProperties
<1>2. \A i \in 1..(Len(s) + Len(u)) :
        (s \o u)[i] = IF i <= Len(s) THEN s[i] ELSE u[i - Len(s)]
  BY ConcatProperties
<1>3. ASSUME NEW n \in 0..Len(s)
      PROVE  SubSeq(s \o u, 1, n) = SubSeq(s, 1, n)
  <2>1. CASE n = 0
    <3>1. SubSeq(s \o u, 1, 0) = <<>> /\ SubSeq(s, 1, 0) = <<>>
      BY SubSeqEmpty
    <3> QED BY <2>1, <3>1
  <2>2. CASE n # 0
    <3>1. 1 \in 1..Len(s) /\ n \in 1..Len(s)
      BY <1>0, <2>2
    <3> QED BY <3>1, SubSeqOfConcat1
  <2> QED BY <2>1, <2>2
<1>4. ASSUME NEW n \in 0..Len(u)
      PROVE  SubSeq(s \o u, 1, Len(s) + n) = s \o SubSeq(u, 1, n)
  <2>1. /\ Len(s) + n \in 0..Len(s \o u) /\ Len(s) \in 0..(Len(s) + n)
        /\ Len(s) \in 0..Len(s)
    BY <1>0, <1>1
  <2>2. SubSeq(s \o u, 1, Len(s) + n)
          = SubSeq(s \o u, 1, Len(s)) \o SubSeq(s \o u, Len(s) + 1, Len(s) + n)
    BY <1>1, <2>1, PrefixCut
  <2>3. SubSeq(s \o u, 1, Len(s)) = s
    BY <1>3, <2>1, SubSeqFull
  <2>4. SubSeq(s \o u, Len(s) + 1, Len(s) + n) = SubSeq(u, 1, n)
    <3>1. CASE n = 0
      <4>1. SubSeq(s \o u, Len(s) + 1, Len(s)) = <<>> /\ SubSeq(u, 1, 0) = <<>>
        BY <1>0, SubSeqEmpty
      <4> QED BY <1>0, <3>1, <4>1
    <3>2. CASE n # 0
      <4>1. /\ Len(s) + 1 \in Len(s) + 1 .. Len(s) + Len(u)
            /\ Len(s) + n \in Len(s) + 1 .. Len(s) + Len(u)
            /\ (Len(s) + 1) - Len(s) = 1 /\ (Len(s) + n) - Len(s) = n
        BY <1>0, <3>2
      <4>2. SubSeq(s \o u, Len(s) + 1, Len(s) + n)
              = SubSeq(u, (Len(s) + 1) - Len(s), (Len(s) + n) - Len(s))
        BY <4>1, SubSeqOfConcat2
      <4> QED BY <4>1, <4>2
    <3> QED BY <3>1, <3>2
  <2> QED BY <2>2, <2>3, <2>4
<1>5. ASSUME NEW n \in 0..Len(u)
      PROVE  /\ d + Balance(SubSeq(s \o u, 1, Len(s) + n), t)
                  = (d + Balance(s, t)) + Balance(SubSeq(u, 1, n), t)
             /\ Balance(SubSeq(u, 1, n), t) \in Int
  <2>1. SubSeq(u, 1, n) \in Seq(S)
    BY <1>0, PartType
  <2>2. /\ Balance(s \o SubSeq(u, 1, n), t) = Balance(s, t) + Balance(SubSeq(u, 1, n), t)
        /\ Balance(s, t) \in Int
        /\ Balance(SubSeq(u, 1, n), t) \in Int
    BY <2>1, BalanceConcat, BalanceType
  <2>3. Balance(SubSeq(s \o u, 1, Len(s) + n), t) = Balance(s, t) + Balance(SubSeq(u, 1, n), t)
    BY <1>4, <2>2
  <2> QED BY <2>2, <2>3
<1>6. ASSUME Above(s \o u, t, d) PROVE Above(s, t, d) /\ Above(u, t, d + Balance(s, t))
  <2>1. \A n \in 0..Len(s) : n \in 0..Len(s \o u)
    BY <1>0, <1>1
  <2>2. \A n \in 0..Len(u) : Len(s) + n \in 0..Len(s \o u)
    BY <1>0, <1>1
  <2>3. Above(s, t, d)
    BY <1>3, <1>6, <2>1 DEF Above
  <2>4. Above(u, t, d + Balance(s, t))
    BY <1>5, <1>6, <2>2 DEF Above
  <2> QED BY <2>3, <2>4
<1>7. ASSUME Above(s, t, d), Above(u, t, d + Balance(s, t))
      PROVE  Above(s \o u, t, d)
  <2> SUFFICES ASSUME NEW m \in 0..Len(s \o u)
               PROVE  d + Balance(SubSeq(s \o u, 1, m), t) >= 0
    BY DEF Above
  <2>1. CASE m <= Len(s)
    <3>1. m \in 0..Len(s)
      BY <1>0, <1>1, <2>1
    <3> QED BY <3>1, <1>3, <1>7 DEF Above
  <2>2. CASE m > Len(s)
    <3>1. PICK n \in 0..Len(u) : m = Len(s) + n
      <4>1. m - Len(s) \in 0..Len(u) /\ m = Len(s) + (m - Len(s))
        BY <1>0, <1>1, <2>2
      <4> QED BY <4>1
    <3> QED BY <3>1, <1>5, <1>7 DEF Above
  <2> QED BY <1>0, <1>1, <2>1, <2>2
<1> QED BY <1>6, <1>7

------------------------------------------------------------------------------
(* Format strings without references *)

\* A reference takes two characters.
LEMMA NoReferenceOne ==
  ASSUME NEW S, NEW x \in S
  PROVE  NoReference(<<x>>)
BY OneEntry DEF NoReference

\* A part of a line without a reference has none.
LEMMA NoReferencePart ==
  ASSUME NEW S, NEW s \in Seq(S), NEW m \in 1..(Len(s) + 1), NEW n \in (m - 1)..Len(s),
         NoReference(s)
  PROVE  NoReference(SubSeq(s, m, n))
<1> SUFFICES ASSUME NEW i \in 1..(Len(SubSeq(s, m, n)) - 1),
                    SubSeq(s, m, n)[i] = "$", SubSeq(s, m, n)[i + 1] \in Referring
             PROVE  FALSE
  BY DEF NoReference, Referring
<1>1. Len(s) \in Nat /\ m \in Nat /\ n \in Int
  OBVIOUS
<1>2. /\ Len(SubSeq(s, m, n)) = n - m + 1
      /\ \A k \in 1..(n - m + 1) : SubSeq(s, m, n)[k] = s[m + k - 1]
  BY PartType
<1>3. i \in 1..(n - m + 1) /\ i + 1 \in 1..(n - m + 1)
  BY <1>1, <1>2
<1>4. SubSeq(s, m, n)[i] = s[m + i - 1] /\ SubSeq(s, m, n)[i + 1] = s[m + (i + 1) - 1]
  BY <1>2, <1>3
<1>5. m + i - 1 \in 1..(Len(s) - 1) /\ m + (i + 1) - 1 = (m + i - 1) + 1
  BY <1>1, <1>3
<1> QED BY <1>4, <1>5 DEF NoReference, Referring

\* One can only come about where two sequences meet.
LEMMA NoReferenceConcat ==
  ASSUME NEW S, NEW s \in Seq(S), NEW u \in Seq(S), NoReference(s), NoReference(u),
         s # <<>> /\ u # <<>> => s[Len(s)] # "$" \/ u[1] \notin Referring
  PROVE  NoReference(s \o u)
<1> SUFFICES ASSUME NEW i \in 1..(Len(s \o u) - 1),
                    (s \o u)[i] = "$", (s \o u)[i + 1] \in Referring
             PROVE  FALSE
  BY DEF NoReference, Referring
<1>1. Len(s) \in Nat /\ Len(u) \in Nat /\ Len(s \o u) = Len(s) + Len(u)
  BY ConcatProperties
<1>2. \A k \in 1..(Len(s) + Len(u)) : (s \o u)[k] = IF k <= Len(s) THEN s[k] ELSE u[k - Len(s)]
  BY ConcatProperties
<1>3. i \in 1..(Len(s) + Len(u)) /\ i + 1 \in 1..(Len(s) + Len(u))
  BY <1>1
<1>4. CASE i + 1 <= Len(s)
  <2>1. i \in 1..(Len(s) - 1) /\ s[i] = "$" /\ s[i + 1] \in Referring
    BY <1>1, <1>2, <1>3, <1>4
  <2> QED BY <2>1 DEF NoReference, Referring
<1>5. CASE i > Len(s)
  <2>1. /\ i - Len(s) \in 1..(Len(u) - 1) /\ u[i - Len(s)] = "$"
        /\ (i + 1) - Len(s) = (i - Len(s)) + 1 /\ u[(i + 1) - Len(s)] \in Referring
    BY <1>1, <1>2, <1>3, <1>5
  <2> QED BY <2>1 DEF NoReference, Referring
<1>6. CASE i = Len(s)
  <2>1. s[Len(s)] = "$" /\ u[1] \in Referring /\ Len(s) > 0 /\ Len(u) > 0
    BY <1>1, <1>2, <1>3, <1>6
  <2> QED BY <2>1
<1> QED BY <1>1, <1>3, <1>4, <1>5, <1>6

\* The first and the last entry of what stands between two of them.
LEMMA Ends ==
  ASSUME NEW S, NEW x \in S, NEW y \in S, NEW u \in Seq(S)
  PROVE  /\ <<x>> \o u \in Seq(S) /\ (<<x>> \o u)[1] = x
         /\ u \o <<y>> \in Seq(S) /\ (u \o <<y>>)[Len(u \o <<y>>)] = y
         /\ (<<x>> \o u) \o <<y>> \in Seq(S)
         /\ ((<<x>> \o u) \o <<y>>)[1] = x
         /\ ((<<x>> \o u) \o <<y>>)[Len((<<x>> \o u) \o <<y>>)] = y
OBVIOUS

\* Tags keep references from coming about.
LEMMA NoReferenceWrap ==
  ASSUME NEW S, NEW x \in S, NEW y \in S, NEW u \in Seq(S), NoReference(u),
         x \notin Referring, y \notin Referring
  PROVE  NoReference((<<x>> \o u) \o <<y>>)
<1>1. <<x>> \in Seq(S) /\ <<y>> \in Seq(S) /\ <<x>> \o u \in Seq(S)
  BY Ends
<1>2. /\ NoReference(<<x>>) /\ NoReference(<<y>>)
      /\ <<x>>[Len(<<x>>)] # "$" /\ <<y>>[1] \notin Referring
  BY NoReferenceOne DEF Referring
<1>3. NoReference(<<x>> \o u)
  BY <1>1, <1>2, NoReferenceConcat
<1> QED BY <1>1, <1>2, <1>3, NoReferenceConcat

\* Nor do they where u between two tags takes the place of another part.
LEMMA NoReferenceInside ==
  ASSUME NEW S, NEW x \in S, NEW y \in S, NEW s \in Seq(S), NEW u \in Seq(S), NEW r \in Seq(S),
         NoReference(s), NoReference(u), NoReference(r),
         x \notin Referring, y \notin Referring
  PROVE  NoReference((s \o ((<<x>> \o u) \o <<y>>)) \o r)
<1> DEFINE w == (<<x>> \o u) \o <<y>>
<1>1. w \in Seq(S) /\ w[1] = x /\ w[Len(w)] = y /\ NoReference(w) /\ w # <<>>
  BY Ends, NoReferenceWrap
<1> HIDE DEF w
<1>2. s \o w \in Seq(S) /\ (s \o w)[Len(s \o w)] = y
  BY <1>1
<1>3. NoReference(s \o w)
  BY <1>1, NoReferenceConcat
<1>4. y # "$"
  BY DEF Referring
<1>5. NoReference((s \o w) \o r)
  BY <1>2, <1>3, <1>4, NoReferenceConcat
<1> QED BY <1>5 DEF w

\* Without references the format string stands for itself.
LEMMA ExpandPlain ==
  ASSUME NEW S, NEW rep \in Seq(S), NoReference(rep), NEW s, NEW ds, NEW p
  PROVE  Expand(rep, s, ds, p) = rep
<1> DEFINE D == 1..(Len(rep) + 3)
           Plain(g, i) == IF i > Len(rep) THEN <<>> ELSE <<rep[i]>> \o g[i + 1]
           Body(g, i) == ExpandFrom(rep, s, ds, p, i, g)
           h == [i \in D |-> IF i > Len(rep) THEN <<>> ELSE From(rep, i)]
           K == CHOOSE k : k = [i \in D |-> Body(k, i)]
<1>0. Len(rep) \in Nat
  OBVIOUS
<1>1. ASSUME NEW g, NEW i \in D PROVE Body(g, i) = Plain(g, i)
  <2>1. ~(i < Len(rep) /\ rep[i] = "$" /\ rep[i + 1] \in Referring)
    BY <1>0 DEF NoReference
  <2> QED BY <1>0, <2>1 DEF ExpandFrom
<1> HIDE DEF Body
<1>2. ASSUME NEW i \in D, i <= Len(rep) PROVE From(rep, i) = <<rep[i]>> \o h[i + 1]
  <2>1. i \in 1..Len(rep) /\ Len(rep) \in i..Len(rep) /\ i + 1 \in D
    BY <1>0, <1>2
  <2>2. SubSeq(rep, i, Len(rep)) = <<rep[i]>> \o SubSeq(rep, i + 1, Len(rep))
    BY <2>1, SubSeqRecursiveFirst
  <2>3. i + 1 > Len(rep) => SubSeq(rep, i + 1, Len(rep)) = <<>>
    BY <1>0, <2>1, SubSeqEmpty
  <2>4. h[i + 1] = SubSeq(rep, i + 1, Len(rep))
    BY <2>1, <2>3 DEF From
  <2> HIDE DEF h
  <2> QED BY <2>2, <2>4 DEF From
<1>3. h = [i \in D |-> Body(h, i)]
  <2>1. \A i \in D : h[i] = Plain(h, i)
    <3> SUFFICES ASSUME NEW i \in D PROVE h[i] = Plain(h, i)
      OBVIOUS
    <3>1. CASE i > Len(rep)
      BY <3>1
    <3>2. CASE i <= Len(rep)
      <4>1. h[i] = From(rep, i)
        BY <1>0, <3>2
      <4>2. From(rep, i) = <<rep[i]>> \o h[i + 1]
        BY <1>2, <3>2
      <4>3. Plain(h, i) = <<rep[i]>> \o h[i + 1]
        BY <1>0, <3>2
      <4> QED BY <4>1, <4>2, <4>3
    <3> QED BY <1>0, <3>1, <3>2
  <2>2. h = [i \in D |-> h[i]]
    OBVIOUS
  <2> HIDE DEF h, D, Plain
  <2>3. \A i \in D : h[i] = Body(h, i)
    BY <1>1, <2>1
  <2> QED BY <2>2, <2>3
<1>4. K = [i \in D |-> Body(K, i)]
  <2> HIDE DEF h, D
  <2> QED BY <1>3
<1>5. Expand(rep, s, ds, p) = K[1]
  BY DEF Expand, Body
<1> HIDE DEF K, h, Plain
<1>6. \A i \in D : K[i] = Plain(K, i) /\ h[i] = Plain(h, i)
  <2> HIDE DEF D
  <2> QED BY <1>1, <1>3, <1>4
<1>7. \A i \in D : K[i] = h[i]
  <2> DEFINE T == {n \in Nat : n <= Len(rep) + 2 /\ K[Len(rep) + 3 - n] # h[Len(rep) + 3 - n]}
  <2> SUFFICES ASSUME NEW i \in D, K[i] # h[i] PROVE FALSE
    OBVIOUS
  <2>1. Len(rep) + 3 - i \in T
    <3>1. /\ Len(rep) + 3 - i \in Nat /\ Len(rep) + 3 - i <= Len(rep) + 2
          /\ Len(rep) + 3 - (Len(rep) + 3 - i) = i
      BY <1>0
    <3> QED BY <3>1
  <2>2. T \in SUBSET Nat
    OBVIOUS
  <2>3. PICK n \in T : \A m \in T : n <= m
    <3> HIDE DEF T
    <3> QED BY <2>1, <2>2, LeastNat
  <2>4. PICK j \in D : j = Len(rep) + 3 - n
    BY <1>0, <2>3
  <2>5. K[j] # h[j]
    BY <2>3, <2>4
  <2>6. CASE j > Len(rep)
    BY <1>6, <2>5, <2>6 DEF Plain
  <2>7. CASE j <= Len(rep)
    <3>1. j + 1 \in D /\ n - 1 \in Nat /\ n - 1 <= Len(rep) + 2 /\ j + 1 = Len(rep) + 3 - (n - 1)
      BY <1>0, <2>4, <2>7
    <3>2. n - 1 \notin T
      BY SMTT(30), ZenonT(40), <1>0, <2>3, <3>1
    <3>3. K[j + 1] = h[j + 1]
      BY <3>1, <3>2
    <3> HIDE DEF T
    <3> QED BY <1>0, <1>6, <2>5, <2>7, <3>3 DEF Plain
  <2> QED BY <1>0, <2>6, <2>7
<1>8. h[1] = rep
  <2>1. CASE rep = <<>>
    <3>1. 1 \in D /\ 1 > Len(rep)
      BY <2>1
    <3> QED BY <2>1, <3>1 DEF h
  <2>2. CASE rep # <<>>
    <3>1. 1 \in D /\ ~(1 > Len(rep))
      BY <1>0, <2>2
    <3>2. h[1] = SubSeq(rep, 1, Len(rep))
      BY <3>1 DEF h, From
    <3> QED BY <3>2, SubSeqFull
  <2> QED BY <2>1, <2>2
<1>9. 1 \in D
  BY <1>0
<1> QED BY <1>5, <1>7, <1>8, <1>9

------------------------------------------------------------------------------
(* What is found *)

\* A match has its delimiters in the line, one behind the other.
LEMMA SpanType ==
  ASSUME NEW S, NEW s \in Seq(S), NEW ds, NEW p \in Spans(s, ds)
  PROVE  /\ \A n \in DOMAIN ds : p[n] \in 1..Len(s) /\ HasAt(s, p[n], ds[n])
         /\ \A n \in 1..(Len(ds) - 1) : p[n] + Len(ds[n]) <= p[n + 1]
BY DEF Spans, Places

\* Of some matches one has the n-th delimiter last, and one has it first.
LEMMA SpanLast ==
  ASSUME NEW S, NEW s \in Seq(S), NEW ds, NEW n \in DOMAIN ds, NEW T \in SUBSET Spans(s, ds), T # {}
  PROVE  \E p \in T : \A q \in T : q[n] <= p[n]
<1> DEFINE N == {m \in Nat : \E p \in T : m = Len(s) - p[n]}
<1>1. \A p \in T : p[n] \in 1..Len(s)
  BY SpanType
<1>2. Len(s) \in Nat
  OBVIOUS
<1>3. N \in SUBSET Nat /\ \A p \in T : Len(s) - p[n] \in N
  BY <1>1, <1>2
<1>4. PICK m \in N : \A k \in N : m <= k
  <2> HIDE DEF N
  <2> QED BY <1>3, LeastNat
<1>5. PICK p \in T : m = Len(s) - p[n]
  BY <1>4
<1>6. ASSUME NEW q \in T PROVE q[n] <= p[n]
  <2>1. Len(s) - p[n] <= Len(s) - q[n]
    BY <1>3, <1>4, <1>5
  <2> QED BY <1>1, <1>2, <2>1
<1> QED BY <1>6

\* And one that has it first.
LEMMA SpanFirst ==
  ASSUME NEW S, NEW s \in Seq(S), NEW ds, NEW n \in DOMAIN ds, NEW T \in SUBSET Spans(s, ds), T # {}
  PROVE  \E p \in T : \A q \in T : p[n] <= q[n]
<1> DEFINE N == {m \in Nat : \E p \in T : m = p[n]}
<1>1. \A p \in T : p[n] \in 1..Len(s)
  BY SpanType
<1>2. N \in SUBSET Nat /\ \A p \in T : p[n] \in N
  BY <1>1
<1>3. PICK m \in N : \A k \in N : m <= k
  <2> HIDE DEF N
  <2> QED BY <1>2, LeastNat
<1>4. PICK p \in T : m = p[n]
  BY <1>3
<1> HIDE DEF N
<1> QED BY <1>2, <1>3, <1>4

\* Two or three delimiters that can be matched have one match before all others.
LEMMA FoundIsBest ==
  ASSUME NEW S, NEW s \in Seq(S), NEW R, NEW ds \in Seq(R), Len(ds) \in {2, 3},
         Spans(s, ds) # {}
  PROVE  /\ Found(s, ds) \in Spans(s, ds)
         /\ \A q \in Spans(s, ds) : q = Found(s, ds) \/ Prefer(Found(s, ds), q)
<1> DEFINE T == Spans(s, ds)
<1>0. /\ \A p \in T : p \in [DOMAIN ds -> UNION {Places(s, ds[n]) : n \in DOMAIN ds}]
      /\ \A p \in T : DOMAIN p = DOMAIN ds /\ \A n \in DOMAIN ds : p[n] \in Nat
      /\ DOMAIN ds = 1..Len(ds)
  <2>1. \A p \in T : p \in [DOMAIN ds -> UNION {Places(s, ds[n]) : n \in DOMAIN ds}]
    BY DEF Spans
  <2>2. \A p \in T : \A n \in DOMAIN ds : p[n] \in Nat
    <3>1. \A p \in T : \A n \in DOMAIN ds : p[n] \in 1..Len(s)
      BY SpanType
    <3> QED BY <3>1
  <2> HIDE DEF T
  <2> QED BY <2>1, <2>2
<1>1. PICK p1 \in T : \A q \in T : p1[1] <= q[1]
  BY SMTT(30), ZenonT(40), <1>0, SpanFirst
<1> DEFINE T2 == {p \in T : p[1] = p1[1]}
<1>2. PICK p2 \in T2 : \A q \in T2 : q[2] <= p2[2]
  <2>1. p1 \in T2 /\ 2 \in DOMAIN ds
    BY <1>0
  <2> QED BY <2>1, SpanLast
<1> DEFINE T3 == {p \in T2 : p[2] = p2[2]}
<1>3. PICK p3 \in T3 : Len(ds) = 3 => \A q \in T3 : q[3] <= p3[3]
  <2>1. p2 \in T3
    OBVIOUS
  <2>2. CASE Len(ds) = 3
    <3>1. 3 \in DOMAIN ds
      BY <1>0, <2>2
    <3> QED BY <2>1, <3>1, SpanLast
  <2>3. CASE Len(ds) # 3
    BY <2>1, <2>3
  <2> QED BY <2>2, <2>3
<1>4. p3 \in T /\ p3[1] = p1[1] /\ p3[2] = p2[2]
  OBVIOUS
<1>5. ASSUME NEW q \in T, q # p3 PROVE Prefer(p3, q)
  <2> HIDE DEF T
  <2>0. DOMAIN p3 = DOMAIN ds /\ DOMAIN q = DOMAIN ds
    BY <1>0, <1>4, <1>5
  <2>a. 1 \in DOMAIN ds /\ 2 \in DOMAIN ds
    BY <1>0
  <2>b. p3[1] \in Nat /\ q[1] \in Nat /\ p3[2] \in Nat /\ q[2] \in Nat
    BY <1>0, <1>4, <2>a
  <2>c. (\A n \in DOMAIN ds : q[n] = p3[n]) => q = p3
    <3>1. p3 = [n \in DOMAIN ds |-> p3[n]] /\ q = [n \in DOMAIN ds |-> q[n]]
      BY <1>0, <1>4
    <3> QED BY <3>1
  <2>1. CASE q[1] # p3[1]
    <3>1. 1 \in DOMAIN p3 /\ p3[1] < q[1]
      BY <1>1, <1>4, <2>0, <2>1, <2>a, <2>b
    <3> QED BY <3>1 DEF Prefer
  <2>2. CASE q[1] = p3[1] /\ q[2] # p3[2]
    <3>1. q \in T2
      BY <1>4, <2>2
    <3>2. 2 \in DOMAIN p3 /\ p3[2] > q[2]
      BY <1>2, <1>4, <2>0, <2>2, <2>a, <2>b, <3>1
    <3>3. \A m \in 1..(2 - 1) : p3[m] = q[m]
      BY <2>2
    <3> QED BY <3>2, <3>3 DEF Prefer
  <2>3. CASE q[1] = p3[1] /\ q[2] = p3[2] /\ Len(ds) = 2
    <3>1. \A n \in DOMAIN ds : q[n] = p3[n]
      BY <1>0, <2>3
    <3>2. q = p3
      BY <2>c, <3>1
    <3> QED BY <1>5, <3>2
  <2>4. CASE q[1] = p3[1] /\ q[2] = p3[2] /\ Len(ds) = 3
    <3>1. q \in T3
      BY <1>4, <2>4
    <3>2. q[3] <= p3[3] /\ 3 \in DOMAIN ds /\ q[3] \in Nat /\ p3[3] \in Nat
      BY <1>0, <1>3, <1>4, <2>4, <3>1
    <3>3. CASE q[3] = p3[3]
      <4>1. \A n \in DOMAIN ds : q[n] = p3[n]
        BY <1>0, <2>4, <3>3
      <4>2. q = p3
        BY <2>c, <4>1
      <4> QED BY <1>5, <4>2
    <3>4. CASE q[3] # p3[3]
      <4>1. p3[3] > q[3] /\ 3 \in DOMAIN p3
        BY <2>0, <3>2, <3>4
      <4>2. \A m \in 1..(3 - 1) : p3[m] = q[m]
        BY <2>4
      <4> QED BY <4>1, <4>2 DEF Prefer
    <3> QED BY <3>3, <3>4
  <2> QED BY <2>1, <2>2, <2>3, <2>4
<1>6. \E p \in T : \A q \in T : q = p \/ Prefer(p, q)
  <2> HIDE DEF T
  <2> QED BY <1>4, <1>5
<1> QED BY <1>6 DEF Found

\* What stands before j is what stands before the delimiter d of length a, the
\* delimiter, and what is between the two.
IsCut(S, s, i, d, a, j) ==
  /\ i + a \in 1..(Len(s) + 1) /\ j - 1 \in (i + a - 1)..Len(s)
  /\ SubSeq(s, 1, i - 1) \in Seq(S) /\ d \in Seq(S) /\ SubSeq(s, i + a, j - 1) \in Seq(S)
  /\ SubSeq(s, 1, j - 1) = (SubSeq(s, 1, i - 1) \o d) \o SubSeq(s, i + a, j - 1)
  /\ NoReference(s) =>
       NoReference(SubSeq(s, 1, i - 1)) /\ NoReference(SubSeq(s, i + a, j - 1))

\* What is before place j: a part up to i, the delimiter d there, and what follows it.
LEMMA Cut ==
  ASSUME NEW S, NEW s \in Seq(S), NEW i \in 1..Len(s), NEW d, NEW a \in Nat \ {0}, Len(d) = a,
         HasAt(s, i, d), NEW j \in (i + a)..(Len(s) + 1)
  PROVE  IsCut(S, s, i, d, a, j)
<1>0. Len(s) \in Nat /\ i \in Nat /\ j \in Nat /\ i >= 1 /\ i <= Len(s)
      /\ i + a <= j /\ j <= Len(s) + 1
  OBVIOUS
<1>1. PICK n \in Nat : n = i + a - 1
  BY <1>0
<1>2. n <= Len(s) /\ SubSeq(s, i, n) = d
  BY <1>0, <1>1 DEF HasAt
<1>3. /\ n \in 0..Len(s) /\ i - 1 \in 0..n /\ (i - 1) + 1 = i
      /\ j - 1 \in 0..Len(s) /\ n \in 0..(j - 1) /\ n + 1 = i + a
  BY <1>0, <1>1, <1>2
<1>4. /\ SubSeq(s, 1, i - 1) \in Seq(S) /\ SubSeq(s, (i - 1) + 1, n) \in Seq(S)
      /\ SubSeq(s, 1, n) = SubSeq(s, 1, i - 1) \o SubSeq(s, (i - 1) + 1, n)
  BY <1>3, PrefixCut
<1>5. /\ SubSeq(s, n + 1, j - 1) \in Seq(S)
      /\ SubSeq(s, 1, j - 1) = SubSeq(s, 1, n) \o SubSeq(s, n + 1, j - 1)
  <2>1. PICK m \in 0..Len(s) : m = j - 1
    BY <1>3
  <2>2. n \in 0..m
    BY <1>3, <2>1
  <2>3. SubSeq(s, n + 1, m) \in Seq(S) /\ SubSeq(s, 1, m) = SubSeq(s, 1, n) \o SubSeq(s, n + 1, m)
    BY <2>2, PrefixCut
  <2> QED BY <2>1, <2>3
<1>6. i + a \in 1..(Len(s) + 1) /\ j - 1 \in (i + a - 1)..Len(s)
  BY <1>0
<1>7. SubSeq(s, 1, n) = SubSeq(s, 1, i - 1) \o d
  BY <1>2, <1>3, <1>4
<1>8. ASSUME NoReference(s)
      PROVE  NoReference(SubSeq(s, 1, i - 1)) /\ NoReference(SubSeq(s, i + a, j - 1))
  <2>1. PICK l \in 1..(Len(s) + 1) : l = i + a
    BY <1>6
  <2>2. PICK m \in (l - 1)..Len(s) : m = j - 1
    BY <1>6, <2>1
  <2>3. NoReference(SubSeq(s, l, m))
    BY <1>8, NoReferencePart
  <2>4. PICK f \in 1..(Len(s) + 1) : f = 1
    BY <1>0
  <2>5. PICK h \in (f - 1)..Len(s) : h = i - 1
    BY <1>0, <2>4
  <2>6. NoReference(SubSeq(s, f, h))
    BY <1>8, NoReferencePart
  <2> QED BY <2>1, <2>2, <2>3, <2>4, <2>5, <2>6
<1> QED BY <1>2, <1>3, <1>4, <1>5, <1>6, <1>7, <1>8 DEF IsCut

\* The line that a match of two delimiters cuts into its parts.
IsCutTwo(S, s, ds, p) ==
  /\ Before(s, p) \in Seq(S) /\ Group(s, ds, p, 1) \in Seq(S) /\ Behind(s, ds, p) \in Seq(S)
  /\ ds[1] \in Seq(S) /\ ds[2] \in Seq(S)
  /\ s = (((Before(s, p) \o ds[1]) \o Group(s, ds, p, 1)) \o ds[2]) \o Behind(s, ds, p)
  /\ NoReference(s) =>
       NoReference(Before(s, p)) /\ NoReference(Group(s, ds, p, 1)) /\ NoReference(Behind(s, ds, p))

\* A match of two delimiters cuts the line into five parts.
LEMMA CutTwo ==
  ASSUME NEW S, NEW s \in Seq(S), NEW R, NEW ds \in Seq(R), Len(ds) = 2,
         \A n \in DOMAIN ds : Len(ds[n]) \in Nat \ {0}, NEW p \in Spans(s, ds)
  PROVE  IsCutTwo(S, s, ds, p)
<1>0. /\ Len(s) \in Nat /\ 1 \in DOMAIN ds /\ 2 \in DOMAIN ds /\ 1 \in 1..(Len(ds) - 1)
  OBVIOUS
<1>1. /\ p[1] \in 1..Len(s) /\ HasAt(s, p[1], ds[1])
      /\ p[2] \in 1..Len(s) /\ HasAt(s, p[2], ds[2])
      /\ p[1] + Len(ds[1]) <= p[2]
  <2>1. p[1 + 1] = p[2]
    OBVIOUS
  <2> QED BY <1>0, <2>1, SpanType
<1>2. PICK i \in 1..Len(s) : i = p[1]
  BY <1>1
<1>3. PICK j \in 1..Len(s) : j = p[2]
  BY <1>1
<1>4. PICK a \in Nat \ {0} : a = Len(ds[1])
  BY <1>0
<1>5. PICK b \in Nat \ {0} : b = Len(ds[2])
  BY <1>0
<1>6. HasAt(s, i, ds[1]) /\ HasAt(s, j, ds[2]) /\ i + a <= j
  BY <1>1, <1>2, <1>3, <1>4, <1>5
<1>7. j + b <= Len(s) + 1
  BY <1>0, <1>5, <1>6 DEF HasAt
<1>8. /\ i + a \in 1..(Len(s) + 1) /\ j - 1 \in (i + a - 1)..Len(s)
      /\ SubSeq(s, 1, i - 1) \in Seq(S) /\ ds[1] \in Seq(S) /\ SubSeq(s, i + a, j - 1) \in Seq(S)
      /\ SubSeq(s, 1, j - 1) = (SubSeq(s, 1, i - 1) \o ds[1]) \o SubSeq(s, i + a, j - 1)
      /\ NoReference(s) =>
           NoReference(SubSeq(s, 1, i - 1)) /\ NoReference(SubSeq(s, i + a, j - 1))
  <2>1. j \in (i + a)..(Len(s) + 1)
    BY <1>0, <1>6
  <2>2. IsCut(S, s, i, ds[1], a, j)
    BY <1>4, <1>6, <2>1, Cut
  <2> QED BY <2>2 DEF IsCut
<1>9. PICK e \in Nat : e = Len(s) + 1 /\ e - 1 = Len(s)
  BY <1>0
<1>10. /\ j + b \in 1..(Len(s) + 1) /\ e - 1 \in (j + b - 1)..Len(s)
       /\ ds[2] \in Seq(S) /\ SubSeq(s, j + b, e - 1) \in Seq(S)
       /\ SubSeq(s, 1, e - 1) = (SubSeq(s, 1, j - 1) \o ds[2]) \o SubSeq(s, j + b, e - 1)
       /\ NoReference(s) => NoReference(SubSeq(s, j + b, e - 1))
  <2>1. e \in (j + b)..(Len(s) + 1)
    BY <1>0, <1>7, <1>9
  <2>2. IsCut(S, s, j, ds[2], b, e)
    BY <1>5, <1>6, <2>1, Cut
  <2> QED BY <2>2 DEF IsCut
<1>11. /\ Before(s, p) = SubSeq(s, 1, i - 1) /\ Group(s, ds, p, 1) = SubSeq(s, i + a, j - 1)
       /\ Behind(s, ds, p) = SubSeq(s, j + b, e - 1)
  <2>1. 1 + 1 = 2
    OBVIOUS
  <2> QED BY <1>2, <1>3, <1>4, <1>5, <1>9, <2>1 DEF Before, Group, Behind, From
<1>12. s = SubSeq(s, 1, e - 1)
  BY <1>9, SubSeqFull
<1>13. s = (((Before(s, p) \o ds[1]) \o Group(s, ds, p, 1)) \o ds[2]) \o Behind(s, ds, p)
  BY <1>8, <1>10, <1>11, <1>12
<1>14. NoReference(s) => /\ NoReference(SubSeq(s, 1, i - 1)) /\ NoReference(SubSeq(s, i + a, j - 1))
                          /\ NoReference(SubSeq(s, j + b, e - 1))
  BY <1>8, <1>10
<1> QED BY <1>8, <1>10, <1>11, <1>13, <1>14 DEF IsCutTwo

\* And a match of three.
IsCutThree(S, s, ds, p) ==
  /\ Before(s, p) \in Seq(S) /\ Group(s, ds, p, 1) \in Seq(S)
  /\ Group(s, ds, p, 2) \in Seq(S) /\ Behind(s, ds, p) \in Seq(S)
  /\ ds[1] \in Seq(S) /\ ds[2] \in Seq(S) /\ ds[3] \in Seq(S)
  /\ s = (((((Before(s, p) \o ds[1]) \o Group(s, ds, p, 1)) \o ds[2])
            \o Group(s, ds, p, 2)) \o ds[3]) \o Behind(s, ds, p)
  /\ NoReference(s) =>
       /\ NoReference(Before(s, p)) /\ NoReference(Group(s, ds, p, 1))
       /\ NoReference(Group(s, ds, p, 2)) /\ NoReference(Behind(s, ds, p))

\* A match of three delimiters cuts it into seven.
LEMMA CutThree ==
  ASSUME NEW S, NEW s \in Seq(S), NEW R, NEW ds \in Seq(R), Len(ds) = 3,
         \A n \in DOMAIN ds : Len(ds[n]) \in Nat \ {0}, NEW p \in Spans(s, ds)
  PROVE  IsCutThree(S, s, ds, p)
<1>0. /\ Len(s) \in Nat /\ 1 \in DOMAIN ds /\ 2 \in DOMAIN ds /\ 3 \in DOMAIN ds
      /\ 1 \in 1..(Len(ds) - 1) /\ 2 \in 1..(Len(ds) - 1)
  OBVIOUS
<1>1. /\ p[1] \in 1..Len(s) /\ HasAt(s, p[1], ds[1])
      /\ p[2] \in 1..Len(s) /\ HasAt(s, p[2], ds[2])
      /\ p[3] \in 1..Len(s) /\ HasAt(s, p[3], ds[3])
      /\ p[1] + Len(ds[1]) <= p[2] /\ p[2] + Len(ds[2]) <= p[3]
  <2>1. p[1 + 1] = p[2] /\ p[2 + 1] = p[3]
    OBVIOUS
  <2>2. /\ \A n \in DOMAIN ds : p[n] \in 1..Len(s) /\ HasAt(s, p[n], ds[n])
        /\ \A n \in 1..(Len(ds) - 1) : p[n] + Len(ds[n]) <= p[n + 1]
    BY SpanType
  <2>3. p[1] + Len(ds[1]) <= p[1 + 1] /\ p[2] + Len(ds[2]) <= p[2 + 1]
    BY <1>0, <2>2
  <2> QED BY <1>0, <2>1, <2>2, <2>3
<1>2. PICK i \in 1..Len(s) : i = p[1]
  BY <1>1
<1>3. PICK j \in 1..Len(s) : j = p[2]
  BY <1>1
<1>4. PICK k \in 1..Len(s) : k = p[3]
  BY <1>1
<1>5. PICK a \in Nat \ {0} : a = Len(ds[1])
  BY <1>0
<1>6. PICK b \in Nat \ {0} : b = Len(ds[2])
  BY <1>0
<1>7. PICK c \in Nat \ {0} : c = Len(ds[3])
  BY <1>0
<1>8. /\ HasAt(s, i, ds[1]) /\ HasAt(s, j, ds[2]) /\ HasAt(s, k, ds[3])
      /\ i + a <= j /\ j + b <= k
  BY <1>1, <1>2, <1>3, <1>4, <1>5, <1>6, <1>7
<1>9. k + c <= Len(s) + 1
  BY <1>0, <1>7, <1>8 DEF HasAt
<1>10. /\ i + a \in 1..(Len(s) + 1) /\ j - 1 \in (i + a - 1)..Len(s)
       /\ SubSeq(s, 1, i - 1) \in Seq(S) /\ ds[1] \in Seq(S) /\ SubSeq(s, i + a, j - 1) \in Seq(S)
       /\ SubSeq(s, 1, j - 1) = (SubSeq(s, 1, i - 1) \o ds[1]) \o SubSeq(s, i + a, j - 1)
       /\ NoReference(s) =>
            NoReference(SubSeq(s, 1, i - 1)) /\ NoReference(SubSeq(s, i + a, j - 1))
  <2>1. j \in (i + a)..(Len(s) + 1)
    BY <1>0, <1>8
  <2>2. IsCut(S, s, i, ds[1], a, j)
    BY <1>5, <1>8, <2>1, Cut
  <2> QED BY <2>2 DEF IsCut
<1>11. /\ j + b \in 1..(Len(s) + 1) /\ k - 1 \in (j + b - 1)..Len(s)
       /\ ds[2] \in Seq(S) /\ SubSeq(s, j + b, k - 1) \in Seq(S)
       /\ SubSeq(s, 1, k - 1) = (SubSeq(s, 1, j - 1) \o ds[2]) \o SubSeq(s, j + b, k - 1)
       /\ NoReference(s) => NoReference(SubSeq(s, j + b, k - 1))
  <2>1. k \in (j + b)..(Len(s) + 1)
    BY <1>0, <1>8
  <2>2. IsCut(S, s, j, ds[2], b, k)
    BY <1>6, <1>8, <2>1, Cut
  <2> QED BY <2>2 DEF IsCut
<1>12. PICK e \in Nat : e = Len(s) + 1 /\ e - 1 = Len(s)
  BY <1>0
<1>13. /\ k + c \in 1..(Len(s) + 1) /\ e - 1 \in (k + c - 1)..Len(s)
       /\ ds[3] \in Seq(S) /\ SubSeq(s, k + c, e - 1) \in Seq(S)
       /\ SubSeq(s, 1, e - 1) = (SubSeq(s, 1, k - 1) \o ds[3]) \o SubSeq(s, k + c, e - 1)
       /\ NoReference(s) => NoReference(SubSeq(s, k + c, e - 1))
  <2>1. e \in (k + c)..(Len(s) + 1)
    BY <1>0, <1>9, <1>12
  <2>2. IsCut(S, s, k, ds[3], c, e)
    BY <1>7, <1>8, <2>1, Cut
  <2> QED BY <2>2 DEF IsCut
<1>14. /\ Before(s, p) = SubSeq(s, 1, i - 1)
       /\ Group(s, ds, p, 1) = SubSeq(s, i + a, j - 1)
       /\ Group(s, ds, p, 2) = SubSeq(s, j + b, k - 1)
       /\ Behind(s, ds, p) = SubSeq(s, k + c, e - 1)
  <2>1. 1 + 1 = 2 /\ 2 + 1 = 3
    OBVIOUS
  <2> QED
    BY <1>2, <1>3, <1>4, <1>5, <1>6, <1>7, <1>12, <2>1 DEF Before, Group, Behind, From
<1>15. s = SubSeq(s, 1, e - 1)
  BY <1>12, SubSeqFull
<1>16. s = (((((Before(s, p) \o ds[1]) \o Group(s, ds, p, 1)) \o ds[2])
              \o Group(s, ds, p, 2)) \o ds[3]) \o Behind(s, ds, p)
  BY <1>10, <1>11, <1>13, <1>14, <1>15
<1>17. NoReference(s) => /\ NoReference(SubSeq(s, 1, i - 1)) /\ NoReference(SubSeq(s, i + a, j - 1))
                          /\ NoReference(SubSeq(s, j + b, k - 1))
                          /\ NoReference(SubSeq(s, k + c, e - 1))
  BY <1>10, <1>11, <1>13
<1> QED BY <1>10, <1>11, <1>13, <1>14, <1>16, <1>17 DEF IsCutThree

------------------------------------------------------------------------------
(* Tags *)

EndTags == {EndOf[t] : t \in BeginTags}

\* Each tag has an end of its own, and neither is text or part of a reference.
LEMMA TagFacts ==
  /\ EndTags = {"</blockquote>", "</p>", "</b>", "</i>", "</a>"}
  /\ EndOf["<blockquote>"] = "</blockquote>" /\ EndOf["<p>"] = "</p>"
  /\ EndOf["<b>"] = "</b>" /\ EndOf["<i>"] = "</i>" /\ EndOf["<a href="] = "</a>"
  /\ \A t \in BeginTags : EndOf[t] \in EndTags /\ EndOf[t] \notin BeginTags /\ t \notin EndTags
  /\ \A t, u \in BeginTags : EndOf[t] = EndOf[u] => t = u
  /\ Tags = BeginTags \cup EndTags
<1>1. /\ EndOf["<blockquote>"] = "</blockquote>" /\ EndOf["<p>"] = "</p>"
      /\ EndOf["<b>"] = "</b>" /\ EndOf["<i>"] = "</i>" /\ EndOf["<a href="] = "</a>"
  BY DEF EndOf, BeginTags
<1>2. EndTags = {"</blockquote>", "</p>", "</b>", "</i>", "</a>"}
  BY <1>1 DEF EndTags, BeginTags
<1>3. \A t \in BeginTags : EndOf[t] \in EndTags /\ EndOf[t] \notin BeginTags /\ t \notin EndTags
  BY <1>1, <1>2 DEF BeginTags
<1>4. \A t, u \in BeginTags : EndOf[t] = EndOf[u] => t = u
  BY <1>1 DEF BeginTags
<1>5. Tags = BeginTags \cup EndTags
  BY DEF Tags, EndTags
<1> QED BY <1>1, <1>2, <1>3, <1>4, <1>5

\* Where tags begin and end, one entry each.
LEMMA BalanceOne ==
  ASSUME NEW t \in BeginTags, NEW x \in BeginTags
  PROVE  /\ Balance(<<x>>, t) = (IF x = t THEN 1 ELSE 0)
         /\ Balance(<<EndOf[x]>>, t) = (IF x = t THEN -1 ELSE 0)
<1>1. x \in Chars /\ EndOf[x] \in Chars
  BY TagFacts DEF Chars
<1>2. /\ Count(<<x>>, t) = (IF x = t THEN 1 ELSE 0)
      /\ Count(<<x>>, EndOf[t]) = (IF x = EndOf[t] THEN 1 ELSE 0)
      /\ Count(<<EndOf[x]>>, t) = (IF EndOf[x] = t THEN 1 ELSE 0)
      /\ Count(<<EndOf[x]>>, EndOf[t]) = (IF EndOf[x] = EndOf[t] THEN 1 ELSE 0)
  BY <1>1, CountOne
<1>3. x # EndOf[t] /\ EndOf[x] # t /\ (EndOf[x] = EndOf[t] <=> x = t)
  BY TagFacts
<1> QED BY <1>2, <1>3 DEF Balance

\* What holds no tag does not matter.
LEMMA BalanceNone ==
  ASSUME NEW S, NEW s \in Seq(S), \A i \in 1..Len(s) : s[i] \notin Tags, NEW t \in BeginTags
  PROVE  Balance(s, t) = 0
<1>1. t \in Tags /\ EndOf[t] \in Tags
  BY TagFacts
<1>2. Count(s, t) = 0 /\ Count(s, EndOf[t]) = 0
  BY <1>1, CountNone
<1> QED BY <1>2 DEF Balance

\* Without an end of t the balance is no less than 0.
LEMMA BalanceUp ==
  ASSUME NEW S, NEW s \in Seq(S), \A i \in 1..Len(s) : s[i] \notin EndTags, NEW t \in BeginTags
  PROVE  Balance(s, t) >= 0 /\ Count(s, EndOf[t]) = 0
<1>1. EndOf[t] \in EndTags
  BY TagFacts
<1>2. Count(s, EndOf[t]) = 0 /\ Count(s, t) \in Nat
  BY <1>1, CountNone, CountType
<1> QED BY <1>2 DEF Balance

\* Nothing goes wrong where no more end than had begun before.
LEMMA AboveFew ==
  ASSUME NEW S, NEW s \in Seq(S), NEW t, NEW d \in Int, d >= Count(s, EndOf[t])
  PROVE  Above(s, t, d)
<1> SUFFICES ASSUME NEW n \in 0..Len(s) PROVE d + Balance(SubSeq(s, 1, n), t) >= 0
  BY DEF Above
<1>1. Len(s) \in Nat /\ Len(s) \in 0..Len(s)
  OBVIOUS
<1>2. /\ SubSeq(s, 1, n) \in Seq(S) /\ SubSeq(s, n + 1, Len(s)) \in Seq(S)
      /\ SubSeq(s, 1, Len(s)) = SubSeq(s, 1, n) \o SubSeq(s, n + 1, Len(s))
  BY <1>1, PrefixCut
<1>3. s = SubSeq(s, 1, n) \o SubSeq(s, n + 1, Len(s))
  BY <1>2, SubSeqFull
<1>4. PICK a \in Seq(S), b \in Seq(S) : a = SubSeq(s, 1, n) /\ s = a \o b
  BY <1>2, <1>3
<1>5. Count(a \o b, EndOf[t]) = Count(a, EndOf[t]) + Count(b, EndOf[t])
  BY CountConcat
<1>6. Count(a, t) \in Nat /\ Count(a, EndOf[t]) \in Nat /\ Count(b, EndOf[t]) \in Nat
  BY CountType
<1>7. Count(a, EndOf[t]) <= d
  <2>1. Count(s, EndOf[t]) = Count(a, EndOf[t]) + Count(b, EndOf[t])
    BY <1>4, <1>5
  <2> QED BY <1>6, <2>1
<1>8. d + Balance(a, t) >= 0
  BY <1>6, <1>7 DEF Balance
<1> QED BY <1>4, <1>8

\* Before s and after it no more have ended than begun.
LEMMA AboveEnds ==
  ASSUME NEW S, NEW s \in Seq(S), NEW t, NEW d \in Int, Above(s, t, d)
  PROVE  d >= 0 /\ d + Balance(s, t) >= 0
<1>1. Len(s) \in 0..Len(s) /\ 0 \in 0..Len(s) /\ SubSeq(s, 1, Len(s)) = s /\ SubSeq(s, 1, 0) = <<>>
  BY SubSeqFull, SubSeqEmpty
<1>2. Balance(<<>>, t) = 0
  <2>1. <<>> \in Seq(S) /\ \A i \in 1..Len(<<>>) : FALSE
    OBVIOUS
  <2>2. Count(<<>>, t) = 0 /\ Count(<<>>, EndOf[t]) = 0
    BY <2>1, CountNone
  <2> QED BY <2>2 DEF Balance
<1>3. d + Balance(SubSeq(s, 1, Len(s)), t) >= 0 /\ d + Balance(SubSeq(s, 1, 0), t) >= 0
  BY <1>1 DEF Above
<1>4. d + Balance(s, t) >= 0 /\ d + Balance(<<>>, t) >= 0
  BY <1>1, <1>3
<1> QED BY <1>2, <1>4

\* The more have begun before, the better.
LEMMA AboveMore ==
  ASSUME NEW S, NEW s \in Seq(S), NEW t, NEW d \in Int, NEW e \in Int, d <= e, Above(s, t, d)
  PROVE  Above(s, t, e)
<1> SUFFICES ASSUME NEW n \in 0..Len(s) PROVE e + Balance(SubSeq(s, 1, n), t) >= 0
  BY DEF Above
<1>1. d + Balance(SubSeq(s, 1, n), t) >= 0
  BY DEF Above
<1>2. SubSeq(s, 1, n) \in Seq(S)
  BY PartType
<1>3. Balance(SubSeq(s, 1, n), t) \in Int
  BY <1>2, BalanceType
<1> QED BY <1>1, <1>3

------------------------------------------------------------------------------
(* The invariant *)

Kept(s, u) == \A c \in Text : Count(s, c) = Count(u, c)

Nested(s) == \A t \in BeginTags : Above(s, t, 0) /\ Balance(s, t) = 0

\* No closing parenthesis follows the end of a tag, so what a link takes for its
\* text and its target holds no end.
EndsLate(s) == \A i, j \in DOMAIN s : s[i] \in EndTags /\ s[j] = ")" => j < i

\* A line without tags is nested.
LEMMA NestedPlain ==
  ASSUME NEW S, NEW s \in Seq(S), \A i \in 1..Len(s) : s[i] \notin Tags
  PROVE  Nested(s)
<1> SUFFICES ASSUME NEW t \in BeginTags PROVE Above(s, t, 0) /\ Balance(s, t) = 0
  BY DEF Nested
<1>1. EndOf[t] \in Tags
  BY TagFacts
<1>2. Count(s, EndOf[t]) = 0
  BY <1>1, CountNone
<1> QED BY <1>2, AboveFew, BalanceNone

\* Of a line of five parts the second and fourth without tags.
LEMMA AboveFive ==
  ASSUME NEW S, NEW b \in Seq(S), NEW d1 \in Seq(S), NEW g \in Seq(S), NEW d2 \in Seq(S),
         NEW r \in Seq(S), NEW t, Balance(d1, t) = 0, Balance(d2, t) = 0,
         Above((((b \o d1) \o g) \o d2) \o r, t, 0)
  PROVE  /\ Above(b, t, 0) /\ Above(g, t, Balance(b, t))
         /\ Above(r, t, Balance(b, t) + Balance(g, t))
         /\ Balance((((b \o d1) \o g) \o d2) \o r, t) = Balance(b, t) + Balance(g, t) + Balance(r, t)
<1> DEFINE s1 == b \o d1
           s2 == s1 \o g
           s3 == s2 \o d2
<1>1. s1 \in Seq(S) /\ s2 \in Seq(S) /\ s3 \in Seq(S)
  OBVIOUS
<1>2. Balance(b, t) \in Int /\ Balance(g, t) \in Int /\ Balance(r, t) \in Int
  BY BalanceType
<1>3. Balance(s1, t) = Balance(b, t) /\ (Above(s1, t, 0) => Above(b, t, 0))
  <2>1. Balance(s1, t) = Balance(b, t) + Balance(d1, t)
    BY BalanceConcat
  <2>2. 0 \in Int
    OBVIOUS
  <2>3. Above(s1, t, 0) <=> Above(b, t, 0) /\ Above(d1, t, 0 + Balance(b, t))
    BY <2>2, AboveConcat
  <2> QED BY <1>2, <2>1, <2>3
<1> HIDE DEF s1
<1>4. /\ Balance(s2, t) = Balance(b, t) + Balance(g, t)
      /\ Above(s2, t, 0) => Above(s1, t, 0) /\ Above(g, t, Balance(b, t))
  <2>1. Balance(s2, t) = Balance(s1, t) + Balance(g, t)
    BY <1>1, BalanceConcat
  <2>2. 0 \in Int
    OBVIOUS
  <2>3. Above(s2, t, 0) <=> Above(s1, t, 0) /\ Above(g, t, 0 + Balance(s1, t))
    BY <1>1, <2>2, AboveConcat
  <2>4. 0 + Balance(s1, t) = Balance(b, t)
    BY <1>2, <1>3
  <2> QED BY <1>3, <2>1, <2>3, <2>4
<1> HIDE DEF s2
<1>5. Balance(s3, t) = Balance(s2, t) /\ (Above(s3, t, 0) => Above(s2, t, 0))
  <2>1. Balance(s3, t) = Balance(s2, t) + Balance(d2, t)
    BY <1>1, BalanceConcat
  <2>2. 0 \in Int
    OBVIOUS
  <2>3. Above(s3, t, 0) <=> Above(s2, t, 0) /\ Above(d2, t, 0 + Balance(s2, t))
    BY <1>1, <2>2, AboveConcat
  <2> QED BY <1>2, <1>4, <2>1, <2>3
<1> HIDE DEF s3
<1>6. /\ Balance(s3 \o r, t) = Balance(s3, t) + Balance(r, t)
      /\ Above(s3 \o r, t, 0) => Above(s3, t, 0) /\ Above(r, t, Balance(b, t) + Balance(g, t))
  <2>1. 0 \in Int
    OBVIOUS
  <2>2. Above(s3 \o r, t, 0) <=> Above(s3, t, 0) /\ Above(r, t, 0 + Balance(s3, t))
    BY <1>1, <2>1, AboveConcat
  <2>3. 0 + Balance(s3, t) = Balance(b, t) + Balance(g, t)
    BY <1>2, <1>4, <1>5
  <2> QED BY <1>1, <2>2, <2>3, BalanceConcat
<1>7. Above(s3 \o r, t, 0)
  BY DEF s3, s2, s1
<1>8. Balance(s3 \o r, t) = Balance(b, t) + Balance(g, t) + Balance(r, t)
  BY <1>2, <1>4, <1>5, <1>6
<1> QED BY <1>3, <1>4, <1>5, <1>6, <1>7, <1>8 DEF s3, s2, s1

\* A part between a tag and its end.
LEMMA AboveWrap ==
  ASSUME NEW b \in Seq(Chars), NEW g \in Seq(Chars), NEW r \in Seq(Chars),
         NEW x \in BeginTags, NEW t \in BeginTags,
         Above(b, t, 0), Above(g, t, Balance(b, t)), Above(r, t, Balance(b, t) + Balance(g, t))
  PROVE  LET w == (b \o ((<<x>> \o g) \o <<EndOf[x]>>)) \o r
         IN  /\ Above(w, t, 0)
             /\ Balance(w, t) = Balance(b, t) + Balance(g, t) + Balance(r, t)
<1> DEFINE y == EndOf[x]
           k == IF x = t THEN 1 ELSE 0
           s1 == <<x>> \o g
           s2 == s1 \o <<y>>
           s3 == b \o s2
<1>0. x \in Chars /\ y \in Chars
  BY TagFacts DEF Chars
<1>1. /\ <<x>> \in Seq(Chars) /\ <<y>> \in Seq(Chars)
      /\ s1 \in Seq(Chars) /\ s2 \in Seq(Chars) /\ s3 \in Seq(Chars)
  BY <1>0
<1>2. Balance(b, t) \in Int /\ Balance(g, t) \in Int /\ Balance(r, t) \in Int /\ k \in {0, 1}
  BY BalanceType
<1>3. Balance(<<x>>, t) = k /\ Balance(<<y>>, t) = -k
  BY BalanceOne
<1>4. Balance(b, t) >= 0 /\ Balance(b, t) + Balance(g, t) >= 0
  <2>1. 0 \in Int /\ 0 + Balance(b, t) >= 0
    BY AboveEnds
  <2> QED BY <1>2, <2>1, AboveEnds
<1>5. Count(<<x>>, EndOf[t]) = 0 /\ Count(<<y>>, EndOf[t]) = k
  <2>1. x # EndOf[t] /\ (y = EndOf[t] <=> x = t)
    BY TagFacts
  <2> QED BY <1>0, <2>1, CountOne
<1> HIDE DEF k, y
<1> DEFINE e == Balance(b, t)
<1>6. Above(<<x>>, t, e)
  BY <1>1, <1>2, <1>4, <1>5, AboveFew
<1>7. Above(g, t, e + k)
  <2>1. e + k \in Int /\ e <= e + k
    BY <1>2
  <2> QED BY <1>2, <2>1, AboveMore
<1>8. Above(s1, t, e) /\ Balance(s1, t) = k + Balance(g, t)
  <2>1. Above(s1, t, e) <=> Above(<<x>>, t, e) /\ Above(g, t, e + Balance(<<x>>, t))
    BY <1>1, <1>2, AboveConcat
  <2>2. Balance(s1, t) = Balance(<<x>>, t) + Balance(g, t)
    BY <1>1, BalanceConcat
  <2> QED BY <1>3, <1>6, <1>7, <2>1, <2>2
<1> HIDE DEF s1
<1>9. Above(s2, t, e) /\ Balance(s2, t) = Balance(g, t)
  <2>1. Above(s2, t, e) <=> Above(s1, t, e) /\ Above(<<y>>, t, e + Balance(s1, t))
    BY <1>1, <1>2, AboveConcat
  <2>2. e + Balance(s1, t) \in Int /\ e + Balance(s1, t) >= k
    BY <1>2, <1>4, <1>8
  <2>3. Above(<<y>>, t, e + Balance(s1, t))
    BY <1>1, <1>5, <2>2, AboveFew
  <2>4. Balance(s2, t) = Balance(s1, t) + Balance(<<y>>, t)
    BY <1>1, BalanceConcat
  <2> QED BY <1>2, <1>3, <1>8, <2>1, <2>3, <2>4
<1> HIDE DEF s2
<1>10. Above(s3, t, 0) /\ Balance(s3, t) = Balance(b, t) + Balance(g, t)
  <2>1. 0 \in Int /\ 0 + Balance(b, t) = e
    BY <1>2
  <2>2. Above(s3, t, 0) <=> Above(b, t, 0) /\ Above(s2, t, 0 + Balance(b, t))
    BY <1>1, <2>1, AboveConcat
  <2>3. Balance(s3, t) = Balance(b, t) + Balance(s2, t)
    BY <1>1, BalanceConcat
  <2> QED BY <1>9, <2>1, <2>2, <2>3
<1> HIDE DEF s3
<1>11. Above(s3 \o r, t, 0)
  <2>1. 0 \in Int /\ 0 + Balance(s3, t) = Balance(b, t) + Balance(g, t)
    BY <1>2, <1>10
  <2>2. Above(s3 \o r, t, 0) <=> Above(s3, t, 0) /\ Above(r, t, 0 + Balance(s3, t))
    BY <1>1, <2>1, AboveConcat
  <2> QED BY <1>10, <2>1, <2>2
<1>12. Balance(s3 \o r, t) = Balance(b, t) + Balance(g, t) + Balance(r, t)
  BY <1>1, <1>2, <1>10, BalanceConcat
<1> QED BY <1>11, <1>12 DEF s3, s2, s1, y

\* What the counts are of such lines.
LEMMA CountFive ==
  ASSUME NEW S, NEW b \in Seq(S), NEW d1 \in Seq(S), NEW g \in Seq(S), NEW d2 \in Seq(S),
         NEW r \in Seq(S), NEW c, Count(d1, c) = 0, Count(d2, c) = 0
  PROVE  Count((((b \o d1) \o g) \o d2) \o r, c) = Count(b, c) + Count(g, c) + Count(r, c)
<1> DEFINE s1 == b \o d1
           s2 == s1 \o g
           s3 == s2 \o d2
<1>1. s1 \in Seq(S) /\ s2 \in Seq(S) /\ s3 \in Seq(S)
  OBVIOUS
<1>2. Count(b, c) \in Nat /\ Count(g, c) \in Nat /\ Count(r, c) \in Nat
  BY CountType
<1>3. Count(s1, c) = Count(b, c) + Count(d1, c)
  BY CountConcat
<1> HIDE DEF s1
<1>4. Count(s2, c) = Count(s1, c) + Count(g, c)
  BY <1>1, CountConcat
<1> HIDE DEF s2
<1>5. Count(s3, c) = Count(s2, c) + Count(d2, c)
  BY <1>1, CountConcat
<1> HIDE DEF s3
<1>6. Count(s3 \o r, c) = Count(s3, c) + Count(r, c)
  BY <1>1, CountConcat
<1>7. Count(s3 \o r, c) = Count(b, c) + Count(g, c) + Count(r, c)
  BY <1>2, <1>3, <1>4, <1>5, <1>6
<1> QED BY <1>7 DEF s3, s2, s1

\* What counts neither the tag nor its end counts the parts alone.
LEMMA CountWrap ==
  ASSUME NEW S, NEW b \in Seq(S), NEW g \in Seq(S), NEW r \in Seq(S), NEW x \in S, NEW y \in S,
         NEW c, x # c, y # c
  PROVE  Count((b \o ((<<x>> \o g) \o <<y>>)) \o r, c) = Count(b, c) + Count(g, c) + Count(r, c)
<1> DEFINE s1 == <<x>> \o g
           s2 == s1 \o <<y>>
           s3 == b \o s2
<1>1. /\ <<x>> \in Seq(S) /\ <<y>> \in Seq(S) /\ s1 \in Seq(S) /\ s2 \in Seq(S) /\ s3 \in Seq(S)
      /\ Count(<<x>>, c) = 0 /\ Count(<<y>>, c) = 0
  BY CountOne
<1>2. Count(b, c) \in Nat /\ Count(g, c) \in Nat /\ Count(r, c) \in Nat
  BY CountType
<1>3. Count(s1, c) = Count(<<x>>, c) + Count(g, c)
  BY SMTT(30), ZenonT(40), <1>1, CountConcat
<1> HIDE DEF s1
<1>4. Count(s2, c) = Count(s1, c) + Count(<<y>>, c)
  BY SMTT(30), ZenonT(40), <1>1, CountConcat
<1> HIDE DEF s2
<1>5. Count(s3, c) = Count(b, c) + Count(s2, c)
  BY <1>1, CountConcat
<1> HIDE DEF s3
<1>6. Count(s3 \o r, c) = Count(s3, c) + Count(r, c)
  BY <1>1, CountConcat
<1>7. Count(s3 \o r, c) = Count(b, c) + Count(g, c) + Count(r, c)
  BY <1>1, <1>2, <1>3, <1>4, <1>5, <1>6
<1> QED BY <1>7 DEF s3, s2, s1

------------------------------------------------------------------------------
(* Emphasis *)

\* The delimiters hold marks only, none of them empty.
AreMarks(ds) ==
  /\ ds \in Seq(Seq(Chars))
  /\ \A n \in DOMAIN ds : Len(ds[n]) \in Nat \ {0} /\ \A i \in 1..Len(ds[n]) : ds[n][i] \in Marks

\* What bold, italic, hyperlink and imagelink are made of.
LEMMA Delimiters ==
  /\ AreMarks(bold) /\ Len(bold) = 2
  /\ AreMarks(italic) /\ Len(italic) = 2
  /\ AreMarks(hyperlink) /\ Len(hyperlink) = 3 /\ hyperlink[3] = <<")">>
  /\ AreMarks(imagelink) /\ Len(imagelink) = 3 /\ imagelink[3] = <<")">>
<1> DEFINE C == Chars
<1>1. "*" \in C /\ "!" \in C /\ "[" \in C /\ "]" \in C /\ "(" \in C /\ ")" \in C
  BY DEF Chars, Marks
<1> HIDE DEF C
<1>2. AreMarks(bold) /\ Len(bold) = 2
  <2>1. bold \in Seq(Seq(C)) /\ Len(bold) = 2
    BY <1>1 DEF bold
  <2>2. \A n \in DOMAIN bold : Len(bold[n]) = 2 /\ \A i \in 1..2 : bold[n][i] \in Marks
    BY DEF bold, Marks
  <2> QED BY <2>1, <2>2 DEF AreMarks, C
<1>3. AreMarks(italic) /\ Len(italic) = 2
  <2>1. italic \in Seq(Seq(C)) /\ Len(italic) = 2
    BY <1>1 DEF italic
  <2>2. \A n \in DOMAIN italic : Len(italic[n]) = 1 /\ \A i \in 1..1 : italic[n][i] \in Marks
    BY DEF italic, Marks
  <2> QED BY <2>1, <2>2 DEF AreMarks, C
<1>4. AreMarks(hyperlink) /\ Len(hyperlink) = 3 /\ hyperlink[3] = <<")">>
  <2>1. hyperlink \in Seq(Seq(C)) /\ Len(hyperlink) = 3 /\ hyperlink[3] = <<")">>
    BY <1>1 DEF hyperlink
  <2>2. /\ Len(hyperlink[1]) = 1 /\ \A i \in 1..1 : hyperlink[1][i] \in Marks
        /\ Len(hyperlink[2]) = 2 /\ \A i \in 1..2 : hyperlink[2][i] \in Marks
        /\ Len(hyperlink[3]) = 1 /\ \A i \in 1..1 : hyperlink[3][i] \in Marks
    BY DEF hyperlink, Marks
  <2>3. ASSUME NEW n \in DOMAIN hyperlink
        PROVE  Len(hyperlink[n]) \in Nat \ {0} /\ \A i \in 1..Len(hyperlink[n]) : hyperlink[n][i] \in Marks
    <3>1. n = 1 \/ n = 2 \/ n = 3
      BY <2>1
    <3>2. CASE n = 1
      BY <2>2, <3>2
    <3>3. CASE n = 2
      BY <2>2, <3>3
    <3>4. CASE n = 3
      BY <2>2, <3>4
    <3> QED BY <3>1, <3>2, <3>3, <3>4
  <2> QED BY <2>1, <2>3 DEF AreMarks, C
<1>5. AreMarks(imagelink) /\ Len(imagelink) = 3 /\ imagelink[3] = <<")">>
  <2>1. imagelink \in Seq(Seq(C)) /\ Len(imagelink) = 3 /\ imagelink[3] = <<")">>
    BY <1>1 DEF imagelink
  <2>2. /\ Len(imagelink[1]) = 2 /\ \A i \in 1..2 : imagelink[1][i] \in Marks
        /\ Len(imagelink[2]) = 2 /\ \A i \in 1..2 : imagelink[2][i] \in Marks
        /\ Len(imagelink[3]) = 1 /\ \A i \in 1..1 : imagelink[3][i] \in Marks
    BY DEF imagelink, Marks
  <2>3. ASSUME NEW n \in DOMAIN imagelink
        PROVE  Len(imagelink[n]) \in Nat \ {0} /\ \A i \in 1..Len(imagelink[n]) : imagelink[n][i] \in Marks
    <3>1. n = 1 \/ n = 2 \/ n = 3
      BY <2>1
    <3>2. CASE n = 1
      BY <2>2, <3>2
    <3>3. CASE n = 2
      BY <2>2, <3>3
    <3>4. CASE n = 3
      BY <2>2, <3>4
    <3> QED BY <3>1, <3>2, <3>3, <3>4
  <2> QED BY <2>1, <2>3 DEF AreMarks, C
<1> QED BY <1>2, <1>3, <1>4, <1>5

\* A sequence of marks is neither text nor tag.
LEMMA MarksCount ==
  ASSUME NEW S, NEW d \in Seq(S), \A i \in 1..Len(d) : d[i] \in Marks
  PROVE  /\ \A c \in Text : Count(d, c) = 0
         /\ \A t \in BeginTags : Balance(d, t) = 0
<1>1. \A i \in 1..Len(d) : d[i] \notin Text /\ d[i] \notin Tags
  BY TagFacts DEF Marks, Text, BeginTags
<1>2. \A c \in Text : Count(d, c) = 0
  BY <1>1, CountNone
<1> QED BY <1>1, <1>2, BalanceNone

\* Bold and italic: what a match of two delimiters leaves, a tag and its end in
\* their place.
LEMMA Emphasised ==
  ASSUME NEW s \in Seq(Chars), NEW ds, AreMarks(ds), Len(ds) = 2, Spans(s, ds) # {},
         NEW x \in BeginTags, NoReference(s), Nested(s)
  PROVE  LET p == Found(s, ds)
             w == Replace(s, ds, (<<x>> \o Group(s, ds, p, 1)) \o <<EndOf[x]>>, p)
         IN  w \in Seq(Chars) /\ NoReference(w) /\ Kept(w, s) /\ Nested(w)
<1> DEFINE y == EndOf[x]
<1>1. PICK p \in Spans(s, ds) : p = Found(s, ds)
  BY FoundIsBest DEF AreMarks
<1>a. IsCutTwo(Chars, s, ds, p)
  BY CutTwo DEF AreMarks
<1>2. PICK b \in Seq(Chars), g \in Seq(Chars), r \in Seq(Chars), d1 \in Seq(Chars), d2 \in Seq(Chars) :
        /\ b = Before(s, p) /\ g = Group(s, ds, p, 1) /\ r = Behind(s, ds, p)
        /\ d1 = ds[1] /\ d2 = ds[2]
        /\ s = (((b \o d1) \o g) \o d2) \o r
  BY <1>a DEF IsCutTwo
<1>3. NoReference(b) /\ NoReference(g) /\ NoReference(r)
  BY <1>a, <1>2 DEF IsCutTwo
<1>4. /\ x \in Chars /\ y \in Chars /\ x \notin Referring /\ y \notin Referring
      /\ x \notin Text /\ y \notin Text
  BY TagFacts DEF Chars, BeginTags, Referring, Digits, Text
<1> HIDE DEF y
<1> DEFINE m == (<<x>> \o g) \o <<y>>
           w == (b \o m) \o r
<1>5. Replace(s, ds, m, p) = w
  <2>1. m \in Seq(Chars) /\ NoReference(m)
    BY <1>3, <1>4, NoReferenceWrap
  <2> HIDE DEF m
  <2>2. Expand(m, s, ds, p) = m
    BY <2>1, ExpandPlain
  <2> QED BY <1>2, <2>2 DEF Replace
<1>6. w \in Seq(Chars) /\ NoReference(w)
  BY <1>3, <1>4, NoReferenceInside
<1>7. /\ \A c \in Text : Count(d1, c) = 0 /\ Count(d2, c) = 0
      /\ \A t \in BeginTags : Balance(d1, t) = 0 /\ Balance(d2, t) = 0
  <2>1. 1 \in DOMAIN ds /\ 2 \in DOMAIN ds
    BY DEF AreMarks
  <2>2. /\ \A i \in 1..Len(d1) : d1[i] \in Marks
        /\ \A i \in 1..Len(d2) : d2[i] \in Marks
    BY <1>2, <2>1 DEF AreMarks
  <2> QED BY <2>2, MarksCount
<1>8. Kept(w, s)
  <2> SUFFICES ASSUME NEW c \in Text PROVE Count(w, c) = Count(s, c)
    BY DEF Kept
  <2>1. Count((((b \o d1) \o g) \o d2) \o r, c) = Count(b, c) + Count(g, c) + Count(r, c)
    BY <1>7, CountFive
  <2>2. x # c /\ y # c
    BY <1>4
  <2>3. Count(w, c) = Count(b, c) + Count(g, c) + Count(r, c)
    BY <1>4, <2>2, CountWrap
  <2> HIDE DEF w
  <2> QED BY <1>2, <2>1, <2>3
<1>9. Nested(w)
  <2> SUFFICES ASSUME NEW t \in BeginTags PROVE Above(w, t, 0) /\ Balance(w, t) = 0
    BY DEF Nested
  <2>1. Above((((b \o d1) \o g) \o d2) \o r, t, 0) /\ Balance((((b \o d1) \o g) \o d2) \o r, t) = 0
    BY <1>2 DEF Nested
  <2>2. /\ Above(b, t, 0) /\ Above(g, t, Balance(b, t))
        /\ Above(r, t, Balance(b, t) + Balance(g, t))
        /\ Balance(b, t) + Balance(g, t) + Balance(r, t) = 0
    BY SMTT(30), ZenonT(40), <1>7, <2>1, AboveFive
  <2> QED BY <2>2, AboveWrap DEF y
<1> QED BY <1>1, <1>2, <1>5, <1>6, <1>8, <1>9 DEF y

------------------------------------------------------------------------------
(* Links and images *)

NoEnds(s) == \A i \in 1..Len(s) : s[i] \notin EndTags

\* A line has no ends exactly if its two parts have none.
LEMMA NoEndsConcat ==
  ASSUME NEW S, NEW s \in Seq(S), NEW u \in Seq(S)
  PROVE  NoEnds(s \o u) <=> NoEnds(s) /\ NoEnds(u)
<1>1. Len(s) \in Nat /\ Len(u) \in Nat /\ Len(s \o u) = Len(s) + Len(u)
  BY ConcatProperties
<1>2. \A i \in 1..(Len(s) + Len(u)) : (s \o u)[i] = IF i <= Len(s) THEN s[i] ELSE u[i - Len(s)]
  BY ConcatProperties
<1>3. ASSUME NoEnds(s \o u) PROVE NoEnds(s) /\ NoEnds(u)
  <2>1. ASSUME NEW i \in 1..Len(s) PROVE s[i] \notin EndTags
    <3>1. i \in 1..(Len(s) + Len(u)) /\ i <= Len(s)
      BY <1>1
    <3> QED BY <1>1, <1>2, <1>3, <3>1 DEF NoEnds
  <2>2. ASSUME NEW i \in 1..Len(u) PROVE u[i] \notin EndTags
    <3>1. /\ Len(s) + i \in 1..(Len(s) + Len(u)) /\ ~(Len(s) + i <= Len(s))
          /\ (Len(s) + i) - Len(s) = i
      BY <1>1
    <3>2. (s \o u)[Len(s) + i] = u[i]
      BY <1>2, <3>1
    <3> QED BY <1>1, <1>3, <3>1, <3>2 DEF NoEnds
  <2> QED BY <2>1, <2>2 DEF NoEnds
<1>4. ASSUME NoEnds(s), NoEnds(u) PROVE NoEnds(s \o u)
  <2> SUFFICES ASSUME NEW i \in 1..(Len(s) + Len(u)) PROVE (s \o u)[i] \notin EndTags
    BY <1>1 DEF NoEnds
  <2>1. i <= Len(s) => i \in 1..Len(s)
    BY <1>1
  <2>2. ~(i <= Len(s)) => i - Len(s) \in 1..Len(u)
    BY <1>1
  <2> QED BY <1>2, <1>4, <2>1, <2>2 DEF NoEnds
<1> QED BY <1>3, <1>4

\* What stands before a parenthesis that closes holds no end of a tag.
LEMMA NoEndsBefore ==
  ASSUME NEW S, NEW u \in Seq(S), NEW r \in Seq(S), ")" \in S, EndsLate((u \o <<")">>) \o r)
  PROVE  NoEnds(u)
<1> DEFINE s == (u \o <<")">>) \o r
<1> SUFFICES ASSUME NEW i \in 1..Len(u), u[i] \in EndTags PROVE FALSE
  BY DEF NoEnds
<1>1. /\ Len(u) \in Nat /\ i \in DOMAIN s /\ Len(u) + 1 \in DOMAIN s
      /\ s[i] = u[i] /\ s[Len(u) + 1] = ")"
  OBVIOUS
<1> HIDE DEF s
<1>2. EndsLate(s)
  BY DEF s
<1>3. Len(u) + 1 < i
  BY <1>1, <1>2 DEF EndsLate
<1> QED BY <1>1, <1>3

\* The ends come late where the first of them is behind the last parenthesis.
LEMMA EndsLateConcat ==
  ASSUME NEW S, NEW u \in Seq(S), NEW r \in Seq(S), NEW y \in S, y # ")", NoEnds(u),
         \A i \in 1..Len(r) : r[i] # ")"
  PROVE  EndsLate((u \o <<y>>) \o r)
<1> DEFINE s == (u \o <<y>>) \o r
<1>0. Len(u) \in Nat /\ Len(r) \in Nat
  OBVIOUS
<1>1. DOMAIN s = 1..(Len(u) + 1 + Len(r))
  OBVIOUS
<1>2. /\ \A i \in 1..Len(u) : s[i] = u[i]
      /\ s[Len(u) + 1] = y
      /\ \A i \in 1..Len(r) : s[Len(u) + 1 + i] = r[i]
  OBVIOUS
<1> HIDE DEF s
<1>3. ASSUME NEW i \in DOMAIN s, s[i] \in EndTags PROVE Len(u) + 1 <= i
  <2>1. i \notin 1..Len(u)
    BY <1>2, <1>3 DEF NoEnds
  <2> QED BY <1>0, <1>1, <2>1
<1>4. ASSUME NEW j \in DOMAIN s, s[j] = ")" PROVE j < Len(u) + 1
  <2>1. j # Len(u) + 1
    BY <1>2, <1>4
  <2>2. ASSUME j > Len(u) + 1 PROVE FALSE
    <3>1. /\ j - (Len(u) + 1) \in 1..Len(r)
          /\ Len(u) + 1 + (j - (Len(u) + 1)) = j
      BY <1>0, <1>1, <2>2
    <3>2. s[j] = r[j - (Len(u) + 1)]
      BY <1>2, <3>1
    <3> QED BY <1>4, <3>1, <3>2
  <2> QED BY <1>0, <1>1, <2>1, <2>2
<1>5. \A i, j \in DOMAIN s : s[i] \in EndTags /\ s[j] = ")" => j < i
  BY <1>0, <1>1, <1>3, <1>4
<1> QED BY <1>5 DEF EndsLate, s

\* The last delimiter is matched as late as possible: no parenthesis follows.
LEMMA NoneBehind ==
  ASSUME NEW S, NEW s \in Seq(S), NEW R, NEW ds \in Seq(R), Len(ds) = 3, ds[3] = <<")">>,
         NEW p \in Spans(s, ds), \A q \in Spans(s, ds) : q = p \/ Prefer(p, q),
         Len(ds[2]) \in Nat
  PROVE  \A i \in 1..Len(Behind(s, ds, p)) : Behind(s, ds, p)[i] # ")"
<1>0. /\ DOMAIN ds = 1..3 /\ Len(s) \in Nat /\ DOMAIN s = 1..Len(s)
  OBVIOUS
<1>1. /\ \A n \in DOMAIN ds : p[n] \in 1..Len(s) /\ HasAt(s, p[n], ds[n])
      /\ \A n \in 1..(Len(ds) - 1) : p[n] + Len(ds[n]) <= p[n + 1]
  BY SpanType
<1>2. PICK k \in 1..Len(s) : k = p[3]
  BY <1>0, <1>1
<1>3. PICK m \in 1..(Len(s) + 1) : m = k + 1
  BY <1>0
<1>4. Behind(s, ds, p) = SubSeq(s, m, Len(s))
  <2>1. Len(<<")">>) = 1
    OBVIOUS
  <2>2. p[Len(ds)] + Len(ds[Len(ds)]) = m
    BY <1>2, <1>3, <2>1
  <2> QED BY <2>2 DEF Behind, From
<1> SUFFICES ASSUME NEW i \in 1..Len(SubSeq(s, m, Len(s))), SubSeq(s, m, Len(s))[i] = ")"
             PROVE  FALSE
  BY <1>4
<1>5. PICK e \in (m - 1)..Len(s) : e = Len(s)
  <2>1. Len(s) \in (m - 1)..Len(s)
    BY <1>0, <1>3
  <2> QED BY <2>1
<1>6. /\ Len(SubSeq(s, m, e)) = e - m + 1
      /\ \A n \in 1..(e - m + 1) : SubSeq(s, m, e)[n] = s[m + n - 1]
  BY SMTT(30), ZenonT(40), PartType
<1>7. PICK j \in 1..Len(s) : j = m + i - 1 /\ s[j] = ")" /\ j > k
  <2>1. i \in 1..(e - m + 1) /\ SubSeq(s, m, e)[i] = ")"
    BY <1>5, <1>6
  <2>2. s[m + i - 1] = ")"
    BY <1>6, <2>1
  <2>3. m + i - 1 \in 1..Len(s) /\ m + i - 1 > k
    BY <1>0, <1>3, <1>5, <2>1
  <2> QED BY <2>2, <2>3
<1>8. j \in Places(s, ds[3])
  <2>1. SubSeq(s, j, j) = <<s[j]>>
    <3>1. j \in 1..Len(s) /\ j \in j..Len(s)
      OBVIOUS
    <3>2. SubSeq(s, j, j) = <<s[j]>> \o SubSeq(s, j + 1, j)
      BY <3>1, SubSeqRecursiveFirst
    <3>3. SubSeq(s, j + 1, j) = <<>>
      BY SubSeqEmpty
    <3>4. <<s[j]>> \in Seq(S)
      OBVIOUS
    <3>5. <<s[j]>> \o <<>> = <<s[j]>>
      BY <3>4, ConcatEmptySeq
    <3> QED BY <3>2, <3>3, <3>5
  <2>2. j + Len(<<")">>) - 1 = j
    OBVIOUS
  <2> QED BY <1>0, <1>7, <2>1, <2>2 DEF Places, HasAt
<1> DEFINE q == [n \in DOMAIN ds |-> IF n = 3 THEN j ELSE p[n]]
<1>9. q \in Spans(s, ds)
  <2>1. \A n \in DOMAIN ds : p[n] \in Places(s, ds[n])
    BY <1>0, <1>1 DEF Places
  <2>2. \A n \in DOMAIN ds : q[n] \in Places(s, ds[n])
    BY <1>8, <2>1
  <2>3. q \in [DOMAIN ds -> UNION {Places(s, ds[n]) : n \in DOMAIN ds}]
    BY <2>2
  <2>4. ASSUME NEW n \in 1..(Len(ds) - 1) PROVE q[n] + Len(ds[n]) <= q[n + 1]
    <3>1. CASE n = 1
      <4>1. q[n] = p[1] /\ q[n + 1] = p[2] /\ p[1] + Len(ds[1]) <= p[1 + 1] /\ 1 + 1 = 2
        BY <1>0, <1>1, <3>1
      <4> QED BY <3>1, <4>1
    <3>2. CASE n = 2
      <4>1. q[n] = p[2] /\ q[n + 1] = j /\ p[2] + Len(ds[2]) <= p[2 + 1] /\ 2 + 1 = 3
        BY <1>0, <1>1, <3>2
      <4>2. p[2] + Len(ds[2]) <= k /\ p[2] \in Nat
        BY <1>0, <1>1, <1>2, <4>1
      <4> QED BY SMTT(30), ZenonT(40), <1>7, <3>2, <4>1, <4>2
    <3> QED BY <1>0, <3>1, <3>2
  <2> HIDE DEF q
  <2> QED BY <2>2, <2>3, <2>4 DEF Spans
<1>10. q[1] = p[1] /\ q[2] = p[2] /\ q[3] = j /\ p[3] < q[3]
  BY <1>0, <1>2, <1>7
<1>11. q # p
  BY <1>0, <1>1, <1>2, <1>10
<1> HIDE DEF q
<1>12. Prefer(p, q)
  BY <1>9, <1>11
<1>13. DOMAIN p = 1..3
  BY <1>0 DEF Spans
<1>14. /\ ~(p[1] < q[1]) /\ ~(p[2] > q[2]) /\ ~(p[3] > q[3])
  <2>1. p[1] \in Nat /\ p[2] \in Nat /\ p[3] \in Nat
    <3>1. 1 \in DOMAIN ds /\ 2 \in DOMAIN ds /\ 3 \in DOMAIN ds
      BY <1>0
    <3>2. p[1] \in 1..Len(s) /\ p[2] \in 1..Len(s) /\ p[3] \in 1..Len(s)
      BY <1>1, <3>1
    <3> QED BY SMTT(30), ZenonT(40), <3>2
  <2> QED BY SMTT(30), ZenonT(40), <1>7, <1>10, <2>1
<1>15. PICK n \in 1..3 : IF n = 1 THEN p[1] < q[1] ELSE p[n] > q[n]
  BY <1>12, <1>13 DEF Prefer
<1> QED BY <1>14, <1>15

\* Of use where the parts are long expressions.
LEMMA ConcatType ==
  ASSUME NEW S, NEW s \in Seq(S), NEW u \in Seq(S)
  PROVE  s \o u \in Seq(S)
OBVIOUS

\* An entry that is neither text nor tag.
IsOther(q, z) ==
  /\ q = <<z>> /\ q \in Seq(Chars) /\ NoReference(q) /\ NoEnds(q)
  /\ q[1] \notin Referring
  /\ \A u \in Seq(Chars) : (u \o q)[Len(u \o q)] # "$"
  /\ \A c \in Text : Count(q, c) = 0
  /\ \A t \in BeginTags : Balance(q, t) = 0

\* Each character that is neither makes such an entry.
LEMMA OneOther ==
  ASSUME NEW z \in Chars, z \notin Referring, z \notin Text, z \notin Tags
  PROVE  IsOther(<<z>>, z)
<1> DEFINE q == <<z>>
<1>1. q \in Seq(Chars) /\ Len(q) = 1 /\ q[1] = z
  BY OneEntry
<1>2. NoReference(q)
  BY NoReferenceOne
<1>3. \A u \in Seq(Chars) : (u \o q)[Len(u \o q)] = z
  BY Ends
<1> HIDE DEF q
<1>4. \A i \in 1..Len(q) : q[i] = z
  BY <1>1
<1>5. NoEnds(q)
  BY <1>4, TagFacts DEF NoEnds
<1>6. \A c \in Text : Count(q, c) = 0
  <2> SUFFICES ASSUME NEW c \in Text PROVE Count(q, c) = 0
    OBVIOUS
  <2>1. \A i \in 1..Len(q) : q[i] # c
    BY <1>4
  <2> QED BY <1>1, <2>1, CountNone
<1>7. \A t \in BeginTags : Balance(q, t) = 0
  <2>1. \A i \in 1..Len(q) : q[i] \notin Tags
    BY <1>4
  <2> QED BY <1>1, <2>1, BalanceNone
<1>8. z # "$"
  BY DEF Referring
<1> QED BY <1>1, <1>2, <1>3, <1>5, <1>6, <1>7, <1>8 DEF IsOther, q

\* An entry that is a tag which begins.
LEMMA OneBegin ==
  ASSUME NEW x \in BeginTags
  PROVE  /\ <<x>> \in Seq(Chars) /\ NoEnds(<<x>>) /\ x \in Chars /\ EndOf[x] \in Chars
         /\ <<EndOf[x]>> \in Seq(Chars) /\ EndOf[x] # ")"
         /\ x \notin Referring /\ EndOf[x] \notin Referring
         /\ x \notin Text /\ EndOf[x] \notin Text
<1> DEFINE q == <<x>>
<1>1. x \in Chars /\ EndOf[x] \in Chars
  BY TagFacts DEF Chars
<1>2. q \in Seq(Chars) /\ Len(q) = 1 /\ q[1] = x
  BY <1>1, OneEntry
<1> HIDE DEF q
<1>3. \A i \in 1..Len(q) : q[i] = x
  BY <1>2
<1>4. NoEnds(q)
  BY <1>3, TagFacts DEF NoEnds
<1>5. <<EndOf[x]>> \in Seq(Chars)
  BY <1>1, OneEntry
<1>6. /\ EndOf[x] # ")" /\ x \notin Referring /\ EndOf[x] \notin Referring
      /\ x \notin Text /\ EndOf[x] \notin Text
  BY TagFacts DEF BeginTags, Referring, Digits, Text
<1> QED BY <1>1, <1>2, <1>4, <1>5, <1>6 DEF q

\* The facts on five parts and on a wrapped part as operators, so that they
\* can be cited of lines that are long expressions.
Regroups(a, b, c) == (a \o b) \o c = a \o (b \o c)
CountsFive(b, d1, g, d2, r, c) ==
  Count((((b \o d1) \o g) \o d2) \o r, c) = Count(b, c) + Count(g, c) + Count(r, c)
AboveParts(b, g, r, t) ==
  /\ Above(b, t, 0) /\ Above(g, t, Balance(b, t))
  /\ Above(r, t, Balance(b, t) + Balance(g, t))
BalanceFive(b, d1, g, d2, r, t) ==
  Balance((((b \o d1) \o g) \o d2) \o r, t) = Balance(b, t) + Balance(g, t) + Balance(r, t)
CountsWrap(b, x, g, y, r, c) ==
  Count((b \o ((<<x>> \o g) \o <<y>>)) \o r, c) = Count(b, c) + Count(g, c) + Count(r, c)

\* Concatenation is associative.
LEMMA Regrouping ==
  ASSUME NEW a \in Seq(Chars), NEW b \in Seq(Chars), NEW c \in Seq(Chars)
  PROVE  Regroups(a, b, c)
BY ConcatAssociative DEF Regroups

\* CountFive of the operator.
LEMMA FiveCounted ==
  ASSUME NEW b \in Seq(Chars), NEW d1 \in Seq(Chars), NEW g \in Seq(Chars),
         NEW d2 \in Seq(Chars), NEW r \in Seq(Chars), NEW c,
         Count(d1, c) = 0, Count(d2, c) = 0
  PROVE  CountsFive(b, d1, g, d2, r, c)
BY CountFive DEF CountsFive

\* AboveFive of the operators.
LEMMA FiveAbove ==
  ASSUME NEW b \in Seq(Chars), NEW d1 \in Seq(Chars), NEW g \in Seq(Chars),
         NEW d2 \in Seq(Chars), NEW r \in Seq(Chars), NEW t,
         Balance(d1, t) = 0, Balance(d2, t) = 0,
         Above((((b \o d1) \o g) \o d2) \o r, t, 0)
  PROVE  AboveParts(b, g, r, t) /\ BalanceFive(b, d1, g, d2, r, t)
BY AboveFive DEF AboveParts, BalanceFive

\* CountWrap of the operator.
LEMMA WrapCounted ==
  ASSUME NEW b \in Seq(Chars), NEW g \in Seq(Chars), NEW r \in Seq(Chars),
         NEW x \in Chars, NEW y \in Chars, NEW c, x # c, y # c
  PROVE  CountsWrap(b, x, g, y, r, c)
BY CountWrap DEF CountsWrap

\* What Link puts between the tag and its end: target, quote and text.
LEMMA LinkInside ==
  ASSUME NEW h \in Seq(Chars), NEW g \in Seq(Chars)
  PROVE  \E q \in Seq(Chars) :
           /\ IsOther(q, "'>")
           /\ (h \o q) \o g \in Seq(Chars)
           /\ Link(g, h) = (<<"<a href=">> \o ((h \o q) \o g)) \o <<EndOf["<a href="]>>
<1>1. "'>" \in Chars /\ "'>" \notin Referring /\ "'>" \notin Text /\ "'>" \notin Tags
  BY TagFacts DEF Chars, BeginTags, Referring, Digits, Text
<1>2. PICK q \in Seq(Chars) : q = <<"'>">> /\ IsOther(q, "'>")
  <2>1. IsOther(<<"'>">>, "'>")
    BY <1>1, OneOther
  <2> QED BY <2>1 DEF IsOther
<1>3. PICK a \in Seq(Chars) : a = <<"<a href=">>
  <2>1. "<a href=" \in BeginTags
    BY DEF BeginTags
  <2> QED BY <2>1, OneBegin
<1>4. Link(g, h) = (((a \o h) \o q) \o g) \o <<"</a>">>
  BY <1>2, <1>3 DEF Link
<1>5. h \o q \in Seq(Chars)
  BY ConcatType
<1>6. (a \o h) \o q = a \o (h \o q)
  BY SMTT(30), ZenonT(40), ConcatAssociative
<1>7. (a \o (h \o q)) \o g = a \o ((h \o q) \o g)
  <2>1. PICK v \in Seq(Chars) : v = h \o q
    BY <1>5
  <2>2. (a \o v) \o g = a \o (v \o g)
    <3>1. Regroups(a, v, g)
      BY Regrouping
    <3> QED BY <3>1 DEF Regroups
  <2> QED BY <2>1, <2>2
<1>8. EndOf["<a href="] = "</a>"
  BY TagFacts
<1>9. Link(g, h) = (a \o ((h \o q) \o g)) \o <<"</a>">>
  BY <1>4, <1>6, <1>7
<1>10. (h \o q) \o g \in Seq(Chars)
  BY <1>5, ConcatType
<1>11. Link(g, h) = (<<"<a href=">> \o ((h \o q) \o g)) \o <<EndOf["<a href="]>>
  BY <1>3, <1>8, <1>9
<1> QED BY <1>2, <1>10, <1>11

\* Links and images: of a match of three delimiters the groups change places,
\* with a tag and its end around them.
LEMMA LinkedKeeps ==
  ASSUME NEW s \in Seq(Chars), NEW ds, AreMarks(ds), Len(ds) = 3, ds[3] = <<")">>,
         Spans(s, ds) # {}, NoReference(s), Nested(s), EndsLate(s)
  PROVE  LET p == Found(s, ds)
             w == Replace(s, ds, Link(Group(s, ds, p, 1), Group(s, ds, p, 2)), p)
         IN  w \in Seq(Chars) /\ NoReference(w) /\ Kept(w, s) /\ Nested(w) /\ EndsLate(w)
<1>0. 1 \in DOMAIN ds /\ 2 \in DOMAIN ds /\ 3 \in DOMAIN ds
  BY DEF AreMarks
<1>1. PICK p \in Spans(s, ds) :
        p = Found(s, ds) /\ \A q \in Spans(s, ds) : q = p \/ Prefer(p, q)
  BY FoundIsBest DEF AreMarks
<1>2. IsCutThree(Chars, s, ds, p)
  BY CutThree DEF AreMarks
<1>3. PICK b \in Seq(Chars), g \in Seq(Chars), h \in Seq(Chars), r \in Seq(Chars),
           d1 \in Seq(Chars), d2 \in Seq(Chars), d3 \in Seq(Chars) :
        /\ b = Before(s, p) /\ g = Group(s, ds, p, 1) /\ h = Group(s, ds, p, 2)
        /\ r = Behind(s, ds, p) /\ d1 = ds[1] /\ d2 = ds[2] /\ d3 = ds[3]
        /\ s = (((((b \o d1) \o g) \o d2) \o h) \o d3) \o r
  BY <1>2 DEF IsCutThree
<1>4. NoReference(b) /\ NoReference(g) /\ NoReference(h) /\ NoReference(r)
  BY <1>2, <1>3 DEF IsCutThree
<1>5. PICK x \in BeginTags : x = "<a href="
  BY DEF BeginTags
<1>6. PICK y \in Chars : y = EndOf[x]
  BY OneBegin
<1>7. PICK q \in Seq(Chars) :
        /\ IsOther(q, "'>")
        /\ (h \o q) \o g \in Seq(Chars)
        /\ Link(g, h) = (<<x>> \o ((h \o q) \o g)) \o <<y>>
  <2>1. PICK q \in Seq(Chars) :
          /\ IsOther(q, "'>")
          /\ (h \o q) \o g \in Seq(Chars)
          /\ Link(g, h) = (<<"<a href=">> \o ((h \o q) \o g)) \o <<EndOf["<a href="]>>
    BY LinkInside
  <2>2. Link(g, h) = (<<x>> \o ((h \o q) \o g)) \o <<y>>
    BY <1>5, <1>6, <2>1
  <2> QED BY <2>1, <2>2
<1>8. PICK hq \in Seq(Chars) : hq = h \o q
  BY ConcatType
<1>9. PICK hg \in Seq(Chars) : hg = hq \o g
  BY <1>7, <1>8
<1>10. PICK bd \in Seq(Chars) : bd = b \o d1
  BY ConcatType
<1>11. PICK u \in Seq(Chars) : u = bd \o g
  BY ConcatType
<1>12. s = (((u \o d2) \o h) \o d3) \o r
  BY <1>3, <1>10, <1>11
<1>13. /\ \A c \in Text : Count(d1, c) = 0 /\ Count(d2, c) = 0 /\ Count(d3, c) = 0
       /\ \A t \in BeginTags : Balance(d1, t) = 0 /\ Balance(d2, t) = 0 /\ Balance(d3, t) = 0
  <2>1. /\ \A i \in 1..Len(d1) : d1[i] \in Marks
        /\ \A i \in 1..Len(d2) : d2[i] \in Marks
        /\ \A i \in 1..Len(d3) : d3[i] \in Marks
    BY <1>0, <1>3 DEF AreMarks
  <2> QED BY <2>1, MarksCount
<1>14. /\ x \in Chars /\ x \notin Referring /\ y \notin Referring /\ x \notin Text /\ y \notin Text
       /\ y # ")" /\ <<x>> \in Seq(Chars) /\ <<y>> \in Seq(Chars) /\ NoEnds(<<x>>)
  BY <1>6, OneBegin
<1> DEFINE m == (<<x>> \o hg) \o <<y>>
           w == (b \o m) \o r
<1>15. NoReference(hg)
  <2>1. NoReference(hq)
    BY <1>4, <1>7, <1>8, NoReferenceConcat DEF IsOther
  <2>2. hq[Len(hq)] # "$"
    BY <1>7, <1>8 DEF IsOther
  <2> QED BY <1>4, <1>9, <2>1, <2>2, NoReferenceConcat
<1>16. Replace(s, ds, Link(g, h), p) = w
  <2>1. m \in Seq(Chars) /\ NoReference(m)
    <3>1. NoReference(m)
      BY <1>14, <1>15, NoReferenceWrap
    <3>2. <<x>> \o hg \in Seq(Chars)
      BY <1>14, ConcatType
    <3> QED BY <1>14, <3>1, <3>2, ConcatType
  <2>2. Link(g, h) = m
    BY <1>7, <1>8, <1>9
  <2> HIDE DEF m
  <2>3. Expand(m, s, ds, p) = m
    BY <2>1, ExpandPlain
  <2> QED BY <1>3, <2>2, <2>3 DEF Replace
<1>17. w \in Seq(Chars) /\ NoReference(w)
  <2>1. NoReference(w)
    BY <1>4, <1>14, <1>15, NoReferenceInside
  <2>2. <<x>> \o hg \in Seq(Chars)
    BY <1>14, ConcatType
  <2>3. m \in Seq(Chars)
    BY <1>14, <2>2, ConcatType
  <2> HIDE DEF m
  <2>4. b \o m \in Seq(Chars)
    BY <2>3, ConcatType
  <2>5. w \in Seq(Chars)
    BY <2>4, ConcatType
  <2> QED BY <2>1, <2>5 DEF m
<1>18. Kept(w, s)
  <2> SUFFICES ASSUME NEW c \in Text PROVE Count(w, c) = Count(s, c)
    BY DEF Kept
  <2>1. Count((((u \o d2) \o h) \o d3) \o r, c) = Count(u, c) + Count(h, c) + Count(r, c)
    <3>1. Count(d2, c) = 0 /\ Count(d3, c) = 0
      BY <1>13
    <3>2. CountsFive(u, d2, h, d3, r, c)
      BY <3>1, FiveCounted
    <3> QED BY <3>2 DEF CountsFive
  <2>2. Count(bd, c) = Count(b, c) + Count(d1, c)
    BY <1>10, CountConcat
  <2>3. Count(u, c) = Count(bd, c) + Count(g, c)
    BY <1>11, CountConcat
  <2>4. Count(hq, c) = Count(h, c) + Count(q, c)
    BY <1>8, CountConcat
  <2>5. Count(hg, c) = Count(hq, c) + Count(g, c)
    BY <1>9, CountConcat
  <2>6. Count(w, c) = Count(b, c) + Count(hg, c) + Count(r, c)
    <3>1. x # c /\ y # c
      BY <1>14
    <3>2. CountsWrap(b, x, hg, y, r, c)
      BY <1>14, <3>1, WrapCounted
    <3> QED BY <3>2 DEF CountsWrap
  <2>7. /\ Count(b, c) \in Nat /\ Count(g, c) \in Nat /\ Count(h, c) \in Nat /\ Count(r, c) \in Nat
    BY CountType
  <2>8. Count(d1, c) = 0 /\ Count(q, c) = 0
    BY <1>7, <1>13 DEF IsOther
  <2>9. Count(s, c) = Count(u, c) + Count(h, c) + Count(r, c)
    BY <1>12, <2>1
  <2> HIDE DEF w
  <2> QED BY SMTT(30), ZenonT(40), <2>2, <2>3, <2>4, <2>5, <2>6, <2>7, <2>8, <2>9
<1>19. NoEnds(b) /\ NoEnds(g) /\ NoEnds(h)
  <2>1. PICK ud \in Seq(Chars) : ud = u \o d2
    BY ConcatType
  <2>2. PICK v \in Seq(Chars) : v = ud \o h
    BY ConcatType
  <2>3. EndsLate((v \o <<")">>) \o r)
    BY <1>3, <1>12, <2>1, <2>2
  <2>4. ")" \in Chars
    BY DEF Chars, Marks
  <2>5. NoEnds(v)
    BY <2>3, <2>4, NoEndsBefore
  <2>6. NoEnds(ud) /\ NoEnds(h)
    BY <2>2, <2>5, NoEndsConcat
  <2>7. NoEnds(u)
    BY <2>1, <2>6, NoEndsConcat
  <2>8. NoEnds(bd) /\ NoEnds(g)
    BY <1>11, <2>7, NoEndsConcat
  <2>9. NoEnds(b)
    BY <1>10, <2>8, NoEndsConcat
  <2> QED BY <2>6, <2>8, <2>9
<1>20. NoEnds(hg)
  <2>1. NoEnds(hq)
    BY <1>7, <1>8, <1>19, NoEndsConcat DEF IsOther
  <2> QED BY <1>9, <1>19, <2>1, NoEndsConcat
<1>21. EndsLate(w)
  <2>1. PICK xh \in Seq(Chars) : xh = <<x>> \o hg
    BY <1>14, ConcatType
  <2>2. NoEnds(xh)
    BY <1>14, <1>20, <2>1, NoEndsConcat
  <2>3. PICK v \in Seq(Chars) : v = b \o xh
    BY ConcatType
  <2>4. NoEnds(v)
    BY <1>19, <2>2, <2>3, NoEndsConcat
  <2>5. \A i \in 1..Len(r) : r[i] # ")"
    <3>1. Len(ds[2]) \in Nat /\ ds \in Seq(Seq(Chars))
      BY <1>0 DEF AreMarks
    <3>2. \A i \in 1..Len(Behind(s, ds, p)) : Behind(s, ds, p)[i] # ")"
      BY <1>1, <3>1, NoneBehind
    <3> QED BY <1>3, <3>2
  <2>6. EndsLate((v \o <<y>>) \o r)
    BY <1>14, <2>4, <2>5, EndsLateConcat
  <2>7. (b \o xh) \o <<y>> = b \o (xh \o <<y>>)
    <3>1. PICK e \in Seq(Chars) : e = <<y>>
      BY <1>14
    <3>2. Regroups(b, xh, e)
      BY Regrouping
    <3>3. (b \o xh) \o e = b \o (xh \o e)
      BY <3>2 DEF Regroups
    <3> QED BY <3>1, <3>3
  <2>8. w = (v \o <<y>>) \o r
    BY <2>1, <2>3, <2>7
  <2> HIDE DEF w
  <2> QED BY <2>6, <2>8
<1>22. Nested(w)
  <2> SUFFICES ASSUME NEW t \in BeginTags PROVE Above(w, t, 0) /\ Balance(w, t) = 0
    BY DEF Nested
  <2>1. /\ Above((((u \o d2) \o h) \o d3) \o r, t, 0)
        /\ Balance((((u \o d2) \o h) \o d3) \o r, t) = 0
    BY <1>12 DEF Nested
  <2>2. /\ Above(u, t, 0) /\ Above(r, t, Balance(u, t) + Balance(h, t))
        /\ Balance(u, t) + Balance(h, t) + Balance(r, t) = 0
    <3>1. Balance(d2, t) = 0 /\ Balance(d3, t) = 0
      BY <1>13
    <3>2. AboveParts(u, h, r, t) /\ BalanceFive(u, d2, h, d3, r, t)
      BY <2>1, <3>1, FiveAbove
    <3>3. Balance(s, t) = Balance(u, t) + Balance(h, t) + Balance(r, t)
      BY <1>12, <3>2 DEF BalanceFive
    <3>4. Balance(s, t) = 0
      BY DEF Nested
    <3> QED BY <3>2, <3>3, <3>4 DEF AboveParts
  <2>3. /\ Balance(b, t) \in Int /\ Balance(g, t) \in Int /\ Balance(h, t) \in Int
        /\ Balance(r, t) \in Int /\ Balance(bd, t) \in Int /\ 0 \in Int
    BY SMTT(30), ZenonT(40), BalanceType
  <2>4. Balance(bd, t) = Balance(b, t) + Balance(d1, t)
    BY <1>10, BalanceConcat
  <2>5. Balance(u, t) = Balance(bd, t) + Balance(g, t)
    BY <1>11, BalanceConcat
  <2>6. Above(bd, t, 0)
    BY SMTT(30), ZenonT(40), <1>11, <2>2, <2>3, AboveConcat
  <2>7. Above(b, t, 0)
    BY <1>10, <2>3, <2>6, AboveConcat
  <2>8. Balance(hq, t) = Balance(h, t) + Balance(q, t)
    BY <1>8, BalanceConcat
  <2>9. Balance(hg, t) = Balance(hq, t) + Balance(g, t)
    BY <1>9, BalanceConcat
  <2>10. Balance(d1, t) = 0 /\ Balance(q, t) = 0
    BY <1>7, <1>13 DEF IsOther
  <2>11. Balance(hg, t) = Balance(h, t) + Balance(g, t) /\ Balance(u, t) = Balance(b, t) + Balance(g, t)
    BY SMTT(30), ZenonT(40), <2>3, <2>4, <2>5, <2>8, <2>9, <2>10
  <2>12. Above(hg, t, Balance(b, t))
    <3>1. Count(hg, EndOf[t]) = 0
      BY <1>20, BalanceUp DEF NoEnds
    <3>2. 0 + Balance(b, t) >= 0
      BY <2>3, <2>7, AboveEnds
    <3>3. Balance(b, t) >= Count(hg, EndOf[t])
      BY <2>3, <3>1, <3>2
    <3> QED BY <2>3, <3>3, AboveFew
  <2>13. Above(r, t, Balance(b, t) + Balance(hg, t))
    <3>1. Balance(u, t) + Balance(h, t) = Balance(b, t) + Balance(hg, t)
      BY SMTT(30), ZenonT(40), <2>3, <2>11
    <3> QED BY <2>2, <3>1
  <2>14. Above(w, t, 0) /\ Balance(w, t) = Balance(b, t) + Balance(hg, t) + Balance(r, t)
    BY SMTT(30), ZenonT(40), <1>6, <2>7, <2>12, <2>13, AboveWrap
  <2> HIDE DEF w
  <2>15. Balance(b, t) + Balance(hg, t) + Balance(r, t) = 0
    <3>1. Balance(u, t) + Balance(h, t) + Balance(r, t) = 0
      BY <2>2
    <3>2. \A nb, ng, nh, nr \in Int : (nb + ng) + nh + nr = nb + (nh + ng) + nr
      OBVIOUS
    <3>3. (Balance(b, t) + Balance(g, t)) + Balance(h, t) + Balance(r, t) = 0
      BY <2>11, <3>1
    <3>4. Balance(b, t) + (Balance(h, t) + Balance(g, t)) + Balance(r, t) = 0
      BY SMTT(30), ZenonT(40), <2>3, <3>2, <3>3
    <3> QED BY <2>11, <3>4
  <2>16. Balance(w, t) = 0
    BY <2>14, <2>15
  <2> QED BY <2>14, <2>16
<1> HIDE DEF w
<1>23. Replace(s, ds, Link(Group(s, ds, p, 1), Group(s, ds, p, 2)), p) = w
  BY <1>3, <1>16
<1> QED BY <1>1, <1>17, <1>18, <1>21, <1>22, <1>23

------------------------------------------------------------------------------
(* Titles, rules and quotes *)

\* A line as it is read: no entry is a tag.
IsPlain(s) == s \in Seq(Chars) /\ \A i \in 1..Len(s) : s[i] \notin Tags

\* s falls into its first n entries, a, and the others, f.
IsSplit(s, n, a, f) ==
  /\ s = a \o f /\ f = From(s, n + 1) /\ Len(a) = n
  /\ \A i \in 1..n : a[i] = s[i]
  /\ \A i \in 1..Len(f) : n + i \in 1..Len(s) /\ f[i] = s[n + i]

\* Every line falls apart at every place.
LEMMA Split ==
  ASSUME NEW s \in Seq(Chars), NEW n \in 0..Len(s)
  PROVE  \E a \in Seq(Chars), f \in Seq(Chars) : IsSplit(s, n, a, f)
<1>0. Len(s) \in Nat /\ Len(s) \in 0..Len(s) /\ n \in 0..Len(s)
  OBVIOUS
<1>1. PICK a \in Seq(Chars) : a = SubSeq(s, 1, n)
  <2>1. SubSeq(s, 1, n) \in Seq(Chars)
    BY <1>0, PrefixCut
  <2> QED BY <2>1
<1>2. PICK f \in Seq(Chars) : f = SubSeq(s, n + 1, Len(s))
  BY <1>0, PrefixCut
<1>3. SubSeq(s, 1, Len(s)) = SubSeq(s, 1, n) \o SubSeq(s, n + 1, Len(s))
  BY <1>0, PrefixCut
<1>4. SubSeq(s, 1, Len(s)) = s
  BY <1>0
<1>5. s = a \o f
  BY <1>1, <1>2, <1>3, <1>4
<1>6. Len(a) = n /\ \A i \in 1..n : a[i] = s[i]
  <2>1. 1 \in 1..(Len(s) + 1) /\ n \in (1 - 1)..Len(s)
    BY <1>0
  <2>2. Len(a) = n - 1 + 1 /\ \A i \in 1..(n - 1 + 1) : a[i] = s[1 + i - 1]
    BY <1>1, <2>1, PartType
  <2>3. n - 1 + 1 = n /\ \A i \in 1..n : 1 + i - 1 = i
    BY <1>0
  <2> QED BY <2>2, <2>3
<1>7. \A i \in 1..Len(f) : n + i \in 1..Len(s) /\ f[i] = s[n + i]
  <2>1. n + 1 \in 1..(Len(s) + 1) /\ Len(s) \in (n + 1 - 1)..Len(s)
    BY <1>0
  <2>2. PICK k \in 1..(Len(s) + 1) : k = n + 1
    BY <2>1
  <2>3. Len(f) = Len(s) - k + 1 /\ \A i \in 1..(Len(s) - k + 1) : f[i] = s[k + i - 1]
    BY <1>2, <2>1, <2>2, PartType
  <2> SUFFICES ASSUME NEW i \in 1..Len(f) PROVE n + i \in 1..Len(s) /\ f[i] = s[n + i]
    OBVIOUS
  <2>4. k + i - 1 = n + i /\ n + i \in 1..Len(s)
    BY <1>0, <2>2, <2>3
  <2> QED BY <2>3, <2>4
<1> QED BY <1>2, <1>5, <1>6, <1>7 DEF IsSplit, From

\* What is in front of the text of a title or a quote is no text.
LEMMA FrontKept ==
  ASSUME NEW s \in Seq(Chars), NEW n \in 0..Len(s), NEW a \in Seq(Chars), NEW f \in Seq(Chars),
         IsSplit(s, n, a, f), \A i \in 1..n : s[i] \notin Text
  PROVE  Kept(f, s)
<1> SUFFICES ASSUME NEW c \in Text PROVE Count(f, c) = Count(s, c)
  BY DEF Kept
<1>1. Count(a \o f, c) = Count(a, c) + Count(f, c)
  BY CountConcat
<1>2. \A i \in 1..Len(a) : a[i] # c
  BY DEF IsSplit
<1>3. Count(a, c) = 0
  BY <1>2, CountNone
<1>4. Count(f, c) \in Nat
  BY CountType
<1>5. Count(s, c) = Count(a, c) + Count(f, c)
  BY <1>1 DEF IsSplit
<1> QED BY <1>3, <1>4, <1>5

\* What is left of a line without tags has none.
LEMMA RestPlain ==
  ASSUME NEW s, IsPlain(s), NEW n \in 0..Len(s), NEW a \in Seq(Chars), NEW f \in Seq(Chars),
         IsSplit(s, n, a, f)
  PROVE  IsPlain(f)
BY DEF IsPlain, IsSplit

\* A line of one entry, given a name.
LEMMA Single ==
  ASSUME NEW x \in Chars
  PROVE  \E b \in Seq(Chars) : b = <<x>> /\ Len(b) = 1 /\ \A i \in 1..Len(b) : b[i] = x
<1> DEFINE q == <<x>>
<1>1. q \in Seq(Chars) /\ Len(q) = 1 /\ q[1] = x
  BY OneEntry
<1> HIDE DEF q
<1>2. \A i \in 1..Len(q) : q[i] = x
  BY <1>1
<1>3. q = <<x>>
  BY DEF q
<1> QED BY <1>1, <1>2, <1>3

\* A title: the marks go, one entry that is neither text nor tag on each side.
LEMMA TitleKeeps ==
  ASSUME NEW s, IsPlain(s), re_header(s) > 0
  PROVE  LET w == (<<Heading(re_header(s))>> \o From(s, re_header(s) + 2))
                    \o <<EndHeading(re_header(s))>>
         IN  w \in Seq(Chars) /\ Kept(w, s) /\ Nested(w)
<1>1. PICK n \in Nat : n = Lead(s, {"#"}) /\ n \in 0..Len(s) /\ IsLead(s, {"#"}, n)
  BY LeadExists DEF IsPlain
<1>2. re_header(s) = n /\ n \in 1..6 /\ n < Len(s) /\ s[n + 1] \in White
  BY <1>1 DEF re_header
<1>3. s \in Seq(Chars) /\ Len(s) \in Nat
  BY DEF IsPlain
<1>4. PICK m \in 0..Len(s) : m = n + 1
  BY <1>2, <1>3
<1>5. PICK a \in Seq(Chars), f \in Seq(Chars) : IsSplit(s, m, a, f)
  BY <1>3, Split
<1>6. \A i \in 1..m : s[i] \notin Text
  <2> SUFFICES ASSUME NEW i \in 1..m PROVE s[i] \notin Text
    OBVIOUS
  <2>1. i \in 1..n \/ i = n + 1
    BY <1>4
  <2>2. s[i] = "#" \/ s[i] \in White
    BY <1>1, <1>2, <2>1 DEF IsLead
  <2> QED BY <2>2 DEF Text, White
<1>7. Kept(f, s) /\ IsPlain(f)
  BY <1>3, <1>5, <1>6, FrontKept, RestPlain
<1>8. PICK x \in Chars : x = Heading(n) /\ x \notin Referring /\ x \notin Text /\ x \notin Tags
  <2>1. Heading(n) \in {"<h1>", "<h2>", "<h3>", "<h4>", "<h5>", "<h6>"}
    BY <1>2 DEF Heading
  <2> QED BY <2>1, TagFacts DEF Chars, BeginTags, Referring, Digits, Text
<1>9. PICK y \in Chars : y = EndHeading(n) /\ y \notin Referring /\ y \notin Text /\ y \notin Tags
  <2>1. EndHeading(n) \in {"</h1>", "</h2>", "</h3>", "</h4>", "</h5>", "</h6>"}
    BY <1>2 DEF EndHeading
  <2> QED BY <2>1, TagFacts DEF Chars, BeginTags, Referring, Digits, Text
<1>10. PICK b \in Seq(Chars) : b = <<x>> /\ \A i \in 1..Len(b) : b[i] = x
  BY Single
<1>11. PICK e \in Seq(Chars) : e = <<y>> /\ \A i \in 1..Len(e) : e[i] = y
  BY Single
<1>12. PICK bf \in Seq(Chars) : bf = b \o f
  BY ConcatType
<1>13. PICK w \in Seq(Chars) : w = bf \o e
  BY ConcatType
<1>14. Kept(w, s)
  <2> SUFFICES ASSUME NEW c \in Text PROVE Count(w, c) = Count(s, c)
    BY DEF Kept
  <2>1. Count(b, c) = 0 /\ Count(e, c) = 0
    BY SMTT(30), ZenonT(40), <1>8, <1>9, <1>10, <1>11, CountNone
  <2>2. Count(bf, c) = Count(b, c) + Count(f, c) /\ Count(w, c) = Count(bf, c) + Count(e, c)
    BY SMTT(30), ZenonT(40), <1>12, <1>13, CountConcat
  <2>3. Count(f, c) \in Nat /\ Count(f, c) = Count(s, c)
    BY <1>7, CountType DEF Kept
  <2> QED BY <2>1, <2>2, <2>3
<1>15. Nested(w)
  <2>1. \A i \in 1..Len(w) : w[i] \notin Tags
    <3> SUFFICES ASSUME NEW i \in 1..Len(w) PROVE w[i] \notin Tags
      OBVIOUS
    <3>1. Len(b) \in Nat /\ Len(f) \in Nat /\ Len(e) \in Nat /\ Len(bf) = Len(b) + Len(f)
          /\ Len(w) = Len(bf) + Len(e)
      BY <1>12, <1>13
    <3>2. CASE i \in 1..Len(bf)
      <4>1. w[i] = bf[i]
        BY <1>13, <3>2
      <4>2. i \in 1..Len(b) \/ i - Len(b) \in 1..Len(f)
        BY <3>1, <3>2
      <4>3. bf[i] = b[i] \/ (i - Len(b) \in 1..Len(f) /\ bf[i] = f[i - Len(b)])
        BY <1>12, <3>1, <3>2, <4>2
      <4>4. i \in 1..Len(b) => bf[i] = x
        BY <1>10, <1>12, <3>1
      <4>5. i - Len(b) \in 1..Len(f) => bf[i] = f[i - Len(b)]
        BY <1>12, <3>1, <3>2
      <4> QED BY <1>7, <1>8, <4>1, <4>2, <4>4, <4>5 DEF IsPlain
    <3>3. CASE i \notin 1..Len(bf)
      <4>1. i - Len(bf) \in 1..Len(e) /\ w[i] = e[i - Len(bf)]
        BY SMTT(30), ZenonT(40), <1>13, <3>1, <3>3
      <4> QED BY <1>9, <1>11, <4>1
    <3> QED BY <3>2, <3>3
  <2> QED BY <2>1, NestedPlain
<1>16. w = (<<Heading(re_header(s))>> \o From(s, re_header(s) + 2)) \o <<EndHeading(re_header(s))>>
  <2>1. f = From(s, m + 1) /\ m + 1 = n + 2
    BY <1>1, <1>4, <1>5 DEF IsSplit
  <2>2. f = From(s, re_header(s) + 2) /\ x = Heading(re_header(s)) /\ y = EndHeading(re_header(s))
    BY <1>2, <1>8, <1>9, <2>1
  <2> QED BY <1>10, <1>11, <1>12, <1>13, <2>2
<1> QED BY <1>14, <1>15, <1>16

\* A rule: the line has nothing but its marks.
LEMMA RuleKeeps ==
  ASSUME NEW s, IsPlain(s), re_underline(s)
  PROVE  <<"<hr>">> \in Seq(Chars) /\ Kept(<<"<hr>">>, s) /\ Nested(<<"<hr>">>)
<1>1. PICK x \in Chars : x = "<hr>" /\ x \notin Text /\ x \notin Tags
  <2>1. "<hr>" \in Chars
    BY DEF Chars
  <2>2. "<hr>" \notin Text
    BY DEF Text
  <2>3. "<hr>" \notin Tags
    BY TagFacts DEF BeginTags
  <2> QED BY <2>1, <2>2, <2>3
<1>2. PICK w \in Seq(Chars) : w = <<x>> /\ \A i \in 1..Len(w) : w[i] = x
  BY Single
<1>3. Kept(w, s)
  <2> SUFFICES ASSUME NEW c \in Text PROVE Count(w, c) = Count(s, c)
    BY DEF Kept
  <2>1. Count(w, c) = 0
    BY <1>1, <1>2, CountNone
  <2>2. s \in Seq(Chars) /\ \A i \in 1..Len(s) : s[i] # c
    BY DEF IsPlain, re_underline, Text
  <2>3. Count(s, c) = 0
    BY <2>2, CountNone
  <2> QED BY <2>1, <2>3
<1>4. Nested(w)
  BY <1>1, <1>2, NestedPlain
<1> QED BY <1>1, <1>2, <1>3, <1>4

\* Only tags: nothing of them is text or taken for a reference.
OnlyTags(q) == q \in Seq(Chars) /\ \A i \in 1..Len(q) : q[i] \in Tags

\* What such a line does not have.
LEMMA OnlyTagsFacts ==
  ASSUME NEW q, OnlyTags(q)
  PROVE  /\ q \in Seq(Chars) /\ NoReference(q)
         /\ \A c \in Text : Count(q, c) = 0
         /\ \A i \in 1..Len(q) : q[i] \notin Referring /\ q[i] # "$" /\ q[i] # ")"
<1>1. q \in Seq(Chars) /\ Len(q) \in Nat
  BY DEF OnlyTags
<1>2. \A i \in 1..Len(q) : q[i] \notin Referring /\ q[i] # "$" /\ q[i] # ")" /\ q[i] \notin Text
  <2> SUFFICES ASSUME NEW i \in 1..Len(q)
               PROVE  q[i] \notin Referring /\ q[i] # "$" /\ q[i] # ")" /\ q[i] \notin Text
    OBVIOUS
  <2>1. q[i] \in Tags
    BY DEF OnlyTags
  <2> QED BY <2>1, TagFacts DEF BeginTags, Referring, Digits, Text
<1>3. NoReference(q)
  BY <1>1, <1>2 DEF NoReference
<1>4. ASSUME NEW c \in Text PROVE Count(q, c) = 0
  BY <1>1, <1>2, CountNone
<1> QED BY <1>1, <1>2, <1>3, <1>4

\* Two of them make one.
LEMMA OnlyTagsConcat ==
  ASSUME NEW q, NEW v, OnlyTags(q), OnlyTags(v)
  PROVE  OnlyTags(q \o v)
<1>1. q \in Seq(Chars) /\ v \in Seq(Chars) /\ Len(q) \in Nat /\ Len(v) \in Nat
      /\ Len(q \o v) = Len(q) + Len(v)
  BY DEF OnlyTags
<1>2. q \o v \in Seq(Chars)
  BY <1>1, ConcatType
<1>3. ASSUME NEW i \in 1..Len(q \o v) PROVE (q \o v)[i] \in Tags
  <2>1. CASE i \in 1..Len(q)
    <3>1. (q \o v)[i] = q[i]
      BY <1>1, <2>1
    <3> QED BY <2>1, <3>1 DEF OnlyTags
  <2>2. CASE i \notin 1..Len(q)
    <3>1. i - Len(q) \in 1..Len(v) /\ (q \o v)[i] = v[i - Len(q)]
      BY <1>1, <2>2
    <3> QED BY <3>1 DEF OnlyTags
  <2> QED BY <2>1, <2>2
<1> QED BY <1>2, <1>3 DEF OnlyTags

\* n times the tag x.
IsRow(q, n, x) == OnlyTags(q) /\ Len(q) = n /\ \A i \in 1..Len(q) : q[i] = x

\* It counts its tag and no other.
LEMMA RowCount ==
  ASSUME NEW q, NEW n \in Nat, NEW x, IsRow(q, n, x), NEW t
  PROVE  Count(q, t) = IF t = x THEN n ELSE 0
<1>1. q \in Seq(Chars)
  BY DEF IsRow, OnlyTags
<1>2. CASE t = x
  BY <1>1, <1>2, CountAll DEF IsRow
<1>3. CASE t # x
  BY <1>1, <1>3, CountNone DEF IsRow
<1> QED BY <1>2, <1>3

\* Quotes are such a row, of as many as were asked for.
LEMMA QuotesRow ==
  ASSUME NEW n \in Nat, NEW x \in Tags
  PROVE  IsRow(Quotes(n, x), n, x)
<1>1. x \in Chars
  BY DEF Chars
<1>2. Quotes(n, x) \in Seq(Chars) /\ Len(Quotes(n, x)) = n
  BY <1>1 DEF Quotes
<1>3. \A i \in 1..Len(Quotes(n, x)) : Quotes(n, x)[i] = x
  BY <1>2 DEF Quotes
<1> QED BY <1>2, <1>3 DEF IsRow, OnlyTags

\* A single tag is a row of one.
LEMMA OneRow ==
  ASSUME NEW x \in Tags
  PROVE  IsRow(<<x>>, 1, x)
<1>1. x \in Chars
  BY DEF Chars
<1>2. PICK q \in Seq(Chars) : q = <<x>> /\ Len(q) = 1 /\ \A i \in 1..Len(q) : q[i] = x
  BY <1>1, Single
<1>3. IsRow(q, 1, x)
  BY <1>2 DEF IsRow, OnlyTags
<1> QED BY <1>2, <1>3

\* A row of quotes, a paragraph, the text, and the ends of all of them.
LEMMA QuoteWraps ==
  ASSUME NEW f, IsPlain(f), NoReference(f), NEW n \in Nat
  PROVE  LET w == (((Quotes(n, "<blockquote>") \o <<"<p>">>) \o f) \o <<"</p>">>)
                    \o Quotes(n, "</blockquote>")
         IN  w \in Seq(Chars) /\ NoReference(w) /\ Kept(w, f) /\ Nested(w) /\ EndsLate(w)
<1>0. /\ "<blockquote>" \in Tags /\ "<p>" \in Tags /\ "</p>" \in Tags /\ "</blockquote>" \in Tags
      /\ f \in Seq(Chars)
  BY TagFacts DEF BeginTags, IsPlain
<1>1. PICK q1 : q1 = Quotes(n, "<blockquote>") /\ IsRow(q1, n, "<blockquote>")
  BY <1>0, QuotesRow
<1>2. PICK p1 : p1 = <<"<p>">> /\ IsRow(p1, 1, "<p>")
  BY <1>0, OneRow
<1>3. PICK p2 : p2 = <<"</p>">> /\ IsRow(p2, 1, "</p>")
  BY <1>0, OneRow
<1>4. PICK q2 : q2 = Quotes(n, "</blockquote>") /\ IsRow(q2, n, "</blockquote>")
  BY <1>0, QuotesRow
<1>5. PICK u \in Seq(Chars) : u = q1 \o p1 /\ OnlyTags(u)
  BY <1>1, <1>2, OnlyTagsConcat DEF IsRow, OnlyTags
<1>6. PICK v \in Seq(Chars) : v = p2 \o q2 /\ OnlyTags(v)
  BY <1>3, <1>4, OnlyTagsConcat DEF IsRow, OnlyTags
<1>7. PICK e \in Seq(Chars) : e = u \o f
  BY <1>0, ConcatType
<1>8. PICK w \in Seq(Chars) : w = e \o v
  BY ConcatType
<1>9. p2 \in Seq(Chars) /\ q2 \in Seq(Chars) /\ q1 \in Seq(Chars) /\ p1 \in Seq(Chars)
  BY <1>1, <1>2, <1>3, <1>4 DEF IsRow, OnlyTags
<1>10. w = (e \o p2) \o q2
  <2>1. Regroups(e, p2, q2)
    BY <1>9, Regrouping
  <2> QED BY <1>6, <1>8, <2>1 DEF Regroups
<1>11. NoReference(w)
  <2>1. NoReference(e)
    <3>1. NoReference(u) /\ (u # <<>> => u[Len(u)] # "$")
      <4>1. u # <<>> => Len(u) \in 1..Len(u)
        OBVIOUS
      <4> QED BY <1>5, <4>1, OnlyTagsFacts
    <3> QED BY <1>0, <1>7, <3>1, NoReferenceConcat
  <2>2. NoReference(v) /\ (v # <<>> => v[1] \notin Referring)
    <3>1. v # <<>> => 1 \in 1..Len(v)
      OBVIOUS
    <3> QED BY <1>6, <3>1, OnlyTagsFacts
  <2> QED BY <1>8, <2>1, <2>2, NoReferenceConcat
<1>12. Kept(w, f)
  <2> SUFFICES ASSUME NEW c \in Text PROVE Count(w, c) = Count(f, c)
    BY DEF Kept
  <2>1. Count(u, c) = 0 /\ Count(v, c) = 0
    BY <1>5, <1>6, OnlyTagsFacts
  <2>2. Count(e, c) = Count(u, c) + Count(f, c) /\ Count(w, c) = Count(e, c) + Count(v, c)
    BY SMTT(30), ZenonT(40), <1>0, <1>7, <1>8, CountConcat
  <2>3. Count(f, c) \in Nat
    BY <1>0, CountType
  <2> QED BY <2>1, <2>2, <2>3
<1>13. NoEnds(e)
  <2>1. NoEnds(q1)
    <3>1. "<blockquote>" \notin EndTags
      BY TagFacts DEF BeginTags
    <3> QED BY <1>1, <3>1 DEF IsRow, NoEnds
  <2>2. NoEnds(p1)
    <3>1. "<p>" \notin EndTags
      BY TagFacts DEF BeginTags
    <3> QED BY <1>2, <3>1 DEF IsRow, NoEnds
  <2>3. NoEnds(f)
    BY TagFacts DEF IsPlain, NoEnds
  <2>4. NoEnds(u)
    BY <1>5, <1>9, <2>1, <2>2, NoEndsConcat
  <2> QED BY <1>0, <1>7, <2>3, <2>4, NoEndsConcat
<1>14. EndsLate(w)
  <2>1. PICK y \in Chars : y = "</p>" /\ y # ")"
    <3>1. "</p>" \in Chars
      BY <1>0 DEF Chars
    <3> QED BY <3>1
  <2>2. \A i \in 1..Len(q2) : q2[i] # ")"
    BY <1>4 DEF IsRow
  <2>3. EndsLate((e \o <<y>>) \o q2)
    BY <1>9, <1>13, <2>1, <2>2, EndsLateConcat
  <2> QED BY <1>3, <1>10, <2>1, <2>3
<1>15. Nested(w)
  <2> SUFFICES ASSUME NEW t \in BeginTags PROVE Above(w, t, 0) /\ Balance(w, t) = 0
    BY DEF Nested
  <2> DEFINE k == IF t = "<blockquote>" THEN n ELSE IF t = "<p>" THEN 1 ELSE 0
  <2>1. Count(e, t) = k
    <3>1. /\ Count(q1, t) = (IF t = "<blockquote>" THEN n ELSE 0)
          /\ Count(p1, t) = (IF t = "<p>" THEN 1 ELSE 0)
      BY <1>1, <1>2, RowCount
    <3>2. \A i \in 1..Len(f) : f[i] # t
      BY SMTT(30), ZenonT(40), TagFacts DEF IsPlain
    <3>3. Count(f, t) = 0
      BY <1>0, <3>2, CountNone
    <3>4. Count(u, t) = Count(q1, t) + Count(p1, t) /\ Count(e, t) = Count(u, t) + Count(f, t)
      BY SMTT(30), ZenonT(40), <1>0, <1>5, <1>7, <1>9, CountConcat
    <3> QED BY <3>1, <3>3, <3>4
  <2>2. Count(e, EndOf[t]) = 0
    BY <1>13, BalanceUp DEF NoEnds
  <2>3. Count(v, EndOf[t]) = k /\ Count(v, t) = 0
    <3>1. \A c : Count(v, c) = Count(p2, c) + Count(q2, c)
      BY <1>6, <1>9, CountConcat
    <3>2. /\ \A c : Count(p2, c) = IF c = "</p>" THEN 1 ELSE 0
          /\ \A c : Count(q2, c) = IF c = "</blockquote>" THEN n ELSE 0
      BY <1>3, <1>4, RowCount
    <3>3. EndOf[t] = "</p>" <=> t = "<p>"
      BY TagFacts DEF BeginTags
    <3>4. EndOf[t] = "</blockquote>" <=> t = "<blockquote>"
      BY TagFacts DEF BeginTags
    <3>5. t # "</p>" /\ t # "</blockquote>"
      BY DEF BeginTags
    <3>6. Count(v, t) = 0
      BY <3>1, <3>2, <3>5
    <3>7. Count(v, EndOf[t]) = Count(p2, EndOf[t]) + Count(q2, EndOf[t])
      BY <3>1
    <3>8. /\ Count(p2, EndOf[t]) = (IF t = "<p>" THEN 1 ELSE 0)
          /\ Count(q2, EndOf[t]) = (IF t = "<blockquote>" THEN n ELSE 0)
      BY <3>2, <3>3, <3>4
    <3> QED BY <3>6, <3>7, <3>8
  <2>4. k \in Nat /\ 0 \in Int /\ 0 + k = k
    OBVIOUS
  <2> HIDE DEF k
  <2>5. Balance(e, t) = k /\ Balance(v, t) = -k
    BY <2>1, <2>2, <2>3, <2>4 DEF Balance
  <2>6. Above(e, t, 0)
    BY <2>2, <2>4, AboveFew
  <2>7. Above(v, t, k)
    BY <2>3, <2>4, AboveFew
  <2>8. 0 + Balance(e, t) = k
    BY <2>4, <2>5
  <2>9. Above(w, t, 0)
    BY <1>8, <2>4, <2>6, <2>7, <2>8, AboveConcat
  <2>10. Balance(w, t) = Balance(e, t) + Balance(v, t)
    BY <1>8, BalanceConcat
  <2> QED BY <2>4, <2>5, <2>9, <2>10
<1>16. w = (((Quotes(n, "<blockquote>") \o <<"<p>">>) \o f) \o <<"</p>">>)
             \o Quotes(n, "</blockquote>")
  BY <1>1, <1>2, <1>3, <1>4, <1>5, <1>7, <1>10
<1> QED BY <1>11, <1>12, <1>14, <1>15, <1>16

\* A quote: its marks and the blanks before them go.
LEMMA QuoteKeeps ==
  ASSUME NEW s, IsPlain(s), NoReference(s), re_reference(s) > 0
  PROVE  LET n == re_reference(s)
             w == (((Quotes(n, "<blockquote>") \o <<"<p>">>) \o From(s, n + 1)) \o <<"</p>">>)
                    \o Quotes(n, "</blockquote>")
         IN  w \in Seq(Chars) /\ NoReference(w) /\ Kept(w, s) /\ Nested(w) /\ EndsLate(w)
<1>0. s \in Seq(Chars) /\ Len(s) \in Nat
  BY DEF IsPlain
<1>1. PICK b \in 0..Len(s) : b = Lead(s, White) /\ IsLead(s, White, b)
  BY <1>0, LeadExists
<1>2. PICK a \in Seq(Chars), e \in Seq(Chars) : IsSplit(s, b, a, e)
  BY <1>0, Split
<1>3. PICK k \in 0..Len(e) : k = Lead(e, {">"}) /\ IsLead(e, {">"}, k)
  BY LeadExists
<1>4. re_reference(s) = b + k /\ k > 0
  BY <1>1, <1>2, <1>3 DEF re_reference, IsSplit
<1>5. Len(s) = b + Len(e) /\ Len(e) \in Nat
  <2>1. s = a \o e /\ Len(a) = b
    BY <1>2 DEF IsSplit
  <2>2. Len(a \o e) = Len(a) + Len(e) /\ Len(e) \in Nat
    OBVIOUS
  <2> QED BY <2>1, <2>2
<1>6. PICK n \in 0..Len(s) : n = b + k /\ n \in Nat
  BY <1>0, <1>5
<1>7. \A i \in 1..n : s[i] \notin Text
  <2> SUFFICES ASSUME NEW i \in 1..n PROVE s[i] \notin Text
    OBVIOUS
  <2>1. CASE i <= b
    <3>1. s[i] \in White
      BY <1>1, <2>1 DEF IsLead
    <3> QED BY <3>1 DEF White, Text
  <2>2. CASE i > b
    <3>1. PICK j \in 1..k : j = i - b
      BY <1>6, <2>2
    <3>2. j \in 1..Len(e) /\ b + j = i
      BY <1>5, <3>1
    <3>3. s[i] = e[j]
      BY <1>2, <3>2 DEF IsSplit
    <3>4. e[j] = ">"
      BY <1>3, <3>1 DEF IsLead
    <3> QED BY <3>3, <3>4 DEF Text
  <2> QED BY <2>1, <2>2
<1>8. PICK c \in Seq(Chars), f \in Seq(Chars) : IsSplit(s, n, c, f)
  BY <1>0, Split
<1>9. Kept(f, s)
  BY <1>0, <1>7, <1>8, FrontKept
<1>10. IsPlain(f)
  BY <1>8, RestPlain
<1>11. f = SubSeq(s, n + 1, Len(s)) /\ f = From(s, n + 1)
  BY <1>8 DEF IsSplit, From
<1>12. NoReference(f)
  <2>1. n + 1 \in 1..(Len(s) + 1) /\ Len(s) \in (n + 1 - 1)..Len(s)
    BY <1>0
  <2>2. PICK m \in 1..(Len(s) + 1) : m = n + 1 /\ Len(s) \in (m - 1)..Len(s)
    BY <2>1
  <2>3. NoReference(SubSeq(s, m, Len(s)))
    BY <1>0, <2>2, NoReferencePart
  <2> QED BY <1>11, <2>2, <2>3
<1> DEFINE w == (((Quotes(n, "<blockquote>") \o <<"<p>">>) \o f) \o <<"</p>">>)
                  \o Quotes(n, "</blockquote>")
<1>13. w \in Seq(Chars) /\ NoReference(w) /\ Kept(w, f) /\ Nested(w) /\ EndsLate(w)
  BY <1>6, <1>10, <1>12, QuoteWraps
<1>14. re_reference(s) = n
  BY <1>4, <1>6
<1>15. w = (((Quotes(re_reference(s), "<blockquote>") \o <<"<p>">>) \o From(s, re_reference(s) + 1))
             \o <<"</p>">>) \o Quotes(re_reference(s), "</blockquote>")
  BY <1>11, <1>14
<1> HIDE DEF w
<1>16. Kept(w, s)
  BY <1>9, <1>13 DEF Kept
<1> QED BY <1>13, <1>15, <1>16

------------------------------------------------------------------------------
(* The calls *)

Calls == {"isHeader", "isUnderline", "isReference", "isImageLink", "isHyperLink", "isBold",
          "isItalic"}

\* What the line has become is as good a beginning for the next call.
Sound(s) == s \in Seq(Chars) /\ Kept(s, line) /\ Nested(s)

(* No call before the quotes changes the line and goes on; from then on, no   *)
(* text is lost, tags are nested, there is no reference to a group, which the *)
(* calls for links, images and emphasis need, and all ends are behind the     *)
(* last bracket, which the calls for links need to change two groups round.   *)
InlineInv ==
  /\ step \in Calls \cup {"write"}
  /\ IsPlain(line)
  /\ step \in {"isHeader", "isUnderline", "isReference"} => oriStr = line
  /\ NoReference(line) =>
       /\ Sound(oriStr)
       /\ step \in Calls => NoReference(oriStr)
       /\ step \in {"isImageLink", "isHyperLink"} => EndsLate(oriStr)

\* A line as read is a beginning itself.
LEMMA PlainSound ==
  ASSUME IsPlain(line)
  PROVE  Sound(line) /\ EndsLate(line)
<1>1. Nested(line)
  BY NestedPlain DEF IsPlain
<1>2. Kept(line, line)
  BY DEF Kept
<1>3. EndsLate(line)
  <2>1. DOMAIN line = 1..Len(line)
    BY DEF IsPlain
  <2>2. EndTags \in SUBSET Tags
    BY TagFacts
  <2> QED BY <2>1, <2>2 DEF EndsLate, IsPlain
<1> QED BY <1>1, <1>2, <1>3 DEF Sound, IsPlain

\* Every line given satisfies the invariant.
LEMMA InlineInit == Init => InlineInv
<1> SUFFICES ASSUME Init PROVE InlineInv
  OBVIOUS
<1>1. PICK r \in Reference \cup (Lines \X {Unknown}) : line = r[1] /\ oriStr = r[1]
  BY DEF Init
<1>2. line \in Lines \cup {q[1] : q \in Reference}
  BY <1>1
<1>3. line \in Seq(STRING) /\ \A i \in DOMAIN line : line[i] \notin Tags
  BY <1>2, LinesAreText DEF Tags
<1>4. IsPlain(line)
  <2>1. line \in Seq(Chars)
    BY <1>3 DEF Chars
  <2> QED BY <1>3, <2>1 DEF IsPlain
<1>5. oriStr = line /\ step = "isHeader"
  BY <1>1 DEF Init
<1>6. "isHeader" \in Calls
  BY DEF Calls
<1> QED BY <1>4, <1>5, <1>6, PlainSound DEF InlineInv

\* A call that finds nothing leaves the line to the next.
LEMMA NoneKeeps ==
  ASSUME InlineInv, NEW f \in Calls, None(f)
  PROVE  InlineInv'
<1>1. step = f /\ step' = After[f] /\ line' = line /\ oriStr' = oriStr
  BY DEF None, Call
<1>2. /\ After[f] \in Calls \cup {"write"}
      /\ After[f] \in {"isHeader", "isUnderline", "isReference"} =>
           f \in {"isHeader", "isUnderline", "isReference"}
      /\ After[f] \in {"isImageLink", "isHyperLink"} =>
           f \in {"isReference", "isImageLink", "isHyperLink"}
  BY DEF After, Calls
<1>3. EndsLate(line)
  BY PlainSound DEF InlineInv
<1>4. NoReference(line) /\ step' \in {"isImageLink", "isHyperLink"} => EndsLate(oriStr)
  BY <1>1, <1>2, <1>3 DEF InlineInv
<1>5. NoReference(line) => Sound(oriStr) /\ NoReference(oriStr)
  BY <1>1 DEF InlineInv
<1>6. /\ step' \in Calls \cup {"write"} /\ IsPlain(line)
      /\ step' \in {"isHeader", "isUnderline", "isReference"} => oriStr = line
  BY <1>1, <1>2 DEF InlineInv
<1>7. /\ IsPlain(line)' <=> IsPlain(line)
      /\ NoReference(line)' <=> NoReference(line)
      /\ Sound(oriStr)' <=> Sound(oriStr)
      /\ NoReference(oriStr)' <=> NoReference(oriStr)
      /\ EndsLate(oriStr)' <=> EndsLate(oriStr)
  BY <1>1 DEF IsPlain, NoReference, Sound, EndsLate
<1> QED BY <1>1, <1>4, <1>5, <1>6, <1>7 DEF InlineInv

\* A call that changes the line after those for quotes.
LEMMA GoKeeps ==
  ASSUME InlineInv, NEW f \in Calls \ {"isHeader", "isUnderline"}, NEW w, Go(f, w),
         NoReference(line) =>
           Sound(w) /\ NoReference(w) /\ (f \in {"isReference", "isImageLink"} => EndsLate(w))
  PROVE  InlineInv'
<1>1. step = f /\ step' = After[f] /\ line' = line /\ oriStr' = w
  BY DEF Go, Call
<1>2. /\ After[f] \in Calls \cup {"write"}
      /\ After[f] \notin {"isHeader", "isUnderline", "isReference"}
      /\ After[f] \in {"isImageLink", "isHyperLink"} => f \in {"isReference", "isImageLink"}
  BY DEF After, Calls
<1>3. /\ IsPlain(line)' <=> IsPlain(line)
      /\ NoReference(line)' <=> NoReference(line)
      /\ Sound(oriStr)' <=> Sound(w)
      /\ NoReference(oriStr)' <=> NoReference(w)
      /\ EndsLate(oriStr)' <=> EndsLate(w)
  BY <1>1 DEF IsPlain, NoReference, Sound, EndsLate
<1> QED BY <1>1, <1>2, <1>3 DEF InlineInv

\* A call after which the line is written.
LEMMA WriteKeeps ==
  ASSUME InlineInv, NEW f, NEW w, Write(f, w), NoReference(line) => Sound(w)
  PROVE  InlineInv'
<1>1. step' = "write" /\ line' = line /\ oriStr' = w
  BY DEF Write
<1>2. step' \notin Calls /\ step' \notin {"isHeader", "isUnderline", "isReference"}
      /\ step' \notin {"isImageLink", "isHyperLink"}
  BY <1>1 DEF Calls
<1>3. /\ IsPlain(line)' <=> IsPlain(line)
      /\ NoReference(line)' <=> NoReference(line)
      /\ Sound(oriStr)' <=> Sound(w)
  BY <1>1 DEF IsPlain, NoReference, Sound
<1> QED BY <1>1, <1>2, <1>3 DEF InlineInv

\* The premises that the lemmas on links and emphasis have.
LEMMA MarksAre ==
  /\ AreMarks(hyperlink) /\ Len(hyperlink) = 3 /\ hyperlink[3] = <<")">>
  /\ AreMarks(imagelink) /\ Len(imagelink) = 3 /\ imagelink[3] = <<")">>
<1>1. hyperlink[3] = <<")">> /\ imagelink[3] = <<")">>
  BY DEF hyperlink, imagelink
<1> QED BY <1>1, Delimiters

\* A title ends the calls, with an entry on each side.
LEMMA HeaderKeeps == ASSUME InlineInv, isHeader PROVE InlineInv'
<1>1. "isHeader" \in Calls
  BY DEF Calls
<1>2. CASE None("isHeader")
  BY <1>1, <1>2, NoneKeeps
<1>3. ASSUME NEW n, n = re_header(oriStr), n > 0,
             Write("isHeader", (<<Heading(n)>> \o From(oriStr, n + 2)) \o <<EndHeading(n)>>)
      PROVE  InlineInv'
  <2> DEFINE w == (<<Heading(n)>> \o From(oriStr, n + 2)) \o <<EndHeading(n)>>
  <2>1. oriStr = line /\ IsPlain(line)
    BY <1>3 DEF InlineInv, Write
  <2>2. w \in Seq(Chars) /\ Kept(w, line) /\ Nested(w)
    BY <1>3, <2>1, TitleKeeps
  <2>3. Write("isHeader", w)
    BY <1>3
  <2> HIDE DEF w
  <2>4. Sound(w)
    BY <2>2 DEF Sound
  <2> QED BY <2>3, <2>4, WriteKeeps
<1> QED BY <1>2, <1>3 DEF isHeader

\* So does a rule.
LEMMA UnderlineKeeps == ASSUME InlineInv, isUnderline PROVE InlineInv'
<1>1. "isUnderline" \in Calls
  BY DEF Calls
<1>2. CASE None("isUnderline")
  BY <1>1, <1>2, NoneKeeps
<1>3. CASE re_underline(oriStr) /\ Write("isUnderline", <<"<hr>">>)
  <2>1. oriStr = line /\ IsPlain(line)
    BY <1>3 DEF InlineInv, Write
  <2>2. Sound(<<"<hr>">>)
    BY <1>3, <2>1, RuleKeeps DEF Sound
  <2> QED BY <1>3, <2>2, WriteKeeps
<1> QED BY <1>2, <1>3 DEF isUnderline

\* A quote puts all its ends at the end of the line.
LEMMA ReferenceKeeps == ASSUME InlineInv, isReference PROVE InlineInv'
<1>1. "isReference" \in Calls
  BY DEF Calls
<1>2. CASE None("isReference")
  BY <1>1, <1>2, NoneKeeps
<1>3. ASSUME NEW n, n = re_reference(oriStr), n > 0,
             Go("isReference",
                (((Quotes(n, "<blockquote>") \o <<"<p>">>) \o From(oriStr, n + 1)) \o <<"</p>">>)
                  \o Quotes(n, "</blockquote>"))
      PROVE  InlineInv'
  <2> DEFINE w == (((Quotes(n, "<blockquote>") \o <<"<p>">>) \o From(oriStr, n + 1)) \o <<"</p>">>)
                    \o Quotes(n, "</blockquote>")
  <2>1. oriStr = line /\ IsPlain(line)
    BY <1>3 DEF InlineInv, Go, Call
  <2>2. NoReference(line) =>
          w \in Seq(Chars) /\ NoReference(w) /\ Kept(w, line) /\ Nested(w) /\ EndsLate(w)
    BY <1>3, <2>1, QuoteKeeps
  <2>3. Go("isReference", w)
    BY <1>3
  <2> HIDE DEF w
  <2>4. NoReference(line) => Sound(w) /\ NoReference(w) /\ EndsLate(w)
    BY <2>2 DEF Sound
  <2> QED BY <1>1, <2>3, <2>4, GoKeeps
<1> QED BY <1>2, <1>3 DEF isReference

\* Links and images, by LinkedKeeps.
LEMMA LinkedStep ==
  ASSUME InlineInv, NEW f \in {"isImageLink", "isHyperLink"}, NEW ds, Linked(f, ds),
         AreMarks(ds), Len(ds) = 3, ds[3] = <<")">>
  PROVE  InlineInv'
<1>1. f \in Calls \ {"isHeader", "isUnderline"}
  BY DEF Calls
<1>2. CASE None(f)
  BY <1>1, <1>2, NoneKeeps
<1>3. ASSUME NEW p, p = Found(oriStr, ds), Spans(oriStr, ds) # {},
             Go(f, Replace(oriStr, ds, Link(Group(oriStr, ds, p, 1), Group(oriStr, ds, p, 2)), p))
      PROVE  InlineInv'
  <2> DEFINE w == Replace(oriStr, ds, Link(Group(oriStr, ds, p, 1), Group(oriStr, ds, p, 2)), p)
  <2>1. step = f /\ Go(f, w)
    BY <1>3 DEF Go, Call
  <2>2. NoReference(line) => Sound(oriStr) /\ NoReference(oriStr) /\ EndsLate(oriStr)
    BY <1>1, <2>1 DEF InlineInv
  <2>3. NoReference(line) =>
          w \in Seq(Chars) /\ NoReference(w) /\ Kept(w, oriStr) /\ Nested(w) /\ EndsLate(w)
    BY <1>3, <2>2, LinkedKeeps DEF Sound
  <2> HIDE DEF w
  <2>4. NoReference(line) => Sound(w) /\ NoReference(w) /\ EndsLate(w)
    BY <2>2, <2>3 DEF Sound, Kept
  <2> QED BY <1>1, <2>1, <2>4, GoKeeps
<1> QED BY <1>2, <1>3 DEF Linked

\* Bold text, by Emphasised; ends may lie anywhere now.
LEMMA BoldKeeps == ASSUME InlineInv, isBold PROVE InlineInv'
<1>1. "isBold" \in Calls \ {"isHeader", "isUnderline"}
  BY DEF Calls
<1>2. CASE None("isBold")
  BY <1>1, <1>2, NoneKeeps
<1>3. ASSUME NEW p, p = Found(oriStr, bold), Spans(oriStr, bold) # {},
             Go("isBold", Replace(oriStr, bold, Bold(Group(oriStr, bold, p, 1)), p))
      PROVE  InlineInv'
  <2>1. PICK x \in BeginTags : x = "<b>" /\ EndOf[x] = "</b>"
    BY TagFacts DEF BeginTags
  <2> DEFINE w == Replace(oriStr, bold, (<<x>> \o Group(oriStr, bold, p, 1)) \o <<EndOf[x]>>, p)
  <2>2. step = "isBold" /\ Go("isBold", w)
    BY <1>3, <2>1 DEF Go, Call, Bold
  <2>3. NoReference(line) => Sound(oriStr) /\ NoReference(oriStr)
    BY <1>1, <2>2 DEF InlineInv
  <2>4. NoReference(line) => w \in Seq(Chars) /\ NoReference(w) /\ Kept(w, oriStr) /\ Nested(w)
    BY <1>3, <2>3, Delimiters, Emphasised DEF Sound
  <2> HIDE DEF w
  <2>5. NoReference(line) => Sound(w) /\ NoReference(w)
    BY <2>3, <2>4 DEF Sound, Kept
  <2> QED BY <1>1, <2>2, <2>5, GoKeeps
<1> QED BY <1>2, <1>3 DEF isBold

\* Italics in the same way.
LEMMA ItalicKeeps == ASSUME InlineInv, isItalic PROVE InlineInv'
<1>1. "isItalic" \in Calls \ {"isHeader", "isUnderline"}
  BY DEF Calls
<1>2. CASE None("isItalic")
  BY <1>1, <1>2, NoneKeeps
<1>3. ASSUME NEW p, p = Found(oriStr, italic), Spans(oriStr, italic) # {},
             Go("isItalic", Replace(oriStr, italic, Italic(Group(oriStr, italic, p, 1)), p))
      PROVE  InlineInv'
  <2>1. PICK x \in BeginTags : x = "<i>" /\ EndOf[x] = "</i>"
    BY TagFacts DEF BeginTags
  <2> DEFINE w == Replace(oriStr, italic, (<<x>> \o Group(oriStr, italic, p, 1)) \o <<EndOf[x]>>, p)
  <2>2. step = "isItalic" /\ Go("isItalic", w)
    BY <1>3, <2>1 DEF Go, Call, Italic
  <2>3. NoReference(line) => Sound(oriStr) /\ NoReference(oriStr)
    BY <1>1, <2>2 DEF InlineInv
  <2>4. NoReference(line) => w \in Seq(Chars) /\ NoReference(w) /\ Kept(w, oriStr) /\ Nested(w)
    BY <1>3, <2>3, Delimiters, Emphasised DEF Sound
  <2> HIDE DEF w
  <2>5. NoReference(line) => Sound(w) /\ NoReference(w)
    BY <2>3, <2>4 DEF Sound, Kept
  <2> QED BY <1>1, <2>2, <2>5, GoKeeps
<1> QED BY <1>2, <1>3 DEF isItalic

\* One call after the other keeps the invariant.
LEMMA InlineNext == InlineInv /\ [Next]_vars => InlineInv'
<1> SUFFICES ASSUME InlineInv, [Next]_vars PROVE InlineInv'
  OBVIOUS
<1>1. CASE isHeader
  BY <1>1, HeaderKeeps
<1>2. CASE isUnderline
  BY <1>2, UnderlineKeeps
<1>3. CASE isReference
  BY <1>3, ReferenceKeeps
<1>4. CASE isImageLink
  BY <1>4, LinkedStep, MarksAre DEF isImageLink
<1>5. CASE isHyperLink
  BY <1>5, LinkedStep, MarksAre DEF isHyperLink
<1>6. CASE isBold
  BY <1>6, BoldKeeps
<1>7. CASE isItalic
  BY <1>7, ItalicKeeps
<1>8. CASE UNCHANGED vars
  <2>1. line' = line /\ oriStr' = oriStr /\ step' = step
    BY <1>8 DEF vars
  <2>2. /\ IsPlain(line)' <=> IsPlain(line)
        /\ NoReference(line)' <=> NoReference(line)
        /\ Sound(oriStr)' <=> Sound(oriStr)
        /\ NoReference(oriStr)' <=> NoReference(oriStr)
        /\ EndsLate(oriStr)' <=> EndsLate(oriStr)
    BY <2>1 DEF IsPlain, NoReference, Sound, EndsLate
  <2> QED BY <2>1, <2>2 DEF InlineInv
<1> QED BY <1>1, <1>2, <1>3, <1>4, <1>5, <1>6, <1>7, <1>8 DEF Next

\* So it holds always.
LEMMA InlineAlways == Spec => []InlineInv
BY InlineInit, InlineNext, PTL DEF Spec

(* However the marks of a line cross: as long as no $ in it stands before a   *)
(* digit, a $, &, a backtick or a quote, the calls (Parser.cpp:114-233)       *)
(* neither lose nor double any of its text, also in between, for lines of any *)
(* length.                                                                    *)
THEOREM NoTextLost == Spec => []TextKept
<1>1. InlineInv => TextKept
  BY DEF InlineInv, Sound, Kept, TextKept, Text
<1> QED BY <1>1, InlineAlways, PTL

(* And every tag that they begin in such a line they end there, after it: at  *)
(* no place of the line, after any of the calls, have more been ended than    *)
(* begun, and at its end as many.                                             *)
THEOREM TagsEnd == Spec => []EveryTagEnds
<1>1. ASSUME InlineInv PROVE EveryTagEnds
  <2> SUFFICES ASSUME NoReference(line), NEW t \in BeginTags, NEW n \in DOMAIN oriStr
               PROVE  /\ Count(SubSeq(oriStr, 1, n), t) >= Count(SubSeq(oriStr, 1, n), EndOf[t])
                      /\ n = Len(oriStr) => Count(oriStr, t) = Count(oriStr, EndOf[t])
    BY DEF EveryTagEnds
  <2>1. PICK s \in Seq(Chars) : s = oriStr /\ Above(s, t, 0) /\ Balance(s, t) = 0
    BY <1>1 DEF InlineInv, Sound, Nested
  <2>2. n \in 0..Len(s) /\ 0 \in 0..n
    BY <2>1
  <2>3. 0 + Balance(SubSeq(s, 1, n), t) >= 0
    BY <2>1, <2>2 DEF Above
  <2>4. SubSeq(s, 1, n) \in Seq(Chars)
    BY <2>2, PrefixCut
  <2>5. PICK u \in Seq(Chars) : u = SubSeq(s, 1, n)
    BY <2>4
  <2>6. /\ Count(u, t) \in Nat /\ Count(u, EndOf[t]) \in Nat
        /\ Count(s, t) \in Nat /\ Count(s, EndOf[t]) \in Nat
    BY CountType
  <2>7. Count(u, t) >= Count(u, EndOf[t]) /\ Count(s, t) = Count(s, EndOf[t])
    BY <2>1, <2>3, <2>5, <2>6 DEF Balance
  <2> QED BY <2>1, <2>5, <2>7
<1> QED BY <1>1, InlineAlways, PTL

==============================================================================
