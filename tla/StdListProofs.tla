---------------------------- MODULE StdListProofs ----------------------------
(***************************************************************************)
(* What RemoveAll, the model of std::list::remove, returns for every list. *)
(* It is a recursive function of the length, so its facts come by          *)
(* induction on a set of numbers, from the well-foundedness of <.          *)
(***************************************************************************)
EXTENDS StdList, TLAPS, WellFoundedInduction, FiniteSetTheorems

\* A set of naturals that contains 0 and every successor of a member is Nat.
LEMMA NatInduct ==
  ASSUME NEW S, 0 \in S, \A n \in Nat : n \in S => n + 1 \in S
  PROVE  Nat \subseteq S
<1> DEFINE T == Nat \ S
           R == {ss \in Nat \X Nat : ss[1] < ss[2]}
<1>0. SUFFICES ASSUME T # {} PROVE FALSE
  OBVIOUS
<1>1. IsWellFoundedOn(R, Nat)
  BY NatLessThanWellFounded DEF OpToRel
<1>2. PICK n \in T : \A m \in T : <<m, n>> \notin R
  <2>1. T \subseteq Nat
    OBVIOUS
  <2> HIDE DEF R, T
  <2> QED BY <1>0, <1>1, <2>1, WFMin
<1>3. n # 0 /\ n \in Nat /\ n \notin S
  OBVIOUS
<1>4. n - 1 \in Nat /\ (n - 1) + 1 = n /\ n - 1 < n
  BY <1>3
<1>5. <<n - 1, n>> \in R
  BY <1>3, <1>4
<1>6. n - 1 \notin T
  BY <1>2, <1>5
<1> QED BY <1>3, <1>4, <1>6

\* push_back adds one entry.
LEMMA AppendElements ==
  ASSUME NEW S, NEW s \in Seq(S), NEW x \in S
  PROVE  Elements(Append(s, x)) = Elements(s) \cup {x}
<1>1. Len(Append(s, x)) = Len(s) + 1 /\ Len(s) \in Nat
  OBVIOUS
<1>2. \A n \in 1..Len(s) : Append(s, x)[n] = s[n]
  OBVIOUS
<1>3. Append(s, x)[Len(s) + 1] = x
  OBVIOUS
<1>4. 1..(Len(s) + 1) = (1..Len(s)) \cup {Len(s) + 1}
  BY <1>1
<1> QED BY <1>1, <1>2, <1>3, <1>4 DEF Elements

\* g[n] is what is left of the first n entries of s when x is erased.
Keeps(g, s, x) ==
  /\ g[0] = <<>>
  /\ \A n \in 1..Len(s) :
       g[n] = IF s[n] = x THEN g[n - 1] ELSE Append(g[n - 1], s[n])

\* The function that RemoveAll evaluates.
LEMMA RemoveAllDef ==
  ASSUME NEW S, NEW s \in Seq(S), NEW x
  PROVE  \E g \in [0..Len(s) -> Seq(S)] :
           RemoveAll(s, x) = g[Len(s)] /\ Keeps(g, s, x)
<1> DEFINE Body(g, n) == IF n = 0 THEN <<>>
                         ELSE IF s[n] = x THEN g[n - 1]
                         ELSE Append(g[n - 1], s[n])
           Good(m) == {g \in [0..m -> Seq(S)] : \A n \in 0..m : g[n] = Body(g, n)}
           L == {m \in Nat : m <= Len(s) => Good(m) # {}}
<1>0. Len(s) \in Nat
  OBVIOUS
<1>1. 0 \in L
  <2>1. [n \in 0..0 |-> <<>>] \in Good(0)
    OBVIOUS
  <2> QED BY <2>1
<1>2. ASSUME NEW m \in Nat, m \in L PROVE m + 1 \in L
  <2>1. SUFFICES ASSUME m + 1 <= Len(s) PROVE Good(m + 1) # {}
    <3> HIDE DEF Good
    <3> QED OBVIOUS
  <2>2a. Good(m) # {}
    <3>1. m <= Len(s)
      BY <1>0, <2>1
    <3> HIDE DEF Good
    <3> QED BY <3>1, <1>2
  <2>2. PICK g \in [0..m -> Seq(S)] : \A n \in 0..m : g[n] = Body(g, n)
    BY <2>2a
  <2> DEFINE h == [n \in 0..(m + 1) |-> IF n = m + 1 THEN Body(g, n) ELSE g[n]]
  <2>3. s[m + 1] \in S
    BY <2>1
  <2>4. g[m] \in Seq(S)
    OBVIOUS
  <2>5. Append(g[m], s[m + 1]) \in Seq(S)
    BY <2>3, <2>4
  <2>6. Body(g, m + 1) \in Seq(S)
    BY <2>4, <2>5
  <2>7. h \in [0..(m + 1) -> Seq(S)]
    BY <2>6
  <2>8. ASSUME NEW n \in 0..(m + 1) PROVE h[n] = Body(h, n)
    <3>1. CASE n = m + 1
      BY <3>1
    <3>2. CASE n = 0
      BY <3>2, <2>2
    <3>3. CASE n \in 1..m
      <4>1. h[n] = g[n] /\ h[n - 1] = g[n - 1]
        BY <3>3
      <4>2. g[n] = Body(g, n)
        <5>1. n \in 0..m
          BY <3>3
        <5> HIDE DEF Body
        <5> QED BY <2>2, <5>1
      <4>3. Body(g, n) = Body(h, n)
        BY <4>1, <3>3
      <4> HIDE DEF Body, h
      <4> QED BY <4>1, <4>2, <4>3
    <3> QED BY <3>1, <3>2, <3>3
  <2>9. h \in Good(m + 1)
    <3> HIDE DEF h, Body
    <3> QED BY <2>7, <2>8
  <2> QED BY <2>9
<1>3. Good(Len(s)) # {}
  <2>1. Nat \subseteq L
    <3> HIDE DEF L
    <3> QED BY <1>1, <1>2, NatInduct
  <2>2. Len(s) \in L
    <3> HIDE DEF L
    <3> QED BY <2>1, <1>0
  <2> HIDE DEF Good
  <2> QED BY <2>2, <1>0
<1>4. PICK g \in [0..Len(s) -> Seq(S)] : \A n \in 0..Len(s) : g[n] = Body(g, n)
  BY <1>3
<1> DEFINE K == CHOOSE k : k = [n \in 0..Len(s) |-> Body(k, n)]
<1>5. g = [n \in 0..Len(s) |-> Body(g, n)]
  BY <1>4
<1>6. K = [n \in 0..Len(s) |-> Body(K, n)]
  <2> HIDE DEF Body
  <2> QED BY <1>5
<1>7. RemoveAll(s, x) = K[Len(s)]
  BY DEF RemoveAll
<1> HIDE DEF K
<1>8. \A n \in 0..Len(s) : K[n] = Body(K, n)
  <2> HIDE DEF Body
  <2> QED BY <1>6
<1>9. \A n \in 0..Len(s) : g[n] = K[n]
  <2> DEFINE Q == {n \in Nat : n <= Len(s) => g[n] = K[n]}
  <2>1. 0 \in Q
    <3>1. g[0] = <<>> /\ K[0] = <<>>
      BY <1>0, <1>4, <1>8
    <3> QED BY <3>1
  <2>2. ASSUME NEW n \in Nat, n \in Q PROVE n + 1 \in Q
    <3>1. SUFFICES ASSUME n + 1 <= Len(s) PROVE g[n + 1] = K[n + 1]
      BY DEF Q
    <3>2. g[n] = K[n]
      BY <2>2, <3>1, <1>0
    <3>3. n + 1 \in 0..Len(s) /\ n + 1 # 0 /\ (n + 1) - 1 = n
      BY <3>1, <1>0
    <3>4. g[n + 1] = Body(g, n + 1) /\ K[n + 1] = Body(K, n + 1)
      <4> HIDE DEF Body
      <4> QED BY <1>4, <1>8, <3>3
    <3> QED BY <3>2, <3>3, <3>4
  <2>3. Nat \subseteq Q
    <3> HIDE DEF Q
    <3> QED BY <2>1, <2>2, NatInduct
  <2> QED BY <2>3, <1>0
<1>10. RemoveAll(s, x) = g[Len(s)]
  BY <1>7, <1>9, <1>0
<1>11. g[0] = <<>>
  BY <1>4, <1>0
<1>12. ASSUME NEW n \in 1..Len(s)
       PROVE  g[n] = IF s[n] = x THEN g[n - 1] ELSE Append(g[n - 1], s[n])
  <2>1. n \in 0..Len(s) /\ n # 0
    BY <1>0
  <2> QED BY <1>4, <2>1
<1>13. Keeps(g, s, x)
  BY <1>11, <1>12 DEF Keeps
<1> QED BY <1>10, <1>13

\* remove returns a list of the same kind of entries.
LEMMA RemoveAllType ==
  ASSUME NEW S, NEW s \in Seq(S), NEW x
  PROVE  RemoveAll(s, x) \in Seq(S)
<1>1. PICK g \in [0..Len(s) -> Seq(S)] : RemoveAll(s, x) = g[Len(s)]
  BY RemoveAllDef
<1>2. Len(s) \in 0..Len(s)
  OBVIOUS
<1> QED BY <1>1, <1>2

\* remove erases x and nothing else.
LEMMA RemoveAllElements ==
  ASSUME NEW S, NEW s \in Seq(S), NEW x
  PROVE  Elements(RemoveAll(s, x)) = Elements(s) \ {x}
<1>1. PICK g \in [0..Len(s) -> Seq(S)] :
        RemoveAll(s, x) = g[Len(s)] /\ Keeps(g, s, x)
  BY RemoveAllDef
<1>0. Len(s) \in Nat
  OBVIOUS
<1> DEFINE Upto(n) == {s[k] : k \in 1..n} \ {x}
           Q == {n \in Nat : n <= Len(s) => Elements(g[n]) = Upto(n)}
<1>2. 0 \in Q
  BY <1>1 DEF Elements, Keeps
<1>3. ASSUME NEW n \in Nat, n \in Q PROVE n + 1 \in Q
  <2>1. SUFFICES ASSUME n + 1 <= Len(s) PROVE Elements(g[n + 1]) = Upto(n + 1)
    <3> HIDE DEF Upto
    <3> QED OBVIOUS
  <2>2. Elements(g[n]) = Upto(n)
    <3> HIDE DEF Upto
    <3> QED BY <1>0, <1>3, <2>1
  <2>3. n + 1 \in 1..Len(s) /\ n \in 0..Len(s) /\ (n + 1) - 1 = n
    BY <1>0, <2>1
  <2>4. g[n] \in Seq(S) /\ s[n + 1] \in S
    BY <2>3
  <2>5. 1..(n + 1) = (1..n) \cup {n + 1}
    BY <2>3
  <2>6. {s[k] : k \in 1..(n + 1)} = {s[k] : k \in 1..n} \cup {s[n + 1]}
    BY <2>5
  <2>7. CASE s[n + 1] = x
    <3>1. g[n + 1] = g[n]
      BY <1>1, <2>3, <2>7 DEF Keeps
    <3> QED BY <2>2, <2>6, <2>7, <3>1
  <2>8. CASE s[n + 1] # x
    <3>1. g[n + 1] = Append(g[n], s[n + 1])
      BY <1>1, <2>3, <2>8 DEF Keeps
    <3>2. Elements(Append(g[n], s[n + 1])) = Elements(g[n]) \cup {s[n + 1]}
      BY <2>4, AppendElements
    <3> QED BY <2>2, <2>6, <2>8, <3>1, <3>2
  <2> QED BY <2>7, <2>8
<1>4. Len(s) \in Q
  <2> HIDE DEF Q
  <2> QED BY <1>0, <1>2, <1>3, NatInduct
<1>5. Elements(g[Len(s)]) = Upto(Len(s))
  <2> HIDE DEF Upto
  <2> QED BY <1>0, <1>4
<1> QED BY <1>1, <1>5 DEF Elements

\* No value is in the list twice.
Distinct(s) == \A m, n \in 1..Len(s) : s[m] = s[n] => m = n

\* push_back of a new value leaves it so,
LEMMA AppendDistinct ==
  ASSUME NEW S, NEW s \in Seq(S), NEW x \in S, Distinct(s), x \notin Elements(s)
  PROVE  Distinct(Append(s, x))
<1>1. /\ Len(s) \in Nat /\ Len(Append(s, x)) = Len(s) + 1
      /\ \A n \in 1..(Len(s) + 1) : Append(s, x)[n] = IF n <= Len(s) THEN s[n] ELSE x
  OBVIOUS
<1>2. \A n \in 1..Len(s) : s[n] # x
  BY DEF Elements
<1> SUFFICES ASSUME NEW m \in 1..(Len(s) + 1), NEW n \in 1..(Len(s) + 1),
                    Append(s, x)[m] = Append(s, x)[n]
             PROVE  m = n
  BY <1>1 DEF Distinct
<1>3. CASE m <= Len(s) /\ n <= Len(s)
  <2>1. m \in 1..Len(s) /\ n \in 1..Len(s)
    BY <1>1, <1>3
  <2> QED BY <1>1, <1>3, <2>1 DEF Distinct
<1>4. CASE m <= Len(s) /\ ~(n <= Len(s))
  BY <1>1, <1>2, <1>4
<1>5. CASE ~(m <= Len(s)) /\ n <= Len(s)
  BY <1>1, <1>2, <1>5
<1>6. CASE ~(m <= Len(s)) /\ ~(n <= Len(s))
  BY <1>1, <1>6
<1> QED BY <1>3, <1>4, <1>5, <1>6

\* and so does remove.
LEMMA RemoveAllDistinct ==
  ASSUME NEW S, NEW s \in Seq(S), NEW x, Distinct(s)
  PROVE  Distinct(RemoveAll(s, x))
<1>1. PICK g \in [0..Len(s) -> Seq(S)] :
        RemoveAll(s, x) = g[Len(s)] /\ Keeps(g, s, x)
  BY RemoveAllDef
<1>0. Len(s) \in Nat
  OBVIOUS
<1> DEFINE Early(n) == Distinct(g[n]) /\ Elements(g[n]) \subseteq {s[k] : k \in 1..n}
           Q == {n \in Nat : n <= Len(s) => Early(n)}
<1>2. 0 \in Q
  <2>1. g[0] = <<>>
    BY <1>1 DEF Keeps
  <2> QED BY <2>1 DEF Elements, Distinct
<1>3. ASSUME NEW n \in Nat, n \in Q PROVE n + 1 \in Q
  <2>1. SUFFICES ASSUME n + 1 <= Len(s) PROVE Early(n + 1)
    <3> HIDE DEF Early
    <3> QED OBVIOUS
  <2>2. Early(n)
    <3> HIDE DEF Early
    <3> QED BY <1>0, <1>3, <2>1
  <2>3. n + 1 \in 1..Len(s) /\ n \in 0..Len(s) /\ (n + 1) - 1 = n
    BY <1>0, <2>1
  <2>4. g[n] \in Seq(S) /\ s[n + 1] \in S
    BY <2>3
  <2>5. {s[k] : k \in 1..n} \subseteq {s[k] : k \in 1..(n + 1)}
    <3>1. 1..n \subseteq 1..(n + 1)
      OBVIOUS
    <3> QED BY <3>1
  <2>6. CASE s[n + 1] = x
    <3>1. g[n + 1] = g[n]
      BY <1>1, <2>3, <2>6 DEF Keeps
    <3> QED BY <2>2, <2>5, <3>1
  <2>7. CASE s[n + 1] # x
    <3>1. g[n + 1] = Append(g[n], s[n + 1])
      BY <1>1, <2>3, <2>7 DEF Keeps
    <3>2. Elements(g[n + 1]) = Elements(g[n]) \cup {s[n + 1]}
      BY <2>4, <3>1, AppendElements
    <3>3. s[n + 1] \notin Elements(g[n])
      <4>1. ASSUME NEW k \in 1..n PROVE s[k] # s[n + 1]
        <5>1. k \in 1..Len(s) /\ k # n + 1
          BY <1>0, <2>1
        <5> QED BY <2>3, <5>1 DEF Distinct
      <4> QED BY <2>2, <4>1
    <3>4. Distinct(g[n + 1])
      BY <2>2, <2>4, <3>1, <3>3, AppendDistinct
    <3>5. s[n + 1] \in {s[k] : k \in 1..(n + 1)}
      OBVIOUS
    <3> QED BY <2>2, <2>5, <3>2, <3>4, <3>5
  <2> QED BY <2>6, <2>7
<1>4. Len(s) \in Q
  <2> HIDE DEF Q
  <2> QED BY <1>0, <1>2, <1>3, NatInduct
<1> QED BY <1>0, <1>1, <1>4

\* A list without repetition has as many entries as values.
LEMMA DistinctCardinality ==
  ASSUME NEW S, NEW s \in Seq(S), Distinct(s)
  PROVE  Cardinality(Elements(s)) = Len(s)
<1>1. Len(s) \in Nat /\ DOMAIN s = 1..Len(s)
  OBVIOUS
<1> DEFINE f == [n \in 1..Len(s) |-> s[n]]
<1>2. f \in [1..Len(s) -> Elements(s)]
  BY DEF Elements
<1>3. f \in Bijection(1..Len(s), Elements(s))
  <2>1. \A m, n \in 1..Len(s) : f[m] = f[n] => m = n
    BY DEF Distinct
  <2>2. \A e \in Elements(s) : \E n \in 1..Len(s) : f[n] = e
    BY DEF Elements
  <2> HIDE DEF f
  <2> QED BY <1>2, <2>1, <2>2 DEF Bijection, Injection, IsInjective, Surjection
<1>4. ExistsBijection(1..Len(s), Elements(s))
  <2> HIDE DEF f
  <2> QED BY <1>3 DEF ExistsBijection
<1>5. IsFiniteSet(1..Len(s)) /\ Cardinality(1..Len(s)) = Len(s)
  BY SMTT(30), ZenonT(40), <1>1, FS_Interval
<1> QED BY <1>4, <1>5, FS_Bijection

==============================================================================
