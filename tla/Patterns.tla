------------------------------ MODULE Patterns -------------------------------
(***************************************************************************)
(* The regular expressions of Parser.cpp and strSplit.  A line is the      *)
(* sequence of its characters; "tick" stands for a backtick, "fence" for   *)
(* three and "CR" for the carriage return that getline leaves at the end   *)
(* of a line of a DOS file, which `\s' matches and `.' does not.           *)
(***************************************************************************)
EXTENDS Naturals, Sequences

Seqs == INSTANCE SequencesExt

White == {" ", "CR"}
Digits == {"0", "1", "2", "3", "4", "5", "6", "7", "8", "9"}

\* How many characters at the beginning of s are in C.
Lead(s, C) ==
  CHOOSE n \in 0..Len(s) : (\A i \in 1..n : s[i] \in C) /\ (n < Len(s) => s[n + 1] \notin C)

From(s, i) == SubSeq(s, i, Len(s))

HasAt(s, i, d) == i + Len(d) - 1 <= Len(s) /\ SubSeq(s, i, i + Len(d) - 1) = d

\* s begins with up to three blanks and then one of the marks.
Begins(s, marks) ==
  LET n == Lead(s, White) IN n <= 3 /\ \E d \in marks : HasAt(s, n + 1, d)

re_unorderlist(s) == Begins(s, {<<m, w>> : m \in {"*", "+", "-"}, w \in White})
re_orderlist(s) == Begins(s, {<<d, ".", w>> : d \in Digits \ {"0"}, w \in White})
re_codeblock(s) == Begins(s, {<<"fence">>})
re_table(s) == \E i \in DOMAIN s : s[i] = "|"

\* How many `#' make s a title; 0 if it is none.
re_header(s) ==
  LET n == Lead(s, {"#"})
  IN IF n \in 1..6 /\ n < Len(s) /\ s[n + 1] \in White /\ ~Seqs!Contains(From(s, n + 2), "CR")
       THEN n ELSE 0

re_underline(s) == Len(s) >= 3 /\ \A i \in DOMAIN s : s[i] \in {"*", "-"}

\* The length of the match, blanks included; 0 if there is none.
re_reference(s) ==
  LET n == Lead(s, White)
      k == Lead(From(s, n + 1), {">"})
  IN IF k > 0 THEN n + k ELSE 0

\* The parts of s between bars.
Fields(s) ==
  Seqs!FoldLeft(LAMBDA fs, c : IF c = "|" THEN Append(fs, <<>>)
                                     ELSE [fs EXCEPT ![Len(fs)] = Append(@, c)],
           << <<>> >>, s)

\* Blanks, dashes, blanks.
re_table_format(f) ==
  /\ \A i \in DOMAIN f : f[i] \in White \cup {"-"}
  /\ \A i, k \in DOMAIN f : f[i] = "-" /\ f[k] = "-" => \A j \in i..k : f[j] = "-"

IsFormat(s) == \A i \in DOMAIN Fields(s) : re_table_format(Fields(s)[i])

strSplit(s) ==
  SelectSeq([i \in DOMAIN Fields(s) |-> Seqs!Remove(Fields(s)[i], " ")], LAMBDA f : f # <<>>)

------------------------------------------------------------------------------
(* re_bold, re_italic, re_hyperlink and re_imagelink are delimiters ds with  *)
(* anything, as much as possible, between them.                              *)

bold      == << <<"*", "*">>, <<"*", "*">> >>
italic    == << <<"*">>, <<"*">> >>
hyperlink == << <<"[">>, <<"]", "(">>, <<")">> >>
imagelink == << <<"!", "[">>, <<"]", "(">>, <<")">> >>

Places(s, d) == {i \in DOMAIN s : HasAt(s, i, d)}

\* Where the delimiters may be matched, in order and without overlap.
Spans(s, ds) ==
  {p \in [DOMAIN ds -> UNION {Places(s, ds[n]) : n \in DOMAIN ds}] :
     /\ \A n \in DOMAIN ds : p[n] \in Places(s, ds[n])
     /\ \A n \in 1..(Len(ds) - 1) : p[n] + Len(ds[n]) <= p[n + 1]}

\* The match begins as far left as it can and is greedy after that.
Prefer(p, q) ==
  \E n \in DOMAIN p :
    /\ \A m \in 1..(n - 1) : p[m] = q[m]
    /\ IF n = 1 THEN p[1] < q[1] ELSE p[n] > q[n]

Found(s, ds) == CHOOSE p \in Spans(s, ds) : \A q \in Spans(s, ds) : q = p \/ Prefer(p, q)

\* What a match at p leaves before and after it, its groups, and the whole of it.
Before(s, p) == SubSeq(s, 1, p[1] - 1)
Behind(s, ds, p) == From(s, p[Len(ds)] + Len(ds[Len(ds)]))
Group(s, ds, p, n) == SubSeq(s, p[n] + Len(ds[n]), p[n + 1] - 1)
Matched(s, ds, p) == SubSeq(s, p[1], p[Len(ds)] + Len(ds[Len(ds)]) - 1)

\* What after a dollar makes a reference of the two.
Referring == Digits \cup {"$", "&", "tick", "'"}

ValueOf(d) == CHOOSE n \in 0..9 : <<"0", "1", "2", "3", "4", "5", "6", "7", "8", "9">>[n + 1] = d

\* What a number or a sign after a dollar means: 0 is the match, other numbers
\* are groups, nothing if there is no such group; $$ is a dollar, $& the match,
\* $` what is before it and $' what is behind it.
Numbered(s, ds, p, n) ==
  CASE n = 0 -> Matched(s, ds, p) [] n \in 1..(Len(ds) - 1) -> Group(s, ds, p, n) [] OTHER -> <<>>
Signed(s, ds, p, c) ==
  CASE c = "$" -> <<"$">> [] c = "&" -> Matched(s, ds, p)
    [] c = "tick" -> Before(s, p) [] OTHER -> Behind(s, ds, p)

\* What the format string rep means from i on, where after says what it means
\* from each later place on.  A number has two digits where two follow the dollar.
ExpandFrom(rep, s, ds, p, i, after) ==
  LET refers == i < Len(rep) /\ rep[i] = "$" /\ rep[i + 1] \in Referring
      digit(k) == k <= Len(rep) /\ rep[k] \in Digits
  IN CASE i > Len(rep) -> <<>>
       [] i <= Len(rep) /\ ~refers -> <<rep[i]>> \o after[i + 1]
       [] refers /\ ~digit(i + 1) -> Signed(s, ds, p, rep[i + 1]) \o after[i + 2]
       [] refers /\ digit(i + 1) /\ ~digit(i + 2)
            -> Numbered(s, ds, p, ValueOf(rep[i + 1])) \o after[i + 2]
       [] refers /\ digit(i + 1) /\ digit(i + 2)
            -> Numbered(s, ds, p, 10 * ValueOf(rep[i + 1]) + ValueOf(rep[i + 2])) \o after[i + 3]

\* rep as regex_replace expands it.
Expand(rep, s, ds, p) ==
  LET expanded[i \in 1..(Len(rep) + 3)] == ExpandFrom(rep, s, ds, p, i, expanded)
  IN expanded[1]

\* regex_replace.  After a greedy match the rest of the line holds no other.
Replace(s, ds, rep, p) == Before(s, p) \o Expand(rep, s, ds, p) \o Behind(s, ds, p)

==============================================================================
