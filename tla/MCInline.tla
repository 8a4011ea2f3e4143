------------------------------- MODULE MCInline ------------------------------
(* Inline for TLC: all short lines over the marks that can meet, and longer    *)
(* ones with a reference rendering.                                            *)
EXTENDS Inline, SequencesExt

\* Text with its html and the marks it uses.
Plain(c) == [md |-> <<c>>, html |-> <<c>>, uses |-> {}]

Strong(x) == [md |-> <<"*", "*">> \o x.md \o <<"*", "*">>,
              html |-> <<"<b>">> \o x.html \o <<"</b>">>, uses |-> x.uses \cup {"bold"}]

Emphasis(x) == [md |-> <<"*">> \o x.md \o <<"*">>,
                html |-> <<"<i>">> \o x.html \o <<"</i>">>, uses |-> x.uses \cup {"italic"}]

Anchor(x, mark) ==
  [md |-> mark \o x.md \o <<"]", "(", "u", ")">>,
   html |-> <<"<a href=", "u", "'>">> \o x.html \o <<"</a>">>, uses |-> x.uses \cup {"link"}]

Beside(x, y) ==
  [md |-> x.md \o <<" ">> \o y.md, html |-> x.html \o <<" ">> \o y.html,
   uses |-> x.uses \cup y.uses]

\* Everything that one more mark or one more neighbour makes of X.  Stars that
\* touch inside an emphasis could be read in two ways.
Grow(X) ==
  X \cup {Strong(x) : x \in {y \in X : "bold" \notin y.uses}}
    \cup {Emphasis(x) : x \in {y \in X : "italic" \notin y.uses
                                         /\ y.md[1] # "*" /\ y.md[Len(y.md)] # "*"}}
    \cup {Anchor(x, m) : x \in {y \in X : "link" \notin y.uses}, m \in {<<"[">>, <<"!", "[">>}}
    \cup {Beside(p[1], p[2]) : p \in {q \in X \X X : q[1].uses \cap q[2].uses = {}
                                                    /\ Len(q[1].md) + Len(q[2].md) <= 12}}

Texts == Grow(Grow(Grow({Plain("a"), Plain("b")})))

Quoted(x, n) ==
  [md |-> [i \in 1..n |-> ">"] \o x.md,
   html |-> [i \in 1..n |-> "<blockquote>"] \o <<"<p>">> \o x.html \o <<"</p>">>
              \o [i \in 1..n |-> "</blockquote>"]]

MCReference ==
  {<<x.md, x.html>> : x \in Texts}
    \cup {<<Quoted(x, n).md, Quoted(x, n).html>> : x \in Texts, n \in {2}}
    \cup {<< <<"#", "#", " ", "a">>, <<"<h2>", "a", "</h2>">> >>, << <<"*", "*", "*">>, <<"<hr>">> >>}

Bits == {<<"*">>, <<"[">>, <<"]", "(">>, <<")">>, <<"a">>, <<"$", "1">>}

\* Marks beside a dollar and what makes a reference of it.
Dollars == {<<"*", "*">>, <<"*">>, <<"$">>, <<"'">>, <<"tick">>, <<"3">>}

MCLines ==
  {s \in BoundedSeq({"*", "a", "$", "1"}, 6)
         \cup BoundedSeq({"!", "[", "]", "(", ")", "a"}, 5)
         \cup BoundedSeq({"#", " ", ">", "-", "a", "CR"}, 4)
         \cup {FlattenSeq(t) : t \in BoundedSeq(Bits, 5) \cup BoundedSeq(Dollars, 5)} :
     s # <<>> /\ ~re_unorderlist(s) /\ ~Contains(Front(s), "CR")}

==============================================================================
