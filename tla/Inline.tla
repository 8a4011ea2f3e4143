------------------------------- MODULE Inline --------------------------------
(***************************************************************************)
(* Parser::start's treatment of one line that is neither blank nor part of *)
(* a table, a code block or a list: titles, rules, quotes, links, images   *)
(* and emphasis.  Each call searches the line as the calls before it left  *)
(* it, the tags they put into it included, and replaces what it finds.     *)
(***************************************************************************)
EXTENDS Patterns, FiniteSets

CONSTANTS
  Lines,     \* the lines
  Reference  \* pairs of a line and the html that it means

\* A carriage return stands at the end of a line, if anywhere.
ASSUME LinesReachHere ==
  \A s \in Lines \cup {r[1] : r \in Reference} :
    /\ s # <<>> /\ ~re_table(s) /\ ~re_unorderlist(s) /\ ~re_orderlist(s)
    /\ ~Seqs!Contains(Seqs!Front(s), "CR")

\* The tags that the calls put in, and what ends each.
BeginTags == {"<blockquote>", "<p>", "<b>", "<i>", "<a href="}
EndOf == [t \in BeginTags |->
            CASE t = "<blockquote>" -> "</blockquote>" [] t = "<p>" -> "</p>"
              [] t = "<b>" -> "</b>" [] t = "<i>" -> "</i>" [] OTHER -> "</a>"]

\* No character is a tag.
ASSUME LinesAreText ==
  \A s \in Lines \cup {r[1] : r \in Reference} :
    /\ s \in Seq(STRING)
    /\ \A i \in DOMAIN s : s[i] \notin BeginTags \cup {EndOf[t] : t \in BeginTags}

VARIABLES
  line,    \* the line as read
  meant,   \* the html that it means, where one is given (history)
  oriStr,  \* the line as rewritten
  step     \* the call to be made

vars == <<line, meant, oriStr, step>>

Unknown == <<>>

Init ==
  /\ \E r \in Reference \cup (Lines \X {Unknown}) :
       line = r[1] /\ meant = r[2] /\ oriStr = r[1]
  /\ step = "isHeader"

(* Slips: variants of definitions below that break a property each. *)
ItalicFirst ==
  [isHeader |-> "isUnderline", isUnderline |-> "isReference", isReference |-> "isImageLink",
   isImageLink |-> "isHyperLink", isHyperLink |-> "isItalic", isItalic |-> "isBold",
   isBold |-> "write"]
OneQuote(n, tag) == IF tag = "<blockquote>" THEN <<tag>> ELSE [i \in 1..n |-> tag]
OnlyText(text, url) == <<"<a href=">> \o text \o <<"'>">> \o text \o <<"</a>">>

After == [isHeader |-> "isUnderline", isUnderline |-> "isReference",
          isReference |-> "isImageLink", isImageLink |-> "isHyperLink",
          isHyperLink |-> "isBold", isBold |-> "isItalic", isItalic |-> "write"]

Call(f) == step = f /\ step' = After[f] /\ UNCHANGED <<line, meant>>

\* A call that returns true and after which start writes parStr at once.
Write(f, parStr) == step = f /\ oriStr' = parStr /\ step' = "write" /\ UNCHANGED <<line, meant>>

\* Those after which it goes on with parStr.
Go(f, parStr) == Call(f) /\ oriStr' = parStr

None(f) == Call(f) /\ UNCHANGED oriStr

Heading(n) == <<"<h1>", "<h2>", "<h3>", "<h4>", "<h5>", "<h6>">>[n]
EndHeading(n) == <<"</h1>", "</h2>", "</h3>", "</h4>", "</h5>", "</h6>">>[n]

isHeader ==
  LET n == re_header(oriStr) IN
    \/ n > 0 /\ Write("isHeader", <<Heading(n)>> \o From(oriStr, n + 2) \o <<EndHeading(n)>>)
    \/ n = 0 /\ None("isHeader")

isUnderline ==
  \/ re_underline(oriStr) /\ Write("isUnderline", <<"<hr>">>)
  \/ ~re_underline(oriStr) /\ None("isUnderline")

\* As many quotes as the match is long, so a blank before `>' counts for one.
Quotes(n, tag) == [i \in 1..n |-> tag]

isReference ==
  LET n == re_reference(oriStr) IN
    \/ /\ n > 0
       /\ Go("isReference", Quotes(n, "<blockquote>") \o <<"<p>">> \o From(oriStr, n + 1)
                              \o <<"</p>">> \o Quotes(n, "</blockquote>"))
    \/ n = 0 /\ None("isReference")

\* A link's text is its first group and its target the second.
Link(text, url) == <<"<a href=">> \o url \o <<"'>">> \o text \o <<"</a>">>
Bold(text) == <<"<b>">> \o text \o <<"</b>">>
Italic(text) == <<"<i>">> \o text \o <<"</i>">>

\* The link or image that ds finds.
Linked(f, ds) ==
  LET p == Found(oriStr, ds) IN
    \/ /\ Spans(oriStr, ds) # {}
       /\ Go(f, Replace(oriStr, ds, Link(Group(oriStr, ds, p, 1), Group(oriStr, ds, p, 2)), p))
    \/ Spans(oriStr, ds) = {} /\ None(f)

isImageLink == Linked("isImageLink", imagelink)
isHyperLink == Linked("isHyperLink", hyperlink)

isBold ==
  LET p == Found(oriStr, bold) IN
    \/ Spans(oriStr, bold) # {}
         /\ Go("isBold", Replace(oriStr, bold, Bold(Group(oriStr, bold, p, 1)), p))
    \/ Spans(oriStr, bold) = {} /\ None("isBold")

isItalic ==
  LET p == Found(oriStr, italic) IN
    \/ Spans(oriStr, italic) # {}
         /\ Go("isItalic", Replace(oriStr, italic, Italic(Group(oriStr, italic, p, 1)), p))
    \/ Spans(oriStr, italic) = {} /\ None("isItalic")

Next ==
  isHeader \/ isUnderline \/ isReference \/ isImageLink \/ isHyperLink \/ isBold \/ isItalic

Spec == Init /\ [][Next]_vars

------------------------------------------------------------------------------

Count(s, c) == Cardinality({i \in DOMAIN s : s[i] = c})

(* In a format string nothing of s refers to the match or to what is around *)
(* it: no dollar stands before a digit, a dollar, `&' or a quote.            *)
NoReference(s) == ~ \E i \in 1..(Len(s) - 1) : s[i] = "$" /\ s[i + 1] \in Referring

(* A line with every kind of mark at most once, unambiguously nested, becomes *)
(* the html of its meaning: the order of the calls (Parser.cpp:81 `image      *)
(* should before hyper', bold before italic) and the greedy patterns get all  *)
(* such combinations right, three stars included (Parser/README.md).          *)
RendersAsWritten ==
  step = "write" /\ meant # Unknown => oriStr = meant

(* Whatever the marks of a line, and however they cross, no text is lost and  *)
(* none appears twice, as long as the line, which becomes part of the format  *)
(* string of regex_replace (Parser.cpp:169), holds no reference.              *)
TextKept ==
  NoReference(line) =>
    \A c \in {"a", "b", "u", "$", "1"} : Count(oriStr, c) = Count(line, c)

(* Each tag that the calls begin they end, after it, in the same line: no     *)
(* emphasis, link or quote runs on into the lines that follow.                *)
EveryTagEnds ==
  NoReference(line) =>
    \A t \in BeginTags : \A n \in DOMAIN oriStr :
      /\ Count(SubSeq(oriStr, 1, n), t) >= Count(SubSeq(oriStr, 1, n), EndOf[t])
      /\ n = Len(oriStr) => Count(oriStr, t) = Count(oriStr, EndOf[t])

==============================================================================
