------------------------------- MODULE MCServer -------------------------------
(* Server for TLC.                                                             *)
EXTENDS ServerProofs, TLC

\* Every request of a client is for the same file, as when it is sent again; a
\* second part begins with a line of text.
FileOfClient ==
  [r \in AllParts |->
     IF r[3] > 1 THEN "text" ELSE IF r[1] = CHOOSE c \in Clients : TRUE THEN "a.md" ELSE "b.md"]

MCOutName ==
  [n \in {"a.md", "b.md", "text"} |->
     CASE n = "a.md" -> "a.html" [] n = "b.md" -> "b.html" [] OTHER -> "text.html"]

\* The first of two requests may arrive in two reads.
OnePart == [n \in 1..MaxRequests |-> 1]
TwoParts == [n \in 1..MaxRequests |-> IF n = 1 THEN 2 ELSE 1]

\* Clients that are alike: the file of each is named after it.
FileOfOwn == [r \in AllParts |-> r[1]]
HtmlOfOwn == [n \in Clients |-> <<n, "html">>]
Alike == Permutations(Clients)

==============================================================================
