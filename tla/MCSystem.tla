------------------------------- MODULE MCSystem -------------------------------
(* System for TLC.                                                             *)
EXTENDS SystemProofs

\* The first file is named as its html, the second as usual, with that html.
NameInPlace == [r \in AllParts |-> IF r[2] = 1 THEN "a.html" ELSE "a.md"]

MCOutName == [n \in {"a.html", "a.md"} |-> "a.html"]

OnePart == [n \in 1..MaxRequests |-> 1]

AnyMax == {-1, 3}

NoMax == {-1}

==============================================================================
