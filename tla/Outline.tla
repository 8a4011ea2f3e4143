------------------------------- MODULE Outline -------------------------------
(***************************************************************************)
(* The html of the parser's output, reduced to the tags of the elements    *)
(* that span lines.  Each document is written to a file of its own.  What  *)
(* one leaves open is still open to those that follow: its end is owed,    *)
(* and the document that writes it did not begin the element.              *)
(*                                                                         *)
(* A code block and a table begin only where nothing is open or owed, a    *)
(* list where no other list is, so that what is open beside a table or a   *)
(* code block is a list that began inside it.  A code block ends when that *)
(* list has; of a table this cannot be said, see EndAround.                *)
(***************************************************************************)
EXTENDS Naturals

Lists == {"ul", "ol"}

Elements == Lists \cup {"table", "code"}

VARIABLES
  begun,  \* by element, how often it was begun
  ended,  \* and ended, over all documents
  here    \* the elements that the document at hand has begun and not ended

outlineVars == <<begun, ended, here>>

open == {e \in Elements : begun[e] > ended[e]}

\* What earlier documents began and nothing has ended.
owed == open \ here

OutlineInit ==
  /\ begun = [e \in Elements |-> 0]
  /\ ended = [e \in Elements |-> 0]
  /\ here = {}

Begin(e) ==
  /\ e \notin open
  /\ IF e \in Lists THEN open \cap Lists = {} ELSE open = {}
  /\ begun' = [begun EXCEPT ![e] = @ + 1]
  /\ here' = here \cup {e}
  /\ UNCHANGED ended

WriteEnd(e) ==
  /\ ended' = [ended EXCEPT ![e] = @ + 1]
  /\ here' = here \ {e}
  /\ UNCHANGED begun

\* The element begun last ends.
End(e) ==
  /\ e \in here
  /\ e \in Lists \/ open = {e}
  /\ WriteEnd(e)

\* A table ends around a list that began in one of its rows, and that goes on.
EndAround ==
  /\ "table" \in here /\ open \cap Lists # {}
  /\ WriteEnd("table")

\* A document ends what an earlier one began, a code block when no list is left
\* in it.
EndOwed(e) ==
  /\ e \in owed
  /\ e = "code" => open = {"code"}
  /\ WriteEnd(e)

NextDocument == here' = {} /\ UNCHANGED <<begun, ended>>

OutlineNext ==
  \/ \E e \in Elements : Begin(e) \/ End(e) \/ EndOwed(e)
  \/ EndAround
  \/ NextDocument

OutlineSpec == OutlineInit /\ [][OutlineNext]_outlineVars

==============================================================================
