------------------------------- MODULE Session --------------------------------
(***************************************************************************)
(* What somebody at the client's terminal may rely on, who asks for one    *)
(* file at a time: the html of each file asked for comes back as one file, *)
(* before the next is asked for, and the program ends only after the end   *)
(* of the input, with everything served.  Server, sockets, tasks and the   *)
(* file system are left out.  System implements this specification.        *)
(***************************************************************************)
EXTENDS Naturals, Sequences

CONSTANTS
  Users,
  Html  \* by user and by the number of the request, the file that answers it

VARIABLES
  asked,    \* by user, how many files were asked for
  got,      \* the files that came back
  ending,   \* whether the input has ended
  over      \* and the program

sessionVars == <<asked, got, ending, over>>

SessionInit ==
  /\ asked = [c \in Users |-> 0]
  /\ got = [c \in Users |-> <<>>]
  /\ ending = [c \in Users |-> FALSE]
  /\ over = [c \in Users |-> FALSE]

HasAll(c) == Len(got[c]) = asked[c]

Ask(c) ==
  /\ HasAll(c) /\ ~ending[c]
  /\ asked' = [asked EXCEPT ![c] = @ + 1]
  /\ UNCHANGED <<got, ending, over>>

Get(c) ==
  /\ ~HasAll(c)
  /\ got' = [got EXCEPT ![c] = Append(@, Html[c][Len(@) + 1])]
  /\ UNCHANGED <<asked, ending, over>>

EndInput(c) ==
  /\ HasAll(c) /\ ~ending[c]
  /\ ending' = [ending EXCEPT ![c] = TRUE]
  /\ UNCHANGED <<asked, got, over>>

Quit(c) ==
  /\ ending[c] /\ ~over[c]
  /\ over' = [over EXCEPT ![c] = TRUE]
  /\ UNCHANGED <<asked, got, ending>>

SessionNext == \E c \in Users : Ask(c) \/ Get(c) \/ EndInput(c) \/ Quit(c)

SessionSpec == SessionInit /\ [][SessionNext]_sessionVars

==============================================================================
