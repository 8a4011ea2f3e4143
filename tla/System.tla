------------------------------- MODULE System --------------------------------
(***************************************************************************)
(* The client program and the server together.  A client is str_cli: one   *)
(* loop over select, which watches the user's input and the socket.  The   *)
(* first argument of select, maxfdpl, has no initial value and grows by    *)
(* one every time round; a descriptor that is not below it is not watched. *)
(***************************************************************************)
EXTENDS Server

CONSTANTS
  FirstMax,  \* the values maxfdpl may hold before the first round
  MaxLines   \* bound on the lines a user types

ASSUME SystemAssumption == FirstMax \subseteq Int /\ MaxLines \in Nat

VARIABLES
  cpc,       \* by client: out, select, socket, input, terminated or collapsed
  maxfdpl,   \* by client; SockFd + 1 stands for all larger values too
  stdineof,  \* by client, whether it has read the end of its input
  rset,      \* by client, what select has found readable
  input,     \* by client, the lines typed that it has not read
  typed,     \* by client, the number of lines typed
  taken,     \* by client, how many replies it has read from its socket
  saved      \* by client, the files it wrote, each the replies of one read

cliVars == <<cpc, maxfdpl, stdineof, rset, input, typed, taken, saved>>
sysVars == <<vars, cliVars>>

SockFd == 3  \* the first descriptor that is free
Larger(a, b) == IF a > b THEN a ELSE b
Smaller(a, b) == IF a < b THEN a ELSE b

\* A line names a file that is there or one that is not; `end' is the end of input.
LineKinds == {"file", "none", "end"}

SysInit ==
  /\ Init
  /\ cpc = [c \in Clients |-> "out"]
  /\ maxfdpl \in [Clients -> FirstMax]
  /\ stdineof = [c \in Clients |-> FALSE]
  /\ rset = [c \in Clients |-> {}]
  /\ input = [c \in Clients |-> <<>>]
  /\ typed = [c \in Clients |-> 0]
  /\ taken = [c \in Clients |-> 0]
  /\ saved = [c \in Clients |-> <<>>]

(* Slips: variants of definitions below that break a property each. *)
OneMore(m) == m + 1
WatchInput(c) == {d \in {"stdin"} : ~stdineof[c]}
WholeStream(c, n) == SubSeq(replies[c], 1, taken[c] + n)

------------------------------------------------------------------------------
(* The user, who may press return at any time but waits for the file asked *)
(* for before asking for another or ending the input.                      *)

Running(c) == cpc[c] \in {"select", "socket", "input"}

\* No line waits that matters, and there is a file for each one asked for.
Served(c) ==
  /\ \A i \in DOMAIN input[c] : input[c][i] = "none"
  /\ Len(saved[c]) >= sent[c]

Type(c, line) ==
  /\ Running(c)
  /\ ~stdineof[c] /\ \A i \in DOMAIN input[c] : input[c][i] # "end"
  /\ line # "none" => Served(c)
  /\ line # "end" => typed[c] < MaxLines
  /\ line = "file" => sent[c] < MaxRequests
  /\ input' = [input EXCEPT ![c] = Append(@, line)]
  /\ typed' = [typed EXCEPT ![c] = @ + 1]
  /\ UNCHANGED <<vars, cpc, maxfdpl, stdineof, rset, taken, saved>>

------------------------------------------------------------------------------
(* str_cli *)

Turn(c, there) == cpc' = [cpc EXCEPT ![c] = there]

Begin(c) ==
  /\ cpc[c] = "out"
  /\ Connect(c)
  /\ Turn(c, "select")
  /\ UNCHANGED <<maxfdpl, stdineof, rset, input, typed, taken, saved>>

NextMax(m) == Larger(0, m) + 1

Pending(c) == Len(replies[c]) - taken[c]

\* The end of the stream is readable too.
SocketReadable(c) == Pending(c) > 0 \/ link[c] = "closed"

Watched(c) ==
  {d \in {"stdin"} : ~stdineof[c]} \cup {d \in {"socket"} : SockFd < NextMax(maxfdpl[c])}

Found(c) ==
  {d \in Watched(c) : IF d = "stdin" THEN input[c] # <<>> ELSE SocketReadable(c)}

\* One round: select returns when something it watches is readable.
Select(c) ==
  /\ cpc[c] = "select"
  /\ Found(c) # {}
  /\ maxfdpl' = [maxfdpl EXCEPT ![c] = Smaller(NextMax(@), SockFd + 1)]
  /\ rset' = [rset EXCEPT ![c] = Found(c)]
  /\ Turn(c, IF "socket" \in Found(c) THEN "socket" ELSE "input")
  /\ UNCHANGED <<vars, stdineof, input, typed, taken, saved>>

AfterSocket(c) == Turn(c, IF "stdin" \in rset[c] THEN "input" ELSE "select")

\* The replies that a read returned become one file, named as the first of them.
FileOf(c, n) == SubSeq(replies[c], taken[c] + 1, taken[c] + n)

ReadReplies(c) ==
  /\ cpc[c] = "socket"
  /\ \E n \in 1..Pending(c) :
       /\ saved' = [saved EXCEPT ![c] = Append(@, FileOf(c, n))]
       /\ taken' = [taken EXCEPT ![c] = @ + n]
  /\ AfterSocket(c)
  /\ UNCHANGED <<vars, maxfdpl, stdineof, rset, input, typed>>

ReadClosed(c) ==
  /\ cpc[c] = "socket"
  /\ Pending(c) = 0
  /\ Turn(c, IF stdineof[c] THEN "terminated" ELSE "collapsed")
  /\ UNCHANGED <<vars, maxfdpl, stdineof, rset, input, typed, taken, saved>>

ReadLine(c, line) ==
  /\ cpc[c] = "input"
  /\ Head(input[c]) = line
  /\ input' = [input EXCEPT ![c] = Tail(@)]

AfterInput(c) ==
  /\ Turn(c, "select")
  /\ UNCHANGED <<maxfdpl, rset, typed, taken, saved>>

SendFile(c) == ReadLine(c, "file") /\ Send(c) /\ AfterInput(c) /\ UNCHANGED stdineof

NoSuchFile(c) == ReadLine(c, "none") /\ AfterInput(c) /\ UNCHANGED <<vars, stdineof>>

EndOfInput(c) ==
  /\ ReadLine(c, "end")
  /\ stdineof' = [stdineof EXCEPT ![c] = TRUE]
  /\ Shutdown(c)
  /\ AfterInput(c)

str_cli(c) ==
  \/ Select(c) \/ ReadReplies(c) \/ ReadClosed(c)
  \/ SendFile(c) \/ NoSuchFile(c) \/ EndOfInput(c)

ServerStep == Main \/ RunTask \/ \E k \in Tasks : deal_fun(k)

SysNext ==
  \/ \E c \in Clients : Begin(c) \/ str_cli(c) \/ \E line \in LineKinds : Type(c, line)
  \/ ServerStep /\ UNCHANGED cliVars

(* The systems on both sides schedule the programs; users type as they like. *)
SysSpec ==
  /\ SysInit /\ [][SysNext]_sysVars
  /\ \A c \in Clients : WF_sysVars(str_cli(c))
  /\ WF_sysVars(Main /\ UNCHANGED cliVars)
  /\ WF_sysVars(RunTask /\ UNCHANGED cliVars)
  /\ \A k \in Tasks : WF_sysVars(deal_fun(k) /\ UNCHANGED cliVars)

------------------------------------------------------------------------------
(* Properties of one session: a user who waits, a client and the server *)

SysTypeOK ==
  /\ cpc \in [Clients -> {"out", "select", "socket", "input", "terminated", "collapsed"}]
  /\ maxfdpl \in [Clients -> FirstMax \cup 1..(SockFd + 1)]
  /\ stdineof \in [Clients -> BOOLEAN]
  /\ rset \in [Clients -> SUBSET {"stdin", "socket"}]
  /\ input \in [Clients -> Seq(LineKinds)]
  /\ typed \in [Clients -> Nat]
  /\ taken \in [Clients -> Nat]
  /\ \A c \in Clients : taken[c] <= Len(replies[c])
  /\ saved \in [Clients -> Seq(Seq([name : AllNames \cup {None}, of : Seq(AllParts)]))]

TheReply(c, n) ==
  LET f == FileName[<<c, n, 1>>] IN
    [name |-> OutName[f], of |-> IF InPlace(f) THEN <<>> ELSE Request(c, n)]

(* The files the client writes are the html of the files it sent, in order,  *)
(* one reply each, although the client takes a read for a reply (client.cpp: *)
(* 26) and the server a read for a request.  The html is empty if the file   *)
(* has the name of its html, for the server then empties it before parsing.  *)
EachFileSaved ==
  \A c \in Clients : \A n \in DOMAIN saved[c] : saved[c][n] = <<TheReply(c, n)>>

(* A client that terminates normally has everything it asked for, and none   *)
(* finds its server collapsed.                                               *)
EndsServed ==
  \A c \in Clients :
    /\ cpc[c] # "collapsed"
    /\ cpc[c] = "terminated" => Len(saved[c]) = sent[c] /\ link[c] = "closed"

View == INSTANCE Session WITH
  Users <- Clients,
  Html <- [c \in Clients |-> [n \in 1..MaxRequests |-> <<TheReply(c, n)>>]],
  asked <- sent,
  got <- saved,
  ending <- stdineof,
  over <- [c \in Clients |-> cpc[c] \in {"terminated", "collapsed"}]

(* The program gives its user the session that Session describes: no file is *)
(* saved that was not asked for, nor behind the next request, nor after the  *)
(* end of the input, and no return or exit comes before that end, whatever   *)
(* tasks, descriptors and files the server goes through for it.              *)
ImplementsSession == View!SessionSpec

Hears(c) == SockFd < NextMax(maxfdpl[c])

(* Once the rounds have made maxfdpl exceed the socket, every file comes     *)
(* back without another key pressed.                                         *)
FilesComeBack ==
  \A c \in Clients : \A n \in 1..MaxRequests :
    sent[c] >= n /\ Hears(c) ~> Len(saved[c]) >= n

(* The end of the input ends the session then, through the server's close.   *)
EndOfInputEnds ==
  \A c \in Clients : stdineof[c] /\ Hears(c) ~> cpc[c] = "terminated"

------------------------------------------------------------------------------
(* What the code says and does not do. *)

(* client.cpp:24: the branch is for a `socket is readable': a client that    *)
(* waits in select while a reply is in its socket does not miss it.          *)
SelectSeesReply ==
  \A c \in Clients : cpc[c] = "select" /\ Pending(c) > 0 => "socket" \in Found(c)

==============================================================================
