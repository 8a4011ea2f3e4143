----------------------------- MODULE SystemProofs -----------------------------
(***************************************************************************)
(* The client program and the server together: types for any number of     *)
(* clients, and for one client whose user waits the session as Session     *)
(* describes it.  What the server keeps by itself is taken from            *)
(* ServerProofs, for every step of the system is one of the server or      *)
(* leaves it alone.                                                        *)
(***************************************************************************)
EXTENDS System, ServerProofs

------------------------------------------------------------------------------
(* The server in the system *)

\* A step of the system is one of the server, or leaves the server alone.
LEMMA StepOfServer == [SysNext]_sysVars => [Next]_vars
<1> SUFFICES ASSUME [SysNext]_sysVars PROVE [Next]_vars
  OBVIOUS
<1>1. ASSUME NEW c \in Clients, Begin(c) PROVE Next
  BY <1>1 DEF Begin, Next
<1>2. ASSUME NEW c \in Clients, str_cli(c) PROVE Next \/ UNCHANGED vars
  <2>1. CASE Select(c)
    BY <2>1 DEF Select
  <2>2. CASE ReadReplies(c)
    BY <2>2 DEF ReadReplies
  <2>3. CASE ReadClosed(c)
    BY <2>3 DEF ReadClosed
  <2>4. CASE SendFile(c)
    BY <2>4 DEF SendFile, Next
  <2>5. CASE NoSuchFile(c)
    BY <2>5 DEF NoSuchFile
  <2>6. CASE EndOfInput(c)
    BY <2>6 DEF EndOfInput, Next
  <2> QED BY <1>2, <2>1, <2>2, <2>3, <2>4, <2>5, <2>6 DEF str_cli
<1>3. ASSUME NEW c \in Clients, NEW line \in LineKinds, Type(c, line) PROVE UNCHANGED vars
  BY <1>3 DEF Type
<1>4. CASE ServerStep
  BY <1>4 DEF ServerStep, Next
<1>5. CASE UNCHANGED sysVars
  BY <1>5 DEF sysVars
<1> QED BY <1>1, <1>2, <1>3, <1>4, <1>5 DEF SysNext

\* What clients of the program do to the server is what the clients of Server may do, so
\* all that ServerProofs shows is true of it, for any number of them.
THEOREM SystemRunsServer == SysSpec => Spec
<1>1. SysInit => Init
  BY DEF SysInit
<1> QED BY <1>1, StepOfServer, PTL DEF SysSpec, Spec

\* What is written adds at most one to the replies of a client.
LEMMA WriteGrows ==
  ASSUME TypeOK, NEW f, NEW reply \in [name : AllNames \cup {None}, of : Seq(AllParts)],
         WriteTo(f, reply)
  PROVE  \A c \in Clients : /\ Len(replies[c]) \in Nat /\ Len(replies'[c]) \in Nat
                            /\ Len(replies[c]) <= Len(replies'[c])
<1> DEFINE R == [name : AllNames \cup {None}, of : Seq(AllParts)]
<1>1. replies \in [Clients -> Seq(R)]
  BY DEF TypeOK
<1>2. Valid(f) => fdTable[f] \in Clients
  BY DEF Valid, TypeOK
<1>3. reply \in R
  OBVIOUS
<1> HIDE DEF R
<1>4. \A c \in Clients : Len(replies[c]) \in Nat
  BY <1>1
<1>5. CASE Valid(f)
  <2>1. PICK d \in Clients : d = fdTable[f]
    BY <1>2, <1>5
  <2>2. replies' = [replies EXCEPT ![d] = Append(replies[d], reply)]
    BY <1>5, <2>1 DEF WriteTo
  <2>3. Len(Append(replies[d], reply)) = Len(replies[d]) + 1
    BY <1>1, <1>3, AppendProperties
  <2> QED BY <1>1, <1>4, <2>2, <2>3
<1>6. CASE ~Valid(f)
  BY <1>4, <1>6 DEF WriteTo
<1> QED BY <1>5, <1>6

\* The server neither sends nor shuts down for a client, takes no reply back, and leaves
\* a closed connection closed.
LEMMA ServerGrows ==
  ASSUME TypeInv, ServerStep
  PROVE  /\ UNCHANGED <<sent, ended>>
         /\ \A c \in Clients : /\ Len(replies[c]) \in Nat /\ Len(replies'[c]) \in Nat
                               /\ Len(replies[c]) <= Len(replies'[c])
                               /\ link[c] = "closed" => link'[c] = "closed"
<1> DEFINE Grow == \A c \in Clients : /\ Len(replies[c]) \in Nat /\ Len(replies'[c]) \in Nat
                                      /\ Len(replies[c]) <= Len(replies'[c])
           Stay == \A c \in Clients : link[c] = "closed" => link'[c] = "closed"
           Goal == UNCHANGED <<sent, ended>> /\ Grow /\ Stay
<1>1. ASSUME UNCHANGED replies PROVE Grow
  <2>1. \A c \in Clients : Len(replies[c]) \in Nat
    BY DEF TypeInv, TypeOK
  <2> QED BY <1>1, <2>1
<1>2. ASSUME NEW S, NEW table, Shut(S, table) PROVE Stay
  BY <1>2 DEF Shut
<1>3. ASSUME NEW text \in Seq(AllParts)
      PROVE  Bare(text) \in [name : AllNames \cup {None}, of : Seq(AllParts)]
  BY DEF Bare
<1>4. ASSUME UNCHANGED link PROVE Stay
  BY <1>4
<1>5. ASSUME EpollWait \/ DataToRead \/ AddTask \/ LastEvent \/ RunTask PROVE Goal
  <2>1. UNCHANGED clientVars
    BY <1>5 DEF EpollWait, DataToRead, AddTask, LastEvent, RunTask
  <2> QED BY <1>1, <2>1 DEF clientVars
<1>6. ASSUME Accept \/ AcceptFails PROVE Goal
  <2>1. Stay
    BY <1>6 DEF Accept, AcceptFails, TypeInv, TypeOK
  <2> QED BY <1>1, <1>6, <2>1 DEF Accept, AcceptFails
<1>7. ASSUME NEW k \in Tasks, \/ Read(k) \/ ReadFile(k) \/ ReadFails(k) \/ ReadData(k)
                              \/ ReadEnd(k) \/ Clear(k) \/ Create(k) \/ Open(k)
                              \/ GetLines(k) \/ ReadBack(k)
      PROVE  Goal
  <2>1. UNCHANGED <<link, sent, ended, replies>>
    BY <1>7 DEF Read, ReadFile, ReadFails, ReadData, ReadEnd, Clear, Create, Open, GetLines,
                ReadBack, clientVars
  <2> QED BY <1>1, <2>1
<1>8. ASSUME NEW k \in Tasks, Close(k) PROVE Goal
  <2>1. Stay
    BY <1>2, <1>8 DEF Close, CloseFd
  <2> QED BY <1>1, <1>8, <2>1 DEF Close
<1>9. ASSUME NEW k \in Tasks, Save(k) PROVE Goal
  <2>1. Bare(buf[k]) \in [name : AllNames \cup {None}, of : Seq(AllParts)]
    BY <1>3 DEF TypeInv, TypeOK
  <2>2. Grow
    BY <1>9, <2>1, WriteGrows DEF Save, TypeInv
  <2>3. Stay
    BY <1>2, <1>9 DEF Save
  <2> QED BY <1>9, <2>2, <2>3 DEF Save
<1>10. ASSUME NEW k \in Tasks, CloseStreams(k) PROVE Goal
  <2>1. Bare(parsed[k]) \in [name : AllNames \cup {None}, of : Seq(AllParts)]
    BY <1>3 DEF TypeInv, TypeOK
  <2>2. Grow
    BY <1>10, <2>1, WriteGrows DEF CloseStreams, TypeInv
  <2>3. Stay
    BY <1>2, <1>10 DEF CloseStreams
  <2> QED BY <1>10, <2>2, <2>3 DEF CloseStreams
<1>11. ASSUME NEW k \in Tasks, Write(k) PROVE Goal
  <2>1. Reply(k) \in [name : AllNames \cup {None}, of : Seq(AllParts)]
    BY <1>11, NamesIn DEF Write, At, Reply, OutFile, Busy, TypeInv, TypeOK, PhaseInv
  <2>2. Grow
    BY <1>11, <2>1, WriteGrows DEF Write, TypeInv
  <2>3. Stay
    BY <1>2, <1>11 DEF Write
  <2> QED BY <1>11, <2>2, <2>3 DEF Write
<1> HIDE DEF Grow, Stay, Goal
<1>12. ASSUME NEW k \in Tasks, deal_fun(k) PROVE Goal
  BY <1>7, <1>8, <1>9, <1>10, <1>11, <1>12 DEF deal_fun
<1>13. Goal
  BY <1>5, <1>6, <1>12 DEF ServerStep, Main
<1> QED BY <1>13 DEF Goal, Grow, Stay

------------------------------------------------------------------------------
(* Types *)

\* A client that is to read a line has one.
HasLine(c) == cpc[c] = "input" \/ (cpc[c] = "socket" /\ "stdin" \in rset[c])

SysTypeInv == SysTypeOK /\ \A c \in Clients : HasLine(c) => input[c] # <<>>

LEMMA SysTypeInit == SysInit => SysTypeInv
<1> SUFFICES ASSUME SysInit PROVE SysTypeInv
  OBVIOUS
<1>1. replies = [c \in Clients |-> <<>>]
  BY DEF SysInit, Init
<1> QED BY <1>1, SystemAssumption DEF SysInit, SysTypeInv, SysTypeOK, HasLine

\* The line read was there, and what is left are lines.
LEMMA LineRead ==
  ASSUME SysTypeInv, NEW c \in Clients, NEW line, ReadLine(c, line)
  PROVE  /\ input[c] \in Seq(LineKinds) /\ input[c] # <<>> /\ Head(input[c]) = line
         /\ input' = [input EXCEPT ![c] = Tail(input[c])]
         /\ input' \in [Clients -> Seq(LineKinds)]
<1>1. input[c] \in Seq(LineKinds) /\ input[c] # <<>>
  BY DEF ReadLine, SysTypeInv, SysTypeOK, HasLine
<1>2. Tail(input[c]) \in Seq(LineKinds)
  BY <1>1
<1>3. input' = [input EXCEPT ![c] = Tail(input[c])] /\ Head(input[c]) = line
  BY DEF ReadLine
<1>4. input \in [Clients -> Seq(LineKinds)]
  BY DEF SysTypeInv, SysTypeOK
<1> QED BY <1>1, <1>2, <1>3, <1>4

\* After a line the client selects again.
LEMMA AfterLineType ==
  ASSUME SysTypeInv, TypeInv, NEW c \in Clients, NEW line, ReadLine(c, line), AfterInput(c),
         UNCHANGED replies, stdineof' \in [Clients -> BOOLEAN]
  PROVE  SysTypeInv'
<1>1. /\ input' \in [Clients -> Seq(LineKinds)]
      /\ \A d \in Clients : d # c => input'[d] = input[d]
  BY LineRead DEF SysTypeInv, SysTypeOK
<1>2. /\ cpc' = [cpc EXCEPT ![c] = "select"]
      /\ UNCHANGED <<maxfdpl, rset, typed, taken, saved, replies>>
  BY DEF AfterInput, Turn
<1>3. SysTypeOK'
  BY <1>1, <1>2 DEF SysTypeInv, SysTypeOK
<1>4. \A d \in Clients : HasLine(d)' => d # c /\ HasLine(d)
  BY <1>2 DEF HasLine, SysTypeInv, SysTypeOK
<1> QED BY <1>1, <1>3, <1>4 DEF SysTypeInv

\* Every action keeps them.
LEMMA SysTypeNext ==
  ASSUME TypeInv, SysTypeInv, [SysNext]_sysVars
  PROVE  SysTypeInv'
<1>1. ASSUME NEW c \in Clients, Begin(c) PROVE SysTypeInv'
  <2>1. /\ cpc' = [cpc EXCEPT ![c] = "select"]
        /\ UNCHANGED <<maxfdpl, stdineof, rset, input, typed, taken, saved, replies>>
    BY <1>1 DEF Begin, Turn, Connect
  <2> QED BY <2>1 DEF SysTypeInv, SysTypeOK, HasLine
<1>2. ASSUME NEW c \in Clients, NEW line \in LineKinds, Type(c, line) PROVE SysTypeInv'
  <2>1. /\ input' = [input EXCEPT ![c] = Append(input[c], line)]
        /\ typed' = [typed EXCEPT ![c] = typed[c] + 1]
        /\ UNCHANGED <<vars, cpc, maxfdpl, stdineof, rset, taken, saved>>
    BY <1>2 DEF Type
  <2>2. input[c] \in Seq(LineKinds)
    BY DEF SysTypeInv, SysTypeOK
  <2> DEFINE more == Append(input[c], line)
  <2>3. more \in Seq(LineKinds) /\ more # <<>>
    <3>1. more \in Seq(LineKinds) /\ Len(more) = Len(input[c]) + 1 /\ Len(input[c]) \in Nat
      BY <2>2, AppendProperties
    <3>2. Len(more) # 0
      BY <3>1
    <3> QED BY <3>1, <3>2
  <2>4. UNCHANGED replies
    BY <2>1 DEF vars, clientVars
  <2> HIDE DEF more
  <2>5. /\ input' \in [Clients -> Seq(LineKinds)]
        /\ \A d \in Clients : input'[d] = IF d = c THEN more ELSE input[d]
    <3>1. input \in [Clients -> Seq(LineKinds)]
      BY DEF SysTypeInv, SysTypeOK
    <3>2. input' = [input EXCEPT ![c] = more]
      BY <2>1 DEF more
    <3> QED BY <2>3, <3>1, <3>2
  <2>6. typed' \in [Clients -> Nat]
    BY <2>1 DEF SysTypeInv, SysTypeOK
  <2>7. SysTypeOK'
    BY <2>1, <2>4, <2>5, <2>6 DEF SysTypeInv, SysTypeOK
  <2>8. ASSUME NEW d \in Clients, HasLine(d)' PROVE input'[d] # <<>>
    <3>1. HasLine(d)
      BY <2>1, <2>8 DEF HasLine
    <3>2. input[d] # <<>>
      BY <3>1 DEF SysTypeInv
    <3> QED BY <2>3, <2>5, <3>2
  <2> QED BY <2>7, <2>8 DEF SysTypeInv
<1>3. ASSUME NEW c \in Clients, Select(c) PROVE SysTypeInv'
  <2> DEFINE m == Smaller(NextMax(maxfdpl[c]), SockFd + 1)
  <2>1. /\ maxfdpl' = [maxfdpl EXCEPT ![c] = m]
        /\ rset' = [rset EXCEPT ![c] = Found(c)]
        /\ cpc' = [cpc EXCEPT ![c] = IF "socket" \in Found(c) THEN "socket" ELSE "input"]
        /\ Found(c) # {}
        /\ UNCHANGED <<vars, stdineof, input, typed, taken, saved>>
    BY <1>3 DEF Select, Turn
  <2>2. /\ Found(c) \subseteq {"stdin", "socket"}
        /\ "stdin" \in Found(c) => input[c] # <<>>
    BY DEF Found, Watched
  <2>3. m \in 1..(SockFd + 1)
    <3>1. maxfdpl[c] \in Int
      <4>1. FirstMax \cup 1..(SockFd + 1) \subseteq Int
        BY SystemAssumption DEF SockFd
      <4>2. maxfdpl[c] \in FirstMax \cup 1..(SockFd + 1)
        BY DEF SysTypeInv, SysTypeOK
      <4> QED BY <4>1, <4>2
    <3> QED BY <3>1 DEF Smaller, NextMax, Larger, SockFd
  <2>4. UNCHANGED replies
    BY <2>1 DEF vars, clientVars
  <2> HIDE DEF m
  <2>5. SysTypeOK'
    BY <2>1, <2>2, <2>3, <2>4 DEF SysTypeInv, SysTypeOK
  <2>6. ASSUME NEW d \in Clients, HasLine(d)' PROVE input'[d] # <<>>
    <3>1. CASE d = c
      BY <2>1, <2>2, <2>6, <3>1 DEF SysTypeInv, SysTypeOK, HasLine
    <3>2. CASE d # c
      BY <2>1, <2>6, <3>2 DEF SysTypeInv, SysTypeOK, HasLine
    <3> QED BY <3>1, <3>2
  <2> QED BY <2>5, <2>6 DEF SysTypeInv
<1>4. ASSUME NEW c \in Clients, ReadReplies(c) PROVE SysTypeInv'
  <2>1. PICK n \in 1..Pending(c) :
          /\ saved' = [saved EXCEPT ![c] = Append(saved[c], FileOf(c, n))]
          /\ taken' = [taken EXCEPT ![c] = taken[c] + n]
    BY <1>4 DEF ReadReplies
  <2>2. /\ cpc[c] = "socket"
        /\ cpc' = [cpc EXCEPT ![c] = IF "stdin" \in rset[c] THEN "input" ELSE "select"]
        /\ UNCHANGED <<vars, maxfdpl, stdineof, rset, input, typed>>
    BY <1>4 DEF ReadReplies, AfterSocket, Turn
  <2> DEFINE Replies == [name : AllNames \cup {None}, of : Seq(AllParts)]
  <2>3. replies[c] \in Seq(Replies) /\ taken[c] \in Nat /\ Len(replies[c]) \in Nat
    <3>1. replies[c] \in Seq(Replies)
      BY DEF TypeInv, TypeOK
    <3>2. taken[c] \in Nat
      BY DEF SysTypeInv, SysTypeOK
    <3> HIDE DEF Replies
    <3> QED BY <3>1, <3>2
  <2>4. n \in Nat /\ taken[c] + n <= Len(replies[c])
    BY <2>3 DEF Pending
  <2>5. FileOf(c, n) \in Seq(Replies)
    <3> HIDE DEF Replies
    <3>1. \A i \in (taken[c] + 1)..(taken[c] + n) : replies[c][i] \in Replies
      BY <2>3, <2>4
    <3> QED BY <2>3, <2>4, <3>1, SubSeqProperties DEF FileOf
  <2>6. saved[c] \in Seq(Seq(Replies))
    BY DEF SysTypeInv, SysTypeOK
  <2>7. Append(saved[c], FileOf(c, n)) \in Seq(Seq(Replies))
    <3> HIDE DEF Replies
    <3> QED BY <2>5, <2>6
  <2>8. UNCHANGED replies
    BY <2>2 DEF vars, clientVars
  <2>9. SysTypeOK'
    <3>1. saved' \in [Clients -> Seq(Seq(Replies))]
      BY <2>1, <2>7 DEF SysTypeInv, SysTypeOK
    <3>2. /\ taken' \in [Clients -> Nat]
          /\ \A d \in Clients : taken'[d] <= Len(replies'[d])
      <4>1. /\ taken \in [Clients -> Nat] /\ taken[c] + n \in Nat
            /\ \A d \in Clients : taken[d] <= Len(replies[d])
        BY SMTT(30), ZenonT(40), <2>3, <2>4 DEF SysTypeInv, SysTypeOK
      <4>2. \A d \in Clients : taken'[d] = IF d = c THEN taken[c] + n ELSE taken[d]
        BY <2>1, <4>1
      <4>3. taken' \in [Clients -> Nat]
        BY <2>1, <4>1
      <4> HIDE DEF Replies
      <4> QED BY <2>4, <2>8, <4>1, <4>2, <4>3
    <3> QED BY <2>2, <3>1, <3>2 DEF SysTypeInv, SysTypeOK
  <2>10. \A d \in Clients : HasLine(d)' => HasLine(d)
    BY <2>2 DEF HasLine, SysTypeInv, SysTypeOK
  <2> QED BY <2>2, <2>9, <2>10 DEF SysTypeInv
<1>5. ASSUME NEW c \in Clients, ReadClosed(c) PROVE SysTypeInv'
  <2>1. /\ cpc' = [cpc EXCEPT ![c] = IF stdineof[c] THEN "terminated" ELSE "collapsed"]
        /\ UNCHANGED <<vars, maxfdpl, stdineof, rset, input, typed, taken, saved>>
    BY <1>5 DEF ReadClosed, Turn
  <2>2. UNCHANGED replies
    BY <2>1 DEF vars, clientVars
  <2> QED BY <2>1, <2>2 DEF SysTypeInv, SysTypeOK, HasLine
<1>6. ASSUME NEW c \in Clients, SendFile(c) PROVE SysTypeInv'
  <2>1. ReadLine(c, "file") /\ AfterInput(c) /\ UNCHANGED <<replies, stdineof>>
    BY <1>6 DEF SendFile, Send
  <2> QED BY <2>1, AfterLineType DEF SysTypeInv, SysTypeOK
<1>7. ASSUME NEW c \in Clients, NoSuchFile(c) PROVE SysTypeInv'
  <2>1. ReadLine(c, "none") /\ AfterInput(c) /\ UNCHANGED <<replies, stdineof>>
    BY <1>7 DEF NoSuchFile, vars, clientVars
  <2> QED BY <2>1, AfterLineType DEF SysTypeInv, SysTypeOK
<1>8. ASSUME NEW c \in Clients, EndOfInput(c) PROVE SysTypeInv'
  <2>1. /\ ReadLine(c, "end") /\ AfterInput(c) /\ UNCHANGED replies
        /\ stdineof' = [stdineof EXCEPT ![c] = TRUE]
    BY <1>8 DEF EndOfInput, Shutdown
  <2>2. stdineof' \in [Clients -> BOOLEAN]
    BY <2>1 DEF SysTypeInv, SysTypeOK
  <2> QED BY <2>1, <2>2, AfterLineType
<1>9. ASSUME ServerStep, UNCHANGED cliVars PROVE SysTypeInv'
  <2>1. \A c \in Clients : /\ Len(replies[c]) \in Nat /\ Len(replies'[c]) \in Nat
                           /\ Len(replies[c]) <= Len(replies'[c])
    BY <1>9, ServerGrows
  <2>2. \A c \in Clients : taken[c] \in Nat /\ taken[c] <= Len(replies[c])
    BY DEF SysTypeInv, SysTypeOK
  <2>3. \A c \in Clients : taken[c] <= Len(replies'[c])
    BY <2>1, <2>2
  <2> QED BY <1>9, <2>3 DEF SysTypeInv, SysTypeOK, HasLine, cliVars
<1>10. CASE UNCHANGED sysVars
  BY <1>10 DEF sysVars, cliVars, vars, clientVars, SysTypeInv, SysTypeOK, HasLine
<1> QED BY <1>1, <1>2, <1>3, <1>4, <1>5, <1>6, <1>7, <1>8, <1>9, <1>10 DEF SysNext, str_cli

\* SysTypeOK: types of the client program for any number of clients, who wait or not; in
\* particular maxfdpl, however it began, stays a number that select may be given, and no
\* client takes more replies than it was sent.
THEOREM SystemTypeCorrect == SysSpec => []SysTypeOK
<1>1. SysSpec => []TypeInv
  BY SystemRunsServer, ServerTypeCorrect, PTL
<1>2. TypeInv /\ SysTypeInv /\ [SysNext]_sysVars => SysTypeInv'
  BY SysTypeNext
<1>3. SysTypeInv => SysTypeOK
  BY DEF SysTypeInv
<1>4. SysInit => SysTypeInv
  BY SysTypeInit
<1> QED BY <1>1, <1>2, <1>3, <1>4, PTL DEF SysSpec

------------------------------------------------------------------------------
(* One request at a time *)

\* No task has a part of a request.
Quiet == \A k \in Tasks : step[k] \notin Busy

\* Task k is the only one at work, for the request that c sent last, which it read whole:
\* what it has in its buffer, its files and its parser until it replies.
Serves(k, c) ==
  LET text == Request(c, sent[c])
      f == FileName[<<c, sent[c], 1>>]
      html == OutName[f]
  IN
  /\ step[k] \in Busy
  /\ \A l \in Tasks : l # k => step[l] \notin Busy
  /\ name[k] = f
  /\ buf[k] = IF step[k] = "write" THEN TheReply(c, sent[c]).of ELSE text
  /\ step[k] = "save" => files[f] = <<>>
  /\ step[k] = "open" => files[f] = text
  /\ step[k] = "parse" =>
       IF InPlace(f)
         THEN files[f] = <<>> /\ parsed[k] = <<>>
         ELSE files[f] = text /\ files[html] = <<>> /\ parsed[k] \in {<<>>, text}
  /\ step[k] = "readback" => files[html] = TheReply(c, sent[c]).of

\* Every reply is the right one, and at most the last request is without: it waits in
\* the socket, or a task serves it.
RequestInv(c) ==
  /\ \A i \in DOMAIN replies[c] : replies[c][i] = TheReply(c, i)
  /\ \/ Len(replies[c]) = sent[c] /\ inbox[c] = <<>> /\ Quiet
     \/ /\ Len(replies[c]) + 1 = sent[c]
        /\ \/ inbox[c] = Request(c, sent[c]) /\ Quiet
           \/ inbox[c] = <<>> /\ \E k \in Tasks : Serves(k, c)

\* A line that names a file, or the end of the input, is the only one of its kind, and
\* stands there only while every request has its file.
LinesInv(c) ==
  \A i \in DOMAIN input[c] : input[c][i] # "none" =>
    /\ taken[c] = sent[c] /\ ~stdineof[c]
    /\ \A j \in DOMAIN input[c] : j # i => input[c][j] = "none"

\* The client has read each reply by itself, all of them before it ended its side, and
\* is at the socket only if that has something to read.
ClientInv(c) ==
  /\ taken[c] = Len(saved[c]) /\ sent[c] <= taken[c] + 1
  /\ \A n \in DOMAIN saved[c] : saved[c][n] = <<TheReply(c, n)>>
  /\ LinesInv(c)
  /\ stdineof[c] = ended[c]
  /\ stdineof[c] => taken[c] = sent[c]
  /\ cpc[c] = "socket" => Pending(c) > 0 \/ link[c] = "closed"
  /\ cpc[c] = "terminated" => stdineof[c] /\ link[c] = "closed"
  /\ cpc[c] # "collapsed"

SessionInv == ~strayed /\ \A c \in Clients : RequestInv(c) /\ ClientInv(c)

\* Each request arrives in one read, as client.cpp and server.cpp take for granted.
OneRead == \A n \in 1..MaxRequests : Parts[n] = 1

\* The request is then a single part, whose first line names the file.
LEMMA OneRequest ==
  ASSUME OneRead, NEW c \in Clients, NEW n \in 1..MaxRequests
  PROVE  /\ Request(c, n) = <<(<<c, n, 1>>)>> /\ Request(c, n) \in Seq(AllParts)
         /\ FileName[<<c, n, 1>>] \in Names
<1>1. Parts[n] = 1
  BY DEF OneRead
<1>2. <<c, n, 1>> \in AllParts
  BY <1>1, PartOf
<1> QED BY <1>1, <1>2, RequestIs, NamesIn DEF Request

\* A read of a sequence of one takes it all.
LEMMA TakeOne ==
  ASSUME NEW p
  PROVE  /\ Len(<<p>>) = 1 /\ Head(<<p>>) = p
         /\ SubSeq(<<p>>, 1, 1) = <<p>> /\ SubSeq(<<p>>, 2, 1) = <<>>
<1>1. <<p>> \in Seq({p}) /\ Len(<<p>>) = 1 /\ Head(<<p>>) = p
  OBVIOUS
<1>2. SubSeq(<<p>>, 2, 1) = <<>>
  BY <1>1, SubSeqEmpty
<1>3. SubSeq(<<p>>, 1, Len(<<p>>)) = <<p>>
  BY <1>1, SubSeqFull
<1> QED BY <1>1, <1>2, <1>3

\* Where a task is busy, there is a request to serve and it serves it.
LEMMA BusyServes ==
  ASSUME TypeInv, NEW c \in Clients, RequestInv(c), NEW k \in Tasks, step[k] \in Busy
  PROVE  /\ Serves(k, c) /\ inbox[c] = <<>> /\ Len(replies[c]) + 1 = sent[c]
         /\ sent[c] \in 1..MaxRequests
<1>1. ~Quiet
  BY DEF Quiet
<1>2. PICK l \in Tasks : Serves(l, c)
  BY <1>1 DEF RequestInv
<1>3. l = k
  BY <1>2 DEF Serves
<1>4. Len(replies[c]) + 1 = sent[c] /\ inbox[c] = <<>>
  BY <1>1 DEF RequestInv
<1>5. sent[c] \in 0..MaxRequests /\ Len(replies[c]) \in Nat
  BY DEF TypeInv, TypeOK
<1> QED BY <1>2, <1>3, <1>4, <1>5

\* A step that leaves alone what a busy task has and makes no other busy.
LEMMA RequestSame ==
  ASSUME NEW c \in Clients, RequestInv(c), UNCHANGED <<sent, inbox, replies, files>>,
         \A k \in Tasks :
           /\ step'[k] \in Busy <=> step[k] \in Busy
           /\ step[k] \in Busy => /\ step'[k] = step[k] /\ name'[k] = name[k]
                                  /\ buf'[k] = buf[k] /\ parsed'[k] = parsed[k]
  PROVE  RequestInv(c)'
<1> HIDE DEF Busy
<1>1. Quiet => Quiet'
  BY DEF Quiet
<1>2. ASSUME NEW k \in Tasks, Serves(k, c) PROVE Serves(k, c)'
  BY <1>2 DEF Serves
<1>3. \A i \in DOMAIN replies'[c] : replies'[c][i] = TheReply(c, i)
  BY DEF RequestInv
<1> QED BY <1>1, <1>2, <1>3 DEF RequestInv

\* A step of the busy task, after which it still serves the request.
LEMMA RequestServed ==
  ASSUME NEW c \in Clients, RequestInv(c), UNCHANGED <<sent, inbox, replies>>,
         NEW k \in Tasks, step[k] \in Busy, Serves(k, c)'
  PROVE  RequestInv(c)'
<1>1. ~Quiet
  BY DEF Quiet
<1>2. Len(replies[c]) + 1 = sent[c] /\ inbox[c] = <<>>
  BY <1>1 DEF RequestInv
<1>3. \A i \in DOMAIN replies'[c] : replies'[c][i] = TheReply(c, i)
  BY DEF RequestInv
<1> QED BY <1>2, <1>3 DEF RequestInv

\* The server keeps its part: what it reads is one request, the files and the parser of
\* the one busy task are not another's, and its reply has a connection, for the client
\* has not ended its side.
LEMMA ServerServes ==
  ASSUME OneRead, NEW u, Clients = {u}, TypeInv, StreamsInv, SlotInv, RequestInv(u),
         Len(replies[u]) < sent[u] => ~ended[u], ~strayed, ~strayed', ServerStep
  PROVE  RequestInv(u)'
<1>0. u \in Clients
  OBVIOUS
<1>s. FilesInv /\ \A k \in Tasks : Own(k)
  BY DEF StreamsInv
<1> HIDE DEF RequestInv
<1>1. ASSUME UNCHANGED <<sent, inbox, replies, files, taskVars>> PROVE RequestInv(u)'
  BY <1>0, <1>1, RequestSame DEF taskVars, localVars
<1>2. CASE Main
  BY <1>1, <1>2 DEF Main, EpollWait, Accept, AcceptFails, DataToRead, AddTask, LastEvent, clientVars
<1>3. CASE RunTask
  <2> DEFINE h == Head(queue)
  <2>1. /\ h \in Tasks /\ step[h] = "queued"
        /\ step' = [step EXCEPT ![h] = "read"]
        /\ UNCHANGED <<sent, inbox, replies, files, name, buf, parsed>>
    <3>1. queue # <<>> /\ queue \in Seq(Tasks)
      BY <1>3 DEF RunTask, Start, TypeInv, ServiceOK
    <3>2. h = queue[1] /\ 1 \in 1..Len(queue) /\ h \in Tasks
      BY <3>1
    <3>3. step[h] = "queued"
      BY <3>2 DEF TypeInv, PhaseInv, ServiceOK, Tasks
    <3> QED BY <1>3, <3>2, <3>3 DEF RunTask, Goto, clientVars, localVars
  <2> HIDE DEF h
  <2>2. \A k \in Tasks : step'[k] = IF k = h THEN "read" ELSE step[k]
    BY <2>1 DEF TypeInv, TypeOK
  <2> QED BY <1>0, <2>1, <2>2, RequestSame DEF Busy
<1>4. ASSUME NEW k \in Tasks, NEW here, NEW there, step[k] = here,
             step' = [step EXCEPT ![k] = there], here \notin Busy, there \notin Busy,
             UNCHANGED <<sent, inbox, replies, files>>,
             \A l \in Tasks : l # k => /\ name'[l] = name[l] /\ buf'[l] = buf[l]
                                       /\ parsed'[l] = parsed[l]
      PROVE  RequestInv(u)'
  <2>1. \A l \in Tasks : step'[l] = IF l = k THEN there ELSE step[l]
    BY <1>4 DEF TypeInv, TypeOK
  <2> QED BY <1>0, <1>4, <2>1, RequestSame
<1>5. ASSUME NEW k \in Tasks, Read(k) PROVE RequestInv(u)'
  BY <1>4, <1>5 DEF Read, At, Goto, clientVars, Busy
<1>6. ASSUME NEW k \in Tasks, ReadFails(k) PROVE RequestInv(u)'
  BY <1>4, <1>6 DEF ReadFails, At, Goto, clientVars, localVars, Busy
<1>7. ASSUME NEW k \in Tasks, ReadEnd(k) PROVE RequestInv(u)'
  BY <1>4, <1>7 DEF ReadEnd, At, Goto, clientVars, localVars, Busy
<1>8. ASSUME NEW k \in Tasks, Close(k) PROVE RequestInv(u)'
  BY <1>4, <1>8 DEF Close, At, Goto, localVars, Busy
<1>9. ASSUME NEW k \in Tasks, Clear(k) PROVE RequestInv(u)'
  <2>1. /\ step[k] = "clear" /\ step' = [step EXCEPT ![k] = "returned"]
        /\ UNCHANGED <<sent, inbox, replies, files>>
        /\ name' = [name EXCEPT ![k] = None] /\ buf' = [buf EXCEPT ![k] = <<>>]
        /\ parsed' = [parsed EXCEPT ![k] = <<>>]
    BY <1>9 DEF Clear, At, Return, Goto, clientVars
  <2> QED BY <1>4, <2>1 DEF Busy, TypeInv, TypeOK
<1>10. ASSUME NEW k \in Tasks, ReadData(k) PROVE RequestInv(u)'
  <2>1. conn[k] = u /\ step[k] = "reading"
    BY <1>10 DEF ReadData, At, TypeInv, PhaseInv
  <2>2. PICK n \in 1..Len(inbox[u]) :
          /\ buf' = [buf EXCEPT ![k] = SubSeq(inbox[u], 1, n)]
          /\ name' = [name EXCEPT ![k] = FileName[Head(inbox[u])]]
          /\ inbox' = [inbox EXCEPT ![u] = SubSeq(inbox[u], n + 1, Len(inbox[u]))]
    BY <1>10, <2>1 DEF ReadData
  <2>3. /\ step' = [step EXCEPT ![k] = "create"]
        /\ UNCHANGED <<sent, replies, parsed, files>>
    BY <1>10 DEF ReadData, Goto
  <2>4. inbox[u] # <<>>
    BY <2>2
  <2>5. /\ inbox[u] = Request(u, sent[u]) /\ Quiet /\ Len(replies[u]) + 1 = sent[u]
        /\ \A i \in DOMAIN replies[u] : replies[u][i] = TheReply(u, i)
    BY <2>4 DEF RequestInv
  <2>6. sent[u] \in 1..MaxRequests
    BY <2>5 DEF TypeInv, TypeOK
  <2>7. inbox[u] = <<(<<u, sent[u], 1>>)>>
    BY <1>0, <2>5, <2>6, OneRequest
  <2>8. /\ Len(inbox[u]) = 1 /\ Head(inbox[u]) = <<u, sent[u], 1>>
        /\ SubSeq(inbox[u], 1, 1) = inbox[u] /\ SubSeq(inbox[u], 2, 1) = <<>>
    BY <2>7, TakeOne
  <2>9. n = 1 /\ n + 1 = 2
    BY <2>2, <2>8
  <2>10. inbox'[u] = <<>> /\ buf'[k] = inbox[u] /\ name'[k] = FileName[<<u, sent[u], 1>>]
    <3>1. inbox' = [inbox EXCEPT ![u] = <<>>]
      BY <2>2, <2>8, <2>9
    <3>2. buf' = [buf EXCEPT ![k] = inbox[u]]
      BY <2>2, <2>8, <2>9
    <3>3. name' = [name EXCEPT ![k] = FileName[<<u, sent[u], 1>>]]
      BY <2>2, <2>8
    <3> QED BY <1>0, <3>1, <3>2, <3>3 DEF TypeInv, TypeOK
  <2>11. /\ step'[k] = "create"
         /\ \A l \in Tasks : l # k => step'[l] \notin Busy
    BY <2>3, <2>5 DEF Quiet, TypeInv, TypeOK
  <2>12. Serves(k, u)'
    BY <2>3, <2>5, <2>10, <2>11 DEF Serves, Busy
  <2> QED BY <2>3, <2>5, <2>10, <2>12 DEF RequestInv
<1>11. ASSUME NEW k \in Tasks, step[k] \in Busy, NEW there, there \in Busy,
              step' = [step EXCEPT ![k] = there],
              UNCHANGED <<sent, inbox, replies, name>>,
              LET text == Request(u, sent[u])
                  f == FileName[<<u, sent[u], 1>>]
                  html == OutName[f]
              IN  Serves(k, u) =>
                    /\ buf'[k] = IF there = "write" THEN TheReply(u, sent[u]).of ELSE text
                    /\ there = "save" => files'[f] = <<>>
                    /\ there = "open" => files'[f] = text
                    /\ there = "parse" =>
                         IF InPlace(f)
                           THEN files'[f] = <<>> /\ parsed'[k] = <<>>
                           ELSE files'[f] = text /\ files'[html] = <<>> /\ parsed'[k] \in {<<>>, text}
                    /\ there = "readback" => files'[html] = TheReply(u, sent[u]).of
       PROVE  RequestInv(u)'
  <2>1. Serves(k, u)
    BY <1>0, <1>11, BusyServes
  <2>2. \A l \in Tasks : step'[l] = IF l = k THEN there ELSE step[l]
    BY <1>11 DEF TypeInv, TypeOK
  <2>3. Serves(k, u)'
    BY <1>11, <2>1, <2>2 DEF Serves
  <2> QED BY <1>0, <1>11, <2>3, RequestServed
<1> DEFINE f == FileName[<<u, sent[u], 1>>]
           html == OutName[f]
           text == Request(u, sent[u])
<1>12. ASSUME NEW k \in Tasks, step[k] \in Busy
       PROVE  /\ Serves(k, u) /\ name[k] = f /\ f \in AllNames /\ html \in AllNames
              /\ text \in Seq(AllParts)
              /\ TheReply(u, sent[u]) = [name |-> html, of |-> IF InPlace(f) THEN <<>> ELSE text]
  <2>1. Serves(k, u) /\ sent[u] \in 1..MaxRequests
    BY <1>0, <1>12, BusyServes
  <2>2. f \in Names /\ text \in Seq(AllParts)
    BY <1>0, <2>1, OneRequest
  <2> QED BY <2>1, <2>2, NamesIn DEF Serves, TheReply
<1>13. ASSUME NEW k \in Tasks, Create(k) PROVE RequestInv(u)'
  <2>1. /\ step[k] = "create" /\ step' = [step EXCEPT ![k] = "save"]
        /\ files' = [files EXCEPT ![name[k]] = <<>>]
        /\ UNCHANGED <<sent, inbox, replies, name, buf, parsed>>
    BY <1>13 DEF Create, At, Truncate, Goto, clientVars
  <2>2. files'[f] = <<>>
    BY <1>12, <2>1 DEF Busy, TypeInv, TypeOK
  <2> QED BY <1>11, <2>1, <2>2 DEF Serves, Busy
<1>14. ASSUME NEW k \in Tasks, Save(k) PROVE RequestInv(u)'
  <2>1. /\ step[k] = "save" /\ step' = [step EXCEPT ![k] = "open"]
        /\ files' = [files EXCEPT ![name[k]] = Overwrite(files[name[k]], 0, buf[k])]
        /\ UNCHANGED <<sent, inbox, replies, name, buf, parsed>>
    <3>1. /\ UNCHANGED replies
          /\ files' = [files EXCEPT ![name[k]] = Overwrite(files[name[k]], 0, buf[k])]
      BY <1>14, <1>s, SaveIs
    <3> QED BY <1>14, <3>1 DEF Save, At, Goto
  <2>2. files[f] = <<>> /\ buf[k] = text /\ name[k] = f /\ text \in Seq(AllParts) /\ f \in AllNames
    BY <1>12, <2>1 DEF Serves, Busy
  <2>3. Overwrite(files[f], 0, buf[k]) = text
    <3>1. <<>> \in Seq(AllParts)
      OBVIOUS
    <3> QED BY SMTT(30), ZenonT(40), <2>2, <3>1, OverwriteIs
  <2>4. files'[f] = text
    BY <2>1, <2>2, <2>3 DEF TypeInv, TypeOK
  <2> QED BY <1>11, <2>1, <2>2, <2>4 DEF Busy
<1>15. ASSUME NEW k \in Tasks, Open(k) PROVE RequestInv(u)'
  <2>1. /\ step[k] = "open" /\ step' = [step EXCEPT ![k] = "parse"]
        /\ files' = [files EXCEPT ![OutName[name[k]]] = <<>>]
        /\ UNCHANGED <<sent, inbox, replies, name, buf, parsed>>
    BY <1>15 DEF Open, At, Truncate, OutFile, Goto, clientVars
  <2>2. /\ files[f] = text /\ buf[k] = text /\ name[k] = f /\ f \in AllNames /\ html \in AllNames
        /\ parsed[k] = <<>>
    BY <1>12, <2>1 DEF Serves, Busy, TypeInv, PhaseInv
  <2>3. files'[html] = <<>> /\ (~InPlace(f) => files'[f] = text)
    BY <2>1, <2>2 DEF InPlace, TypeInv, TypeOK
  <2>4. InPlace(f) => html = f
    BY DEF InPlace
  <2> QED BY <1>11, <2>1, <2>2, <2>3, <2>4 DEF Busy
<1>16. ASSUME NEW k \in Tasks, step[k] = "parse"
       PROVE  /\ name[k] = f /\ buf[k] = text /\ text \in Seq(AllParts) /\ html \in AllNames
              /\ InPlace(f) => Unread(k) = <<>> /\ parsed[k] = <<>> /\ files[f] = <<>> /\ html = f
              /\ ~InPlace(f) => /\ files[f] = text /\ files[html] = <<>>
                                /\ \/ parsed[k] = <<>> /\ Unread(k) = text
                                   \/ parsed[k] = text /\ Unread(k) = <<>>
  <2>1. /\ name[k] = f /\ buf[k] = text /\ text \in Seq(AllParts) /\ html \in AllNames
        /\ IF InPlace(f)
             THEN files[f] = <<>> /\ parsed[k] = <<>>
             ELSE files[f] = text /\ files[html] = <<>> /\ parsed[k] \in {<<>>, text}
    BY <1>12, <1>16 DEF Serves, Busy
  <2> HIDE DEF f, html, text
  <2>2. Unread(k) = SubSeq(files[f], Len(parsed[k]) + 1, Len(files[f]))
    BY <2>1 DEF Unread
  <2>3. SubSeq(<<>>, Len(<<>>) + 1, Len(<<>>)) = <<>>
    OBVIOUS
  <2>4. SubSeq(text, Len(text) + 1, Len(text)) = <<>>
    BY <2>1, SubSeqEmpty
  <2>5. SubSeq(text, Len(<<>>) + 1, Len(text)) = text
    BY <2>1
  <2>6. CASE InPlace(f)
    BY <2>1, <2>2, <2>3, <2>6 DEF InPlace, html
  <2>7. CASE ~InPlace(f)
    BY <2>1, <2>2, <2>4, <2>5, <2>7
  <2> QED BY <2>1, <2>6, <2>7
<1>17. ASSUME NEW k \in Tasks, GetLines(k) PROVE RequestInv(u)'
  <2>1. /\ step[k] = "parse" /\ Unread(k) # <<>>
        /\ parsed' = [parsed EXCEPT ![k] = parsed[k] \o Unread(k)]
        /\ UNCHANGED <<step, sent, inbox, replies, name, buf, files>>
    <3>1. /\ inbox' = inbox /\ Unread(k) # <<>>
          /\ parsed' = [parsed EXCEPT ![k] = parsed[k] \o Unread(k)]
      BY <1>17, <1>s, GetLinesIs
    <3> QED BY <1>17, <3>1 DEF GetLines, At
  <2>2. ~InPlace(f) /\ parsed[k] = <<>> /\ Unread(k) = text /\ files[f] = text /\ files[html] = <<>>
    BY <1>16, <2>1
  <2>3. parsed'[k] = text
    BY <2>1, <2>2, ConcatEmptySeq, <1>16 DEF TypeInv, TypeOK
  <2>4. step' = [step EXCEPT ![k] = "parse"]
    BY <2>1 DEF TypeInv, TypeOK
  <2> QED BY <1>11, <1>16, <2>1, <2>2, <2>3, <2>4 DEF Busy
<1>18. ASSUME NEW k \in Tasks, CloseStreams(k) PROVE RequestInv(u)'
  <2>1. /\ step[k] = "parse" /\ Unread(k) = <<>> /\ step' = [step EXCEPT ![k] = "readback"]
        /\ files' = [files EXCEPT ![OutName[name[k]]] =
                       Overwrite(files[OutName[name[k]]], 0, parsed[k])]
        /\ UNCHANGED <<sent, inbox, replies, name, buf, parsed>>
    <3>1. /\ UNCHANGED replies /\ Unread(k) = <<>>
          /\ files' = [files EXCEPT ![OutName[name[k]]] =
                         Overwrite(files[OutName[name[k]]], 0, parsed[k])]
      BY <1>18, <1>s, CloseStreamsIs
    <3> QED BY <1>18, <3>1 DEF CloseStreams, At, Goto
  <2>2. /\ parsed[k] = IF InPlace(f) THEN <<>> ELSE text
        /\ files[html] = <<>> /\ html \in AllNames /\ html = OutName[name[k]]
    <3>1. \/ InPlace(f) /\ parsed[k] = <<>> /\ files[html] = <<>>
          \/ ~InPlace(f) /\ parsed[k] = text /\ files[html] = <<>>
      <4> HIDE DEF text, f, html
      <4> QED BY <1>16, <2>1
    <3> QED BY <1>16, <2>1, <3>1
  <2>3. Overwrite(files[html], 0, parsed[k]) = parsed[k]
    <3>1. <<>> \in Seq(AllParts) /\ parsed[k] \in Seq(AllParts)
      BY DEF TypeInv, TypeOK
    <3> HIDE DEF html
    <3> QED BY SMTT(30), ZenonT(40), <2>2, <3>1, OverwriteIs
  <2>4. files'[html] = parsed[k]
    BY <1>16, <2>1, <2>2, <2>3 DEF TypeInv, TypeOK
  <2>5. files'[html] = TheReply(u, sent[u]).of
    BY <1>12, <2>1, <2>2, <2>4 DEF Busy
  <2> QED BY <1>11, <1>16, <2>1, <2>5 DEF Busy
<1>19. ASSUME NEW k \in Tasks, ReadBack(k) PROVE RequestInv(u)'
  <2>1. /\ step[k] = "readback" /\ step' = [step EXCEPT ![k] = "write"]
        /\ buf' = [buf EXCEPT ![k] = files[OutName[name[k]]]]
        /\ UNCHANGED <<sent, inbox, replies, name, parsed, files>>
    BY <1>19 DEF ReadBack, At, OutFile, Goto, clientVars
  <2>2. buf'[k] = TheReply(u, sent[u]).of
    BY <1>12, <2>1 DEF Serves, Busy, TypeInv, TypeOK
  <2> QED BY <1>11, <2>1, <2>2 DEF Busy
<1>20. ASSUME NEW k \in Tasks, Write(k) PROVE RequestInv(u)'
  <2>1. /\ step[k] = "write" /\ step' = [step EXCEPT ![k] = "returned"]
        /\ UNCHANGED <<sent, inbox>>
    BY <1>20 DEF Write, At, Return, Goto
  <2>2. /\ Serves(k, u) /\ inbox[u] = <<>> /\ Len(replies[u]) + 1 = sent[u]
        /\ Reply(k) = TheReply(u, sent[u])
    BY SMTT(30), ZenonT(40), <1>0, <1>12, <2>1, BusyServes DEF Serves, Busy, Reply, OutFile
  <2>3. Valid(rfd) /\ fdTable[rfd] = u
    <3>1. ~AnyEnded
      BY <2>2 DEF AnyEnded, TypeInv, TypeOK
    <3>2. submitted > 0
      BY <2>1 DEF TypeInv, ServiceOK, PhaseInv, Tasks
    <3>3. Valid(rfd)
      BY <3>1, <3>2 DEF SlotInv
    <3> QED BY <3>3 DEF Valid, TypeInv, TypeOK
  <2>4. replies' = [replies EXCEPT ![u] = Append(replies[u], Reply(k))]
    BY <1>20, <1>s, <2>3, WriteIs
  <2> DEFINE R == [name : AllNames \cup {None}, of : Seq(AllParts)]
  <2>5. replies[u] \in Seq(R) /\ replies'[u] = Append(replies[u], Reply(k))
    BY <2>4 DEF TypeInv, TypeOK
  <2>6. Reply(k) \in R
    BY <2>1, NamesIn DEF Reply, OutFile, Busy, TypeInv, TypeOK, PhaseInv
  <2> HIDE DEF R
  <2>7. /\ Len(replies'[u]) = Len(replies[u]) + 1 /\ DOMAIN replies'[u] = 1..(Len(replies[u]) + 1)
        /\ Len(replies[u]) \in Nat /\ DOMAIN replies[u] = 1..Len(replies[u])
        /\ \A i \in 1..Len(replies[u]) : replies'[u][i] = replies[u][i]
        /\ replies'[u][Len(replies[u]) + 1] = Reply(k)
    BY <2>5, <2>6, AppendProperties
  <2>8. \A i \in DOMAIN replies'[u] : replies'[u][i] = TheReply(u, i)
    <3>1. \A i \in DOMAIN replies[u] : replies[u][i] = TheReply(u, i)
      BY DEF RequestInv
    <3>2. \A i \in DOMAIN replies'[u] : i \in DOMAIN replies[u] \/ i = Len(replies[u]) + 1
      BY <2>7
    <3> QED BY <2>2, <2>7, <3>1, <3>2
  <2>9. Quiet'
    <3>1. \A l \in Tasks : step'[l] = IF l = k THEN "returned" ELSE step[l]
      BY <2>1 DEF TypeInv, TypeOK
    <3> QED BY <2>2, <3>1 DEF Quiet, Serves, Busy
  <2> QED BY <2>1, <2>2, <2>7, <2>8, <2>9 DEF RequestInv
<1>21. ASSUME NEW k \in Tasks, ReadFile(k) PROVE RequestInv(u)'
  BY <1>21 DEF ReadFile, Strays
<1> QED
  BY <1>2, <1>3, <1>5, <1>6, <1>7, <1>8, <1>9, <1>10, <1>13, <1>14, <1>15, <1>17, <1>18, <1>19,
     <1>20, <1>21 DEF ServerStep, deal_fun

\* No reply without a request, and none but the last request without a reply.
LEMMA RepliesCount ==
  ASSUME TypeInv, SysTypeInv, NEW c \in Clients, RequestInv(c), ClientInv(c)
  PROVE  /\ sent[c] \in 0..MaxRequests /\ taken[c] \in Nat /\ Len(replies[c]) \in Nat
         /\ taken[c] <= Len(replies[c]) /\ Len(replies[c]) <= sent[c] /\ sent[c] <= taken[c] + 1
         /\ Pending(c) = Len(replies[c]) - taken[c]
<1>1. sent[c] \in 0..MaxRequests /\ Len(replies[c]) \in Nat
  BY DEF TypeInv, TypeOK
<1>2. taken[c] \in Nat /\ taken[c] <= Len(replies[c])
  BY DEF SysTypeInv, SysTypeOK
<1>3. sent[c] <= taken[c] + 1
  BY DEF ClientInv
<1>4. Len(replies[c]) = sent[c] \/ Len(replies[c]) + 1 = sent[c]
  BY DEF RequestInv
<1> QED BY <1>1, <1>2, <1>3, <1>4 DEF Pending

\* Lines that the user typed and the client did not read, after the first is read.
LEMMA LinesRead ==
  ASSUME SysTypeInv, NEW c \in Clients, LinesInv(c), NEW line, ReadLine(c, line)
  PROVE  /\ input[c] # <<>> /\ Head(input[c]) = line /\ input'[c] = Tail(input[c])
         /\ line # "none" => /\ taken[c] = sent[c] /\ ~stdineof[c]
                             /\ \A i \in DOMAIN input'[c] : input'[c][i] = "none"
         /\ UNCHANGED <<taken, sent, stdineof>> => LinesInv(c)'
<1>1. /\ input[c] \in Seq(LineKinds) /\ input[c] # <<>> /\ Head(input[c]) = line
      /\ input'[c] = Tail(input[c])
  BY LineRead DEF SysTypeInv, SysTypeOK
<1> DEFINE s == input[c]
<1>2. /\ Len(s) \in Nat /\ 1 \in 1..Len(s) /\ s[1] = line /\ DOMAIN s = 1..Len(s)
      /\ DOMAIN Tail(s) = 1..(Len(s) - 1)
      /\ \A i \in 1..(Len(s) - 1) : Tail(s)[i] = s[i + 1] /\ i + 1 \in 1..Len(s) /\ i + 1 # 1
  BY <1>1
<1>3. \A i, j \in 1..(Len(s) - 1) : i # j => i + 1 # j + 1
  BY <1>2
<1> HIDE DEF s
<1>4. \A i \in DOMAIN s : s[i] # "none" =>
        taken[c] = sent[c] /\ ~stdineof[c] /\ \A j \in DOMAIN s : j # i => s[j] = "none"
  BY DEF LinesInv, s
<1>5. \A i \in DOMAIN Tail(s) : Tail(s)[i] # "none" =>
        /\ taken[c] = sent[c] /\ ~stdineof[c]
        /\ \A j \in DOMAIN Tail(s) : j # i => Tail(s)[j] = "none"
  BY <1>2, <1>3, <1>4
<1>6. line # "none" => /\ taken[c] = sent[c] /\ ~stdineof[c]
                       /\ \A i \in DOMAIN Tail(s) : Tail(s)[i] = "none"
  BY <1>2, <1>4
<1> QED BY <1>1, <1>5, <1>6 DEF LinesInv, s

\* A cut of one entry.
LEMMA OneEntry ==
  ASSUME NEW S, NEW s \in Seq(S), NEW m \in DOMAIN s
  PROVE  SubSeq(s, m, m) = <<s[m]>>
<1>1. PICK n \in Int : n = m
  OBVIOUS
<1>2. \A i \in m..n : s[i] \in S
  BY <1>1
<1>3. /\ SubSeq(s, m, n) \in Seq(S) /\ Len(SubSeq(s, m, n)) = IF m <= n THEN n - m + 1 ELSE 0
      /\ \A i \in 1..(n - m + 1) : SubSeq(s, m, n)[i] = s[m + i - 1]
  BY <1>2, SubSeqProperties
<1> DEFINE one == SubSeq(s, m, n)
<1> HIDE DEF one
<1>4. one \in Seq(S) /\ Len(one) = 1 /\ one[1] = s[m]
  BY <1>1, <1>3 DEF one
<1>5. one = <<s[m]>>
  BY <1>4
<1> QED BY <1>1, <1>5 DEF one

\* The one reply that is there makes the next file.
LEMMA NextFile ==
  ASSUME TypeInv, SysTypeInv, NEW c \in Clients, RequestInv(c), ClientInv(c),
         NEW n \in 1..Pending(c)
  PROVE  /\ n = 1 /\ Len(saved[c]) = taken[c] /\ taken[c] + 1 = sent[c]
         /\ Len(replies[c]) = sent[c] /\ FileOf(c, n) = <<TheReply(c, sent[c])>>
<1>1. n = 1 /\ taken[c] + 1 = sent[c] /\ Len(replies[c]) = sent[c] /\ sent[c] \in 1..MaxRequests
  BY RepliesCount
<1>2. Len(saved[c]) = taken[c]
  BY DEF ClientInv
<1> DEFINE R == [name : AllNames \cup {None}, of : Seq(AllParts)]
<1>3. replies[c] \in Seq(R)
  BY DEF TypeInv, TypeOK
<1> HIDE DEF R
<1>4. sent[c] \in DOMAIN replies[c] /\ replies[c][sent[c]] \in R
  BY <1>1, <1>3
<1>5. replies[c][sent[c]] = TheReply(c, sent[c])
  BY <1>4 DEF RequestInv
<1>6. FileOf(c, n) = SubSeq(replies[c], sent[c], sent[c])
  BY <1>1 DEF FileOf
<1>7. SubSeq(replies[c], sent[c], sent[c]) = <<replies[c][sent[c]]>>
  BY <1>3, <1>4, OneEntry
<1> QED BY <1>1, <1>2, <1>5, <1>6, <1>7

\* A client that ended its side has every reply, and nothing is on its way.
LEMMA QuietAtEnd ==
  ASSUME TypeInv, SysTypeInv, SessionInv
  PROVE  QuietInv
<1> SUFFICES ASSUME NEW c \in Clients, ended[c]
             PROVE  inbox[c] = <<>> /\ \A k \in Tasks : step[k] \notin Busy
  BY DEF QuietInv
<1>1. RequestInv(c) /\ ClientInv(c)
  BY DEF SessionInv
<1>2. taken[c] = sent[c]
  BY <1>1 DEF ClientInv
<1>3. Len(replies[c]) = sent[c] /\ sent[c] \in Nat
  BY <1>1, <1>2, RepliesCount
<1>4. Len(replies[c]) + 1 # sent[c]
  BY <1>3
<1> QED BY <1>1, <1>4 DEF RequestInv, Quiet

\* What a step leaves alone keeps the client's part.
LEMMA ClientSame ==
  ASSUME NEW c \in Clients, ClientInv(c),
         UNCHANGED <<taken, saved, sent, ended, input, stdineof, cpc>>,
         Pending(c) > 0 => Pending(c)' > 0, link[c] = "closed" => link'[c] = "closed"
  PROVE  ClientInv(c)'
<1>1. LinesInv(c) => LinesInv(c)'
  BY DEF LinesInv
<1> QED BY <1>1 DEF ClientInv

\* One client and the server keep SessionInv.
LEMMA SessionKept ==
  ASSUME OneRead, NEW u, Clients = {u}, TypeInv, StreamsInv, OpenInv, SysTypeInv, SessionInv,
         [SysNext]_sysVars
  PROVE  SessionInv'
<1>0. u \in Clients /\ RequestInv(u) /\ ClientInv(u) /\ ~strayed /\ SlotInv
  BY DEF SessionInv, OpenInv
<1>1. /\ sent[u] \in 0..MaxRequests /\ taken[u] \in Nat /\ Len(replies[u]) \in Nat
      /\ taken[u] <= Len(replies[u]) /\ Len(replies[u]) <= sent[u] /\ sent[u] <= taken[u] + 1
      /\ Pending(u) = Len(replies[u]) - taken[u]
  BY <1>0, RepliesCount
<1>s. ~strayed'
  <2>1. QuietInv
    BY QuietAtEnd
  <2>2. [Next]_vars
    BY StepOfServer
  <2> QED BY <1>0, <2>1, <2>2, NoneStrays
<1> SUFFICES RequestInv(u)' /\ ClientInv(u)'
  BY <1>s DEF SessionInv
<1>2. ASSUME UNCHANGED vars PROVE RequestInv(u)'
  BY <1>0, <1>2, RequestSame DEF vars, clientVars, taskVars, localVars
<1>3. ASSUME Begin(u) PROVE RequestInv(u)' /\ ClientInv(u)'
  <2>1. /\ cpc' = [cpc EXCEPT ![u] = "select"] /\ link[u] = "none"
        /\ UNCHANGED <<sent, ended, inbox, replies, taskVars, files>>
        /\ UNCHANGED <<stdineof, input, taken, saved>>
    BY <1>3 DEF Begin, Turn, Connect
  <2>2. RequestInv(u)'
    BY <1>0, <2>1, RequestSame DEF taskVars, localVars
  <2>3. cpc'[u] = "select"
    BY <2>1 DEF SysTypeInv, SysTypeOK
  <2>4. ClientInv(u)'
    BY <1>0, <2>1, <2>3 DEF ClientInv, LinesInv
  <2> QED BY <2>2, <2>4
<1>4. ASSUME NEW line \in LineKinds, Type(u, line) PROVE RequestInv(u)' /\ ClientInv(u)'
  <2>1. /\ ~stdineof[u] /\ (line # "none" => Served(u))
        /\ input' = [input EXCEPT ![u] = Append(input[u], line)]
        /\ UNCHANGED <<vars, cpc, stdineof, taken, saved>>
    BY <1>4 DEF Type
  <2>2. UNCHANGED <<link, sent, ended, replies>>
    BY <2>1 DEF vars, clientVars
  <2>3. LinesInv(u)'
    <3> DEFINE s == input[u]
               t == Append(s, line)
    <3>1. s \in Seq(LineKinds) /\ input'[u] = t
      BY <2>1 DEF SysTypeInv, SysTypeOK
    <3> HIDE DEF s
    <3>2. /\ Len(s) \in Nat /\ DOMAIN s = 1..Len(s) /\ DOMAIN t = 1..(Len(s) + 1)
          /\ \A i \in 1..Len(s) : t[i] = s[i]
          /\ t[Len(s) + 1] = line
      BY <3>1, AppendProperties
    <3> HIDE DEF t
    <3>3. \A i \in DOMAIN t : \/ i \in DOMAIN s /\ t[i] = s[i]
                              \/ i = Len(s) + 1 /\ t[i] = line
      BY <3>2
    <3>4. CASE line = "none"
      BY <1>0, <2>1, <2>2, <3>1, <3>3, <3>4 DEF ClientInv, LinesInv, s
    <3>5. CASE line # "none"
      <4>1. (\A i \in DOMAIN s : s[i] = "none") /\ Len(saved[u]) >= sent[u]
        BY <2>1, <3>5 DEF Served, s
      <4>2. taken[u] = sent[u]
        BY <1>0, <1>1, <4>1 DEF ClientInv
      <4>3. \A i \in DOMAIN t : t[i] # "none" => \A j \in DOMAIN t : j # i => t[j] = "none"
        BY <3>3, <4>1
      <4> QED BY <2>1, <2>2, <3>1, <4>2, <4>3 DEF LinesInv
    <3> QED BY <3>4, <3>5
  <2>4. ClientInv(u)'
    BY <1>0, <2>1, <2>2, <2>3 DEF ClientInv, Pending
  <2> QED BY <1>2, <2>1, <2>4
<1>5. ASSUME Select(u) PROVE RequestInv(u)' /\ ClientInv(u)'
  <2>1. /\ cpc' = [cpc EXCEPT ![u] = IF "socket" \in Found(u) THEN "socket" ELSE "input"]
        /\ UNCHANGED <<vars, stdineof, input, taken, saved>>
    BY <1>5 DEF Select, Turn
  <2>2. "socket" \in Found(u) => Pending(u) > 0 \/ link[u] = "closed"
    BY DEF Found, SocketReadable
  <2>3. cpc'[u] \in {"socket", "input"} /\ (cpc'[u] = "socket" => "socket" \in Found(u))
    BY <2>1 DEF SysTypeInv, SysTypeOK
  <2>4. UNCHANGED <<link, sent, ended, replies>>
    BY <2>1 DEF vars, clientVars
  <2>5. ClientInv(u)'
    BY <1>0, <2>1, <2>2, <2>3, <2>4 DEF ClientInv, LinesInv, Pending
  <2> QED BY <1>2, <2>1, <2>5
<1>6. ASSUME ReadReplies(u) PROVE RequestInv(u)' /\ ClientInv(u)'
  <2>1. PICK n \in 1..Pending(u) :
          /\ saved' = [saved EXCEPT ![u] = Append(saved[u], FileOf(u, n))]
          /\ taken' = [taken EXCEPT ![u] = taken[u] + n]
    BY <1>6 DEF ReadReplies
  <2>2. /\ cpc' = [cpc EXCEPT ![u] = IF "stdin" \in rset[u] THEN "input" ELSE "select"]
        /\ UNCHANGED <<vars, stdineof, input>>
    BY <1>6 DEF ReadReplies, AfterSocket, Turn
  <2>3. UNCHANGED <<link, sent, ended, replies>>
    BY <2>2 DEF vars, clientVars
  <2>4. /\ n = 1 /\ Len(saved[u]) = taken[u] /\ taken[u] + 1 = sent[u]
        /\ FileOf(u, n) = <<TheReply(u, sent[u])>>
    BY <1>0, NextFile
  <2>5. cpc'[u] \in {"input", "select"} /\ taken'[u] = sent[u]
    BY <2>1, <2>2, <2>4 DEF SysTypeInv, SysTypeOK
  <2> DEFINE S == Seq([name : AllNames \cup {None}, of : Seq(AllParts)])
             s == saved[u]
             t == Append(s, FileOf(u, n))
  <2>6. s \in Seq(S) /\ saved'[u] = t
    BY <2>1 DEF SysTypeInv, SysTypeOK
  <2> HIDE DEF S, s
  <2>7. /\ Len(s) \in Nat /\ DOMAIN s = 1..Len(s) /\ DOMAIN t = 1..(Len(s) + 1)
        /\ Len(t) = Len(s) + 1
        /\ \A i \in 1..Len(s) : t[i] = s[i]
        /\ t[Len(s) + 1] = FileOf(u, n)
    BY <2>6
  <2> HIDE DEF t
  <2>8. \A i \in DOMAIN t : t[i] = <<TheReply(u, i)>>
    <3>1. \A i \in DOMAIN s : s[i] = <<TheReply(u, i)>>
      BY <1>0 DEF ClientInv, s
    <3>2. \A i \in DOMAIN t : i \in DOMAIN s \/ i = Len(s) + 1
      BY <2>7
    <3>3. Len(s) + 1 = sent[u]
      BY <2>4 DEF s
    <3> QED BY <2>4, <2>7, <3>1, <3>2, <3>3
  <2>9. taken[u] # sent[u]
    BY <1>1, <2>4
  <2>10. LinesInv(u)'
    BY <1>0, <2>2, <2>9 DEF ClientInv, LinesInv
  <2>11. ~stdineof[u]
    BY <1>0, <2>9 DEF ClientInv
  <2>12. Len(t) = sent[u] /\ sent[u] <= sent[u] + 1
    BY <1>1, <2>4, <2>7 DEF s
  <2>13. ClientInv(u)'
    BY <1>0, <2>2, <2>3, <2>5, <2>6, <2>8, <2>10, <2>11, <2>12 DEF ClientInv
  <2> QED BY <1>2, <2>2, <2>13
<1>7. ASSUME ReadClosed(u) PROVE RequestInv(u)' /\ ClientInv(u)'
  <2>1. /\ cpc[u] = "socket" /\ Pending(u) = 0
        /\ cpc' = [cpc EXCEPT ![u] = IF stdineof[u] THEN "terminated" ELSE "collapsed"]
        /\ UNCHANGED <<vars, stdineof, input, taken, saved>>
    BY <1>7 DEF ReadClosed, Turn
  <2>2. link[u] = "closed"
    BY <1>0, <2>1 DEF ClientInv
  <2>3. stdineof[u]
    BY <1>0, <2>2 DEF OpenInv, AnyEnded, ClientInv
  <2>4. UNCHANGED <<link, sent, ended, replies>>
    BY <2>1 DEF vars, clientVars
  <2>5. cpc'[u] = "terminated"
    BY <2>1, <2>3 DEF SysTypeInv, SysTypeOK
  <2>6. ClientInv(u)'
    BY <1>0, <2>1, <2>2, <2>3, <2>4, <2>5 DEF ClientInv, LinesInv
  <2> QED BY <1>2, <2>1, <2>6
<1>8. ASSUME SendFile(u) PROVE RequestInv(u)' /\ ClientInv(u)'
  <2>1. ReadLine(u, "file") /\ Send(u) /\ AfterInput(u) /\ UNCHANGED stdineof
    BY <1>8 DEF SendFile
  <2>2. /\ taken[u] = sent[u] /\ ~stdineof[u]
        /\ \A i \in DOMAIN input'[u] : input'[u][i] = "none"
    BY <1>0, <2>1, LinesRead DEF ClientInv
  <2>3. /\ sent' = [sent EXCEPT ![u] = sent[u] + 1]
        /\ inbox' = [inbox EXCEPT ![u] = inbox[u] \o Request(u, sent'[u])]
        /\ UNCHANGED <<link, ended, replies, taskVars, files>> /\ sent[u] < MaxRequests
    BY <2>1 DEF Send
  <2>4. cpc' = [cpc EXCEPT ![u] = "select"] /\ UNCHANGED <<taken, saved>>
    BY <2>1 DEF AfterInput, Turn
  <2>5. Len(replies[u]) = sent[u] /\ inbox[u] = <<>> /\ Quiet
    BY <1>0, <1>1, <2>2 DEF RequestInv
  <2>6. sent'[u] = sent[u] + 1 /\ cpc'[u] = "select"
    BY <2>3, <2>4 DEF TypeInv, TypeOK, SysTypeInv, SysTypeOK
  <2>7. inbox'[u] = Request(u, sent'[u])
    <3>1. Request(u, sent'[u]) \in Seq(AllParts)
      <4>1. sent'[u] \in 1..MaxRequests
        BY <1>1, <2>3, <2>6, ServerAssumption
      <4> QED BY <1>0, <4>1, OneRequest
    <3>2. inbox'[u] = inbox[u] \o Request(u, sent'[u])
      BY <2>3 DEF TypeInv, TypeOK
    <3> QED BY <2>5, <3>1, <3>2, ConcatEmptySeq
  <2>8. RequestInv(u)'
    <3>1. Quiet'
      BY <2>3, <2>5 DEF Quiet, taskVars
    <3>2. \A i \in DOMAIN replies'[u] : replies'[u][i] = TheReply(u, i)
      BY <1>0, <2>3 DEF RequestInv
    <3> QED BY <2>3, <2>5, <2>6, <2>7, <3>1, <3>2 DEF RequestInv
  <2>9. ClientInv(u)'
    <3>1. LinesInv(u)'
      BY <2>2 DEF LinesInv
    <3>2. sent'[u] <= taken'[u] + 1
      BY <1>1, <2>2, <2>4, <2>6
    <3>3. stdineof'[u] = ended'[u] /\ ~stdineof'[u]
      BY <1>0, <2>1, <2>2, <2>3 DEF ClientInv
    <3>4. /\ taken'[u] = Len(saved'[u])
          /\ \A n \in DOMAIN saved'[u] : saved'[u][n] = <<TheReply(u, n)>>
      BY <1>0, <2>4 DEF ClientInv
    <3> QED BY <2>6, <3>1, <3>2, <3>3, <3>4 DEF ClientInv
  <2> QED BY <2>8, <2>9
<1>9. ASSUME NoSuchFile(u) PROVE RequestInv(u)' /\ ClientInv(u)'
  <2>1. ReadLine(u, "none") /\ AfterInput(u) /\ UNCHANGED <<vars, stdineof>>
    BY <1>9 DEF NoSuchFile
  <2>2. /\ cpc' = [cpc EXCEPT ![u] = "select"]
        /\ UNCHANGED <<taken, saved, link, sent, ended, replies>>
    BY <2>1 DEF AfterInput, Turn, vars, clientVars
  <2>3. cpc'[u] = "select"
    BY <2>2 DEF SysTypeInv, SysTypeOK
  <2>4. LinesInv(u)'
    BY <1>0, <2>1, <2>2, LinesRead DEF ClientInv
  <2>5. ClientInv(u)'
    BY <1>0, <2>1, <2>2, <2>3, <2>4 DEF ClientInv
  <2> QED BY <1>2, <2>1, <2>5
<1>10. ASSUME EndOfInput(u) PROVE RequestInv(u)' /\ ClientInv(u)'
  <2>1. ReadLine(u, "end") /\ Shutdown(u) /\ AfterInput(u)
    BY <1>10 DEF EndOfInput
  <2>2. /\ taken[u] = sent[u]
        /\ \A i \in DOMAIN input'[u] : input'[u][i] = "none"
    BY <1>0, <2>1, LinesRead DEF ClientInv
  <2>3. /\ ended' = [ended EXCEPT ![u] = TRUE] /\ stdineof' = [stdineof EXCEPT ![u] = TRUE]
        /\ UNCHANGED <<link, sent, inbox, replies, taskVars, files>>
    BY <1>10, <2>1 DEF EndOfInput, Shutdown
  <2>4. cpc' = [cpc EXCEPT ![u] = "select"] /\ UNCHANGED <<taken, saved>>
    BY <2>1 DEF AfterInput, Turn
  <2>5. ended'[u] = TRUE /\ stdineof'[u] = TRUE /\ cpc'[u] = "select"
    BY <2>3, <2>4 DEF TypeInv, TypeOK, SysTypeInv, SysTypeOK
  <2>6. RequestInv(u)'
    BY <1>0, <2>3, RequestSame DEF taskVars, localVars
  <2>7. ClientInv(u)'
    <3>1. LinesInv(u)'
      BY <2>2 DEF LinesInv
    <3> QED BY <1>0, <2>2, <2>3, <2>4, <2>5, <3>1 DEF ClientInv
  <2> QED BY <2>6, <2>7
<1>11. ASSUME ServerStep, UNCHANGED cliVars PROVE RequestInv(u)' /\ ClientInv(u)'
  <2>1. Len(replies[u]) < sent[u] => ~ended[u]
    BY <1>0, <1>1 DEF ClientInv
  <2>2. RequestInv(u)'
    BY <1>0, <1>s, <1>11, <2>1, ServerServes
  <2>3. /\ UNCHANGED <<sent, ended>> /\ Len(replies'[u]) \in Nat
        /\ Len(replies[u]) <= Len(replies'[u])
        /\ link[u] = "closed" => link'[u] = "closed"
    BY <1>0, <1>11, ServerGrows
  <2>4. UNCHANGED <<taken, saved, input, stdineof, cpc>>
    BY <1>11 DEF cliVars
  <2>5. Pending(u) > 0 => Pending(u)' > 0
    BY <1>1, <2>3, <2>4 DEF Pending
  <2>6. ClientInv(u)'
    BY <1>0, <2>3, <2>4, <2>5, ClientSame
  <2> QED BY <2>2, <2>6
<1>12. CASE UNCHANGED sysVars
  <2>1. UNCHANGED <<vars, cliVars>>
    BY <1>12 DEF sysVars
  <2>2. UNCHANGED <<taken, saved, sent, ended, input, stdineof, cpc, replies, link>>
    BY <2>1 DEF vars, clientVars, cliVars
  <2>3. ClientInv(u)'
    BY <1>0, <2>2, ClientSame DEF Pending
  <2> QED BY <1>2, <2>1, <2>3
<1> QED
  BY <1>3, <1>4, <1>5, <1>6, <1>7, <1>8, <1>9, <1>10, <1>11, <1>12 DEF SysNext, str_cli

------------------------------------------------------------------------------
(* What the user may rely on *)

LEMMA SessionBegins == SysInit => SessionInv
<1> SUFFICES ASSUME SysInit, NEW c \in Clients PROVE RequestInv(c) /\ ClientInv(c)
  BY DEF SessionInv, SysInit, Init
<1>1. /\ replies[c] = <<>> /\ sent[c] = 0 /\ inbox[c] = <<>> /\ ended[c] = FALSE
      /\ \A k \in Tasks : step[k] = "queued"
  BY DEF SysInit, Init
<1>2. /\ taken[c] = 0 /\ saved[c] = <<>> /\ input[c] = <<>> /\ stdineof[c] = FALSE
      /\ cpc[c] = "out"
  BY DEF SysInit
<1>3. RequestInv(c)
  BY <1>1 DEF RequestInv, Quiet, Busy
<1>4. ClientInv(c)
  <2>1. Len(<<>>) = 0 /\ DOMAIN <<>> = {}
    OBVIOUS
  <2>2. LinesInv(c)
    BY <1>2, <2>1 DEF LinesInv
  <2>3. taken[c] = Len(saved[c]) /\ sent[c] <= taken[c] + 1
    BY <1>1, <1>2, <2>1
  <2>4. \A n \in DOMAIN saved[c] : saved[c][n] = <<TheReply(c, n)>>
    BY <1>2, <2>1
  <2> QED BY <1>1, <1>2, <2>2, <2>3, <2>4 DEF ClientInv
<1> QED BY <1>3, <1>4

\* SessionInv: at most one request is on its way, in the socket or with one task, alone with
\* its files, and the client and the server agree how far the session is.
THEOREM SessionKeeps ==
  ASSUME OneRead, ~AcceptMayFail, NEW u, Clients = {u}
  PROVE  SysSpec => []SessionInv
<1>1. SysSpec => []TypeInv
  BY SystemRunsServer, ServerTypeCorrect, PTL
<1>2. SysSpec => []OpenInv
  BY SystemRunsServer, SlotStaysOpen, PTL
<1>3. SysSpec => []StreamsInv
  BY SystemRunsServer, ServerKeepsStreams, PTL
<1>4. SysInit => SysTypeInv /\ SessionInv
  BY SysTypeInit, SessionBegins
<1>5. TypeInv /\ StreamsInv /\ OpenInv /\ SysTypeInv /\ SessionInv /\ [SysNext]_sysVars
        => (SysTypeInv /\ SessionInv)'
  BY SysTypeNext, SessionKept
<1> QED BY <1>1, <1>2, <1>3, <1>4, <1>5, PTL DEF SysSpec

\* EachFileSaved: the files that one client writes are the html of the files it sent, in
\* order, although a read may be of anything and tasks outnumber requests.
THEOREM FilesAreReplies ==
  ASSUME OneRead, ~AcceptMayFail, NEW u, Clients = {u}
  PROVE  SysSpec => []EachFileSaved
<1>1. SessionInv => EachFileSaved
  BY DEF SessionInv, ClientInv, EachFileSaved
<1> QED BY <1>1, SessionKeeps, PTL

\* EndsServed: the client does not find its server collapsed, and ends with every file.
THEOREM SessionEndsServed ==
  ASSUME OneRead, ~AcceptMayFail, NEW u, Clients = {u}
  PROVE  SysSpec => []EndsServed
<1>1. SessionInv => EndsServed
  BY DEF SessionInv, ClientInv, EndsServed
<1> QED BY <1>1, SessionKeeps, PTL

\* No file is asked for, and no program is over, when the programs start.
LEMMA SessionInitMapped == SysInit => View!SessionInit
<1> SUFFICES ASSUME SysInit PROVE View!SessionInit
  OBVIOUS
<1>1. /\ sent = [c \in Clients |-> 0]
      /\ saved = [c \in Clients |-> <<>>]
      /\ stdineof = [c \in Clients |-> FALSE]
      /\ cpc = [c \in Clients |-> "out"]
  BY DEF SysInit, Init
<1>2. [c \in Clients |-> cpc[c] \in {"terminated", "collapsed"}] = [c \in Clients |-> FALSE]
  <2>1. \A c \in Clients : cpc[c] \notin {"terminated", "collapsed"}
    BY <1>1
  <2>2. \A c \in Clients : (cpc[c] \in {"terminated", "collapsed"}) = FALSE
    BY ONLY <2>1
  <2> QED BY ONLY <2>2, Zenon
<1> QED BY <1>1, <1>2 DEF View!SessionInit

\* A file sent is one asked for, a reply read is the html of it, the end of the input and
\* the return are those of the session; nothing else shows.
LEMMA SessionStep ==
  ASSUME OneRead, NEW u, Clients = {u}, TypeInv, OpenInv, SysTypeInv, SessionInv,
         [SysNext]_sysVars
  PROVE  [View!SessionNext]_View!sessionVars
<1> DEFINE Over == {"terminated", "collapsed"}
<1>0. u \in Clients /\ RequestInv(u) /\ ClientInv(u)
  BY DEF SessionInv
<1>1. /\ sent[u] \in 0..MaxRequests /\ taken[u] \in Nat /\ Len(replies[u]) \in Nat
      /\ taken[u] <= Len(replies[u]) /\ Len(replies[u]) <= sent[u] /\ sent[u] <= taken[u] + 1
      /\ taken[u] = Len(saved[u])
  BY <1>0, RepliesCount DEF ClientInv
<1>2. ASSUME UNCHANGED <<sent, saved, stdineof>>,
             \A c \in Clients : cpc'[c] \in Over <=> cpc[c] \in Over
      PROVE  UNCHANGED View!sessionVars
  BY <1>2 DEF View!sessionVars
<1>3. ASSUME NEW there, there \notin Over, cpc[u] \notin Over,
             cpc' = [cpc EXCEPT ![u] = there]
      PROVE  \A c \in Clients : cpc'[c] \in Over <=> cpc[c] \in Over
  BY <1>3 DEF SysTypeInv, SysTypeOK
<1>4. CASE Begin(u)
  <2>1. /\ cpc[u] = "out" /\ cpc' = [cpc EXCEPT ![u] = "select"]
        /\ UNCHANGED <<sent, saved, stdineof>>
    BY <1>4 DEF Begin, Turn, Connect
  <2> QED BY <1>2, <1>3, <2>1
<1>5. ASSUME NEW line \in LineKinds, Type(u, line) PROVE UNCHANGED View!sessionVars
  BY <1>2, <1>5 DEF Type, vars, clientVars
<1>6. CASE Select(u)
  <2>1. PICK there \in {"socket", "input"} :
          /\ cpc[u] = "select" /\ cpc' = [cpc EXCEPT ![u] = there]
          /\ UNCHANGED <<sent, saved, stdineof>>
    BY <1>6 DEF Select, Turn, vars, clientVars
  <2> QED BY <1>2, <1>3, <2>1
<1>7. CASE ReadReplies(u)
  <2>1. PICK n \in 1..Pending(u) :
          saved' = [saved EXCEPT ![u] = Append(saved[u], FileOf(u, n))]
    BY <1>7 DEF ReadReplies
  <2>2. PICK there \in {"input", "select"} :
          /\ cpc[u] = "socket" /\ cpc' = [cpc EXCEPT ![u] = there]
          /\ UNCHANGED <<sent, stdineof>>
    BY <1>7 DEF ReadReplies, AfterSocket, Turn, vars, clientVars
  <2>3. /\ taken[u] + 1 = sent[u] /\ FileOf(u, n) = <<TheReply(u, sent[u])>>
    BY <1>0, NextFile
  <2>4. UNCHANGED [c \in Clients |-> cpc[c] \in Over]
    BY <1>3, <2>2
  <2>5. View!Get(u)
    <3>1. ~View!HasAll(u)
      BY <1>1, <2>3 DEF View!HasAll
    <3>2. Len(saved[u]) + 1 \in 1..MaxRequests /\ Len(saved[u]) + 1 = sent[u]
      BY <1>1, <2>3
    <3> DEFINE html == [c \in Clients |-> [m \in 1..MaxRequests |-> <<TheReply(c, m)>>]]
    <3>3. html[u][Len(saved[u]) + 1] = FileOf(u, n)
      BY <1>0, <2>3, <3>2
    <3> HIDE DEF html
    <3>4. saved' = [saved EXCEPT ![u] = Append(saved[u], html[u][Len(saved[u]) + 1])]
      BY <2>1, <3>3
    <3> QED BY <2>2, <2>4, <3>1, <3>4 DEF View!Get, html
  <2> QED BY <1>0, <2>5 DEF View!SessionNext
<1>8. CASE ReadClosed(u)
  <2>1. /\ cpc[u] = "socket" /\ Pending(u) = 0
        /\ cpc' = [cpc EXCEPT ![u] = IF stdineof[u] THEN "terminated" ELSE "collapsed"]
        /\ UNCHANGED <<sent, saved, stdineof>>
    BY <1>8 DEF ReadClosed, Turn, vars, clientVars
  <2>2. stdineof[u]
    BY <1>0, <2>1 DEF ClientInv, OpenInv, AnyEnded
  <2> DEFINE over == [c \in Clients |-> cpc[c] \in Over]
  <2>3. /\ [c \in Clients |-> cpc'[c] \in Over] = [over EXCEPT ![u] = TRUE]
        /\ ~over[u]
    <3>1. \A c \in Clients : cpc'[c] \in Over <=> c = u \/ cpc[c] \in Over
      BY <2>1 DEF SysTypeInv, SysTypeOK
    <3>2. cpc[u] \notin Over
      BY <2>1
    <3> HIDE DEF Over
    <3>3. [c \in Clients |-> cpc'[c] \in Over] = [over EXCEPT ![u] = TRUE]
      <4>1. \A c \in Clients : (cpc'[c] \in Over) = [over EXCEPT ![u] = TRUE][c]
        BY <3>1, Zenon
      <4> QED BY ONLY <4>1, Zenon
    <3>4. ~over[u]
      BY <1>0, <3>2, Zenon
    <3> QED BY <3>3, <3>4
  <2>4. View!Quit(u)
    BY <2>1, <2>2, <2>3 DEF View!Quit
  <2> QED BY <1>0, <2>4 DEF View!SessionNext
<1>9. CASE SendFile(u)
  <2>1. /\ ReadLine(u, "file") /\ cpc[u] = "input"
        /\ cpc' = [cpc EXCEPT ![u] = "select"]
        /\ sent' = [sent EXCEPT ![u] = sent[u] + 1]
        /\ UNCHANGED <<saved, stdineof>>
    BY <1>9 DEF SendFile, ReadLine, AfterInput, Turn, Send
  <2>2. taken[u] = sent[u] /\ ~stdineof[u]
    BY <1>0, <2>1, LinesRead DEF ClientInv
  <2>3. UNCHANGED [c \in Clients |-> cpc[c] \in Over]
    BY <1>3, <2>1
  <2>4. View!Ask(u)
    BY <1>0, <1>1, <2>1, <2>2, <2>3 DEF View!Ask, View!HasAll
  <2> QED BY <1>0, <2>4 DEF View!SessionNext
<1>10. CASE NoSuchFile(u)
  <2>1. /\ cpc[u] = "input" /\ cpc' = [cpc EXCEPT ![u] = "select"]
        /\ UNCHANGED <<sent, saved, stdineof>>
    BY <1>10 DEF NoSuchFile, ReadLine, AfterInput, Turn, vars, clientVars
  <2> QED BY <1>2, <1>3, <2>1
<1>11. CASE EndOfInput(u)
  <2>1. /\ ReadLine(u, "end") /\ cpc[u] = "input"
        /\ cpc' = [cpc EXCEPT ![u] = "select"]
        /\ stdineof' = [stdineof EXCEPT ![u] = TRUE]
        /\ UNCHANGED <<sent, saved>>
    BY <1>11 DEF EndOfInput, ReadLine, AfterInput, Turn, Shutdown
  <2>2. taken[u] = sent[u] /\ ~stdineof[u]
    BY <1>0, <2>1, LinesRead DEF ClientInv
  <2>3. UNCHANGED [c \in Clients |-> cpc[c] \in Over]
    BY <1>3, <2>1
  <2>4. View!EndInput(u)
    BY <1>0, <1>1, <2>1, <2>2, <2>3 DEF View!EndInput, View!HasAll
  <2> QED BY <1>0, <2>4 DEF View!SessionNext
<1>12. CASE ServerStep /\ UNCHANGED cliVars
  <2>1. UNCHANGED <<sent, saved, stdineof, cpc>>
    BY <1>12, ServerGrows DEF cliVars
  <2> QED BY <1>2, <2>1
<1>13. CASE UNCHANGED sysVars
  BY <1>2, <1>13 DEF sysVars, vars, clientVars, cliVars
<1> QED
  BY <1>4, <1>5, <1>6, <1>7, <1>8, <1>9, <1>10, <1>11, <1>12, <1>13 DEF SysNext, str_cli

\* ImplementsSession: the client and the server, with all tasks, descriptors, sockets and
\* files between them, are the session that Session describes, step by step.
THEOREM SystemImplementsSession ==
  ASSUME OneRead, ~AcceptMayFail, NEW u, Clients = {u}
  PROVE  SysSpec => ImplementsSession
<1>1. SysSpec => []TypeInv
  BY SystemRunsServer, ServerTypeCorrect, PTL
<1>2. SysSpec => []OpenInv
  BY SystemRunsServer, SlotStaysOpen, PTL
<1>3. SysSpec => [](SysTypeInv /\ SessionInv)
  <2>1. SysInit => SysTypeInv
    BY SysTypeInit
  <2>2. TypeInv /\ SysTypeInv /\ [SysNext]_sysVars => SysTypeInv'
    BY SysTypeNext
  <2> QED BY <1>1, <2>1, <2>2, SessionKeeps, PTL DEF SysSpec
<1>4. SysInit => View!SessionInit
  BY SessionInitMapped
<1>5. TypeInv /\ OpenInv /\ SysTypeInv /\ SessionInv /\ [SysNext]_sysVars
        => [View!SessionNext]_View!sessionVars
  BY SessionStep
<1> QED BY <1>1, <1>2, <1>3, <1>4, <1>5, PTL DEF SysSpec, ImplementsSession, View!SessionSpec

==============================================================================
