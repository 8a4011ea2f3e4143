------------------------------- MODULE Server --------------------------------
(***************************************************************************)
(* The server: main's event loop, and deal_fun, which the thread pool runs *)
(* for each task.  The pool is the one of TaskService, which ThreadPool    *)
(* implements.                                                             *)
(*                                                                         *)
(* Every task gets the address of the same variable, main's rfd.  The      *)
(* build has no optimisation (CMakeLists.txt), so rfd keeps its place and  *)
(* its value between iterations: a task sees what main or another task     *)
(* stored last.  deal_fun reads it each time it uses the descriptor.       *)
(*                                                                         *)
(* A connection is named by its client, who connects once.  epoll reports  *)
(* a connection for as long as there is something to read from it.  What   *)
(* clients send is a stream of parts; a read returns those that are there, *)
(* or only the first few, whichever requests they belong to.  Files are    *)
(* sequences of parts too, the html being what its text is made from.      *)
(*                                                                         *)
(* Connections and the files that tasks open share the descriptors of the  *)
(* process.  A number that was closed is given out again, and whoever      *)
(* still holds it, in rfd or in a stream, then uses what it names now.     *)
(***************************************************************************)
EXTENDS TaskService, Integers, FiniteSets

CONSTANTS
  Clients,
  Fds,            \* the descriptors that accept and open may return
  None,           \* no client, no file
  MaxRequests,    \* bound on the requests of a client
  Parts,          \* the number of parts of the nth request of a client
  FileName,       \* by part, its first line: of the first part, the file name
  OutName,        \* by file name, the one up to the first `.' with .html
  Patient,        \* whether clients wait for the reply before they go on
  AcceptMayFail   \* whether accept fails on its uninitialised addlen

ASSUME ServerAssumption ==
  /\ {MaxRequests, MaxTasks} \subseteq Nat
  /\ IsFiniteSet(Clients) /\ IsFiniteSet(Fds)
  /\ Fds \subseteq Nat \ {0}
  /\ Cardinality(Fds) >= Cardinality(Clients) + 2 * MaxTasks  \* there is always a free one
  /\ None \notin Clients
  /\ Parts \in [1..MaxRequests -> Nat \ {0}]
  /\ {Patient, AcceptMayFail} \subseteq BOOLEAN

VARIABLES
  link,     \* by client: none, backlog, open, or closed by the server
  sent,     \* by client, the number of requests it sent
  ended,    \* by client, whether it shut its side down
  inbox,    \* by client, the parts in the socket that no task read
  replies,  \* by client, what it was sent
  fdTable,  \* the client behind each descriptor; epoll watches all of them
  fileTable,  \* the file behind each descriptor, how it was opened, and where it stands
  strayed,    \* whether a task has reached, through rfd, a file that some task opened
  main,     \* where the event loop is
  events,   \* the descriptors of this epoll_wait that are still to be handled
  rfd,
  step,     \* by task, where deal_fun is
  conn,     \* by task, the connection its read blocks on
  name,     \* by task, the name of its file
  buf,      \* by task, the parts whose text is in its buffer
  parsed,   \* by task, those that its parser has read from the file
  reader,   \* by task, the descriptor in the stream that it reads from, or -1
  writer,   \* by task, the one in the stream that it only writes to, or -1
  files     \* by name, the parts whose text is in the file

clientVars == <<link, sent, ended, inbox, replies>>
fdVars == <<fdTable, fileTable, strayed>>
mainVars == <<main, events>>
localVars == <<conn, name, buf, parsed, reader, writer>>
taskVars == <<step, localVars>>
vars == <<serviceVars, clientVars, fdVars, mainVars, rfd, taskVars, files>>

Tasks == 1..MaxTasks
AllParts == UNION {Clients \X {n} \X (1..Parts[n]) : n \in 1..MaxRequests}
Names == {FileName[r] : r \in AllParts}
AllNames == Names \cup {OutName[n] : n \in Names}

\* The parts of request n of client c.
Request(c, n) == [i \in 1..Parts[n] |-> <<c, n, i>>]

\* A write makes of a file what was before pos, what is written, and what was
\* beyond it: another stream's bytes may have come since the file was opened.
Overwrite(old, pos, new) ==
  LET before == IF pos <= Len(old) THEN SubSeq(old, 1, pos) ELSE old IN
    before \o new \o SubSeq(old, pos + Len(new) + 1, Len(old))

Listen == 0  \* listenfd

NoFile == [file |-> None, mode |-> "closed", pos |-> 0]
Opened(n, mode) == [file |-> n, mode |-> mode, pos |-> 0]

Init ==
  /\ ServiceInit
  /\ link = [c \in Clients |-> "none"]
  /\ sent = [c \in Clients |-> 0]
  /\ ended = [c \in Clients |-> FALSE]
  /\ inbox = [c \in Clients |-> <<>>]
  /\ replies = [c \in Clients |-> <<>>]
  /\ fdTable = [f \in Fds |-> None]
  /\ fileTable = [f \in Fds |-> NoFile]
  /\ strayed = FALSE
  /\ main = "epoll_wait"
  /\ events = {}
  /\ rfd = -1
  /\ step = [k \in Tasks |-> "queued"]
  /\ conn = [k \in Tasks |-> None]
  /\ name = [k \in Tasks |-> None]
  /\ buf = [k \in Tasks |-> <<>>]
  /\ parsed = [k \in Tasks |-> <<>>]
  /\ reader = [k \in Tasks |-> -1]
  /\ writer = [k \in Tasks |-> -1]
  /\ files = [n \in AllNames |-> <<>>]

(* Slips: variants of definitions below that break a property each. *)
OnePage(n) == CHOOSE h \in {OutName[m] : m \in Names} : TRUE
KeepFile(n) == UNCHANGED files
SlotUnset(f) == UNCHANGED rfd
CloseNothing(f) == UNCHANGED <<fdTable, fileTable, link>>
ZeroSlot == rfd' = 0
LeaveOpen(S, table) == fileTable' = table /\ UNCHANGED <<link, fdTable>>

------------------------------------------------------------------------------
(* Clients *)

Connect(c) ==
  /\ link[c] = "none"
  /\ link' = [link EXCEPT ![c] = "backlog"]
  /\ UNCHANGED <<serviceVars, sent, ended, inbox, replies, fdVars, mainVars, rfd, taskVars, files>>

Has(reply, r) == \E j \in DOMAIN reply.of : reply.of[j] = r

Answered(r) == \E i \in DOMAIN replies[r[1]] : Has(replies[r[1]][i], r)

MaySend(c) ==
  /\ link[c] \in {"backlog", "open"}
  /\ ~ended[c]
  /\ Patient => \A n \in 1..sent[c] : \A i \in 1..Parts[n] : Answered(<<c, n, i>>)

Send(c) ==
  /\ MaySend(c) /\ sent[c] < MaxRequests
  /\ sent' = [sent EXCEPT ![c] = @ + 1]
  /\ inbox' = [inbox EXCEPT ![c] = @ \o Request(c, sent'[c])]
  /\ UNCHANGED <<serviceVars, link, ended, replies, fdVars, mainVars, rfd, taskVars, files>>

Shutdown(c) ==
  /\ MaySend(c)
  /\ ended' = [ended EXCEPT ![c] = TRUE]
  /\ UNCHANGED <<serviceVars, link, sent, inbox, replies, fdVars, mainVars, rfd, taskVars, files>>

------------------------------------------------------------------------------
(* main *)

Readable(c) == inbox[c] # <<>> \/ ended[c]

Ready ==
  {f \in Fds : fdTable[f] # None /\ Readable(fdTable[f])}
    \cup {l \in {Listen} : \E c \in Clients : link[c] = "backlog"}

EpollWait ==
  /\ main = "epoll_wait"
  /\ Ready # {}
  /\ events' = Ready
  /\ main' = "events"
  /\ UNCHANGED <<serviceVars, clientVars, fdVars, rfd, taskVars, files>>

IsFile(f) == f \in Fds /\ fileTable[f].mode # "closed"

Free == {f \in Fds : fdTable[f] = None /\ ~IsFile(f)}
Least(S) == CHOOSE f \in S : \A g \in S : f <= g
LowestFree == Least(Free)

Accept ==
  /\ main = "events" /\ Listen \in events
  /\ \E c \in Clients :
       /\ link[c] = "backlog" /\ Free # {}
       /\ link' = [link EXCEPT ![c] = "open"]
       /\ fdTable' = [fdTable EXCEPT ![LowestFree] = c]
  /\ events' = events \ {Listen}
  /\ UNCHANGED <<serviceVars, sent, ended, inbox, replies, fileTable, strayed, main, rfd, taskVars,
                 files>>

(* accept took the connection but could not store the address: the          *)
(* connection is lost, and `break' drops the events that are left.          *)
AcceptFails ==
  /\ AcceptMayFail
  /\ main = "events" /\ Listen \in events
  /\ \E c \in Clients : link[c] = "backlog" /\ link' = [link EXCEPT ![c] = "closed"]
  /\ main' = "epoll_wait"
  /\ events' = {}
  /\ UNCHANGED <<serviceVars, sent, ended, inbox, replies, fdVars, rfd, taskVars, files>>

SetSlot(f) == rfd' = f

DataToRead ==
  /\ main = "events"
  /\ \E f \in events \ {Listen} :
       /\ SetSlot(f)
       /\ events' = events \ {f}
  /\ main' = "addTask"
  /\ UNCHANGED <<serviceVars, clientVars, fdVars, taskVars, files>>

(* If rfd is -1 afterwards, main clears an event that it has handled anyway. *)
AddTask ==
  /\ main = "addTask"
  /\ Submit
  /\ main' = "events"
  /\ UNCHANGED <<clientVars, fdVars, events, rfd, taskVars, files>>

LastEvent ==
  /\ main = "events" /\ events = {}
  /\ main' = "epoll_wait"
  /\ UNCHANGED <<serviceVars, clientVars, fdVars, events, rfd, taskVars, files>>

Main == EpollWait \/ Accept \/ AcceptFails \/ DataToRead \/ AddTask \/ LastEvent

------------------------------------------------------------------------------
(* deal_fun, for task k *)

At(k, here) == k \in running /\ step[k] = here
Goto(k, there) == step' = [step EXCEPT ![k] = there]

RunTask ==
  /\ Start
  /\ Goto(Head(queue), "read")
  /\ UNCHANGED <<clientVars, fdVars, mainVars, rfd, localVars, files>>

\* f names a connection, a file that can be read, one that can be written.
Valid(f) == f \in Fds /\ fdTable[f] # None
CanRead(f) == f \in Fds /\ fileTable[f].mode \in {"r", "rw"}
CanWrite(f) == f \in Fds /\ fileTable[f].mode \in {"w", "rw"}

\* What there is to read from it now.
Text(f) == files[fileTable[f].file]

Waiting(f) ==
  IF Valid(f) THEN inbox[fdTable[f]]
  ELSE IF CanRead(f) THEN SubSeq(Text(f), fileTable[f].pos + 1, Len(Text(f)))
  ELSE <<>>

Moved(f, pos) ==
  IF IsFile(f) THEN [fileTable EXCEPT ![f] = [@ EXCEPT !.pos = pos]] ELSE fileTable

Strays(use) == strayed' = (strayed \/ use)

Read(k) ==
  /\ At(k, "read") /\ Valid(rfd)
  /\ conn' = [conn EXCEPT ![k] = fdTable[rfd]]
  /\ Goto(k, "reading")
  /\ UNCHANGED <<serviceVars, clientVars, fdVars, mainVars, rfd, name, buf, parsed, reader, writer,
                 files>>

ReadsFile(k) == At(k, "read") /\ CanRead(rfd) /\ Waiting(rfd) # <<>>

(* The slot names another task's file: its text is taken for a request, and  *)
(* some line that it begins with there for a name.                           *)
ReadFile(k) ==
  /\ ReadsFile(k)
  /\ buf' = [buf EXCEPT ![k] = Waiting(rfd)]
  /\ \E n \in Names : name' = [name EXCEPT ![k] = n]
  /\ fileTable' = Moved(rfd, Len(Text(rfd)))
  /\ Strays(TRUE)
  /\ Goto(k, "create")
  /\ UNCHANGED <<serviceVars, clientVars, fdTable, mainVars, rfd, conn, parsed, reader, writer,
                 files>>

ReadFails(k) ==
  /\ At(k, "read") /\ ~Valid(rfd) /\ ~ReadsFile(k)
  /\ Goto(k, "close")
  /\ UNCHANGED <<serviceVars, clientVars, fdVars, mainVars, rfd, localVars, files>>

(* What was read becomes the task's, and the file name its first line, also  *)
(* where that is a line of the text.                                         *)
ReadData(k) ==
  /\ At(k, "reading")
  /\ LET c == conn[k] IN
       \E n \in 1..Len(inbox[c]) :
         /\ buf' = [buf EXCEPT ![k] = SubSeq(inbox[c], 1, n)]
         /\ name' = [name EXCEPT ![k] = FileName[Head(inbox[c])]]
         /\ inbox' = [inbox EXCEPT ![c] = SubSeq(@, n + 1, Len(@))]
  /\ Goto(k, "create")
  /\ UNCHANGED <<serviceVars, link, sent, ended, replies, fdVars, mainVars, rfd, conn, parsed,
                 reader, writer, files>>

(* Slip for ReadEnd: the end and no data yet are not told apart. *)
ReadNothing(k) ==
  /\ At(k, "reading")
  /\ inbox[conn[k]] = <<>>
  /\ Goto(k, "close")
  /\ UNCHANGED <<serviceVars, clientVars, fdVars, mainVars, rfd, localVars, files>>

ReadEnd(k) ==
  /\ At(k, "reading")
  /\ inbox[conn[k]] = <<>> /\ ended[conn[k]]
  /\ Goto(k, "close")
  /\ UNCHANGED <<serviceVars, clientVars, fdVars, mainVars, rfd, localVars, files>>

\* Whatever the numbers in S name is closed; the files are otherwise as in table.
Shut(S, table) ==
  /\ link' = [c \in Clients |->
                IF \E f \in S : Valid(f) /\ fdTable[f] = c THEN "closed" ELSE link[c]]
  /\ fdTable' = [f \in Fds |-> IF f \in S THEN None ELSE fdTable[f]]
  /\ fileTable' = [f \in Fds |-> IF f \in S THEN NoFile ELSE table[f]]

CloseFd(f) == Shut({f}, fileTable)

Close(k) ==
  /\ At(k, "close")
  /\ CloseFd(rfd)
  /\ Strays(IsFile(rfd))
  /\ Goto(k, "clear")
  /\ UNCHANGED <<serviceVars, sent, ended, inbox, replies, mainVars, rfd, localVars, files>>

ClearSlot == rfd' = -1

(* deal_fun returns, and its locals are gone. *)
Return(k) ==
  /\ Finish(k)
  /\ Goto(k, "returned")
  /\ conn' = [conn EXCEPT ![k] = None]
  /\ name' = [name EXCEPT ![k] = None]
  /\ buf' = [buf EXCEPT ![k] = <<>>]
  /\ parsed' = [parsed EXCEPT ![k] = <<>>]
  /\ reader' = [reader EXCEPT ![k] = -1]
  /\ writer' = [writer EXCEPT ![k] = -1]

Clear(k) ==
  /\ At(k, "clear")
  /\ ClearSlot
  /\ Return(k)
  /\ UNCHANGED <<clientVars, fdVars, mainVars, files>>

OutFile(n) == OutName[n]

(* An ofstream, which empties the file that it opens or makes. *)
Truncate(n) == files' = [files EXCEPT ![n] = <<>>]

Create(k) ==
  /\ At(k, "create") /\ Free # {}
  /\ Truncate(name[k])
  /\ fileTable' = [fileTable EXCEPT ![LowestFree] = Opened(name[k], "w")]
  /\ writer' = [writer EXCEPT ![k] = LowestFree]
  /\ Goto(k, "save")
  /\ UNCHANGED <<serviceVars, clientVars, fdTable, strayed, mainVars, rfd, conn, name, buf, parsed,
                 reader>>

\* What is written to f goes to its client, or into the file where f stands.
WriteTo(f, reply) ==
  /\ replies' = IF Valid(f) THEN [replies EXCEPT ![fdTable[f]] = Append(@, reply)] ELSE replies
  /\ files' = IF CanWrite(f)
                THEN [files EXCEPT ![fileTable[f].file] = Overwrite(@, fileTable[f].pos, reply.of)]
                ELSE files

\* Text that is no reply, which a client gets if a stream's number was closed.
Bare(text) == [name |-> None, of |-> text]

Save(k) ==
  /\ At(k, "save")
  /\ WriteTo(writer[k], Bare(buf[k]))
  /\ Shut({writer[k]}, fileTable)
  /\ writer' = [writer EXCEPT ![k] = -1]
  /\ Goto(k, "open")
  /\ UNCHANGED <<serviceVars, sent, ended, inbox, strayed, mainVars, rfd, conn, name, buf, parsed,
                 reader>>

(* The Mdfile, which opens the text to be read and the html to be written.  *)
Open(k) ==
  /\ At(k, "open") /\ Free \ {LowestFree} # {}
  /\ Truncate(OutFile(name[k]))
  /\ LET second == Least(Free \ {LowestFree}) IN
       /\ fileTable' = [fileTable EXCEPT ![LowestFree] = Opened(name[k], "r"),
                                         ![second] = Opened(OutFile(name[k]), "w")]
       /\ reader' = [reader EXCEPT ![k] = LowestFree]
       /\ writer' = [writer EXCEPT ![k] = second]
  /\ Goto(k, "parse")
  /\ UNCHANGED <<serviceVars, clientVars, fdTable, strayed, mainVars, rfd, conn, name, buf, parsed>>

(* Parser::start: what getline has not read of the file, as it is now. *)
GetLines(k) ==
  /\ At(k, "parse")
  /\ Waiting(reader[k]) # <<>>
  /\ parsed' = [parsed EXCEPT ![k] = @ \o Waiting(reader[k])]
  /\ IF Valid(reader[k])
       THEN inbox' = [inbox EXCEPT ![fdTable[reader[k]]] = <<>>] /\ UNCHANGED fileTable
       ELSE fileTable' = Moved(reader[k], Len(Text(reader[k]))) /\ UNCHANGED inbox
  /\ UNCHANGED <<serviceVars, link, sent, ended, replies, fdTable, strayed, mainVars, rfd, step,
                 conn, name, buf, reader, writer, files>>

(* The end of the file.  The html reaches its file when the stream is closed. *)
CloseStreams(k) ==
  /\ At(k, "parse")
  /\ Waiting(reader[k]) = <<>>
  /\ Valid(reader[k]) => ended[fdTable[reader[k]]]
  /\ WriteTo(writer[k], Bare(parsed[k]))
  /\ Shut({reader[k], writer[k]}, fileTable)
  /\ reader' = [reader EXCEPT ![k] = -1]
  /\ writer' = [writer EXCEPT ![k] = -1]
  /\ Goto(k, "readback")
  /\ UNCHANGED <<serviceVars, sent, ended, inbox, strayed, mainVars, rfd, conn, name, buf, parsed>>

(* The fstream, which leaves the html in its file; it is read into the       *)
(* buffer, which is cleared for it.                                          *)
ReadBack(k) ==
  /\ At(k, "readback") /\ Free # {}
  /\ LET html == files[OutFile(name[k])] IN
       /\ buf' = [buf EXCEPT ![k] = html]
       /\ fileTable' = [fileTable EXCEPT ![LowestFree] =
                          [Opened(OutFile(name[k]), "rw") EXCEPT !.pos = Len(html)]]
  /\ reader' = [reader EXCEPT ![k] = LowestFree]
  /\ Goto(k, "write")
  /\ UNCHANGED <<serviceVars, clientVars, fdTable, strayed, mainVars, rfd, conn, name, parsed,
                 writer, files>>

Reply(k) == [name |-> OutFile(name[k]), of |-> buf[k]]

(* The reply goes to whatever rfd names now, or nowhere; the fstream is closed. *)
Write(k) ==
  /\ At(k, "write")
  /\ WriteTo(rfd, Reply(k))
  /\ Strays(CanWrite(rfd))
  /\ Shut({reader[k]},
          IF CanWrite(rfd) THEN Moved(rfd, fileTable[rfd].pos + Len(buf[k])) ELSE fileTable)
  /\ Return(k)
  /\ UNCHANGED <<sent, ended, inbox, mainVars, rfd>>

deal_fun(k) ==
  \/ Read(k) \/ ReadFile(k) \/ ReadFails(k) \/ ReadData(k) \/ ReadEnd(k) \/ Close(k) \/ Clear(k)
  \/ Create(k) \/ Save(k) \/ Open(k) \/ GetLines(k) \/ CloseStreams(k)
  \/ ReadBack(k) \/ Write(k)

Next ==
  \/ \E c \in Clients : Connect(c) \/ Send(c) \/ Shutdown(c)
  \/ Main
  \/ RunTask
  \/ \E k \in Tasks : deal_fun(k)

Spec == Init /\ [][Next]_vars

(* The system schedules main and the pool's threads; clients do as they like. *)
FairSpec ==
  /\ Spec
  /\ WF_vars(Main)
  /\ WF_vars(RunTask)
  /\ \A k \in Tasks : WF_vars(deal_fun(k))

------------------------------------------------------------------------------
(* Properties of a server with one patient client *)

FileTables == [Fds -> {NoFile} \cup [file : AllNames, mode : {"r", "w", "rw"}, pos : Nat]]

(* Every variable keeps its type; in particular rfd is a descriptor or -1.   *)
TypeOK ==
  /\ link \in [Clients -> {"none", "backlog", "open", "closed"}]
  /\ sent \in [Clients -> 0..MaxRequests]
  /\ ended \in [Clients -> BOOLEAN]
  /\ inbox \in [Clients -> Seq(AllParts)]
  /\ replies \in [Clients -> Seq([name : AllNames \cup {None}, of : Seq(AllParts)])]
  /\ fdTable \in [Fds -> Clients \cup {None}]
  /\ fileTable \in FileTables
  /\ strayed \in BOOLEAN
  /\ main \in {"epoll_wait", "events", "addTask"}
  /\ events \subseteq Fds \cup {Listen}
  /\ rfd \in Fds \cup {-1}
  /\ step \in [Tasks -> {"queued", "read", "reading", "close", "clear", "create", "save", "open",
                         "parse", "readback", "write", "returned"}]
  /\ conn \in [Tasks -> Clients \cup {None}]
  /\ name \in [Tasks -> Names \cup {None}]
  /\ buf \in [Tasks -> Seq(AllParts)]
  /\ parsed \in [Tasks -> Seq(AllParts)]
  /\ reader \in [Tasks -> Fds \cup {-1}]
  /\ writer \in [Tasks -> Fds \cup {-1}]
  /\ files \in [AllNames -> Seq(AllParts)]

(* The text of the file is lost when its html is opened under the same name. *)
InPlace(n) == OutName[n] = n

(* The replies a client gets are made of its requests in their order, though *)
(* several tasks are queued for one request and share the slot and the       *)
(* files.  Each is made of parts of one request, in order, and named after   *)
(* the first of them; a request that arrives in several reads (server.cpp:10)*)
(* has as many replies, in any order.                                        *)
OwnRepliesInOrder ==
  \A c \in Clients : \A i \in DOMAIN replies[c] :
    LET of == replies[c][i].of IN
      \/ of = <<>> /\ InPlace(replies[c][i].name)
      \/ /\ of # <<>>
         /\ replies[c][i].name = OutName[FileName[of[1]]]
         /\ \A j \in DOMAIN of : of[j] = <<c, of[1][2], of[1][3] + j - 1>>
         /\ \A h \in 1..(i - 1) : replies[c][h].of # <<>> => replies[c][h].of[1][2] <= of[1][2]

(* Every part of every request is answered: the tasks that block in read for *)
(* nothing never stand in the way of one that has something to read, so that *)
(* a time always comes when nothing that a client sent is left to answer.    *)
EveryRequestAnswered ==
  \A c \in Clients :
    []<>(\A n \in 1..sent[c] :
           InPlace(FileName[<<c, n, 1>>]) \/ \A i \in 1..Parts[n] : Answered(<<c, n, i>>))

(* The server closes the connection of a client that shut its side down, and *)
(* the descriptor is free again.                                             *)
EndedIsClosed ==
  \A c \in Clients :
    ended[c] ~> (link[c] = "closed" /\ \A f \in Fds : fdTable[f] # c)

(* client.cpp:35: a connection that ends although the client did not end it  *)
(* means a collapsed server.  The server closes none, whatever tasks are     *)
(* still queued for it, unless another client ends one meanwhile.            *)
OpenUntilShutdown == \A c \in Clients : link[c] = "closed" => ended[c]

(* A property of any number of clients, who wait or not: where no two first  *)
(* lines are the same, no part is answered twice, to whomever, though the    *)
(* numbers of closed connections are given to others and a task reads and    *)
(* writes whatever rfd names.  It ends where rfd has led a task into the     *)
(* file of another, whose text it may then answer as well.                   *)
AnsweredAtMostOnce ==
  ~strayed =>
    \A r \in AllParts :
      Cardinality({p \in Clients \X (1..MaxTasks) :
                    p[2] <= Len(replies[p[1]]) /\ Has(replies[p[1]][p[2]], r)}) <= 1

------------------------------------------------------------------------------
(* What the documentation says and the code does not do. *)

(* README.md:21: for a connection there is a task `to deal it': who gets a   *)
(* reply sent the request it answers.                                        *)
ReplyToAsker ==
  \A c \in Clients : \A i \in 1..Len(replies[c]) :
    \A j \in DOMAIN replies[c][i].of : replies[c][i].of[j][1] = c

(* client.cpp:28-32: a client that ended its side and then reads the end of  *)
(* the connection terminates normally: its requests were answered.           *)
AnsweredBeforeClose ==
  \A c \in Clients : link[c] = "closed" /\ ended[c] =>
    \A n \in 1..sent[c] : Answered(<<c, n, 1>>)

==============================================================================
