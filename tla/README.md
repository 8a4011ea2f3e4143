# Verification of md_parser_online

md_parser_online turns markdown into html over the network: a client sends a
file, the server's event loop hands the connection to a thread pool, a worker
saves the file, parses it and sends the html back.  This directory holds TLA+
models of the program, the TLC runs that check them, and TLAPS proofs.
`PROJECT.json` maps every definition to the lines it models.

## Inventory

| part | source | state | operations | hard behaviour | correct if |
|---|---|---|---|---|---|
| ThreadPool | `server/ThreadPool/ThreadPool.{h,cpp}` | `m_pool_size`, `m_pool_state`, `m_task`, `m_threadid`, `m_threadid_work`, three mutexes, one condition variable | `workThread`, constructor, `addTask`, `addThread`, `destroy`, destructor | interleaving of workers, the owner and an unlocked `destroy`; wakeups, timeouts; retirement; failed creations | each task runs once, in order; no deadlock, no task left with everyone asleep; the lists and the size tell the truth |
| Mutex, SynThread, Task | `server/ThreadPool/{Mutex,SynThread,Task}.cpp` | the pthread objects; function and argument | lock, unlock, signal, broadcast, timed wait; run | the result of the timed wait is dropped | they are what ThreadPool takes them for |
| Server | `server/test.cpp`, `server/server.cpp` | epoll set, `events`, `rfd` on the stack of the loop, the table of descriptors, the files `name` and `name.html` | event loop, `deal_fun` | one stack slot is the argument of every task; level-triggered readiness; blocking reads; requests in several reads; closed and reused descriptors; shared files | each request gets its reply, and a connection lives until its client ends it |
| Parser, syntax that spans lines | `server/Parser/Parser.{h,cpp}` | four global line-to-line states and a saved table header | `start`, `isTable`, `isCodeBlock`, `isUnorderList`, `isOrderList`, `strSplit` | four calls rewrite one line and one output; constructs that span lines; globals shared by all documents and threads | elements nest but where the code is known to cross them, no line is lost, the globals agree with the html |
| Parser, syntax within a line | the same | none but the line | `isHeader`, `isUnderline`, `isReference`, `isImageLink`, `isHyperLink`, `isBold`, `isItalic` | greedy patterns; each call searches what the calls before made, tags included; document text in format strings | a line means what its marks say, and keeps its text whatever they are |
| Mdfile | `server/Parser/Mdfile.{h,cpp}` | the two file streams | open, close, names | input and output may be the same file | the html is complete when `start` returns |
| Client | `client/{client,test}.cpp` | `stdineof`, `maxfdpl`, `rset`, the two descriptors | `str_cli`, `readFile` | half close, an uninitialised bound for `select`, one `read` per reply | each file sent is answered by one file saved, and the end of input ends the session |

The worker threads and the owner of the pool share the pool's lists and queue.
The event loop and the workers share the slot `rfd`, the descriptors and the
file system; the workers share the parser's globals.  Client and server share
the two directions of a connection.  `PROJECT.json` lists the hazards of each
part at the line where they bite.

## Modules

| module | what it is |
|---|---|
| `TaskService` | what a user of the pool may rely on: tasks queue in the order of `addTask`, each runs once |
| `StdList` | the `std::list` operations the pool uses |
| `ThreadPool` | the pool, one action per step between two scheduling points |
| `Patterns` | the regular expressions of `Parser.cpp` on lines of characters, `regex_replace` and `strSplit` |
| `Outline` | the tags in the order they may be written: how elements nest, where a table ends around a list, and what one document may end for another |
| `Parser` | `Parser::start` and the syntax that spans lines |
| `Inline` | the syntax within a line |
| `Server` | the event loop and `deal_fun`, over the pool of `TaskService` |
| `Session` | what somebody at the client's terminal may rely on: each file asked for comes back, then the next is asked for, then the end |
| `System` | the client program's loop, composed with `Server` |
| `StdListProofs`, `PatternsProofs` | lemmas about the list's operations and about the patterns |
| `ThreadPoolProofs` | theorems about the pool: tasks, locks and refinement, then the lists, the size and the sleepers |
| `ParserProofs`, `ParserHtmlProofs` | theorems about the parser: elements and refinement; lines, their order and fences |
| `InlineProofs` | theorems about one line: its text and its tags |
| `ServerProofs`, `SystemProofs` | theorems about the server; about server and client together |
| `MCThreadPool`, `MCThreadPoolProofs`, `MCParser`, `MCParserProofs`, `MCInline`, `MCServer`, `MCSystem` | instances for TLC |

`ThreadPool` implements `TaskService`; `Server` uses `TaskService` for its pool
(`Submit` in main's `AddTask`, `Start` in `RunTask`, `Finish` where `deal_fun`
returns); `Parser` implements `Outline`; `System` replaces the free clients of
`Server` by `str_cli`, and implements `Session`.  `Parser` and `Inline` read
lines through `Patterns`.  `MCThreadPoolProofs`, `MCParserProofs`, `MCServer` and
`MCSystem` extend the modules of the proofs, so that TLC checks each inductive
invariant beside what follows from it.

### ThreadPool

The variables have the names of the members; `pc`, `main`, `task`, `i`,
`threadid` and `joinee` are where each thread is and its locals; `submitted`,
`runs`, `finished` and `failed` (creations that failed) are history.  A worker's
step is a lock, an unlock with the statements since the lock, a wait, or the run
of a task.  `pthread_mutex` is `owner`, the condition variable is `waiting`; a
signal wakes any waiter; a waiter may also wake by timeout, which stands for the
60 seconds and for a spurious wakeup, since `synWaitTime` drops the result.
`destroy` and the constructor visit the lists without a lock: the steps are as
fine as their statements, and where C++ leaves the effect undefined the process
may go on or be killed (`Abort`).

### Patterns, Parser and Inline

A line is a sequence of characters; three backticks are one of them, as is the
carriage return that a DOS file leaves at the end.  The patterns of the first
group answer whether they match, those of the second where: `Found` is the match
`regex_search` finds, leftmost and greedy.  `Expand` is what `regex_replace`
makes of a format string, for the calls put the document's text into one: a
dollar before a digit, a dollar, `&`, a backtick or a quote (`Referring`) stands
for a group, a dollar, the match, what is before it or what is behind it.

In `Parser` each call is an action with one disjunct per path through it; `in`,
`out` and `multi` are the line, `parStr` and the disjunction of the results;
`html` is what was written, as pieces that begin or end an element or show a
line.  `table`, `header`, `code_block` and `lists` are the globals: opening a
document (`Open`) does not touch them, and several parsers (`Parsers`)
interleave between calls.  Each piece knows the document it is in, so that
`ImplementsOutline` tells the tags that a document has begun (`here`) from those
that earlier ones left open: an end without a beginning in the same file is a
step of `Outline` of its own (`EndOwed`), and so is a table that ends around a
list (`EndAround`).  The lines of `MCParser` are those the calls tell
apart and those that several patterns match: `- a|b` (a row and a list item) or
`- | -` (dashes and a list item) are where the calls meet.

`Inline` takes one line through the rest of `start`.  `oriStr` is the line as
rewritten; tags are members of the sequence, and no pattern looks inside one.
`meant` is the rendering the line was built with, if it was: `MCInline` grows
all nestings and neighbours of emphasis, links, images and quotes together with
the html they mean.

### Server

A connection is named by its client.  `rfd` is the variable whose address every
task gets: the build has no optimisation, so the slot keeps its place and value
between iterations.  `deal_fun` reads it anew at each use: `Read`, `ReadFile`,
`ReadFails`, `Close` and `Write` evaluate `*fd` in that step, and a task that
blocks in `read` keeps the connection it started with (`conn`).  `Ready` is
level triggered epoll.  A request is a sequence of parts; `ReadData` takes any
number of the parts that are there, and what begins with a later part has a line
of text for its file name.  Files are sequences of parts: `Create` empties the
input file, `Save` writes it, `Open` is `Mdfile`'s constructor and empties the
html, `GetLines` reads what the file holds now, `CloseStreams` writes the html
and `ReadBack` reads it.  Tasks that use one file interleave between these.
`connect`, `send` and `shutdown` are the client's.  `AcceptFails` is what the
uninitialised `addlen` may lead to.

Connections and files share the descriptors of the process: `fdTable` says which
connection a number names, `fileTable` which file, how it was opened and where
it stands, and `accept` and every stream that is opened get the lowest number
that neither uses (`LowestFree`).  `reader` and `writer` are the numbers that a
task's streams remember.  So the number that one task closes (`server.cpp:13`)
may be given to a stream of another, or to a new connection, while `rfd`, or a
stream, still holds it; whoever uses it then reads, writes or closes what it
names now (`Waiting`, `WriteTo`, `Shut`).  `ReadFile` takes another task's text
for a request, with any of the names for what its first line is.  `strayed`
records that `*fd` has reached a file that some task opened, whether to read, to
write or to close it; nothing in the code prevents this, and some properties
hold only until then.

### System

`cpc` is where the client's loop is: in `select`, at the test of the socket, at
that of the input, or over (`terminated` and `collapsed` are its two ends).
`maxfdpl` may begin with any value of `FirstMax`; `Watched` is what `select`
looks at.  A read of the socket returns any number of the replies that are
there, and all of them become one file, as in the code.  `SendFile` and
`EndOfInput` are `Server`'s `Send` and `Shutdown`.  `Type` is the user, who asks
for one file at a time, waits for it before the next one or the end of input,
and may meanwhile press return or mistype.

`Session` keeps of all this only how many files were asked for, which came back,
and whether the input and the program have ended.  Under `View` these are
`sent`, `saved`, `stdineof` and the two ends of `cpc`; every step of the server,
the returns, the mistyped names and the rounds of `select` stutter.

## Runs

| run | instance | shows |
|---|---|---|
| `pool_growth` | 3 threads, size and minimum 2, 5 tasks, any creation may fail | locks, tasks, wakeups and books are right in every interleaving of a pool that grows, shrinks and is destroyed at any moment; no started worker is forgotten; the invariants of the proofs (`Inductive`, `BooksInv`) hold |
| `pool_progress` | 2 threads, minimum 1, 3 tasks, fair | queued tasks finish, `destroy` ends, the pool implements `TaskService` |
| `pool_destroy_waits` | 2 threads, 2 tasks | violation: `destroy` may return with a task to run |
| `parser_blocks` | 9 lines, 4 of them in up to 2 documents | tags come in the order of `Outline`, no line is lost or doubled, only a waiting header is out of order and hides a fence, the globals match the html; the invariant of the proofs holds |
| `parser_threads` | 2 threads, 2 documents | violation: one document's fence makes the other's text code |
| `inline_lines` | all lines up to 4 to 6 characters over three alphabets, or up to 5 marks and characters over two more; all nestings of depth 3 | what is written is rendered so; text and tags survive any marks |
| `server_patient` | 1 client who waits for replies, 2 requests, the first in 2 parts, 4 tasks, fair | replies are right, in order, and come; the connection stays until the client ends it, and the end is noticed; the invariants of the proofs (`TypeInv`, `OpenInv`, `OrderInv`) hold |
| `server_clients` | 2 clients who wait, a request each, 3 tasks, `accept` may fail, clients alike (`Alike`) | until a task has reached a file through `rfd`, no request is answered twice and each task's streams are its own; the invariants of the proofs (`OnceInv`, `StreamsInv`) hold |
| `server_asker` | 2 patient clients, 2 tasks | violation: a reply goes to the other client |
| `server_half_close` | 1 client, 2 tasks | violation: a client that sends and shuts down is cut off |
| `system_session` | 1 client program, 2 requests, 3 lines, 3 tasks, fair | each file comes back as one file, and the session ends normally; server and client implement `Session`; the invariant of the proofs (`SessionInv`) holds |
| `system_deaf` | 1 client program, `maxfdpl` begins at -1 | violation: a client waits and misses the reply in its socket |

**Bounds.**  Five tasks are the fewest that make a pool of two grow (the queue
must exceed 4), and the third worker then lets it shrink again; more threads or
tasks repeat those steps.  In the parser, every state is reached and left
within three lines, a fourth shows what follows; a second document begins with
whatever the first left.  Within a line six characters are two pairs of stars
and text, five are a link or image with one character to spare, and the lines
made of `Bits` let `](` and two references to groups meet, those made of
`Dollars` a dollar and what could make a reference of it; the renderings nest
three deep, which has each kind of mark once inside and outside each other.
Three tasks in the server are the one that serves, one surplus and one late
enough to meet a reused or foreign descriptor: one reads the end of a
connection and closes it, another opens a file or `accept` takes a connection
under that number, and the third finds it in `rfd` (in 29 steps, TLC finds a
task that strays so).  `Fds` has two numbers for each task and one for each
client, the most that can be open at once, so that one is always free.  In
`server_clients` a client's file is named after it, which makes the clients
interchangeable: the symmetry set is their permutations, and the run has no
liveness property.  `MaxTasks` also ends the
queueing that level-triggered epoll would repeat without end: in
`server_patient` it exceeds the parts that can arrive alone by one, so a task is
left to read the end of the stream; `system_session` has two requests and the
end.  In `system_session` the first file is named like its html (`InPlace`), the
second as usual, and `maxfdpl` begins below or at the socket's number: three
lines are enough to lift it past.  Runs of the parser, the server and the system
may stop when their bounds are used up, hence `CHECK_DEADLOCK FALSE`; the pool's
runs check deadlock.

**Fairness.**  The pool: every worker that can step does (`WF`), main finishes
the calls it has begun, nothing obliges it to call `addTask` or `destroy`.
Taking a mutex needs strong fairness: others take and release it between, and a
pthread mutex is assumed to starve nobody.  The timeout of a wait is a worker's
step, so it happens.  The server: main and the pool's tasks proceed, clients
need not.  The system: the client's loop proceeds as well, the user need not
type, so `FilesComeBack` and `EndOfInputEnds` are stated from the moment the
socket is watched.

**What the passing runs of the server mean.**  `server_patient` shows that one
client alone is served right although several tasks are queued for each
request; `system_session` shows the same of the program that the repository
provides as a client, used by someone who waits.  With two clients nearly
nothing of this is left, which the violations show; `AnsweredAtMostOnce` is, and
only until a stale slot has led a task into another's file.

**Premises.**  `TextKept` and `EveryTagEnds` are of lines without `$` before a
digit, `$`, `&`, a backtick or a quote (`NoReference`): the code takes such a
pair for a reference, so that `**$1**` and `**$3**` lose text, and `**a$'**b` and
`>**$'**` write what follows twice, the tags there included.
`FencesAreSyntax` and `WrittenInOrder` except what a waiting header does, and
say exactly that.  `PoolAccounting` counts failed creations in the size, as the
code does, and compares the lists with the threads only if none failed.
It and `NoStrandedTask` are of a constructor argument `Size` up to the minimum:
above it a worker may retire while the constructor still pushes ids, leave a
stale entry in `m_threadid`, and make `addTask` find a pool of one that has no
worker at all, so that the task stays (TLC finds this for 6 threads asked for
and a minimum of 1).  `NoStrandedTask` needs fewer failed creations than `Size`
as well.  `NoWorkerForgotten` has neither premise.

`OwnRepliesInOrder` and `OpenUntilShutdown` are of a client on its own,
`AnsweredAtMostOnce` of requests with files of their own; the theorems name the
same premises.  `AnsweredAtMostOnce`, `OnceInv` and most of `StreamsInv` end
where `strayed` begins: a task that finds a file in `rfd` may take another's
html, or its text, for a request and answer it a second time, write its reply
into a file that is not its own, or close a stream under its task.  For one
client who waits that is no premise: `OrderInv` and `SessionInv` say that its
tasks never stray.  After its end no task has a file open, so that what a number
closed then names is nothing.  Those about the session are of one client, requests that arrive
in one read, and an `accept` that does not fail, as in `system_session`: a
request in two reads gets two replies, whichever client asks.

## Proofs

Each theorem is of the module's `Spec`, for every value of the constants that
its assumptions allow; the bounds of the runs (`MaxTasks` and the like) are any
numbers.  The inductive invariants are definitions of the modules of proofs, and
the runs check them beside the properties that follow from them, except
`InlineInv`, whose consequences alone take `inline_lines` its time.

### The pool

`PoolAssumption` asks for a finite set of threads and natural sizes; creations
fail or not.  `ThreadPoolProofs` proves

- `TypeCorrect`: `TypeOK`, which `pool_growth` checks as a part of `Inductive`;
- `MutexesExclude`, `LocksNeverCircular`, `MinimumKept`, `TasksConserved`: its
  properties `MutualExclusion`, `NoCircularWait`, `KeepsMinimum` and
  `TaskConservation`;
- `PoolImplementsService`: the refinement of `TaskService`.

They follow from `Inductive == TypeInv /\ Owns /\ KeepsMinimum /\ TaskInv`,
which `AlwaysInductive` proves.  `TypeInv` adds to the types which locals are
meaningful where (a worker has a task exactly while it carries one).  `Owns`
says for each mutex between which steps a thread holds it, in both directions,
so that exclusion is the uniqueness of the owner, and the order task, size,
thread of the locks rules out a circle: the least member of a set of blocked
threads by the rank of what it holds would wait for a smaller one.
`TaskConservation` alone is not inductive: `TaskInv` adds that the queue and
the held tasks are disjoint intervals of submissions and how often each was
called.  The lemma `Creation` says what `pthread_create`, failed or not, leaves
alone.  `StdListProofs` gives what `remove` does to a list of any length, by
induction over its length on a recursive function.

Its second part proves `NoneForgotten` (any `Size`), `BooksTrue` and
`NoneStranded`, from `BooksInv`, which is inductive together with `Inductive`:
`StageInv` says when the queue must be empty and the state `DESTROY`; `WorkInv`
that `m_threadid_work` holds exactly the threads between its two updates;
`CountInv` that the live workers and the failed creations are what the size and
the loop counter `i` promise, also between `pthread_create` and the change of
the size; `ListInv` and `UniqueInv` that the lists and the id not yet pushed
hold every live worker, and once; `HuntInv` that beside a queued task nobody
sleeps, or somebody is up who will look at the queue again.  `addTask` signals
under the mutex that waiters test the queue under, so no wakeup comes between
the test and the wait; a retirement leaves another worker because of `CountInv`
and `KeepsMinimum`.

### The parser

`LineAssumption` makes a line a sequence of strings, whatever they are;
documents and lines are any number.  `ParserTypeCorrect` is of any number of
parsers that interleave; the others are of one (`Alone`), as with two they are
false (`parser_threads`):

- `GlobalsAlwaysMatch`, `ParserImplementsOutline` (in `ParserProofs`);
- `NoLineLost`, `NoLineTwice`, `OnlyHeadersLate`, `FencesHold` and
  `AlwaysInductive` (in `ParserHtmlProofs`).

The invariant has five parts. `TypeInv` bounds `parStr`: two pieces only behind
a line that `isTable` wrapped. `LineInv` lists what `parStr`, `multi`, `table`
and `header` can be at each of the four calls, given the line: unclaimed, a
header just saved, opened or refused, a row, a fence, code, an item. That no
case overlaps another in a harmful way rests on the patterns: `PatternsProofs`
shows that a line is no item of both lists, no fence and an item, and that a
wrapped line is neither. `TagInv` relates the globals to the tags written, up
to those that `parStr` still holds, by counting tags (`CountAppend`), and
`DocInv` that no tag is of a later document than the one at hand, so that the
next one has begun nothing. `HtmlInv`
says which lines the html shows: all read before this one but a waiting header,
each once unless it is an item with a bar, in order unless a header was written
late, and every fence among the tags unless it is wrapped or follows a waiting
header.

### One line

`InlineProofs` proves `NoTextLost` (`TextKept`) and `TagsEnd` (`EveryTagEnds`)
for lines of any length.  `LinesAreText` says that a line is a sequence of
strings none of which is a tag.  The invariant, `InlineInv`, needs more than the
two:

- a tag's `Balance` is how much oftener it was begun than ended, and `Above` says
  that it never falls below a bound on the way; `Nested` is `Above` zero at every
  place, with balance zero at the end.  Both add over concatenation, so a call is
  the line cut at its delimiters (`CutTwo`, `CutThree`) and put together again.
  What lies between two delimiters need not be balanced, as emphasis may cross
  a link: its tags keep their order and the pair around it is one deeper.
- `NoReference` is kept by every call that another follows: a tag stands where a
  delimiter stood, and neither a tag nor a delimiter can be part of a reference.
  With it `Expand` is the identity (`ExpandPlain`, from the end of the format
  string backwards), so the text between the delimiters comes back as it was.
- `EndsLate`: while links are looked for, all ends of tags are behind the last
  closing bracket.  A link's two groups change places, so an end in one of them
  could come before its beginning.  None is: before the first link only quotes
  have ends, at the end of the line, and a link that was replaced is the last,
  as the pattern is greedy (`NoneBehind`).

For titles, rules and quotes the lemmas say what is cut off in front: marks and
blanks, no text.

### The server

`ServerAssumption` asks for finite sets of clients and descriptors, natural
bounds, requests of at least one part, and descriptors enough that one is always
free.  `ServerProofs` proves

- `ServerTypeCorrect`: `TypeInv`, the types, that the queue holds the newest
  tasks, and which of `conn`, `name`, `buf` and `parsed` a task has at each step;
- `ServerKeepsStreams`: `StreamsInv`, of any clients and tasks: no number names a
  connection and a file, and until a task strays each stream is its task's own;
- `ClosedAfterAnEnd`: while `accept` takes every connection, none is closed
  before some client has ended its side, for any number of clients;
  `ServerStaysOpen`: so a client on its own stays until it ends;
- `ServerAnswersOnce`: `AnsweredAtMostOnce` for any clients, if no two parts
  lead to the same files (`Apart`, as in `server_clients`), until a task strays;
  `accept` may fail;
- `ServerRepliesInOrder`: `OwnRepliesInOrder` for one patient client, if the
  parts of one request lead to different files (`PartsApart`, as in
  `server_patient`); later requests may name the same files again.

`StreamsInv` is what the others need of the descriptors.  `FilesInv` needs no
premise: `accept` and the streams take numbers that are free.  `HeldInv` (no two
streams hold one number, every open file is in a stream) and `Own` (each stream
is on its task's file, where it left off) hold until a task strays, since a
task that closes or writes through `rfd` what is no file touches no stream.

`OpenInv` is what keeps a connection open although the slot is rewritten under
the tasks: until a client ends, every event and, from the first one, the slot
name an open connection, and no task has got as far as `close`; the loop alone
writes the slot, from an event, and a task closes only when `read` finds the
end.  As the slot names a connection, it names no file, and nobody strays
(`SlotInv`).  `OnceInv` follows a part through inbox, buffer, files and replies: one not
yet read is nowhere else; what a task carries is in no other task's buffer and
in no reply; its files hold nothing foreign.  Two tasks that share the slot may
answer the wrong client and still this holds.  `OrderInv` gives the exact
content of a task's buffer, files and parser at each step (`Holds`): a run of
consecutive parts (`Piece`) of the request sent last.  The last, because a
patient client cannot send the next while a task is busy, whose reply is
wanting.  For the same reason nothing is left to do when it ends (`QuietInv`):
no task has a file open, none is opened any more, and so no task strays
(`NoneStrays`).  `SlotStaysOpen`, `ServerKeepsApart` and `ServerKeepsOrder` state these
three as theorems.

### The system

`SystemRunsServer`: every step of the system is one of `Server` or leaves it
alone, so each theorem about the server, for any number of clients, holds of the
system.  `SystemTypeCorrect` (`SysTypeOK`) is of any number of clients too.  With
one client, requests in one read (`OneRead`) and an `accept` that does not fail,
`SystemProofs` shows

- `FilesAreReplies`: `EachFileSaved`;
- `SessionEndsServed`: `EndsServed`;
- `SystemImplementsSession`: `ImplementsSession`, the refinement of `Session`,
  one lemma or step for each action of client and server.

`Patient` is not among the premises: the waiting is that of the user (`Type`),
who looks at what was saved.  They follow from `SessionInv`, which `SessionKeeps`
proves with `OpenInv` and `StreamsInv` of the server.  `RequestInv` says where the request sent
last is: in the socket, with one task (`Serves`, which gives the task's buffer,
files and parser at each step), or answered; no other task holds anything.
`ClientInv` relates what was typed (`LinesInv`), sent, replied and saved: no more
than one file is wanting, the user asks only when none is, and the input ends
only then.  So a read of the socket finds one reply, although `str_cli` takes
whatever is there for one, and what it finds at the end of the stream is the end
that it asked for.  At that end nothing is on its way (`QuietAtEnd`), which is
why no task strays.

### Only model-checked

`RendersAsWritten`, as what a line means is given by the instance, which builds
lines and their html together, by recursion: a theorem would need an induction
over that data; and the liveness properties (`TasksFinish`, `DestroyEnds`,
`EveryRequestAnswered`, `EndedIsClosed`, `FilesComeBack`, `EndOfInputEnds`),
which are beyond the prover.

## Known, and not checked by a run

A worker whose task another took retires at once, without 60 seconds (pool's
`README.md:21`); a queue may exceed twice the pool (comment at
`ThreadPool.cpp:149`); a failed creation is counted in `m_pool_size`
(`ThreadPool.h:39`); a constructor argument above the minimum lets a worker
retire before its id is pushed, and then strands a task; `destroy` changes
`m_threadid` without its mutex (`ThreadPool.h:43`).

A table's header waits for the next line with a bar, however far (parser's
`README.md:74`), and both fences of a code block on the way are text (its
`README.md:68`); a row that begins like a list item becomes one; an open code
block goes on in the next document, which may write its end; a table that ends
while a list of its rows goes on is written around the list's beginning; of two
bold words on a line the outer stars make one; an image becomes a link.

Epoll's repeated reports make several tasks for one request (`README.md:21`); a
later part of a request gets a file and a reply of its own; with two clients the
end of one connection may close the other (`client.cpp:35`); a slot that still
holds a closed number may lead a task into a file that another has open, whose
text it reads and answers again, into which it writes its reply, or which it
closes, so that the other writes elsewhere or nowhere (`strayed`); a file named like
its html comes back empty; replies that arrive together are saved as one file.

## Not modelled

- The 1 MB buffers and their bounds: a request without a newline, an html or a
  reply longer than the buffer or than one read, a name of more than 29
  characters; the memory that the error path of `deal_fun` does not free.
- Files that cannot be opened, a process that has no descriptor left, and disks
  that are full; short writes and SIGPIPE, when a client is gone before its
  reply.
- The length of the html is measured (`server.cpp:36`) before it is read, and
  streams have buffers: the model takes the length and the text at once, and
  writes a stream's text when it is closed.  A stream whose number was closed
  and now names a connection waits for that client's text or end like any read.
- Overlapping calls of two parsers, which race on the globals; the parser inside
  `deal_fun` is its effect on the files, so that `Server` does not depend on
  what the text is.
- `Mdfile::getOutFileName`, `Parser::multilineSyntax`, `synWait` and the
  trylock, which nothing calls; logging; `server_test` and `client_test`, which
  `README.md:5` calls not collated; build files; the set-up of the sockets.
- Errors of pthread calls other than `pthread_create`.

## Plan

What the code lets a model checker reach is modelled, and every safety property
of a run but one is proved, as are the three refinements.  What is left:

1. the files that `deal_fun` cannot open and the lengths it does not compare,
   which need sizes in `Server`;
2. a proof of `RendersAsWritten` for single marks, from `CutTwo` and `CutThree`,
   without the recursion over nestings.
